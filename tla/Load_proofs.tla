----------------------------- MODULE Load_proofs -----------------------------
(***************************************************************************)
(* Theorems about Load and its scan (PciScan), for any machine of cards of *)
(* any supported kinds, any users, failures and moves of drivers.  First   *)
(* the scan: where the cursor is, whose network devices a slot has, and    *)
(* that the entries of cards[] are the cards passed so far whose CPLD      *)
(* answers.  Then niagara_init and niagara_destroy over the entries, which *)
(* do not change any more.                                                 *)
(***************************************************************************)
EXTENDS Load, WellFoundedInduction, FiniteSetTheorems, TLAPS

(* The scan *)

LEMMA KindFacts ==
  ASSUME NEW k \in Kind
  PROVE  /\ PciCards[k].num_ports \in {2, 4, 6, 8} /\ PciCards[k].swap \in BOOLEAN
         /\ PciCards[k].side \in {"flash", "sdp", "esdp", "mdio"}
         /\ PciCards[k].swap => PciCards[k].num_ports \in {4, 6, 8}
         /\ k \in Nat /\ k # 0
<1> DEFINE Known == [num_ports : {2, 4, 6, 8}, side : {"flash", "sdp", "esdp", "mdio"},
                     swap : BOOLEAN, driver : STRING]
<1>1. PciCards \in Seq(Known) /\ k \in 1..Len(PciCards)
  BY ScanAssumption DEF Kind
<1> HIDE DEF Known
<1>2. PciCards[k] \in Known
  BY <1>1
<1>3. /\ PciCards[k].num_ports \in {2, 4, 6, 8} /\ PciCards[k].swap \in BOOLEAN
      /\ PciCards[k].side \in {"flash", "sdp", "esdp", "mdio"}
  BY <1>2 DEF Known
<1>4. PciCards[k].swap => PciCards[k].num_ports > 2
  BY ScanAssumption
<1>5. k \in Nat /\ k # 0
  BY <1>1
<1> QED  BY <1>3, <1>4, <1>5

LEMMA MachineFacts ==
  ASSUME machine \in Machines, NEW k \in Kind
  PROVE  /\ Len(machine[k]) \in Nat /\ DOMAIN machine[k] = 1..Len(machine[k])
         /\ Functions(k) \in Nat /\ Functions(k) <= MaxFunctions
         /\ \A c \in 1..Len(machine[k]) : /\ machine[k][c].alive \in BOOLEAN
                                          /\ machine[k][c].net \subseteq 0..7
<1>1. /\ machine[k] \in Seq([alive : BOOLEAN, ctrl : Nat \X Nat, net : SUBSET (0..7)])
      /\ Len(machine[k]) * PciCards[k].num_ports <= MaxFunctions
  BY ScanAssumption
<1>2. Len(machine[k]) \in Nat /\ DOMAIN machine[k] = 1..Len(machine[k])
  BY <1>1
<1>3. Functions(k) \in Nat /\ Functions(k) <= MaxFunctions
  BY <1>1, <1>2, KindFacts DEF Functions
<1> DEFINE CardKind == [alive : BOOLEAN, ctrl : Nat \X Nat, net : SUBSET (0..7)]
<1>4. machine[k] \in Seq(CardKind)
  BY <1>1
<1>5. \A c \in CardKind : c.alive \in BOOLEAN /\ c.net \subseteq 0..7
  OBVIOUS
<1> HIDE DEF CardKind
<1>6. \A c \in 1..Len(machine[k]) : machine[k][c] \in CardKind
  BY <1>4
<1> QED  BY <1>2, <1>3, <1>5, <1>6

LEMMA SwappedPort ==
  ASSUME NEW k \in Kind, NEW p \in Ports(k)
  PROVE  Swapped(k, p) \in Ports(k)
BY KindFacts DEF Swapped, Ports

LEMMA LastMovedPort ==
  ASSUME NEW k \in Kind, PciCards[k].swap
  PROVE  LastMoved(k) \in Ports(k)
<1> DEFINE Ok(p) == /\ p % 4 < 2 /\ Swapped(k, p) # p
                    /\ \A q \in Ports(k) : q % 4 < 2 /\ Swapped(k, q) # q => q <= p
<1>1. PciCards[k].num_ports \in {4, 6, 8}
  BY KindFacts
<1>2. CASE PciCards[k].num_ports \in {4, 6}
  <2>1. Ok(1) /\ 1 \in Ports(k)
    BY <1>2 DEF Swapped, Ports
  <2> QED  BY <2>1 DEF LastMoved
<1>3. CASE PciCards[k].num_ports = 8
  <2>1. Ok(5) /\ 5 \in Ports(k)
    BY <1>3 DEF Swapped, Ports
  <2> QED  BY <2>1 DEF LastMoved
<1> QED  BY <1>1, <1>2, <1>3

SlotRecord == [kind : 0..Len(PciCards), pci_dev : [0..7 -> AllFunctions],
               net_dev : [0..7 -> AllFunctions]]

\* Where the scan is: the cursor on a function of this kind, the ports it has
\* put into the card in progress, and the entries of cards[] it has completed.
OfKind(f) == f[1] = kind /\ f[2] \in 1..Functions(kind)
Scanning == phase \in {"scan", "finish"}
PlaceInv ==
  /\ cursor = NoDev \/ OfKind(cursor)
  /\ phase = "scan" => port_in_card \in 0..(PciCards[kind].num_ports - 1)
  /\ phase = "finish" => port_in_card = PciCards[kind].num_ports
  /\ phase = "found" => maxcard > 0
  /\ Scanning => \A p \in 0..7 : p < port_in_card => OfKind(cards[maxcard].pci_dev[p])
  /\ \A s \in Slot : s < maxcard =>
       cards[s].kind \in Kind /\ cards[s].pci_dev[0][1] = cards[s].kind
ScanInv == ScanTypeOK /\ PlaceInv

LEMMA ScanFacts ==
  ASSUME ScanInv
  PROVE  /\ cards \in [Slot -> SlotRecord] /\ kind \in Kind /\ machine \in Machines
         /\ maxcard \in 0..MAX_CARD /\ MAX_CARD \in Nat \ {0}
         /\ refs \in [AllFunctions -> Int] /\ leftover \subseteq 0..MAX_CARD
         /\ cursor \in AllFunctions /\ cursor[2] \in Nat /\ cursor[2] <= Functions(kind)
         /\ Functions(kind) \in Nat /\ Functions(kind) <= MaxFunctions
         /\ NoDev \in AllFunctions
<1>1. cursor = NoDev \/ OfKind(cursor)
  BY DEF ScanInv, PlaceInv
<1>2. kind \in Kind /\ machine \in Machines
  BY DEF ScanInv, ScanTypeOK
<1>3. Functions(kind) \in Nat /\ Functions(kind) <= MaxFunctions
  BY <1>2, MachineFacts
<1>4. cursor[2] \in Nat /\ cursor[2] <= Functions(kind)
  BY <1>1, <1>3 DEF OfKind, NoDev
<1>5. cards \in [Slot -> SlotRecord]
  BY DEF ScanInv, ScanTypeOK, SlotRecord
<1>6. NoDev \in AllFunctions
  BY DEF AllFunctions
<1>7. /\ maxcard \in 0..MAX_CARD /\ MAX_CARD \in Nat \ {0}
      /\ refs \in [AllFunctions -> Int] /\ leftover \subseteq 0..MAX_CARD
      /\ cursor \in AllFunctions
  BY ScanAssumption DEF ScanInv, ScanTypeOK
<1> QED  BY <1>2, <1>3, <1>4, <1>5, <1>6, <1>7

LEMMA ScanInit == Init => ScanInv
<1> SUFFICES ASSUME Init PROVE ScanInv
  OBVIOUS
<1>1. 1 \in Kind /\ Len(PciCards) \in Nat
  BY ScanAssumption DEF Kind
<1>2. NoDev \in AllFunctions
  BY DEF AllFunctions
<1>3. cards \in [Slot -> SlotRecord]
  <2> DEFINE empty == [kind |-> 0, pci_dev |-> [p \in 0..7 |-> NoDev],
                       net_dev |-> [p \in 0..7 |-> NoDev]]
  <2>1. empty \in SlotRecord
    BY <1>1, <1>2 DEF SlotRecord
  <2>2. cards = [s \in Slot |-> empty]
    BY DEF Init
  <2> HIDE DEF empty
  <2> QED  BY <2>1, <2>2
<1>4. /\ refs \in [AllFunctions -> Int] /\ leftover \subseteq 0..MAX_CARD
      /\ hw_ctrl \in [Slot -> AllFunctions \X (AllFunctions \cup {<<0, 1>>, <<0, 30>>})]
  BY <1>2 DEF Init
<1>5. ScanTypeOK
  BY <1>1, <1>2, <1>3, <1>4, ScanAssumption DEF Init, ScanTypeOK, SlotRecord
<1>6. PlaceInv
  <2>1. port_in_card = 0 /\ maxcard = 0 /\ phase = "scan" /\ cursor = NoDev /\ kind = 1
    BY DEF Init
  <2>2. PciCards[1].num_ports \in {2, 4, 6, 8}
    BY <1>1, KindFacts
  <2>3. /\ \A p \in 0..7 : ~(p < 0)
        /\ \A s \in Slot : ~(s < 0)
    BY ScanAssumption DEF Slot
  <2> QED  BY <2>1, <2>2, <2>3 DEF PlaceInv
<1> QED  BY <1>5, <1>6 DEF ScanInv

\* The next function: it is of this kind, and it goes where the card goes on.
NextFunction == <<kind, cursor[2] + 1>>
NetOfNext == IF HasNetDev(NextFunction) THEN NextFunction
             ELSE cards[maxcard].net_dev[port_in_card]
Full == port_in_card = 0 /\ maxcard >= MAX_CARD

LEMMA TakeFacts ==
  ASSUME ScanInv, TakeDevice
  PROVE  /\ NextFunction \in AllFunctions /\ OfKind(NextFunction)
         /\ port_in_card \in 0..(PciCards[kind].num_ports - 1) /\ port_in_card \in 0..7
         /\ ~Full => maxcard \in Slot /\ maxcard < MAX_CARD
<1>1. /\ cursor[2] \in Nat /\ Functions(kind) \in Nat /\ kind \in Kind
      /\ maxcard \in 0..MAX_CARD /\ MAX_CARD \in Nat /\ Functions(kind) <= MaxFunctions
      /\ MaxFunctions \in Nat
  BY ScanFacts, ScanAssumption
<1>2. cursor[2] + 1 \in 1..Functions(kind) /\ phase = "scan"
  BY <1>1 DEF TakeDevice
<1>3. NextFunction \in AllFunctions /\ OfKind(NextFunction)
  BY <1>1, <1>2 DEF AllFunctions, OfKind, NextFunction
<1>4. port_in_card \in 0..(PciCards[kind].num_ports - 1)
  BY <1>2 DEF ScanInv, PlaceInv
<1>5. port_in_card \in 0..7
  BY <1>1, <1>4, KindFacts
<1>6. ~Full => maxcard \in Slot /\ maxcard < MAX_CARD
  BY <1>1, <1>5 DEF ScanInv, ScanTypeOK, Slot, Full
<1> QED  BY <1>3, <1>4, <1>5, <1>6

\* What TakeDevice does to cards[]: one port of the slot in use.
LEMMA TakeCards ==
  ASSUME ScanInv, TakeDevice, ~Full
  PROVE  /\ cards' \in [Slot -> SlotRecord] /\ NetOfNext \in AllFunctions
         /\ \A u \in Slot \ {maxcard} : cards'[u] = cards[u]
         /\ cards'[maxcard].kind = cards[maxcard].kind
         /\ \A p \in 0..7 :
              /\ cards'[maxcard].pci_dev[p] = IF p = port_in_card THEN NextFunction
                                               ELSE cards[maxcard].pci_dev[p]
              /\ cards'[maxcard].net_dev[p] = IF p = port_in_card THEN NetOfNext
                                               ELSE cards[maxcard].net_dev[p]
         /\ phase' = IF NetOfNext = NoDev THEN "ENXIO"
                      ELSE IF port_in_card + 1 = PciCards[kind].num_ports
                           THEN "finish" ELSE phase
         /\ port_in_card' = port_in_card + (IF NetOfNext = NoDev THEN 0 ELSE 1)
<1> DEFINE f == NextFunction
           net == NetOfNext
           old == cards[maxcard]
           mid == [old EXCEPT !.pci_dev[port_in_card] = f]
           new == [kind |-> old.kind, pci_dev |-> [old.pci_dev EXCEPT ![port_in_card] = f],
                   net_dev |-> [old.net_dev EXCEPT ![port_in_card] = net]]
<1>1. /\ f \in AllFunctions /\ port_in_card \in 0..7 /\ maxcard \in Slot
      /\ cards \in [Slot -> SlotRecord]
  BY TakeFacts, ScanFacts
<1>2. old \in SlotRecord
  BY <1>1
<1>3. net \in AllFunctions
  <2>1. old.net_dev[port_in_card] \in AllFunctions
    BY <1>1, <1>2 DEF SlotRecord
  <2> QED  BY <1>1, <2>1 DEF NetOfNext
<1>4. /\ cards' = [cards EXCEPT ![maxcard].pci_dev[port_in_card] = f,
                                ![maxcard].net_dev[port_in_card] = net]
      /\ phase' = IF net = NoDev THEN "ENXIO"
                  ELSE IF port_in_card + 1 = PciCards[kind].num_ports
                       THEN "finish" ELSE phase
      /\ port_in_card' = port_in_card + (IF net = NoDev THEN 0 ELSE 1)
  BY DEF TakeDevice, Full, NextFunction, NetOfNext
<1> HIDE DEF f, net
<1>5. new \in SlotRecord
  BY <1>1, <1>2, <1>3 DEF SlotRecord
<1>6. cards' = [cards EXCEPT ![maxcard] = new]
  <2>1. old = [kind |-> old.kind, pci_dev |-> old.pci_dev, net_dev |-> old.net_dev]
    BY <1>2 DEF SlotRecord
  <2>2. mid = [kind |-> old.kind, pci_dev |-> [old.pci_dev EXCEPT ![port_in_card] = f],
               net_dev |-> old.net_dev]
    BY <2>1
  <2>3. cards' = [cards EXCEPT ![maxcard] = [mid EXCEPT !.net_dev[port_in_card] = net]]
    BY <1>1, <1>4
  <2> HIDE DEF mid
  <2>4. [mid EXCEPT !.net_dev[port_in_card] = net] = new
    BY <2>2
  <2> QED  BY <2>3, <2>4
<1>7. \A p \in 0..7 :
        /\ new.pci_dev[p] = IF p = port_in_card THEN f ELSE old.pci_dev[p]
        /\ new.net_dev[p] = IF p = port_in_card THEN net ELSE old.net_dev[p]
  BY <1>2 DEF SlotRecord
<1>8. new.kind = old.kind
  OBVIOUS
<1> HIDE DEF new
<1>9. cards' \in [Slot -> SlotRecord] /\ cards'[maxcard] = new
      /\ \A u \in Slot \ {maxcard} : cards'[u] = cards[u]
  BY <1>1, <1>5, <1>6
<1> QED  BY <1>3, <1>4, <1>7, <1>8, <1>9 DEF f, net

LEMMA TakeStep == ScanInv /\ TakeDevice => ScanInv'
<1> SUFFICES ASSUME ScanInv, TakeDevice PROVE ScanInv'
  OBVIOUS
<1>1. /\ NextFunction \in AllFunctions /\ OfKind(NextFunction)
      /\ port_in_card \in 0..(PciCards[kind].num_ports - 1) /\ port_in_card \in 0..7
      /\ ~Full => maxcard \in Slot /\ maxcard < MAX_CARD
  BY TakeFacts
<1>2. /\ machine' = machine /\ kind' = kind /\ maxcard' = maxcard
      /\ leftover' = leftover /\ cursor' = NextFunction /\ phase = "scan"
      /\ hw_ctrl' = hw_ctrl
  BY DEF TakeDevice, NextFunction
<1>3. PciCards[kind].num_ports \in {2, 4, 6, 8} /\ kind \in Kind
  BY KindFacts, ScanFacts
<1>4. refs' \in [AllFunctions -> Int]
  BY <1>1, ScanFacts DEF TakeDevice, Get, NextFunction
<1>5. \A g : OfKind(g)' <=> OfKind(g)
  BY <1>2 DEF OfKind, Functions
<1>6. CASE Full
  <2>1. phase' = "E2BIG" /\ UNCHANGED <<port_in_card, cards>>
    BY <1>6 DEF TakeDevice, Full
  <2>2. ScanTypeOK'
    BY <1>1, <1>2, <1>4, <2>1 DEF ScanInv, ScanTypeOK
  <2>3. PlaceInv'
    BY <1>1, <1>2, <1>5, <2>1 DEF ScanInv, PlaceInv, Scanning
  <2> QED  BY <2>2, <2>3 DEF ScanInv
<1>7. CASE ~Full
  <2>1. /\ cards' \in [Slot -> SlotRecord] /\ NetOfNext \in AllFunctions
        /\ \A u \in Slot \ {maxcard} : cards'[u] = cards[u]
        /\ \A p \in 0..7 :
             cards'[maxcard].pci_dev[p] = IF p = port_in_card THEN NextFunction
                                          ELSE cards[maxcard].pci_dev[p]
        /\ phase' = IF NetOfNext = NoDev THEN "ENXIO"
                     ELSE IF port_in_card + 1 = PciCards[kind].num_ports
                          THEN "finish" ELSE phase
        /\ port_in_card' = port_in_card + (IF NetOfNext = NoDev THEN 0 ELSE 1)
    BY <1>7, TakeCards
  <2>2. ScanTypeOK'
    <3>1. phase' \in {"scan", "finish", "ENXIO"} /\ port_in_card' \in 0..8
      BY <1>1, <1>2, <2>1
    <3> QED  BY <1>1, <1>2, <1>4, <1>7, <2>1, <3>1 DEF ScanInv, ScanTypeOK, SlotRecord
  <2>3. PlaceInv'
    <3>1. Scanning' => \A p \in 0..7 : p < port_in_card' => OfKind(cards'[maxcard].pci_dev[p])
      <4>1. \A p \in 0..7 : p < port_in_card' => p < port_in_card \/ p = port_in_card
        BY <1>1, <2>1
      <4>2. \A p \in 0..7 : p < port_in_card => OfKind(cards[maxcard].pci_dev[p])
        BY <1>2 DEF ScanInv, PlaceInv, Scanning
      <4> QED  BY <1>1, <2>1, <4>1, <4>2
    <3>2. \A s \in Slot : s < maxcard =>
            cards'[s].kind \in Kind /\ cards'[s].pci_dev[0][1] = cards'[s].kind
      <4>1. \A s \in Slot : s < maxcard => s # maxcard
        BY ScanFacts DEF Slot
      <4> QED  BY <2>1, <4>1 DEF ScanInv, PlaceInv
    <3>3. /\ phase' = "scan" => port_in_card' \in 0..(PciCards[kind].num_ports - 1)
          /\ phase' = "finish" => port_in_card' = PciCards[kind].num_ports
          /\ phase' # "found"
      BY <1>1, <1>2, <1>3, <2>1
    <3> QED  BY <1>1, <1>2, <1>5, <3>1, <3>2, <3>3 DEF PlaceInv
  <2> QED  BY <2>2, <2>3 DEF ScanInv
<1> QED  BY <1>6, <1>7

(* cpld_validate *)

\* The pairs that are tried name ports of the card, and no pair comes twice.
LEMMA TriesFacts ==
  ASSUME NEW k \in Kind
  PROVE  /\ DOMAIN Tries(k) = 1..Len(Tries(k)) /\ Len(Tries(k)) \in 1..16
         /\ \A t \in DOMAIN Tries(k) :
              /\ Tries(k)[t][1] \in Ports(k)
              /\ Tries(k)[t][2] \in IF PciCards[k].side = "mdio" THEN {1, 30} ELSE Ports(k)
              /\ Tries(k)[t] = <<Tries(k)[t][1], Tries(k)[t][2]>>
              /\ \A u \in DOMAIN Tries(k) : Tries(k)[u] = Tries(k)[t] => u = t
<1> DEFINE n == PciCards[k].num_ports
<1>1. n \in {2, 4, 6, 8} /\ PciCards[k].side \in {"flash", "sdp", "esdp", "mdio"}
  BY KindFacts
<1>2. CASE PciCards[k].side = "flash"
  <2>1. Tries(k) = [t \in 1..n |-> <<t - 1, t - 1>>]
    BY <1>2 DEF Tries
  <2> HIDE DEF n
  <2>2. DOMAIN Tries(k) = 1..n /\ n \in 1..16 /\ Len(Tries(k)) = n
    BY <1>1, <2>1
  <2>3. \A t \in 1..n : /\ Tries(k)[t] = <<t - 1, t - 1>> /\ t - 1 \in 0..(n - 1)
                        /\ \A u \in 1..n : u - 1 = t - 1 => u = t
    BY <1>1, <2>1
  <2> QED  BY <1>2, <2>2, <2>3 DEF Ports, n
<1>3. CASE PciCards[k].side \in {"sdp", "esdp"}
  <2>1. Tries(k) = [t \in 1..n |-> IF t % 2 = 1 THEN <<t - 1, t>> ELSE <<t - 1, t - 2>>]
    BY <1>3 DEF Tries
  <2> HIDE DEF n
  <2>2. DOMAIN Tries(k) = 1..n /\ n \in 1..16 /\ Len(Tries(k)) = n
    BY <1>1, <2>1
  <2>3. \A t \in 1..n : Tries(k)[t] = <<t - 1, IF t % 2 = 1 THEN t ELSE t - 2>>
    BY <2>1
  <2>4. ASSUME NEW t \in 1..n
        PROVE  /\ t - 1 \in 0..(n - 1) /\ \A u \in 1..n : u - 1 = t - 1 => u = t
               /\ (IF t % 2 = 1 THEN t ELSE t - 2) \in 0..(n - 1)
    <3>1. CASE n = 2  BY <3>1
    <3>2. CASE n = 4  BY <3>2
    <3>3. CASE n = 6  BY <3>3
    <3>4. CASE n = 8  BY <3>4
    <3> QED  BY <1>1, <3>1, <3>2, <3>3, <3>4
  <2> QED  BY <1>3, <2>2, <2>3, <2>4 DEF Ports, n
<1>4. CASE PciCards[k].side = "mdio"
  <2>1. Tries(k) = [t \in 1..(2 * n) |-> <<(t - 1) \div 2, IF t % 2 = 1 THEN 1 ELSE 30>>]
    BY <1>4 DEF Tries
  <2> HIDE DEF n
  <2>2. DOMAIN Tries(k) = 1..(2 * n) /\ 2 * n \in 1..16 /\ Len(Tries(k)) = 2 * n
    BY <1>1, <2>1
  <2>3. \A t \in 1..(2 * n) : Tries(k)[t] = <<(t - 1) \div 2, IF t % 2 = 1 THEN 1 ELSE 30>>
    BY <2>1
  <2>4. ASSUME NEW t \in 1..(2 * n)
        PROVE  /\ (t - 1) \div 2 \in 0..(n - 1)
               /\ \A u \in 1..(2 * n) :
                    (u - 1) \div 2 = (t - 1) \div 2 /\ (u % 2 = 1 <=> t % 2 = 1) => u = t
    BY <1>1
  <2>5. \A t, u \in 1..(2 * n) :
          Tries(k)[u] = Tries(k)[t] =>
            (u - 1) \div 2 = (t - 1) \div 2 /\ (u % 2 = 1 <=> t % 2 = 1)
    BY <2>3
  <2> QED  BY <1>4, <2>2, <2>3, <2>4, <2>5 DEF Ports, n
<1> QED  BY <1>1, <1>2, <1>3, <1>4

LEMMA Smallest ==
  ASSUME NEW S \in SUBSET (1..16), S # {}
  PROVE  \E t \in S : \A u \in S : t <= u
<1> DEFINE less == {ss \in Nat \X Nat : ss[1] < ss[2]}
<1>1. IsWellFoundedOn(less, Nat)
  BY NatLessThanWellFounded DEF OpToRel
<1>2. S \subseteq Nat
  OBVIOUS
<1> HIDE DEF less
<1>3. PICK t \in S : \A u \in S : ~(<<u, t>> \in less)
  BY <1>1, <1>2, WFMin
<1>4. ASSUME NEW u \in S PROVE t <= u
  <2>1. ~(<<u, t>> \in less) /\ u \in Nat /\ t \in Nat
    BY <1>2, <1>3
  <2>2. ~(u < t)
    BY <2>1 DEF less
  <2> QED  BY <2>1, <2>2
<1> QED  BY <1>4

\* What FinishCard does: the card in progress becomes an entry, or its slot is
\* used again.
Answers ==
  {t \in DOMAIN Tries(kind) :
     Accessible(Control(Moved(cards[maxcard].pci_dev), kind, Tries(kind)[t]))}

LEMMA FinishFacts ==
  ASSUME ScanInv, FinishCard
  PROVE  /\ maxcard \in Slot /\ maxcard < MAX_CARD /\ maxcard + 1 \in 0..MAX_CARD
         /\ phase = "finish" /\ phase' = "scan" /\ port_in_card = PciCards[kind].num_ports
         /\ port_in_card' = 0 /\ UNCHANGED <<machine, kind, refs>>
         /\ cards' \in [Slot -> SlotRecord]
         /\ \A s \in Slot \ {maxcard} : cards'[s] = cards[s]
         /\ cards'[maxcard] = [kind |-> kind, pci_dev |-> Moved(cards[maxcard].pci_dev),
                               net_dev |-> Moved(cards[maxcard].net_dev)]
         /\ \A p \in 0..7 : p < port_in_card => OfKind(cards[maxcard].pci_dev[p])
         /\ cursor' = IF PciCards[kind].swap
                      THEN cards[maxcard].pci_dev[LastMoved(kind)] ELSE cursor
         /\ IF Answers = {} THEN leftover' = leftover \cup {maxcard} /\ maxcard' = maxcard
                            ELSE maxcard' = maxcard + 1 /\ leftover' = leftover
<1>1. /\ kind \in Kind /\ cards \in [Slot -> SlotRecord] /\ maxcard \in 0..MAX_CARD
      /\ MAX_CARD \in Nat
  BY ScanFacts
<1>2. phase = "finish" /\ port_in_card = PciCards[kind].num_ports
  BY DEF FinishCard, Finish, ScanInv, PlaceInv
<1>3. maxcard \in Slot /\ maxcard < MAX_CARD /\ maxcard + 1 \in 0..MAX_CARD
  <2>1. port_in_card > 0
    BY <1>1, <1>2, KindFacts
  <2>2. maxcard < MAX_CARD
    BY <2>1 DEF ScanInv, ScanTypeOK
  <2> QED  BY <1>1, <2>2 DEF Slot
<1> DEFINE new == [kind |-> kind, pci_dev |-> Moved(cards[maxcard].pci_dev),
                   net_dev |-> Moved(cards[maxcard].net_dev)]
<1>4. /\ cards[maxcard].pci_dev \in [0..7 -> AllFunctions]
      /\ cards[maxcard].net_dev \in [0..7 -> AllFunctions]
  BY <1>1, <1>3 DEF SlotRecord
<1>5. \A p \in 0..7 : (IF p \in Ports(kind) THEN Swapped(kind, p) ELSE p) \in 0..7
  BY <1>1, SwappedPort, KindFacts DEF Ports
<1>6. /\ Moved(cards[maxcard].pci_dev) \in [0..7 -> AllFunctions]
      /\ Moved(cards[maxcard].net_dev) \in [0..7 -> AllFunctions]
  BY <1>4, <1>5 DEF Moved
<1>7. new \in SlotRecord
  <2>1. kind \in 0..Len(PciCards)
    BY <1>1, ScanAssumption DEF Kind
  <2> QED  BY <1>6, <2>1 DEF SlotRecord
<1>8. /\ cards' = [cards EXCEPT ![maxcard] = new]
      /\ phase' = "scan" /\ port_in_card' = 0 /\ UNCHANGED <<machine, kind, refs>>
      /\ cursor' = IF PciCards[kind].swap
                   THEN cards[maxcard].pci_dev[LastMoved(kind)] ELSE cursor
  BY DEF FinishCard, Finish
<1>9. IF Answers = {} THEN leftover' = leftover \cup {maxcard} /\ maxcard' = maxcard
                      ELSE maxcard' = maxcard + 1 /\ leftover' = leftover
  <2> DEFINE dev == Moved(cards[maxcard].pci_dev)
             tries == [t \in DOMAIN Tries(kind) |-> Control(dev, kind, Tries(kind)[t])]
             answers == {t \in DOMAIN tries : Accessible(tries[t])}
  <2>1. IF answers = {} THEN leftover' = leftover \cup {maxcard} /\ maxcard' = maxcard
                        ELSE maxcard' = maxcard + 1 /\ leftover' = leftover
    BY DEF FinishCard, Finish
  <2>2. answers = Answers
    BY DEF Answers
  <2> QED  BY <2>1, <2>2
<1>10. \A p \in 0..7 : p < port_in_card => OfKind(cards[maxcard].pci_dev[p])
  BY <1>2 DEF ScanInv, PlaceInv, Scanning
<1> HIDE DEF new
<1>11. /\ cards' \in [Slot -> SlotRecord] /\ cards'[maxcard] = new
       /\ \A s \in Slot \ {maxcard} : cards'[s] = cards[s]
  BY <1>1, <1>3, <1>7, <1>8
<1> QED  BY <1>2, <1>3, <1>8, <1>9, <1>10, <1>11 DEF new

\* The pair that stays in hw_ctrl is one that was tried, one that answered if any.
Pairs == AllFunctions \X (AllFunctions \cup {<<0, 1>>, <<0, 30>>})

LEMMA FinishCtrl ==
  ASSUME ScanInv, FinishCard
  PROVE  /\ hw_ctrl' \in [Slot -> Pairs]
         /\ \A s \in Slot \ {maxcard} : hw_ctrl'[s] = hw_ctrl[s]
         /\ \E t \in DOMAIN Tries(kind) :
              /\ Answers # {} => t \in Answers
              /\ hw_ctrl'[maxcard]
                   = Control(Moved(cards[maxcard].pci_dev), kind, Tries(kind)[t])
<1> DEFINE dev == Moved(cards[maxcard].pci_dev)
           tries == [t \in DOMAIN Tries(kind) |-> Control(dev, kind, Tries(kind)[t])]
           answers == {t \in DOMAIN tries : Accessible(tries[t])}
           last == IF answers = {} THEN Len(tries)
                   ELSE CHOOSE t \in answers : \A u \in answers : t <= u
<1>1. hw_ctrl' = [hw_ctrl EXCEPT ![maxcard] = tries[last]]
  BY DEF FinishCard, Finish
<1>2. /\ kind \in Kind /\ hw_ctrl \in [Slot -> Pairs] /\ maxcard \in Slot
      /\ dev \in [0..7 -> AllFunctions]
  <2>1. cards'[maxcard] \in SlotRecord /\ cards'[maxcard].pci_dev = dev /\ maxcard \in Slot
    BY FinishFacts
  <2> HIDE DEF dev
  <2> QED  BY <2>1, ScanFacts DEF SlotRecord, ScanInv, ScanTypeOK, Pairs
<1>3. answers = Answers
  BY DEF Answers
<1>4. DOMAIN tries = DOMAIN Tries(kind) /\ Len(tries) = Len(Tries(kind))
  <2>1. DOMAIN Tries(kind) = 1..Len(Tries(kind)) /\ Len(Tries(kind)) \in Nat
    BY <1>2, TriesFacts
  <2> QED  BY <2>1
<1>5. last \in DOMAIN Tries(kind) /\ (answers # {} => last \in answers)
  <2>1. DOMAIN Tries(kind) = 1..Len(Tries(kind)) /\ Len(Tries(kind)) \in 1..16
    BY <1>2, TriesFacts
  <2>2. answers \in SUBSET (1..16) /\ answers \subseteq DOMAIN Tries(kind)
    BY <1>4, <2>1
  <2> HIDE DEF answers, tries
  <2>3. answers # {} => \E t \in answers : \A u \in answers : t <= u
    BY <2>2, Smallest
  <2>4. CASE answers = {}
    BY <1>4, <2>1, <2>4
  <2>5. CASE answers # {}
    BY <2>2, <2>3, <2>5
  <2> QED  BY <2>4, <2>5
<1> HIDE DEF last
<1>6. tries[last] = Control(dev, kind, Tries(kind)[last])
  BY <1>5
<1> HIDE DEF tries, answers, dev
<1>7. tries[last] \in Pairs
  <2> Ports(kind) \subseteq 0..7
    BY <1>2, KindFacts DEF Ports
  <2>1. /\ Tries(kind)[last][1] \in 0..7
        /\ IF PciCards[kind].side = "mdio" THEN Tries(kind)[last][2] \in {1, 30}
                                          ELSE Tries(kind)[last][2] \in 0..7
    BY <1>2, <1>5, TriesFacts
  <2> QED  BY <1>2, <1>6, <2>1 DEF Control, Pairs
<1>8. /\ hw_ctrl' \in [Slot -> Pairs] /\ hw_ctrl'[maxcard] = tries[last]
      /\ \A s \in Slot \ {maxcard} : hw_ctrl'[s] = hw_ctrl[s]
  BY <1>1, <1>2, <1>7
<1> QED  BY <1>3, <1>5, <1>6, <1>8 DEF dev

LEMMA FinishStep == ScanInv /\ FinishCard => ScanInv'
<1> SUFFICES ASSUME ScanInv, FinishCard PROVE ScanInv'
  OBVIOUS
<1>1. /\ kind \in Kind /\ kind' = kind /\ machine' = machine /\ machine \in Machines
      /\ maxcard \in 0..MAX_CARD /\ MAX_CARD \in Nat /\ leftover \subseteq 0..MAX_CARD
      /\ refs' = refs /\ refs \in [AllFunctions -> Int]
      /\ cursor \in AllFunctions
  BY ScanFacts, FinishFacts
<1>2. PciCards[kind].num_ports \in {2, 4, 6, 8} /\ 0 \in Ports(kind)
  BY <1>1, KindFacts DEF Ports
<1>3. \A g : OfKind(g)' <=> OfKind(g)
  BY <1>1 DEF OfKind, Functions
<1>4. \A p \in Ports(kind) : /\ OfKind(cards[maxcard].pci_dev[p])
                             /\ cards[maxcard].pci_dev[p] \in AllFunctions
  <2>1. cards[maxcard] \in SlotRecord
    BY FinishFacts, ScanFacts
  <2>2. \A p \in Ports(kind) : p \in 0..7 /\ p < port_in_card
    BY <1>2, FinishFacts DEF Ports
  <2> QED  BY <2>1, <2>2, FinishFacts DEF SlotRecord
<1>5. cursor' \in AllFunctions /\ (cursor' = NoDev \/ OfKind(cursor'))
  <2>1. cursor = NoDev \/ OfKind(cursor)
    BY DEF ScanInv, PlaceInv
  <2> QED  BY <1>1, <1>4, <2>1, LastMovedPort, FinishFacts
<1>6. OfKind(Moved(cards[maxcard].pci_dev)[0])
  <2>1. Swapped(kind, 0) \in Ports(kind)
    BY <1>1, <1>2, SwappedPort
  <2>2. Moved(cards[maxcard].pci_dev)[0] = cards[maxcard].pci_dev[Swapped(kind, 0)]
    BY <1>2 DEF Moved
  <2> QED  BY <1>4, <2>1, <2>2
<1>7. maxcard' \in 0..MAX_CARD /\ leftover' \subseteq 0..MAX_CARD
  BY <1>1, FinishFacts
<1>8. ScanTypeOK'
  <2>1. /\ phase' = "scan" /\ port_in_card' = 0 /\ cards' \in [Slot -> SlotRecord]
    BY FinishFacts
  <2>2. hw_ctrl' \in [Slot -> Pairs]
    BY FinishCtrl
  <2> QED  BY <1>1, <1>5, <1>7, <2>1, <2>2 DEF ScanTypeOK, SlotRecord, Pairs
<1>9. PlaceInv'
  <2>1. \A s \in Slot : s < maxcard' =>
          cards'[s].kind \in Kind /\ cards'[s].pci_dev[0][1] = cards'[s].kind
    <3> SUFFICES ASSUME NEW s \in Slot, s < maxcard'
                 PROVE  cards'[s].kind \in Kind /\ cards'[s].pci_dev[0][1] = cards'[s].kind
      OBVIOUS
    <3>1. CASE s = maxcard
      BY <1>1, <1>6, <3>1, FinishFacts DEF OfKind
    <3>2. CASE s # maxcard
      <4>1. s < maxcard /\ cards'[s] = cards[s]
        BY <1>1, <3>2, FinishFacts DEF Slot
      <4> QED  BY <4>1 DEF ScanInv, PlaceInv
    <3> QED  BY <3>1, <3>2
  <2>2. /\ phase' = "scan" /\ port_in_card' = 0 /\ \A p \in 0..7 : ~(p < 0)
    BY FinishFacts
  <2> QED  BY <1>1, <1>2, <1>3, <1>5, <2>1, <2>2 DEF PlaceInv
<1> QED  BY <1>8, <1>9 DEF ScanInv

LEMMA NextKindStep == ScanInv /\ NextKind => ScanInv'
<1> SUFFICES ASSUME ScanInv, NextKind PROVE ScanInv'
  OBVIOUS
<1>1. /\ kind \in Kind /\ machine \in Machines /\ cards \in [Slot -> SlotRecord]
      /\ maxcard \in 0..MAX_CARD /\ MAX_CARD \in Nat /\ leftover \subseteq 0..MAX_CARD
      /\ refs \in [AllFunctions -> Int] /\ NoDev \in AllFunctions
  BY ScanFacts
<1>2. /\ phase = "scan" /\ cursor' = NoDev /\ port_in_card' = 0
      /\ UNCHANGED <<machine, cards, maxcard, hw_ctrl>>
  BY DEF NextKind
<1>3. kind' \in Kind /\ PciCards[kind'].num_ports \in {2, 4, 6, 8}
  <2>1. kind' \in Kind
    BY <1>1, ScanAssumption DEF NextKind, Kind
  <2> QED  BY <2>1, KindFacts
<1>4. refs' \in [AllFunctions -> Int]
  BY <1>1, ScanFacts DEF NextKind
<1>5. leftover' \subseteq 0..MAX_CARD
  BY <1>1 DEF NextKind
<1>6. phase' \in {"scan", "found", "ENXIO"} /\ (phase' = "found" => maxcard # 0)
  BY <1>2 DEF NextKind
<1>7. ScanTypeOK'
  BY <1>1, <1>2, <1>3, <1>4, <1>5, <1>6 DEF ScanInv, ScanTypeOK, SlotRecord
<1>8. PlaceInv'
  <2>1. \A s \in Slot : s < maxcard =>
          cards[s].kind \in Kind /\ cards[s].pci_dev[0][1] = cards[s].kind
    BY DEF ScanInv, PlaceInv
  <2>2. phase' = "found" => maxcard > 0
    BY <1>1, <1>6
  <2>3. \A p \in 0..7 : ~(p < 0)
    OBVIOUS
  <2> QED  BY <1>2, <1>3, <1>6, <2>1, <2>2, <2>3 DEF PlaceInv
<1> QED  BY <1>7, <1>8 DEF ScanInv

LEMMA ScanKeeps ==
  ScanInv /\ UNCHANGED scanvars => ScanInv'
BY DEF ScanInv, ScanTypeOK, PlaceInv, OfKind, Functions, Scanning, scanvars

LEMMA ScanStep == ScanInv /\ Scan => ScanInv'
BY TakeStep, FinishStep, NextKindStep DEF Scan

\* Load changes nothing of the scan, and the scan nothing of Load.
LEMMA Apart == [Next]_vars => (Scan /\ UNCHANGED loadvars) \/ UNCHANGED scanvars
<1> SUFFICES ASSUME [Next]_vars PROVE (Scan /\ UNCHANGED loadvars) \/ UNCHANGED scanvars
  OBVIOUS
<1>1. CASE Loading
  BY <1>1 DEF Loading, Region, Device, CardFiles, SegmentFiles, ProcFiles, Pin, SemaInit,
              CreateThread, Up
<1>2. CASE Unload \/ Unloading
  BY <1>2 DEF Unload, Unloading, DestroyDevice, DestroyProcFiles, StopSegments, Deinit,
              Unpin
<1>3. CASE Users \/ LfdRound \/ Ended
  BY <1>3 DEF Users, SetLfd, ReadPort, LfdRound, Ended
<1>4. ASSUME NEW u \in User, Enter(u) PROVE UNCHANGED scanvars
  BY <1>4 DEF Enter
<1>5. ASSUME NEW d \in Driver, MoveDriver(d) PROVE UNCHANGED scanvars
  BY <1>5 DEF MoveDriver
<1>6. CASE ThreadEnds
  BY <1>6 DEF ThreadEnds
<1> QED  BY <1>1, <1>2, <1>3, <1>4, <1>5, <1>6 DEF Next, vars

LEMMA ScanInvariant == Spec => []ScanInv
<1>1. LoadInit => ScanInv
  BY ScanInit DEF LoadInit
<1>2. ScanInv /\ [Next]_vars => ScanInv'
  BY ScanStep, ScanKeeps, Apart
<1> QED  BY <1>1, <1>2, PTL DEF Spec

\* Whose network devices a slot has that was not left by an unfinished or mute
\* card: an entry those of its ports, the slot in use those taken so far.
NetInv ==
  \A s \in Slot \ leftover :
    /\ s < maxcard => \A p \in Ports(cards[s].kind) : cards[s].net_dev[p] = cards[s].pci_dev[p]
    /\ s = maxcard => \A p \in 0..7 :
         cards[s].net_dev[p] = IF p < port_in_card THEN cards[s].pci_dev[p] ELSE NoDev
    /\ s > maxcard => \A p \in 0..7 : cards[s].net_dev[p] = NoDev

LEMMA NetTake == ScanInv /\ NetInv /\ TakeDevice => NetInv'
<1> SUFFICES ASSUME ScanInv, NetInv, TakeDevice PROVE NetInv'
  OBVIOUS
<1>1. /\ port_in_card \in 0..7 /\ (~Full => maxcard \in Slot)
      /\ leftover' = leftover /\ maxcard' = maxcard
  BY TakeFacts DEF TakeDevice
<1>2. CASE Full
  <2>1. UNCHANGED <<port_in_card, cards>>
    BY <1>2 DEF TakeDevice, Full
  <2> QED  BY <1>1, <2>1 DEF NetInv
<1>3. CASE ~Full
  <2>1. /\ \A u \in Slot \ {maxcard} : cards'[u] = cards[u]
        /\ \A p \in 0..7 :
             /\ cards'[maxcard].pci_dev[p] = IF p = port_in_card THEN NextFunction
                                              ELSE cards[maxcard].pci_dev[p]
             /\ cards'[maxcard].net_dev[p] = IF p = port_in_card THEN NetOfNext
                                              ELSE cards[maxcard].net_dev[p]
        /\ port_in_card' = port_in_card + (IF NetOfNext = NoDev THEN 0 ELSE 1)
    BY <1>3, TakeCards
  <2> SUFFICES ASSUME NEW s \in Slot \ leftover
               PROVE  /\ s < maxcard => \A p \in Ports(cards'[s].kind) :
                            cards'[s].net_dev[p] = cards'[s].pci_dev[p]
                      /\ s = maxcard => \A p \in 0..7 :
                            cards'[s].net_dev[p] = IF p < port_in_card' THEN cards'[s].pci_dev[p]
                                                   ELSE NoDev
                      /\ s > maxcard => \A p \in 0..7 : cards'[s].net_dev[p] = NoDev
    BY <1>1 DEF NetInv, Ports
  <2>2. CASE s = maxcard
    <3>1. \A p \in 0..7 : cards[maxcard].net_dev[p] = IF p < port_in_card
                          THEN cards[maxcard].pci_dev[p] ELSE NoDev
      BY <2>2 DEF NetInv
    <3>2. NetOfNext = NextFunction \/ NetOfNext = NoDev
      BY <1>1, <3>1 DEF NetOfNext
    <3>3. ASSUME NEW p \in 0..7
          PROVE  cards'[s].net_dev[p] = IF p < port_in_card' THEN cards'[s].pci_dev[p] ELSE NoDev
      <4>1. CASE p = port_in_card
        BY <1>1, <2>1, <2>2, <3>2, <4>1
      <4>2. CASE p # port_in_card
        <5>1. p < port_in_card' <=> p < port_in_card
          BY <1>1, <2>1, <4>2
        <5> QED  BY <2>1, <2>2, <3>1, <4>2, <5>1
      <4> QED  BY <4>1, <4>2
    <3>4. ~(s < maxcard) /\ ~(s > maxcard)
      BY <2>2, ScanFacts
    <3> QED  BY <3>3, <3>4
  <2>3. CASE s # maxcard
    BY <2>1, <2>3 DEF NetInv
  <2> QED  BY <2>2, <2>3
<1> QED  BY <1>2, <1>3

LEMMA NetFinish == ScanInv /\ NetInv /\ FinishCard => NetInv'
<1> SUFFICES ASSUME ScanInv, NetInv, FinishCard, NEW s \in Slot \ leftover'
             PROVE  /\ s < maxcard' => \A p \in Ports(cards'[s].kind) :
                          cards'[s].net_dev[p] = cards'[s].pci_dev[p]
                    /\ s = maxcard' => \A p \in 0..7 :
                          cards'[s].net_dev[p] = IF p < port_in_card' THEN cards'[s].pci_dev[p]
                                                 ELSE NoDev
                    /\ s > maxcard' => \A p \in 0..7 : cards'[s].net_dev[p] = NoDev
  BY DEF NetInv, Ports
<1>1. /\ maxcard \in Slot /\ kind \in Kind /\ MAX_CARD \in Nat
      /\ port_in_card = PciCards[kind].num_ports /\ port_in_card' = 0
      /\ \A u \in Slot \ {maxcard} : cards'[u] = cards[u]
      /\ cards'[maxcard] = [kind |-> kind, pci_dev |-> Moved(cards[maxcard].pci_dev),
                            net_dev |-> Moved(cards[maxcard].net_dev)]
      /\ IF Answers = {} THEN leftover' = leftover \cup {maxcard} /\ maxcard' = maxcard
                         ELSE maxcard' = maxcard + 1 /\ leftover' = leftover
  BY FinishFacts, ScanFacts
<1>2. s \in Slot \ leftover /\ s \in Int /\ maxcard \in Int
  BY <1>1 DEF Slot
<1>3. PciCards[kind].num_ports \in {2, 4, 6, 8}
  BY <1>1, KindFacts
<1>4. CASE s = maxcard
  <2>1. s < maxcard' /\ ~(s = maxcard') /\ ~(s > maxcard')
    BY <1>1, <1>2, <1>4
  <2>2. \A p \in Ports(kind) : cards[maxcard].net_dev[p] = cards[maxcard].pci_dev[p]
    <3>1. \A p \in Ports(kind) : p \in 0..7 /\ p < port_in_card
      BY <1>1, <1>3 DEF Ports
    <3> QED  BY <1>2, <1>4, <3>1 DEF NetInv
  <2>3. \A p \in Ports(kind) : p \in 0..7 /\ Swapped(kind, p) \in Ports(kind)
    BY <1>1, <1>3, SwappedPort DEF Ports
  <2>4. \A p \in Ports(kind) : Moved(cards[maxcard].net_dev)[p] = Moved(cards[maxcard].pci_dev)[p]
    BY <2>2, <2>3 DEF Moved
  <2> QED  BY <1>1, <1>4, <2>1, <2>4
<1>5. CASE s # maxcard
  <2>1. cards'[s] = cards[s] /\ (s < maxcard' <=> s < maxcard)
        /\ (s >= maxcard' => s > maxcard)
    BY <1>1, <1>2, <1>5
  <2>2. s > maxcard => \A p \in 0..7 : cards'[s].net_dev[p] = NoDev
    BY <1>2, <2>1 DEF NetInv
  <2>3. s < maxcard => \A p \in Ports(cards[s].kind) : cards'[s].net_dev[p] = cards'[s].pci_dev[p]
    BY <1>2, <2>1 DEF NetInv
  <2>4. \A p \in 0..7 : ~(p < port_in_card')
    BY <1>1
  <2>5. s = maxcard' \/ s > maxcard' => s > maxcard
    BY <1>1, <1>2, <1>5
  <2> QED  BY <2>1, <2>2, <2>3, <2>4, <2>5
<1> QED  BY <1>4, <1>5

LEMMA NetNextKind == ScanInv /\ NetInv /\ NextKind => NetInv'
<1> SUFFICES ASSUME ScanInv, NetInv, NextKind PROVE NetInv'
  OBVIOUS
<1> SUFFICES ASSUME NEW s \in Slot \ leftover'
             PROVE  /\ s < maxcard => \A p \in Ports(cards[s].kind) :
                          cards[s].net_dev[p] = cards[s].pci_dev[p]
                    /\ s = maxcard => \A p \in 0..7 : cards[s].net_dev[p] = NoDev
                    /\ s > maxcard => \A p \in 0..7 : cards[s].net_dev[p] = NoDev
  <2>1. cards' = cards /\ maxcard' = maxcard /\ port_in_card' = 0
    BY DEF NextKind
  <2>2. \A p \in 0..7 : ~(p < 0)
    OBVIOUS
  <2> QED  BY <2>1, <2>2 DEF NetInv, Ports
<1>1. s \in Slot \ leftover /\ (s = maxcard => ~(port_in_card > 0))
  BY DEF NextKind
<1>2. s = maxcard => \A p \in 0..7 : ~(p < port_in_card)
  BY <1>1 DEF ScanInv, ScanTypeOK
<1> QED  BY <1>1, <1>2 DEF NetInv

LEMMA NetInvariant == Spec => []NetInv
<1>1. LoadInit => NetInv
  <2> SUFFICES ASSUME Init PROVE NetInv
    BY DEF LoadInit
  <2>1. /\ maxcard = 0 /\ port_in_card = 0
        /\ \A s \in Slot : \A p \in 0..7 : cards[s].net_dev[p] = NoDev
    BY DEF Init
  <2>2. \A s \in Slot : ~(s < 0)
    BY ScanAssumption DEF Slot
  <2>3. \A p \in 0..7 : ~(p < 0)
    OBVIOUS
  <2> QED  BY <2>1, <2>2, <2>3 DEF NetInv
<1>2. ScanInv /\ NetInv /\ [Next]_vars => NetInv'
  <2>1. NetInv /\ UNCHANGED scanvars => NetInv'
    BY DEF NetInv, scanvars, Ports
  <2> QED  BY <2>1, NetTake, NetFinish, NetNextKind, Apart DEF Scan
<1> QED  BY <1>1, <1>2, ScanInvariant, PTL DEF Spec

\* The network device behind a port of an entry is that of the port's own PCI
\* function, for any machine, also after the exchange of segments: what
\* find_netdev has stored moves with the functions (niagara_init).
THEOREM NetDevsAreOwn == Spec => []NetDevsOwn
<1>1. ScanInv /\ NetInv => NetDevsOwn
  <2> SUFFICES ASSUME ScanInv, NetInv, NEW s \in (0..(maxcard - 1)) \ leftover
               PROVE  \A p \in Ports(cards[s].kind) : cards[s].net_dev[p] = cards[s].pci_dev[p]
    BY DEF NetDevsOwn
  <2>1. s \in Slot \ leftover /\ s < maxcard
    BY ScanFacts DEF Slot
  <2> QED  BY <2>1 DEF NetInv
<1> QED  BY <1>1, ScanInvariant, NetInvariant, PTL

(* The entries, in a machine without cards whose segments are exchanged *)

\* Cards of this kind that the scan has passed completely, and the cards whose
\* CPLD answers among all it has passed.
Straight == \A k \in Kind : PciCards[k].swap => machine[k] = <<>>
Complete == (cursor[2] - port_in_card) \div PciCards[kind].num_ports
Behind == {c \in Alive : c[1] < kind \/ (c[1] = kind /\ c[2] <= Complete)}
EntriesAre(S) ==
  /\ \A s \in Slot : s < maxcard => \E c \in S : IsCard(s, c[1], c[2])
  /\ \A c \in S : \E s \in Slot : s < maxcard /\ IsCard(s, c[1], c[2])
  /\ maxcard = Cardinality(S)
CursorInv ==
  /\ Complete \in Nat /\ cursor[2] = Complete * PciCards[kind].num_ports + port_in_card
  /\ \A p \in 0..7 : p < port_in_card =>
       cards[maxcard].pci_dev[p] = <<kind, Complete * PciCards[kind].num_ports + p + 1>>
  /\ \A f \in AllFunctions : refs[f] = IF f = cursor /\ f # NoDev THEN 1 ELSE 0
EntriesInv ==
  /\ Scanning => CursorInv /\ EntriesAre(Behind)
  /\ phase = "found" => EntriesAre(Alive) /\ \A f \in AllFunctions : refs[f] = 0
  /\ phase = "ENXIO" => \/ Alive = {}
                       \/ \E c \in Cards : ~(Ports(c[1]) \subseteq machine[c[1]][c[2]].net)
  /\ phase = "E2BIG" => Cardinality(Cards) > MAX_CARD

LEMMA Quotient ==
  ASSUME NEW n \in {2, 4, 6, 8}, NEW c \in Nat, NEW p \in 0..(n - 1)
  PROVE  (c * n + p) \div n = c /\ (c * n + p) % n = p
<1>1. CASE n = 2  BY <1>1
<1>2. CASE n = 4  BY <1>2
<1>3. CASE n = 6  BY <1>3
<1>4. CASE n = 8  BY <1>4
<1> QED  BY <1>1, <1>2, <1>3, <1>4

LEMMA Multiple ==
  ASSUME NEW n \in {2, 4, 6, 8}, NEW c \in Nat, NEW p \in 0..n, NEW len \in Nat
  PROVE  /\ c * n \in Nat
         /\ c * n + n = (c + 1) * n
         /\ c * n + p < len * n => c + 1 <= len
         /\ (c + 1) * n <= len * n => c + 1 <= len
         /\ p < n /\ c * n + p = len * n => c = len /\ p = 0
<1>1. CASE n = 2  BY <1>1
<1>2. CASE n = 4  BY <1>2
<1>3. CASE n = 6  BY <1>3
<1>4. CASE n = 8  BY <1>4
<1> QED  BY <1>1, <1>2, <1>3, <1>4

LEMMA CardAndPort ==
  ASSUME NEW k \in Kind, NEW c \in Nat, NEW p \in Ports(k)
  PROVE  /\ CardOf(<<k, c * PciCards[k].num_ports + p + 1>>) = c + 1
         /\ PortOf(<<k, c * PciCards[k].num_ports + p + 1>>) = p
<1> DEFINE n == PciCards[k].num_ports
<1>1. n \in {2, 4, 6, 8} /\ p \in 0..(n - 1)
  BY KindFacts DEF Ports
<1>2. (c * n + p) \div n = c /\ (c * n + p) % n = p
  BY <1>1, Quotient
<1>3. (c * n + p + 1) - 1 = c * n + p
  BY <1>1, Multiple
<1> DEFINE f == <<k, c * n + p + 1>>
           at_n == f[2] - 1
<1>4. f[1] = k /\ at_n = c * n + p
  <2>1. f[1] = k /\ f[2] = c * n + p + 1
    OBVIOUS
  <2> DEFINE q == c * n + p
  <2>2. (q + 1) - 1 = q /\ f[2] = q + 1
    BY <1>3, <2>1
  <2> HIDE DEF n, f, q
  <2>3. f[2] - 1 = q
    BY <2>2
  <2> QED  BY <2>1, <2>3 DEF q
<1> HIDE DEF n
<1>5. 1 + at_n \div n = c + 1 /\ at_n % n = p
  BY <1>2, <1>4
<1>6. CardOf(f) = 1 + at_n \div n /\ PortOf(f) = at_n % n
  BY <1>4 DEF CardOf, PortOf, n
<1> HIDE DEF f, at_n
<1>7. CardOf(f) = c + 1 /\ PortOf(f) = p
  BY <1>5, <1>6
<1> QED  BY <1>7 DEF f, n

LEMMA CardsFinite ==
  ASSUME machine \in Machines
  PROVE  IsFiniteSet(Cards) /\ IsFiniteSet(Alive) /\ IsFiniteSet(Behind)
<1> DEFINE box == Kind \X (1..MaxFunctions)
<1>1. IsFiniteSet(box)
  <2>1. IsFiniteSet(Kind) /\ IsFiniteSet(1..MaxFunctions)
    BY FS_Interval, ScanAssumption DEF Kind
  <2> QED  BY <2>1, FS_Product
<1>2. Cards \subseteq box
  <2> SUFFICES ASSUME NEW k \in Kind, NEW c \in DOMAIN machine[k] PROVE <<k, c>> \in box
    BY DEF Cards
  <2>1. /\ Len(machine[k]) \in Nat /\ c \in 1..Len(machine[k])
        /\ Len(machine[k]) * PciCards[k].num_ports <= MaxFunctions
    BY MachineFacts DEF Functions
  <2>2. PciCards[k].num_ports \in {2, 4, 6, 8} /\ MaxFunctions \in Nat
    BY KindFacts, ScanAssumption
  <2>3. Len(machine[k]) <= Len(machine[k]) * PciCards[k].num_ports
    <3> DEFINE len == Len(machine[k])
    <3>1. len \in Nat
      BY <2>1
    <3> HIDE DEF len
    <3>2. len <= len * 2 /\ len <= len * 4 /\ len <= len * 6 /\ len <= len * 8
      BY <3>1
    <3> QED  BY <2>2, <3>2 DEF len
  <2> HIDE DEF box
  <2>4. c \in 1..MaxFunctions
    <3> DEFINE len == Len(machine[k])
               all == len * PciCards[k].num_ports
    <3>1. len <= all /\ all <= MaxFunctions /\ len \in Nat /\ c \in 1..len /\ all \in Int
      BY <2>1, <2>2, <2>3
    <3> HIDE DEF len, all
    <3> QED  BY <2>2, <3>1
  <2> QED  BY <2>4 DEF box
<1> HIDE DEF box
<1>3. Alive \subseteq Cards /\ Behind \subseteq Cards
  BY DEF Alive, Behind
<1> QED  BY <1>1, <1>2, <1>3, FS_Subset

\* Cards of the kind whose functions the scan is at exchange no segments.
LEMMA NoExchange ==
  ASSUME ScanInv, Straight, NEW f, OfKind(f)
  PROVE  ~PciCards[kind].swap
<1>1. kind \in Kind /\ machine \in Machines
  BY ScanFacts
<1>2. Functions(kind) # 0
  BY <1>1, MachineFacts DEF OfKind
<1>3. machine[kind] # <<>>
  <2> SUFFICES ASSUME machine[kind] = <<>> PROVE FALSE
    OBVIOUS
  <2>1. Len(machine[kind]) = 0
    OBVIOUS
  <2>2. Functions(kind) = 0
    BY <1>1, <2>1, KindFacts DEF Functions
  <2> QED  BY <1>2, <2>2
<1> QED  BY <1>1, <1>3 DEF Straight

\* An entry stays what it is while its slot and its control ports do.
LEMMA SameEntry ==
  ASSUME NEW s, NEW k, NEW c, machine' = machine, cards'[s] = cards[s],
         hw_ctrl'[s] = hw_ctrl[s]
  PROVE  IsCard(s, k, c)' <=> IsCard(s, k, c)
BY DEF IsCard, Accessible, CardOf, PortOf, Ports, Swapped

LEMMA SameCards ==
  ASSUME machine' = machine
  PROVE  Cards' = Cards /\ Alive' = Alive
BY DEF Cards, Alive

\* The card that the next function belongs to is in the machine.
LEMMA NextCard ==
  ASSUME ScanInv, CursorInv, TakeDevice
  PROVE  /\ Complete + 1 \in DOMAIN machine[kind] /\ <<kind, Complete + 1>> \in Cards
         /\ NextFunction = <<kind, Complete * PciCards[kind].num_ports + port_in_card + 1>>
         /\ PciCards[kind].num_ports \in {2, 4, 6, 8}
         /\ CardOf(NextFunction) = Complete + 1 /\ PortOf(NextFunction) = port_in_card
<1> DEFINE n == PciCards[kind].num_ports
           len == Len(machine[kind])
           c == Complete
<1>1. /\ kind \in Kind /\ n \in {2, 4, 6, 8} /\ port_in_card \in 0..(n - 1)
      /\ c \in Nat /\ cursor[2] = c * n + port_in_card /\ cursor[2] < len * n
      /\ len \in Nat /\ DOMAIN machine[kind] = 1..len
  BY ScanFacts, TakeFacts, KindFacts, MachineFacts DEF CursorInv, TakeDevice, Functions
<1> HIDE DEF n, len, c
<1>2. c + 1 <= len
  <2>1. port_in_card \in 0..n
    BY <1>1
  <2> QED  BY <1>1, <2>1, Multiple
<1>3. c + 1 \in DOMAIN machine[kind]
  BY <1>1, <1>2
<1>4. <<kind, c + 1>> \in Cards
  BY <1>1, <1>3 DEF Cards
<1>5. NextFunction = <<kind, c * n + port_in_card + 1>>
  BY <1>1 DEF NextFunction
<1>6. CardOf(NextFunction) = c + 1 /\ PortOf(NextFunction) = port_in_card
  BY <1>1, <1>5, CardAndPort DEF Ports, n
<1> QED  BY <1>1, <1>3, <1>4, <1>5, <1>6 DEF c, n

LEMMA EntriesTake ==
  ASSUME ScanInv, EntriesInv, TakeDevice
  PROVE  EntriesInv'
<1> DEFINE n == PciCards[kind].num_ports
<1>1. /\ CursorInv /\ EntriesAre(Behind) /\ phase = "scan"
      /\ machine' = machine /\ kind' = kind /\ maxcard' = maxcard /\ hw_ctrl' = hw_ctrl
      /\ cursor' = NextFunction
  BY DEF EntriesInv, Scanning, TakeDevice, NextFunction
<1>2. Cards' = Cards /\ Alive' = Alive
  BY <1>1, SameCards
<1>3. /\ Complete \in Nat /\ cursor[2] = Complete * n + port_in_card
      /\ cursor[2] \in Nat /\ NextFunction \in AllFunctions
      /\ OfKind(NextFunction) /\ n \in {2, 4, 6, 8} /\ port_in_card \in 0..(n - 1)
      /\ port_in_card \in 0..7
  BY <1>1, NextCard, TakeFacts, ScanFacts DEF CursorInv
<1>4. CASE Full
  <2>1. phase' = "E2BIG"
    BY <1>4 DEF TakeDevice, Full
  <2>2. Cardinality(Cards) > MAX_CARD
    <3> DEFINE more == Behind \cup {<<kind, Complete + 1>>}
    <3>1. /\ IsFiniteSet(Cards) /\ IsFiniteSet(Behind)
      BY ScanFacts, CardsFinite
    <3>2. <<kind, Complete + 1>> \notin Behind
      <4> SUFFICES ASSUME <<kind, Complete + 1>> \in Behind PROVE FALSE
        OBVIOUS
      <4>1. kind \in Nat
        BY ScanFacts, KindFacts
      <4>2. Complete + 1 <= Complete
        BY <4>1 DEF Behind
      <4> QED  BY <1>3, <4>2
    <3>3. Cardinality(more) = Cardinality(Behind) + 1 /\ IsFiniteSet(more)
      BY <3>1, <3>2, FS_AddElement
    <3>4. more \subseteq Cards
      BY <1>1, NextCard DEF Behind, Alive
    <3> HIDE DEF more
    <3>5. Cardinality(more) <= Cardinality(Cards)
      BY <3>1, <3>4, FS_Subset
    <3>6. Cardinality(Behind) = maxcard
      BY <1>1 DEF EntriesAre
    <3>7. Cardinality(Cards) \in Nat
      BY <3>1, FS_CardinalityType
    <3> QED  BY <1>4, <3>3, <3>5, <3>6, <3>7, ScanFacts DEF Full
  <2> QED  BY <1>2, <2>1, <2>2 DEF EntriesInv, Scanning
<1>5. CASE ~Full /\ NetOfNext = NoDev
  <2>1. phase' = "ENXIO"
    BY <1>5, TakeCards
  <2>2. ~HasNetDev(NextFunction)
    <3>1. NextFunction # NoDev
      BY ScanFacts, KindFacts DEF NextFunction, NoDev
    <3> QED  BY <1>5, <3>1 DEF NetOfNext
  <2>3. port_in_card \notin machine[kind][Complete + 1].net
    BY <1>1, <2>2, NextCard DEF HasNetDev, NextFunction
  <2>4. port_in_card \in Ports(kind)
    BY <1>3 DEF Ports
  <2>5. \E c \in Cards : ~(Ports(c[1]) \subseteq machine[c[1]][c[2]].net)
    <3>1. <<kind, Complete + 1>> \in Cards
      BY <1>1, NextCard
    <3> QED  BY <2>3, <2>4, <3>1
  <2> QED  BY <1>1, <1>2, <2>1, <2>5 DEF EntriesInv, Scanning, Ports
<1>6. CASE ~Full /\ NetOfNext # NoDev
  <2>1. /\ \A u \in Slot \ {maxcard} : cards'[u] = cards[u]
        /\ \A p \in 0..7 :
             cards'[maxcard].pci_dev[p] = IF p = port_in_card THEN NextFunction
                                          ELSE cards[maxcard].pci_dev[p]
        /\ phase' \in {"scan", "finish"} /\ port_in_card' = port_in_card + 1
    BY <1>1, <1>6, TakeCards
  <2>2. NextFunction[2] - port_in_card' = cursor[2] - port_in_card
    BY <1>3, <2>1 DEF NextFunction
  <2>3. Complete' = Complete
    BY <1>1, <2>2 DEF Complete
  <2>4. Behind' = Behind
    BY <1>1, <1>2, <2>3 DEF Behind
  <2>5. EntriesAre(Behind)'
    <3>1. \A s \in Slot : s < maxcard => cards'[s] = cards[s]
      BY <2>1, ScanFacts DEF Slot
    <3>2. \A s \in Slot : \A k, c : s < maxcard => (IsCard(s, k, c)' <=> IsCard(s, k, c))
      BY <1>1, <3>1, SameEntry
    <3> QED  BY <1>1, <2>4, <3>2 DEF EntriesAre
  <2>6. CursorInv'
    <3>1. cursor'[2] = Complete * n + port_in_card'
      <4> DEFINE all == Complete * n
      <4>1. all \in Nat
        BY <1>3, Multiple
      <4>2. cursor[2] = all + port_in_card
        BY <1>3
      <4> HIDE DEF all
      <4>3. cursor[2] + 1 = all + port_in_card'
        BY <1>3, <2>1, <4>1, <4>2
      <4> QED  BY <1>1, <4>3 DEF NextFunction, all
    <3>2. \A p \in 0..7 : p < port_in_card' =>
            cards'[maxcard].pci_dev[p] = <<kind, Complete * n + p + 1>>
      <4>1. \A p \in 0..7 : p < port_in_card' => p < port_in_card \/ p = port_in_card
        BY <1>3, <2>1
      <4>2. NextFunction = <<kind, Complete * n + port_in_card + 1>>
        BY <1>1, NextCard
      <4> QED  BY <1>1, <2>1, <4>1, <4>2 DEF CursorInv
    <3>3. \A f \in AllFunctions : refs'[f] = IF f = NextFunction /\ f # NoDev THEN 1 ELSE 0
      <4>1. /\ refs \in [AllFunctions -> Int]
            /\ refs' = [refs EXCEPT ![NextFunction] = @ + 1,
                                    ![cursor] = @ - (IF cursor = NoDev THEN 0 ELSE 1)]
            /\ \A f \in AllFunctions : refs[f] = IF f = cursor /\ f # NoDev THEN 1 ELSE 0
        BY <1>1, ScanFacts DEF TakeDevice, Get, NextFunction, CursorInv
      <4>2. NextFunction # cursor /\ NextFunction # NoDev
        <5>1. NextFunction[2] = cursor[2] + 1 /\ NextFunction[1] = kind /\ NoDev[1] = 0
              /\ kind # 0
          BY ScanFacts, KindFacts DEF NextFunction, NoDev
        <5> QED  BY <1>3, <5>1
      <4>3. cursor \in AllFunctions
        BY ScanFacts
      <4> HIDE DEF NextFunction
      <4> QED  BY <1>3, <4>1, <4>2, <4>3
    <3> QED  BY <1>1, <1>3, <2>3, <3>1, <3>2, <3>3 DEF CursorInv
  <2> QED  BY <2>1, <2>5, <2>6 DEF EntriesInv
<1> QED  BY <1>4, <1>5, <1>6

\* What FinishCard sees of a card without an exchange: its pci_dev in order, so
\* it answers to a pair if it is alive and this is its pair.
LEMMA FinishCardOf ==
  ASSUME ScanInv, CursorInv, Straight, FinishCard
  PROVE  /\ ~PciCards[kind].swap
         /\ \A p \in Ports(kind) :
              /\ Moved(cards[maxcard].pci_dev)[p]
                   = <<kind, Complete * PciCards[kind].num_ports + p + 1>>
              /\ Swapped(kind, p) = p
         /\ Complete + 1 \in DOMAIN machine[kind] /\ <<kind, Complete + 1>> \in Cards
<1> DEFINE n == PciCards[kind].num_ports
<1>1. /\ kind \in Kind /\ n \in {2, 4, 6, 8} /\ port_in_card = n
      /\ \A p \in 0..7 : p < port_in_card => OfKind(cards[maxcard].pci_dev[p])
      /\ Complete \in Nat /\ cursor[2] = Complete * n + port_in_card
      /\ \A p \in 0..7 : p < port_in_card =>
           cards[maxcard].pci_dev[p] = <<kind, Complete * n + p + 1>>
  BY ScanFacts, FinishFacts, KindFacts DEF CursorInv
<1>2. ~PciCards[kind].swap
  <2>1. OfKind(cards[maxcard].pci_dev[0])
    BY <1>1
  <2> QED  BY <2>1, NoExchange
<1>3. \A p \in Ports(kind) : /\ p \in 0..7 /\ p < port_in_card /\ Swapped(kind, p) = p
  BY <1>1, <1>2 DEF Ports, Swapped
<1>4. \A p \in Ports(kind) :
        Moved(cards[maxcard].pci_dev)[p] = <<kind, Complete * n + p + 1>>
  BY <1>1, <1>3 DEF Moved
<1>5. Complete + 1 \in DOMAIN machine[kind]
  <2> DEFINE len == Len(machine[kind])
  <2>1. len \in Nat /\ DOMAIN machine[kind] = 1..len /\ cursor[2] <= len * n
    BY ScanFacts, MachineFacts DEF Functions
  <2> HIDE DEF len, n
  <2>2. (Complete + 1) * n <= len * n
    BY <1>1, <2>1, Multiple
  <2>3. Complete + 1 <= len
    BY <1>1, <2>1, <2>2, Multiple
  <2> QED  BY <1>1, <2>1, <2>3
<1>6. <<kind, Complete + 1>> \in Cards
  BY <1>1, <1>5 DEF Cards
<1> QED  BY <1>2, <1>3, <1>4, <1>5, <1>6

LEMMA Answering ==
  ASSUME ScanInv, CursorInv, Straight, FinishCard, NEW t \in DOMAIN Tries(kind)
  PROVE  LET ctrl == Control(Moved(cards[maxcard].pci_dev), kind, Tries(kind)[t])
             card == machine[kind][Complete + 1]
         IN  /\ ctrl[1][1] = kind /\ CardOf(ctrl[1]) = Complete + 1
             /\ Accessible(ctrl) <=> card.alive /\ card.ctrl = Tries(kind)[t]
<1> DEFINE dev == Moved(cards[maxcard].pci_dev)
           try == Tries(kind)[t]
           ctrl == Control(dev, kind, try)
           a == dev[try[1]]
           b == dev[try[2]]
           card == machine[kind][Complete + 1]
           mdio == PciCards[kind].side = "mdio"
<1>1. kind \in Kind /\ kind # 0 /\ Complete \in Nat
  BY ScanFacts, KindFacts DEF CursorInv
<1>2. /\ try[1] \in Ports(kind) /\ (~mdio => try[2] \in Ports(kind))
  BY <1>1, TriesFacts
<1>3. \A p \in Ports(kind) : dev[p] = <<kind, Complete * PciCards[kind].num_ports + p + 1>>
  BY FinishCardOf
<1> HIDE DEF dev
<1>4. \A p \in Ports(kind) : /\ dev[p][1] = kind /\ CardOf(dev[p]) = Complete + 1
                             /\ PortOf(dev[p]) = p
  <2> SUFFICES ASSUME NEW p \in Ports(kind)
               PROVE  dev[p][1] = kind /\ CardOf(dev[p]) = Complete + 1 /\ PortOf(dev[p]) = p
    OBVIOUS
  <2> DEFINE f == <<kind, Complete * PciCards[kind].num_ports + p + 1>>
  <2>1. dev[p] = f
    BY <1>3
  <2>2. CardOf(f) = Complete + 1 /\ PortOf(f) = p
    BY <1>1, CardAndPort
  <2>3. f[1] = kind
    OBVIOUS
  <2> HIDE DEF f
  <2> QED  BY <2>1, <2>2, <2>3
<1>5. /\ ctrl[1] = a /\ ctrl[2] = IF mdio THEN <<0, try[2]>> ELSE b
  BY DEF Control
<1>6. try = <<try[1], try[2]>>
  BY <1>1, TriesFacts
<1> HIDE DEF try, ctrl
<1>7. CASE mdio
  <2>1. Accessible(ctrl) <=> card.alive /\ card.ctrl = <<try[1], try[2]>>
    BY <1>2, <1>4, <1>5, <1>7 DEF Accessible
  <2> QED  BY <1>2, <1>4, <1>5, <1>6, <2>1 DEF dev, try, ctrl
<1>8. CASE ~mdio
  <2>1. Accessible(ctrl) <=> card.alive /\ card.ctrl = <<try[1], try[2]>>
    BY <1>1, <1>2, <1>4, <1>5, <1>8 DEF Accessible
  <2> QED  BY <1>2, <1>4, <1>5, <1>6, <2>1 DEF dev, try, ctrl
<1> QED  BY <1>7, <1>8

\* An entry that is kept is the card whose last port was taken.
LEMMA EntryFinished ==
  ASSUME ScanInv, CursorInv, Straight, FinishCard,
         NEW s, s = maxcard, NEW k, k = kind, NEW c, c = Complete + 1, machine[k][c].alive
  PROVE  Answers # {} /\ IsCard(s, k, c)'
<1> DEFINE dev == Moved(cards[maxcard].pci_dev)
<1>1. kind \in Kind /\ machine \in Machines /\ c \in DOMAIN machine[kind]
  BY ScanFacts, FinishCardOf
<1>2. Answers # {}
  <2>1. PICK t \in DOMAIN Tries(kind) : Tries(kind)[t] = machine[kind][c].ctrl
    BY <1>1, ControlAssumption
  <2>2. Accessible(Control(dev, kind, Tries(kind)[t]))
    BY <2>1, Answering
  <2> QED  BY <2>2 DEF Answers
<1>3. PICK t \in DOMAIN Tries(kind) :
        t \in Answers /\ hw_ctrl'[maxcard] = Control(dev, kind, Tries(kind)[t])
  BY <1>2, FinishCtrl
<1>4. /\ machine' = machine /\ cards'[maxcard].kind = kind
      /\ cards'[maxcard].pci_dev = dev
  BY FinishFacts
<1>5. /\ Accessible(hw_ctrl'[maxcard]) /\ hw_ctrl'[maxcard][1][1] = kind
      /\ CardOf(hw_ctrl'[maxcard][1]) = c
  BY <1>3, Answering DEF Answers
<1>6. \A p \in Ports(kind) :
        dev[p] = <<kind, (c - 1) * PciCards[kind].num_ports + Swapped(kind, p) + 1>>
  <2>1. c - 1 = Complete
    BY DEF CursorInv
  <2> QED  BY <2>1, FinishCardOf
<1> HIDE DEF dev
<1>7. Accessible(hw_ctrl[s])'
  BY <1>4, <1>5 DEF Accessible, CardOf, PortOf
<1>8. IsCard(s, k, c)'
  BY <1>4, <1>5, <1>6, <1>7 DEF IsCard, CardOf, Ports, Swapped
<1> QED  BY <1>2, <1>8

LEMMA EntriesFinish ==
  ASSUME ScanInv, EntriesInv, Straight, FinishCard
  PROVE  EntriesInv'
<1> DEFINE n == PciCards[kind].num_ports
           dev == Moved(cards[maxcard].pci_dev)
<1> PICK c : c = Complete + 1
  OBVIOUS
<1>1. /\ CursorInv /\ EntriesAre(Behind) /\ phase' = "scan" /\ port_in_card' = 0
      /\ machine' = machine /\ kind' = kind /\ refs' = refs
      /\ port_in_card = n /\ maxcard \in Slot /\ maxcard \in Nat
      /\ \A s \in Slot \ {maxcard} : cards'[s] = cards[s]
      /\ cards'[maxcard].kind = kind /\ cards'[maxcard].pci_dev = dev
  BY FinishFacts, ScanFacts DEF EntriesInv, Scanning
<1>2. Cards' = Cards /\ Alive' = Alive
  BY <1>1, SameCards
<1>3. /\ Complete \in Nat /\ cursor[2] = Complete * n + n /\ n \in {2, 4, 6, 8}
      /\ kind \in Kind /\ kind \in Nat
  BY <1>1, ScanFacts, KindFacts DEF CursorInv
<1>4. cursor' = cursor
  BY FinishFacts, FinishCardOf, <1>1
<1>5. cursor[2] = c * n /\ cursor[2] \div n = c
  <2>1. cursor[2] = c * n
    BY <1>3, Multiple
  <2>2. c \in Nat /\ 0 \in 0..(n - 1)
    BY <1>3
  <2> HIDE DEF n
  <2>3. (c * n + 0) \div n = c
    BY <1>3, <2>2, Quotient
  <2>4. c * n + 0 = c * n
    BY <1>3, <2>2, Multiple
  <2> QED  BY <2>1, <2>3, <2>4
<1>6. Complete' = c
  <2>1. cursor[2] - 0 = cursor[2]
    BY ScanFacts
  <2> QED  BY <1>1, <1>4, <1>5, <2>1 DEF Complete
<1>7. CursorInv'
  <2>1. c \in Nat /\ \A p \in 0..7 : ~(p < 0)
    BY <1>3
  <2>2. cursor[2] = c * n + 0
    BY <1>5, ScanFacts
  <2>3. \A f \in AllFunctions : refs[f] = IF f = cursor /\ f # NoDev THEN 1 ELSE 0
    BY <1>1 DEF CursorInv
  <2> QED  BY <1>1, <1>4, <1>6, <2>1, <2>2, <2>3 DEF CursorInv
<1>8. EntriesAre(Behind)'
  <2> DEFINE me == <<kind, c>>
  <2>1. me \in Cards
    BY <1>1, FinishCardOf
  <2>2. me \notin Behind
    <3>1. ~(c <= Complete)
      BY <1>3
    <3> QED  BY <1>3, <3>1 DEF Behind
  <2>3. \A a \in Alive : a \in Behind' <=> a \in Behind \/ a = me
    <3> SUFFICES ASSUME NEW a \in Alive PROVE a \in Behind' <=> a \in Behind \/ a = me
      OBVIOUS
    <3> PICK k \in Kind : \E i \in DOMAIN machine[k] : a = <<k, i>>
      BY DEF Alive, Cards
    <3>1. PICK i \in DOMAIN machine[k] : a = <<k, i>>
      OBVIOUS
    <3>2. k \in Nat /\ i \in Nat
      BY <3>1, ScanFacts, KindFacts, MachineFacts
    <3>3. k < kind \/ (k = kind /\ i <= c) <=>
            (k < kind \/ (k = kind /\ i <= Complete)) \/ (k = kind /\ i = c)
      BY <1>3, <3>2
    <3> QED  BY <1>1, <1>2, <1>6, <3>1, <3>3 DEF Behind
  <2>4. \A s \in Slot : \A a : s < maxcard /\ IsCard(s, a[1], a[2]) =>
          IsCard(s, a[1], a[2])'
    <3> SUFFICES ASSUME NEW s \in Slot, NEW a, s < maxcard, IsCard(s, a[1], a[2])
                 PROVE  IsCard(s, a[1], a[2])'
      OBVIOUS
    <3>1. s # maxcard
      BY <1>1
    <3>2. hw_ctrl'[s] = hw_ctrl[s]
      BY <3>1, FinishCtrl
    <3> QED  BY <1>1, <3>1, <3>2, SameEntry
  <2>5. \A s \in Slot : s < maxcard => \E a \in Behind : IsCard(s, a[1], a[2])'
    BY <1>1, <2>4 DEF EntriesAre
  <2>6. \A a \in Behind : \E s \in Slot : s < maxcard /\ IsCard(s, a[1], a[2])'
    BY <1>1, <2>4 DEF EntriesAre
  <2>7. CASE ~machine[kind][c].alive
    <3>1. Answers = {}
      BY <1>1, <2>7, Answering DEF Answers
    <3>2. maxcard' = maxcard
      BY <3>1, FinishFacts
    <3>3. me \notin Alive
      BY <2>7 DEF Alive
    <3>4. Behind' = Behind
      BY <1>2, <2>3, <3>3 DEF Behind
    <3> QED  BY <1>1, <2>5, <2>6, <3>2, <3>4 DEF EntriesAre
  <2>8. CASE machine[kind][c].alive
    <3> PICK s0 \in Slot, k0 \in Kind : s0 = maxcard /\ k0 = kind
      BY <1>1, ScanFacts
    <3>1. Answers # {} /\ IsCard(s0, k0, c)'
      BY <1>1, <2>8, EntryFinished
    <3>2. maxcard' = maxcard + 1
      BY <3>1, FinishFacts
    <3>3. me \in Alive
      BY <2>1, <2>8 DEF Alive
    <3>4. Behind' = Behind \cup {me}
      BY <1>2, <2>3, <3>3 DEF Behind
    <3>5. Cardinality(Behind \cup {me}) = Cardinality(Behind) + 1
      BY <2>2, ScanFacts, CardsFinite, FS_AddElement
    <3>6. maxcard' = Cardinality(Behind')
      BY <1>1, <3>2, <3>4, <3>5 DEF EntriesAre
    <3>7. \A s \in Slot : s < maxcard + 1 <=> s < maxcard \/ s = maxcard
      BY <1>1 DEF Slot
    <3>8. \A s \in Slot : s < maxcard' => \E a \in Behind' : IsCard(s, a[1], a[2])'
      <4> SUFFICES ASSUME NEW s \in Slot, s < maxcard'
                   PROVE  \E a \in Behind' : IsCard(s, a[1], a[2])'
        OBVIOUS
      <4>1. CASE s < maxcard
        BY <2>5, <3>4, <4>1
      <4>2. CASE s = maxcard
        <5> PICK a : a = <<k0, c>>
          OBVIOUS
        <5>1. s = s0 /\ a \in Behind' /\ a[1] = k0 /\ a[2] = c
          BY <3>4, <4>2
        <5>2. IsCard(s, a[1], a[2])'
          BY <3>1, <5>1
        <5> QED  BY <5>1, <5>2
      <4> QED  BY <3>2, <3>7, <4>1, <4>2
    <3>9. \A a \in Behind' : \E s \in Slot : s < maxcard' /\ IsCard(s, a[1], a[2])'
      BY <1>1, <2>6, <3>1, <3>2, <3>4, <3>7
    <3> QED  BY <3>6, <3>8, <3>9 DEF EntriesAre
  <2> QED  BY <2>7, <2>8
<1> QED  BY <1>1, <1>7, <1>8 DEF EntriesInv

LEMMA EntriesNextKind ==
  ASSUME ScanInv, EntriesInv, NextKind
  PROVE  EntriesInv'
<1> DEFINE n == PciCards[kind].num_ports
           len == Len(machine[kind])
<1>1. /\ CursorInv /\ EntriesAre(Behind) /\ phase = "scan" /\ port_in_card' = 0
      /\ machine' = machine /\ cards' = cards /\ maxcard' = maxcard /\ hw_ctrl' = hw_ctrl
      /\ cursor' = NoDev /\ kind \in Kind /\ kind \in Nat
  BY ScanFacts, KindFacts DEF EntriesInv, Scanning, NextKind
<1>2. Cards' = Cards /\ Alive' = Alive
  BY <1>1, SameCards
<1>3. \A f \in AllFunctions : refs'[f] = 0
  <2>1. /\ refs \in [AllFunctions -> Int] /\ cursor \in AllFunctions
        /\ \A f \in AllFunctions : refs[f] = IF f = cursor /\ f # NoDev THEN 1 ELSE 0
        /\ refs' = IF cursor = NoDev THEN refs ELSE [refs EXCEPT ![cursor] = @ - 1]
    BY <1>1, ScanFacts DEF CursorInv, NextKind
  <2> QED  BY <2>1
<1>4. Complete = len
  <2>1. /\ n \in {2, 4, 6, 8} /\ port_in_card \in 0..(n - 1) /\ len \in Nat
        /\ Complete \in Nat /\ cursor[2] = Complete * n + port_in_card
        /\ cursor[2] = len * n
    BY <1>1, KindFacts, ScanFacts, MachineFacts
       DEF CursorInv, NextKind, Functions, ScanInv, PlaceInv
  <2> HIDE DEF n, len
  <2>2. port_in_card \in 0..n /\ port_in_card < n
    BY <2>1
  <2> QED  BY <2>1, <2>2, Multiple
\* Of the kinds up to this one no card lies ahead.
<1>5. \A a \in Alive : /\ a[1] \in Kind /\ a[1] \in Nat /\ a[2] \in Nat /\ a[2] > 0
                       /\ a \in Behind <=> a[1] <= kind
  <2> SUFFICES ASSUME NEW a \in Alive
               PROVE  /\ a[1] \in Kind /\ a[1] \in Nat /\ a[2] \in Nat /\ a[2] > 0
                      /\ a \in Behind <=> a[1] <= kind
    OBVIOUS
  <2> PICK k \in Kind : \E i \in DOMAIN machine[k] : a = <<k, i>>
    BY DEF Alive, Cards
  <2>1. PICK i \in DOMAIN machine[k] : a = <<k, i>>
    OBVIOUS
  <2>2. /\ k \in Nat /\ DOMAIN machine[k] = 1..Len(machine[k]) /\ Len(machine[k]) \in Nat
    BY ScanFacts, KindFacts, MachineFacts
  <2>3. i \in Nat /\ i > 0 /\ (k = kind => i <= Complete)
    BY <1>4, <2>1, <2>2
  <2>4. a \in Behind <=> k < kind \/ (k = kind /\ i <= Complete)
    BY <2>1 DEF Behind
  <2> QED  BY <1>1, <2>1, <2>2, <2>3, <2>4
<1>6. CASE kind < Len(PciCards)
  <2>1. kind' = kind + 1 /\ phase' = "scan"
    BY <1>1, <1>6 DEF NextKind
  <2>2. Complete' = 0
    <3> PICK m : m = PciCards[kind'].num_ports
      OBVIOUS
    <3>1. kind + 1 \in Kind
      BY <1>1, <1>6, ScanAssumption DEF Kind
    <3>2. m \in {2, 4, 6, 8}
      BY <2>1, <3>1, KindFacts
    <3>3. (0 - 0) \div m = 0
      BY <3>2
    <3> QED  BY <1>1, <3>3 DEF Complete, NoDev
  <2>3. Behind' = Behind
    <3>1. \A a \in Alive : a \in Behind' <=> a \in Behind
      <4> SUFFICES ASSUME NEW a \in Alive PROVE a \in Behind' <=> a \in Behind
        OBVIOUS
      <4>1. a \in Behind' <=> a[1] < kind + 1 \/ (a[1] = kind + 1 /\ a[2] <= 0)
        BY <1>2, <2>1, <2>2 DEF Behind
      <4> QED  BY <1>1, <1>5, <4>1
    <3> QED  BY <1>2, <3>1 DEF Behind
  <2>4. EntriesAre(Behind)'
    <3>1. \A s, k, c : IsCard(s, k, c)' <=> IsCard(s, k, c)
      BY <1>1, SameEntry
    <3> QED  BY <1>1, <2>3, <3>1 DEF EntriesAre
  <2>5. CursorInv'
    <3> PICK m : m = PciCards[kind'].num_ports
      OBVIOUS
    <3>1. kind + 1 \in Kind
      BY <1>1, <1>6, ScanAssumption DEF Kind
    <3>2. m \in {2, 4, 6, 8}
      BY <2>1, <3>1, KindFacts
    <3>3. 0 = 0 * m + 0 /\ \A p \in 0..7 : ~(p < 0)
      BY <3>2
    <3>4. cursor'[2] = 0
      BY <1>1 DEF NoDev
    <3> QED  BY <1>1, <1>3, <2>2, <3>3, <3>4 DEF CursorInv
  <2> QED  BY <2>1, <2>4, <2>5 DEF EntriesInv
<1>7. CASE ~(kind < Len(PciCards))
  <2>1. phase' = IF maxcard = 0 THEN "ENXIO" ELSE "found"
    BY <1>7 DEF NextKind
  <2>2. Behind = Alive
    <3>1. \A k \in Kind : k <= kind
      BY <1>1, <1>7, ScanAssumption DEF Kind
    <3> QED  BY <1>5, <3>1 DEF Behind
  <2>3. CASE maxcard = 0
    <3>1. Cardinality(Alive) = 0 /\ IsFiniteSet(Alive)
      BY <1>1, <2>2, <2>3, ScanFacts, CardsFinite DEF EntriesAre
    <3>2. Alive = {}
      BY <3>1, FS_EmptySet
    <3> QED  BY <1>2, <2>1, <2>3, <3>2 DEF EntriesInv, Scanning
  <2>4. CASE maxcard # 0
    <3>1. EntriesAre(Alive)'
      <4>1. \A s, k, c : IsCard(s, k, c)' <=> IsCard(s, k, c)
        BY <1>1, SameEntry
      <4> QED  BY <1>1, <1>2, <2>2, <4>1 DEF EntriesAre
    <3> QED  BY <1>3, <2>1, <2>4, <3>1 DEF EntriesInv, Scanning
  <2> QED  BY <2>3, <2>4
<1> QED  BY <1>6, <1>7

LEMMA EntriesKeep ==
  ASSUME EntriesInv, UNCHANGED scanvars
  PROVE  EntriesInv'
<1>1. /\ machine' = machine /\ phase' = phase /\ kind' = kind /\ cursor' = cursor
      /\ port_in_card' = port_in_card /\ cards' = cards /\ maxcard' = maxcard
      /\ hw_ctrl' = hw_ctrl /\ refs' = refs
  BY DEF scanvars
<1>2. Cards' = Cards /\ Alive' = Alive
  BY <1>1, SameCards
<1>3. Complete' = Complete /\ Behind' = Behind
  BY <1>1, <1>2 DEF Complete, Behind
<1>4. \A s, k, c : IsCard(s, k, c)' <=> IsCard(s, k, c)
  BY <1>1, SameEntry
<1>5. EntriesAre(Behind)' <=> EntriesAre(Behind)
  BY <1>1, <1>3, <1>4 DEF EntriesAre
<1>6. EntriesAre(Alive)' <=> EntriesAre(Alive)
  BY <1>1, <1>2, <1>4 DEF EntriesAre
<1>7. CursorInv' <=> CursorInv
  BY <1>1, <1>3 DEF CursorInv
<1>8. phase = "ENXIO" => \/ Alive' = {}
                       \/ \E c \in Cards' : ~(Ports(c[1]) \subseteq machine'[c[1]][c[2]].net)
  BY <1>1, <1>2 DEF EntriesInv
<1> QED  BY <1>1, <1>2, <1>5, <1>6, <1>7, <1>8 DEF EntriesInv, Scanning, Ports

LEMMA EntriesInit ==
  ASSUME LoadInit
  PROVE  EntriesInv
<1>1. /\ phase = "scan" /\ kind = 1 /\ cursor = <<0, 0>> /\ port_in_card = 0 /\ maxcard = 0
      /\ \A f \in AllFunctions : refs[f] = 0
  BY DEF LoadInit, Init, NoDev
<1>2. ScanInv /\ 1 \in Kind
  BY ScanInit, ScanAssumption DEF LoadInit, Kind
<1>3. Complete = 0
  <2>1. PciCards[1].num_ports \in {2, 4, 6, 8}
    BY <1>2, KindFacts
  <2> QED  BY <1>1, <2>1 DEF Complete
<1>4. Behind = {}
  <2>1. ASSUME NEW a \in Behind PROVE FALSE
    <3> PICK k \in Kind : \E i \in DOMAIN machine[k] : a = <<k, i>>
      BY <2>1 DEF Behind, Alive, Cards
    <3>1. PICK i \in DOMAIN machine[k] : a = <<k, i>>
      OBVIOUS
    <3>2. k \in Nat /\ k # 0 /\ i \in Nat /\ i > 0
      BY <1>2, <3>1, ScanFacts, KindFacts, MachineFacts
    <3>3. k < 1 \/ (k = 1 /\ i <= 0)
      BY <1>1, <1>3, <2>1, <3>1 DEF Behind
    <3> QED  BY <3>2, <3>3
  <2> QED  BY <2>1
<1>5. EntriesAre(Behind)
  <2>1. Cardinality(Behind) = 0
    BY <1>4, FS_EmptySet
  <2>2. \A s \in Slot : ~(s < 0)
    BY ScanAssumption DEF Slot
  <2> QED  BY <1>1, <1>4, <2>1, <2>2 DEF EntriesAre
<1>6. CursorInv
  <2>1. PciCards[1].num_ports \in {2, 4, 6, 8}
    BY <1>2, KindFacts
  <2>2. 0 = 0 * PciCards[1].num_ports + 0
    BY <2>1
  <2>3. \A p \in 0..7 : ~(p < 0)
    OBVIOUS
  <2>4. cursor[2] = 0 /\ NoDev = <<0, 0>>
    BY <1>1 DEF NoDev
  <2> QED  BY <1>1, <1>3, <2>2, <2>3, <2>4 DEF CursorInv
<1> QED  BY <1>1, <1>5, <1>6 DEF EntriesInv

\* The scan of niagara_init is exact in a machine whose cards exchange no
\* segments: it finds each card whose CPLD answers once, with its ports and its
\* control ports, gives its references back, and fails only where it has to.
THEOREM ScanIsExact == Spec => []ScanExactUnlessSwapped
<1>1. LoadInit => (Straight => EntriesInv)
  BY EntriesInit
<1>2. ScanInv /\ (Straight => EntriesInv) /\ [Next]_vars => (Straight => EntriesInv)'
  <2> SUFFICES ASSUME ScanInv, Straight => EntriesInv, [Next]_vars, Straight'
               PROVE  EntriesInv'
    OBVIOUS
  <2>1. machine' = machine
    BY Apart DEF Scan, TakeDevice, FinishCard, Finish, NextKind, scanvars
  <2>2. EntriesInv /\ Straight
    BY <2>1 DEF Straight
  <2> QED  BY <2>2, Apart, EntriesTake, EntriesFinish, EntriesNextKind, EntriesKeep DEF Scan
<1>3. ScanInv /\ (Straight => EntriesInv) => ScanExactUnlessSwapped
  <2> SUFFICES ASSUME ScanInv, Straight, EntriesInv PROVE ScanExactUnlessSwapped
    BY DEF ScanExactUnlessSwapped, Straight
  <2>1. CASE phase = "found"
    <3>1. EntriesAre(Alive) /\ \A f \in AllFunctions : refs[f] = 0
      BY <2>1 DEF EntriesInv
    <3>2. \A s : s \in 0..(maxcard - 1) <=> s \in Slot /\ s < maxcard
      BY ScanFacts DEF Slot
    <3>3. \A a \in Alive : a[1] \in Kind /\ a[2] \in DOMAIN machine[a[1]]
      BY DEF Alive, Cards
    <3>4. CardsArePhysical
      BY <3>1, <3>2, <3>3 DEF CardsArePhysical, EntriesAre
    <3>5. \A c \in Alive : \E s \in 0..(maxcard - 1) : IsCard(s, c[1], c[2])
      BY <3>1, <3>2 DEF EntriesAre
    <3>6. maxcard = Cardinality(Alive)
      BY <3>1 DEF EntriesAre
    <3> QED  BY <2>1, <3>1, <3>4, <3>5, <3>6 DEF ScanExactUnlessSwapped
  <2>2. CASE phase = "ENXIO"
    BY <2>2 DEF EntriesInv, ScanExactUnlessSwapped
  <2>3. CASE phase = "E2BIG"
    BY <2>3 DEF EntriesInv, ScanExactUnlessSwapped
  <2>4. CASE phase \notin {"found", "ENXIO", "E2BIG"}
    BY <2>4 DEF ScanExactUnlessSwapped
  <2> QED  BY <2>1, <2>2, <2>3, <2>4
<1> QED  BY <1>1, <1>2, <1>3, ScanInvariant, PTL DEF Spec

(* niagara_init and niagara_destroy *)

\* The entries do not change any more once the scan is through.
LEMMA SameWorld ==
  ASSUME UNCHANGED scanvars
  PROVE  /\ maxcard' = maxcard /\ phase' = phase /\ Entry' = Entry
         /\ \A i : Seg(i)' = Seg(i) /\ DriverOf(i)' = DriverOf(i)
BY DEF scanvars, Entry, Seg, DriverOf

LEMMA EntryFacts ==
  ASSUME ScanInv
  PROVE  /\ Entry \subseteq Slot /\ maxcard \in Nat /\ Slot \subseteq Nat
         /\ \A i \in Entry : /\ cards[i].kind \in Kind /\ DriverOf(i) \in Driver
                             /\ 0 \in Seg(i) /\ Seg(i) \subseteq 0..3
         /\ phase = "found" => 0 \in Entry
<1>1. maxcard \in 0..MAX_CARD /\ MAX_CARD \in Nat
  BY ScanFacts
<1>2. Entry \subseteq Slot /\ maxcard \in Nat /\ Slot \subseteq Nat
  BY <1>1 DEF Entry, Slot
<1>3. \A i \in Entry : i \in Slot /\ i < maxcard
  BY <1>1 DEF Entry, Slot
<1>4. \A i \in Entry : cards[i].kind \in Kind /\ cards[i].pci_dev[0][1] = cards[i].kind
  BY <1>3 DEF ScanInv, PlaceInv
<1>5. \A i \in Entry : DriverOf(i) \in Driver
  BY <1>4 DEF DriverOf, Driver
<1>6. \A i \in Entry : 0 \in Seg(i) /\ Seg(i) \subseteq 0..3
  BY <1>4, KindFacts DEF Seg
<1>7. phase = "found" => 0 \in Entry
  BY <1>1 DEF ScanInv, PlaceInv, Entry
<1> QED  BY <1>2, <1>4, <1>5, <1>6, <1>7

\* Where niagara_init and niagara_destroy are, and what the files and the bits
\* of the LFD thread are about: entries of cards[] and their segments.
NoUsers == \A u \in User : user[u] = Out
StepInv ==
  /\ at = 0 \/ at < maxcard
  /\ step \in {"region", "sema", "thread", "up", "live", "deinit", "kthread_stop", "gone"} =>
       at = 0
  /\ phase # "found" => /\ step = "region" /\ file = {} /\ stray = {}
                        /\ going = {} /\ freed = {} /\ lfd_active_bmp = {} /\ escaped = {} /\ at = 0 /\ ~crash
                        /\ NoUsers
FilesInv ==
  /\ \A f \in file : f.card \in Entry /\ f.seg \in Seg(f.card) \cup {-1}
  /\ \A t \in lfd_active_bmp : t \in Int \X Int /\ t[1] \in Entry /\ t[2] \in Seg(t[1])
LoadInv == TypeOK /\ StepInv /\ FilesInv

\* What the types say, without crash: it is a formula rather than a value.
FileType == [via : {"sysfs", "proc"}, card : Slot, seg : -1..3]
LEMMA TypeFacts ==
  ASSUME LoadInv
  PROVE  /\ at \in Slot /\ stray \subseteq FileType /\ file \subseteq FileType
         /\ lfd_active_bmp \subseteq Slot \X (0..3) /\ faults \in 0..MaxFaults
         /\ bound \subseteq Driver /\ going \subseteq bound /\ freed \subseteq Driver
         /\ escaped \subseteq freed \cup going
         /\ pins \in [Driver -> Int] /\ moves \in 0..MaxMoves
         /\ at = 0 \/ at < maxcard
         /\ \A f \in file : f.card \in Entry /\ f.seg \in Seg(f.card) \cup {-1}
BY DEF LoadInv, TypeOK, StepInv, FilesInv, FileType

LEMMA AtFacts ==
  ASSUME ScanInv, LoadInv, phase = "found"
  PROVE  /\ at \in Entry /\ at \in Nat /\ at < maxcard /\ maxcard \in Nat /\ 0 \in Slot
         /\ \A i \in Nat : i < maxcard => i \in Slot /\ i \in Entry
<1>1. at \in Nat /\ maxcard \in Nat /\ 0 \in Slot /\ (at = 0 \/ at < maxcard) /\ 0 \in Entry
  BY EntryFacts, TypeFacts
<1>2. \A i \in Nat : i < maxcard => i \in Entry
  BY <1>1 DEF Entry
<1>3. at < maxcard
  BY <1>1 DEF Entry
<1> QED  BY <1>1, <1>2, <1>3, EntryFacts

\* A loop goes on with the next card, or to the next step after the last.
LEMMA LoopStep ==
  ASSUME ScanInv, LoadInv, phase = "found", NEW next, Loop(next)
  PROVE  /\ at \in Entry /\ at \in Nat /\ at' \in Slot /\ at' \in Nat
         /\ at' = 0 \/ at' < maxcard
         /\ \/ at' = at + 1 /\ step' = step /\ at + 1 < maxcard
            \/ at' = 0 /\ step' = next /\ at + 1 = maxcard
BY AtFacts DEF Loop

LEMMA FileFacts ==
  ASSUME ScanInv, NEW via \in {"sysfs", "proc"}, NEW i \in Entry,
         NEW segs, segs \subseteq Seg(i) \cup {-1}
  PROVE  /\ Files(via, i, segs) \subseteq [via : {"sysfs", "proc"}, card : Slot, seg : -1..3]
         /\ \A f \in Files(via, i, segs) : f.card \in Entry /\ f.seg \in Seg(f.card) \cup {-1}
<1>1. segs \subseteq -1..3 /\ i \in Slot
  BY EntryFacts
<1> QED  BY <1>1 DEF Files

LEMMA LoadInitInv == LoadInit => LoadInv
<1> SUFFICES ASSUME LoadInit PROVE LoadInv
  OBVIOUS
<1>1. ScanTypeOK
  BY ScanInit DEF LoadInit, ScanInv
<1>2. 0 \in Slot /\ 0 \in 0..MaxFaults /\ 0 \in 0..MaxMoves
  BY ScanAssumption, LoadAssumption DEF Slot
<1>3. user \in [User -> [via : {"none", "sysfs", "proc"}, card : Slot, seg : -1..3,
                         op : {"none", "lfd 0", "lfd 1", "port"}]]
  BY <1>2 DEF LoadInit, Out
<1>4. pins \in [Driver -> Int] /\ bound \subseteq Driver
  BY DEF LoadInit
<1> QED  BY <1>1, <1>2, <1>3, <1>4
         DEF LoadInit, LoadInv, TypeOK, StepInv, FilesInv, NoUsers, Raw

\* One step of niagara_init up to the files.
LEMMA InitFiles ==
  ASSUME ScanInv, LoadInv, Region \/ Device \/ CardFiles \/ SegmentFiles
  PROVE  LoadInv'
<1>1. /\ phase = "found" /\ UNCHANGED scanvars /\ UNCHANGED kernel /\ stray' = stray
  BY DEF Region, Device, CardFiles, SegmentFiles, Running
<1>a. /\ at \in Entry /\ at \in Nat /\ at < maxcard /\ maxcard \in Nat /\ 0 \in Slot
      /\ \A i \in Nat : i < maxcard => i \in Slot /\ i \in Entry
  BY <1>1, AtFacts
<1>b. ScanTypeOK'
  BY <1>1, ScanKeeps DEF ScanInv
<1>2. faults' \in 0..MaxFaults
  <2>1. faults \in 0..MaxFaults /\ MaxFaults \in Nat
    BY TypeFacts, LoadAssumption
  <2>2. faults' = faults \/ (faults < MaxFaults /\ faults' = faults + 1)
    BY DEF Region, Device, CardFiles, SegmentFiles, Fail
  <2> QED  BY <2>1, <2>2
<1>3. /\ file' \subseteq [via : {"sysfs", "proc"}, card : Slot, seg : -1..3]
      /\ \A f \in file' : f.card \in Entry /\ f.seg \in Seg(f.card) \cup {-1}
  <2>1. /\ file \subseteq [via : {"sysfs", "proc"}, card : Slot, seg : -1..3]
        /\ \A f \in file : f.card \in Entry /\ f.seg \in Seg(f.card) \cup {-1}
    BY DEF LoadInv, TypeOK, FilesInv
  <2>2. \E segs : segs \subseteq Seg(at) \cup {-1} /\ file' \in {file, file \cup Files("sysfs", at, segs)}
    <3>1. CASE Region \/ Device
      BY <3>1 DEF Region, Device
    <3>2. CASE CardFiles
      BY <3>2 DEF CardFiles
    <3>3. CASE SegmentFiles
      BY <3>3 DEF SegmentFiles
    <3> QED  BY <3>1, <3>2, <3>3
  <2> QED  BY <1>a, <2>1, <2>2, FileFacts
<1>4. /\ at' \in Slot /\ (at' = 0 \/ at' < maxcard)
      /\ step' \in {"device", "card files", "segments", "procfs", "failed"}
  <2>1. at \in Slot /\ at < maxcard /\ at + 1 \in Nat
    BY <1>a
  <2>2. at + 1 < maxcard => at + 1 \in Slot
    BY <1>a, <2>1
  <2>3. CASE Region \/ Device \/ CardFiles
    BY <2>1, <2>3 DEF Region, Device, CardFiles, Fail
  <2>4. CASE SegmentFiles
    BY <1>a, <2>1, <2>2, <2>4 DEF SegmentFiles, Fail
  <2> QED  BY <2>3, <2>4
<1>5. phase' = phase /\ maxcard' = maxcard /\ Entry' = Entry /\ \A i : Seg(i)' = Seg(i)
  BY <1>1, SameWorld
<1>6. TypeOK'
  BY <1>1, <1>b, <1>2, <1>3, <1>4 DEF LoadInv, TypeOK, kernel, world, drivers, lfdvars
<1>7. StepInv'
  BY <1>1, <1>4, <1>5 DEF StepInv, Running
<1>8. FilesInv'
  BY <1>1, <1>3, <1>5 DEF LoadInv, FilesInv, kernel, world, drivers, lfdvars
<1> QED  BY <1>6, <1>7, <1>8 DEF LoadInv

\* The rest of niagara_init.
LEMMA InitRest ==
  ASSUME ScanInv, LoadInv, ProcFiles \/ Pin \/ SemaInit \/ CreateThread \/ Up
  PROVE  LoadInv'
<1>1. /\ phase = "found" /\ UNCHANGED scanvars
      /\ UNCHANGED <<lfd_active_bmp, bound, going, freed, user, crash, moves, escaped>>
  BY DEF ProcFiles, Pin, SemaInit, CreateThread, Up, Running, kernel, world, drivers, lfdvars
<1>2. /\ at \in Entry /\ at \in Nat /\ at < maxcard /\ maxcard \in Nat /\ 0 \in Slot
      /\ \A i \in Nat : i < maxcard => i \in Slot /\ i \in Entry
  BY <1>1, AtFacts
<1>3. ScanTypeOK'
  BY <1>1, ScanKeeps DEF ScanInv
<1>4. faults' \in 0..MaxFaults
  <2>1. faults \in 0..MaxFaults /\ MaxFaults \in Nat
    BY TypeFacts, LoadAssumption
  <2>2. faults' = faults \/ (faults < MaxFaults /\ faults' = faults + 1)
    BY DEF ProcFiles, Pin, SemaInit, CreateThread, Up
  <2> QED  BY <2>1, <2>2
<1>5. /\ file' \subseteq FileType /\ stray' \subseteq FileType
      /\ \A f \in file' : f.card \in Entry /\ f.seg \in Seg(f.card) \cup {-1}
  <2>1. /\ file \subseteq FileType /\ stray \subseteq FileType
        /\ \A f \in file : f.card \in Entry /\ f.seg \in Seg(f.card) \cup {-1}
    BY TypeFacts, EntryFacts
  <2>2. CASE ProcFiles
    <3>1. \A i \in Entry :
            /\ ProcOf(i) \subseteq FileType
            /\ \A f \in ProcOf(i) : f.card \in Entry /\ f.seg \in Seg(f.card) \cup {-1}
      BY FileFacts DEF FileType, ProcOf
    <3>2. file' = file \cup ProcOf(at)
      BY <2>2 DEF ProcFiles
    <3>3. stray' = stray \/ \E more \in Strays(at) : stray' = stray \cup more
      BY <2>2 DEF ProcFiles
    <3>4. \A more \in Strays(at) : more \subseteq FileType
      <4>1. \A j \in Seg(at) : Files("proc", at, {j}) \subseteq FileType
        BY <1>2, FileFacts DEF FileType
      <4>2. UNION {ProcOf(k) : k \in Entry} \subseteq FileType
        BY <3>1
      <4> QED  BY <1>2, <3>1, <4>1, <4>2 DEF Strays
    <3> QED  BY <1>2, <2>1, <3>1, <3>2, <3>3, <3>4
  <2>3. CASE ~ProcFiles
    BY <2>1, <2>3 DEF Pin, SemaInit, CreateThread, Up
  <2> QED  BY <2>2, <2>3
<1>6. /\ at' \in Slot /\ (at' = 0 \/ at' < maxcard)
      /\ step' \in {"procfs", "pin", "sema", "thread", "up", "live"}
      /\ step' \notin {"procfs", "pin"} => at' = 0
  <2>1. CASE ProcFiles
    BY <1>1, <2>1, LoopStep DEF ProcFiles
  <2>2. CASE Pin
    BY <1>1, <2>2, LoopStep DEF Pin
  <2>3. CASE SemaInit \/ CreateThread \/ Up
    <3>1. step \in {"sema", "thread", "up"} /\ at' = at /\ step' \in {"thread", "up", "live"}
      BY <2>3 DEF SemaInit, CreateThread, Up
    <3>2. at = 0
      BY <3>1 DEF LoadInv, StepInv
    <3> QED  BY <1>2, <3>1, <3>2
  <2> QED  BY <2>1, <2>2, <2>3
<1>7. pins' \in [Driver -> Int]
  <2>1. pins \in [Driver -> Int] /\ DriverOf(at) \in Driver
    BY <1>2, TypeFacts, EntryFacts
  <2>2. CASE Pin
    BY <2>1, <2>2 DEF Pin
  <2>3. CASE ~Pin
    BY <2>1, <2>3 DEF ProcFiles, SemaInit, CreateThread, Up, kernel
  <2> QED  BY <2>2, <2>3
<1>8. sem' \in {Raw, 0, 1} /\ thread' \in {"none", "running", "error"}
  <2>1. sem \in {Raw, 0, 1} /\ thread \in {"none", "running", "error"}
    BY DEF LoadInv, TypeOK
  <2> QED  BY <2>1 DEF ProcFiles, Pin, SemaInit, CreateThread, Up, kernel, lfdvars
<1>9. phase' = phase /\ maxcard' = maxcard /\ Entry' = Entry /\ \A i : Seg(i)' = Seg(i)
  BY <1>1, SameWorld
<1>10. TypeOK'
  BY <1>1, <1>3, <1>4, <1>5, <1>6, <1>7, <1>8 DEF LoadInv, TypeOK, FileType
<1>11. StepInv'
  BY <1>1, <1>6, <1>9 DEF StepInv
<1>12. FilesInv'
  BY <1>1, <1>5, <1>9 DEF LoadInv, FilesInv
<1> QED  BY <1>10, <1>11, <1>12 DEF LoadInv

\* What a file is about is a segment of an entry, or refused.
LEMMA TargetFacts ==
  ASSUME ScanInv, NEW f
  PROVE  \/ Target(f) = <<-1, -1>>
         \/ /\ Target(f) \in Slot \X (0..3) /\ Target(f) \in Int \X Int
            /\ Target(f)[1] \in Entry /\ Target(f)[2] \in Seg(Target(f)[1])
<1> DEFINE t == IF f.via = "proc" THEN Unpack(Pack(f.card, f.seg)) ELSE <<f.card, f.seg>>
<1>1. t = <<t[1], t[2]>>
  BY DEF Unpack
<1>2. Target(f) = IF t[1] \in Entry /\ t[2] \in Seg(t[1]) THEN t ELSE <<-1, -1>>
  BY DEF Target
<1> HIDE DEF t
<1>3. ASSUME t[1] \in Entry, t[2] \in Seg(t[1])
      PROVE  t \in Slot \X (0..3) /\ t \in Int \X Int
  <2>1. t[1] \in Slot /\ t[2] \in 0..3 /\ Slot \subseteq Int
    BY <1>3, EntryFacts
  <2> QED  BY <1>1, <2>1
<1> QED  BY <1>2, <1>3

\* The users of the files, the LFD thread and the drivers.
LEMMA UserSteps ==
  ASSUME ScanInv, LoadInv,
         Users \/ LfdRound \/ (\E u \in User : Enter(u)) \/ (\E d \in Driver : MoveDriver(d))
  PROVE  LoadInv'
<1>1. /\ phase = "found" /\ UNCHANGED scanvars
      /\ UNCHANGED <<step, at, file, stray, sem, thread, pins, faults>>
  BY DEF Users, SetLfd, ReadPort, LfdRound, Enter, MoveDriver, Running, lfdvars
<1>2. ScanTypeOK'
  BY <1>1, ScanKeeps DEF ScanInv
<1>3. phase' = phase /\ maxcard' = maxcard /\ Entry' = Entry /\ \A i : Seg(i)' = Seg(i)
  BY <1>1, SameWorld
<1> DEFINE UserType == [via : {"none", "sysfs", "proc"}, card : Slot, seg : -1..3,
                        op : {"none", "lfd 0", "lfd 1", "port"}]
<1>4. /\ user \in [User -> UserType] /\ lfd_active_bmp \subseteq Slot \X (0..3)
      /\ \A t \in lfd_active_bmp : t \in Int \X Int /\ t[1] \in Entry /\ t[2] \in Seg(t[1])
      /\ bound \subseteq Driver /\ going \subseteq bound /\ freed \subseteq Driver
      /\ escaped \subseteq freed \cup going
      /\ moves \in 0..MaxMoves /\ crash \in BOOLEAN /\ file \subseteq FileType
  BY DEF LoadInv, TypeOK, FilesInv, FileType
<1>5. Out \in UserType
  <2>1. 0 \in Slot
    BY <1>1, AtFacts
  <2> QED  BY <2>1 DEF Out
<1>6. StepInv'
  BY <1>1, <1>3 DEF LoadInv, StepInv
\* It is enough to show the rest of the types and the bits.
<1> SUFFICES /\ user' \in [User -> UserType] /\ lfd_active_bmp' \subseteq Slot \X (0..3)
             /\ \A t \in lfd_active_bmp' : t \in Int \X Int /\ t[1] \in Entry /\ t[2] \in Seg(t[1])
             /\ bound' \subseteq Driver /\ going' \subseteq bound' /\ freed' \subseteq Driver
             /\ escaped' \subseteq freed' \cup going'
             /\ moves' \in 0..MaxMoves /\ crash' \in BOOLEAN
  <2> SUFFICES TypeOK' /\ FilesInv'
    BY <1>6 DEF LoadInv
  <2>1. TypeOK'
    BY <1>1, <1>2 DEF LoadInv, TypeOK
  <2>2. FilesInv'
    BY <1>1, <1>3 DEF LoadInv, FilesInv
  <2> QED  BY <2>1, <2>2
<1>7. ASSUME NEW u \in User, Enter(u)
      PROVE  /\ user' \in [User -> UserType] /\ crash' \in BOOLEAN
             /\ UNCHANGED <<lfd_active_bmp, drivers>>
  <2>1. PICK f \in file, op \in {"lfd 0", "lfd 1", "port"} :
          user' = [user EXCEPT ![u] = [via |-> f.via, card |-> f.card,
                                       seg |-> f.seg, op |-> op]]
    BY <1>7 DEF Enter
  <2>2. f.via \in {"sysfs", "proc"} /\ f.card \in Slot /\ f.seg \in -1..3
    BY <1>4 DEF FileType
  <2>3. [via |-> f.via, card |-> f.card, seg |-> f.seg, op |-> op] \in UserType
    BY <2>2
  <2>4. crash' \in BOOLEAN
    BY <1>7 DEF Enter, Freed
  <2> HIDE DEF UserType
  <2>5. user' \in [User -> UserType]
    BY <1>4, <2>1, <2>3
  <2> QED  BY <1>7, <2>4, <2>5 DEF Enter, lfdvars
<1>8. ASSUME NEW u \in User, SetLfd(u)
      PROVE  /\ user' \in [User -> UserType] /\ lfd_active_bmp' \subseteq Slot \X (0..3)
             /\ \A t \in lfd_active_bmp' : t \in Int \X Int /\ t[1] \in Entry /\ t[2] \in Seg(t[1])
             /\ UNCHANGED drivers /\ crash' \in BOOLEAN
  <2> DEFINE w == Target(Where(u))
             bits == IF user[u].op = "lfd 1" THEN lfd_active_bmp \cup {w}
                                             ELSE lfd_active_bmp \ {w}
             idle == bits = lfd_active_bmp \/ w = <<-1, -1>>
  <2>1. lfd_active_bmp' = IF idle THEN lfd_active_bmp ELSE bits
    BY <1>8 DEF SetLfd
  <2>2. /\ user' = [user EXCEPT ![u] = Out] /\ UNCHANGED drivers
    BY <1>8 DEF SetLfd
  <2>3. crash' \in BOOLEAN
    BY <1>8 DEF SetLfd
  <2>4. user' \in [User -> UserType]
    <3> HIDE DEF UserType
    <3> QED  BY <1>4, <1>5, <2>2
  <2>5. w # <<-1, -1>> => /\ w \in Slot \X (0..3) /\ w \in Int \X Int
                          /\ w[1] \in Entry /\ w[2] \in Seg(w[1])
    BY TargetFacts
  <2> HIDE DEF w
  <2>6. /\ lfd_active_bmp' \subseteq Slot \X (0..3)
        /\ \A t \in lfd_active_bmp' : t \in Int \X Int /\ t[1] \in Entry /\ t[2] \in Seg(t[1])
    BY <1>4, <2>1, <2>5
  <2> QED  BY <2>2, <2>3, <2>4, <2>6
<1>9. ASSUME NEW u \in User, ReadPort(u)
      PROVE  /\ user' \in [User -> UserType] /\ crash' \in BOOLEAN
             /\ UNCHANGED <<lfd_active_bmp, drivers>>
  <2>1. /\ user' = [user EXCEPT ![u] = Out]
        /\ UNCHANGED <<lfd_active_bmp, drivers>>
    BY <1>9 DEF ReadPort, lfdvars
  <2>2. crash' \in BOOLEAN
    BY <1>9 DEF ReadPort
  <2>3. user' \in [User -> UserType]
    <3> HIDE DEF UserType
    <3> QED  BY <1>4, <1>5, <2>1
  <2> QED  BY <2>1, <2>2, <2>3
<1>10. ASSUME LfdRound
       PROVE  UNCHANGED <<user, lfd_active_bmp, drivers>> /\ crash' \in BOOLEAN
  BY <1>10 DEF LfdRound, lfdvars
<1>11. ASSUME NEW d \in Driver, MoveDriver(d)
       PROVE  /\ UNCHANGED <<user, lfd_active_bmp, crash>>
              /\ bound' \subseteq Driver /\ going' \subseteq bound' /\ freed' \subseteq Driver
              /\ escaped' \subseteq freed' \cup going' /\ moves' \in 0..MaxMoves
  <2>1. UNCHANGED <<user, lfd_active_bmp, crash>>
    BY <1>11 DEF MoveDriver, lfdvars
  <2>2. moves' \in 0..MaxMoves
    <3>1. moves \in 0..MaxMoves /\ MaxMoves \in Nat
      BY TypeFacts, LoadAssumption
    <3>2. moves' = moves \/ (moves < MaxMoves /\ moves' = moves + 1)
      BY <1>11 DEF MoveDriver, DriverComes, DriverGoes, DriverGone
    <3> QED  BY <3>1, <3>2
  <2>3. /\ bound' \subseteq Driver /\ going' \subseteq bound' /\ freed' \subseteq Driver
        /\ escaped' \subseteq freed' \cup going'
    <3>1. CASE DriverComes(d)
      BY <1>4, <3>1 DEF DriverComes
    <3>2. CASE DriverGoes(d)
      <4>1. escaped' \in {escaped, escaped \cup {d}}
        BY <3>2 DEF DriverGoes
      <4> QED  BY <1>4, <3>2, <4>1 DEF DriverGoes
    <3>3. CASE DriverGone(d)
      BY <1>4, <3>3 DEF DriverGone
    <3> QED  BY <1>11, <3>1, <3>2, <3>3 DEF MoveDriver
  <2> QED  BY <2>1, <2>2, <2>3
<1> HIDE DEF UserType
<1> QED  BY <1>4, <1>7, <1>8, <1>9, <1>10, <1>11 DEF Users, drivers

(* niagara_destroy removes files and bits and makes none. *)
LEMMA DestroySteps ==
  ASSUME ScanInv, LoadInv, Unload \/ Unloading \/ ThreadEnds
  PROVE  LoadInv'
<1>1. /\ phase = "found" /\ UNCHANGED scanvars
      /\ UNCHANGED <<stray, sem, bound, going, freed, user, faults, moves, escaped>>
  BY DEF Unload, Unloading, DestroyDevice, DestroyProcFiles, StopSegments, Deinit, ThreadEnds,
         Unpin, Running, kernel, world, drivers, lfdvars
<1>2. /\ at \in Entry /\ at \in Nat /\ at < maxcard /\ maxcard \in Nat /\ 0 \in Slot
  BY <1>1, AtFacts
<1>3. ScanTypeOK'
  BY <1>1, ScanKeeps DEF ScanInv
<1>4. file' \subseteq file /\ lfd_active_bmp' \subseteq lfd_active_bmp
  <2>1. CASE Unload \/ Deinit \/ ThreadEnds \/ Unpin
    BY <2>1 DEF Unload, Deinit, ThreadEnds, Unpin, kernel, lfdvars
  <2>2. CASE DestroyDevice
    BY <2>2 DEF DestroyDevice, kernel, lfdvars
  <2>3. CASE DestroyProcFiles
    BY <2>3 DEF DestroyProcFiles, kernel, lfdvars
  <2>4. CASE StopSegments
    BY <2>4 DEF StopSegments
  <2> QED  BY <2>1, <2>2, <2>3, <2>4 DEF Unloading
<1>5. /\ at' \in Slot /\ (at' = 0 \/ at' < maxcard)
      /\ step' \in {"destroy devices", "destroy procfs", "stop", "deinit", "kthread_stop",
                   "unpin", "gone"}
      /\ step' \in {"deinit", "kthread_stop", "gone"} => at' = 0
  <2>1. CASE Unload \/ Deinit \/ ThreadEnds
    <3>1. /\ step \in {"live", "deinit", "kthread_stop"} /\ at' = at
          /\ step' \in {"destroy devices", "kthread_stop", "unpin"}
      BY <2>1 DEF Unload, Deinit, ThreadEnds
    <3>2. at = 0
      BY <3>1 DEF LoadInv, StepInv
    <3> QED  BY <1>2, <3>1, <3>2
  <2>2. CASE DestroyDevice
    BY <1>1, <2>2, LoopStep DEF DestroyDevice
  <2>3. CASE DestroyProcFiles
    BY <1>1, <2>3, LoopStep DEF DestroyProcFiles
  <2>4. CASE StopSegments
    <3>1. step = "stop" /\ Loop("deinit")
      BY <2>4 DEF StopSegments
    <3> QED  BY <1>1, <3>1, LoopStep
  <2>5. CASE Unpin
    BY <1>1, <2>5, LoopStep DEF Unpin
  <2> QED  BY <2>1, <2>2, <2>3, <2>4, <2>5 DEF Unloading
<1>6. pins' \in [Driver -> Int]
  <2>1. pins \in [Driver -> Int] /\ DriverOf(at) \in Driver
    BY <1>2, TypeFacts, EntryFacts
  <2>2. CASE Unpin
    BY <2>1, <2>2 DEF Unpin
  <2>3. CASE ~Unpin
    BY <2>1, <2>3 DEF Unload, Unloading, DestroyDevice, DestroyProcFiles, StopSegments,
                      Deinit, ThreadEnds, kernel
  <2> QED  BY <2>2, <2>3
<1>7. thread' \in {"none", "running", "error"}
  BY DEF LoadInv, TypeOK, Unload, Unloading, DestroyDevice, DestroyProcFiles, StopSegments,
         Deinit, ThreadEnds, Unpin, kernel, lfdvars
<1>8. crash' \in BOOLEAN
  <2>1. crash \in BOOLEAN
    BY DEF LoadInv, TypeOK
  <2>2. CASE StopSegments
    BY <2>2 DEF StopSegments
  <2>3. CASE Deinit
    BY <2>1, <2>3 DEF Deinit
  <2>4. CASE ~StopSegments /\ ~Deinit
    BY <2>1, <2>4 DEF Unload, Unloading, DestroyDevice, DestroyProcFiles, ThreadEnds, Unpin,
                      kernel, world
  <2> QED  BY <2>2, <2>3, <2>4
<1>9. phase' = phase /\ maxcard' = maxcard /\ Entry' = Entry /\ \A i : Seg(i)' = Seg(i)
  BY <1>1, SameWorld
<1>10. TypeOK'
  <2>1. /\ file \subseteq [via : {"sysfs", "proc"}, card : Slot, seg : -1..3]
        /\ lfd_active_bmp \subseteq Slot \X (0..3)
    BY DEF LoadInv, TypeOK
  <2>2. /\ file' \subseteq [via : {"sysfs", "proc"}, card : Slot, seg : -1..3]
        /\ lfd_active_bmp' \subseteq Slot \X (0..3)
    BY <1>4, <2>1
  <2> QED  BY <1>1, <1>3, <1>5, <1>6, <1>7, <1>8, <2>2 DEF LoadInv, TypeOK
<1>11. StepInv'
  BY <1>1, <1>5, <1>9 DEF StepInv
<1>12. FilesInv'
  BY <1>1, <1>4, <1>9 DEF LoadInv, FilesInv
<1> QED  BY <1>10, <1>11, <1>12 DEF LoadInv

\* During the scan nothing of all this is there.
LEMMA ScanSteps ==
  ASSUME ScanInv, LoadInv, Scan, UNCHANGED loadvars
  PROVE  LoadInv'
<1>1. phase # "found"
  BY DEF Scan, TakeDevice, FinishCard, Finish, NextKind
<1>2. /\ step = "region" /\ file = {} /\ stray = {} /\ going = {} /\ freed = {}
      /\ lfd_active_bmp = {}
      /\ escaped = {} /\ at = 0 /\ ~crash /\ NoUsers
  BY <1>1 DEF LoadInv, StepInv
<1>3. ScanTypeOK'
  BY ScanStep DEF ScanInv
<1>4. TypeOK'
  BY <1>3 DEF LoadInv, TypeOK, loadvars
<1>5. StepInv'
  BY <1>2 DEF StepInv, NoUsers, loadvars
<1>6. FilesInv'
  BY <1>2 DEF FilesInv, loadvars
<1> QED  BY <1>4, <1>5, <1>6 DEF LoadInv

LEMMA LoadKeeps ==
  ASSUME LoadInv, UNCHANGED <<scanvars, loadvars>>
  PROVE  LoadInv'
<1>1. phase' = phase /\ maxcard' = maxcard /\ Entry' = Entry /\ \A i : Seg(i)' = Seg(i)
  BY SameWorld
<1>2. ScanTypeOK'
  BY DEF LoadInv, TypeOK, ScanTypeOK, scanvars
<1>3. TypeOK'
  BY <1>2 DEF LoadInv, TypeOK, loadvars
<1>4. StepInv'
  BY <1>1 DEF LoadInv, StepInv, NoUsers, loadvars
<1>5. FilesInv'
  BY <1>1 DEF LoadInv, FilesInv, loadvars
<1> QED  BY <1>3, <1>4, <1>5 DEF LoadInv

LEMMA LoadInvariant == Spec => []LoadInv
<1>1. ScanInv /\ LoadInv /\ [Next]_vars => LoadInv'
  BY InitFiles, InitRest, UserSteps, DestroySteps, ScanSteps, LoadKeeps
     DEF Next, Loading, Ended, vars
<1> QED  BY <1>1, LoadInitInv, ScanInvariant, PTL DEF Spec

\* Types, for any machine, any users and any number of failures: the slots of
\* cards[] and the cards that niagara_init and niagara_destroy loop over stay in
\* bounds, and bits of lfd_active_bmp are those of slots.
THEOREM TypeCorrect == Spec => []TypeOK
<1>1. LoadInv => TypeOK
  BY DEF LoadInv
<1> QED  BY <1>1, LoadInvariant, PTL

\* A file that niagara_init makes reads and writes the segment it is named
\* after: four bits for the card and one for the segment come back out of the
\* word that procfs_create stores; only segments 2 and 3 of procfs do not.
THEOREM FilesAreTheirSegments == Spec => []OwnSegment
<1>1. ASSUME NEW i \in 0..15, NEW j \in 0..1
      PROVE  Unpack(Pack(i, j)) = <<i, j>>
  <2>1. ((i * 4 + j * 64) \div 4) % 16 = i /\ ((i * 4 + j * 64) \div 64) % 2 = j
    OBVIOUS
  <2> QED  BY <2>1 DEF Unpack, Pack
<1>2. ScanInv /\ LoadInv => OwnSegment
  <2> SUFFICES ASSUME ScanInv, LoadInv, NEW f \in file, f.seg # -1,
                      f.via = "proc" => f.seg < 2
               PROVE  Target(f) = <<f.card, f.seg>>
    BY DEF OwnSegment
  <2>1. f.card \in Entry /\ f.seg \in Seg(f.card)
    BY TypeFacts
  <2>2. f.card \in 0..15 /\ f.seg \in 0..3
    <3>1. f.card \in Slot /\ f.seg \in 0..3
      BY <2>1, EntryFacts
    <3>2. MAX_CARD \in Nat /\ MAX_CARD <= 16
      BY ScanAssumption, LoadAssumption
    <3> QED  BY <3>1, <3>2 DEF Slot
  <2>3. f.via = "proc" => Unpack(Pack(f.card, f.seg)) = <<f.card, f.seg>>
    <3> SUFFICES ASSUME f.via = "proc" PROVE Unpack(Pack(f.card, f.seg)) = <<f.card, f.seg>>
      OBVIOUS
    <3>1. f.seg \in 0..1
      BY <2>2
    <3> QED  BY <1>1, <2>2, <3>1
  <2> QED  BY <2>1, <2>3 DEF Target
<1> QED  BY <1>2, ScanInvariant, LoadInvariant, PTL

(* References to the Intel drivers *)

\* A driver is loaded or was unloaded; the unload of one that is in use all the
\* same began before it was pinned.
Used(d) == \E i \in Entry : DriverOf(i) = d
DriverInv ==
  /\ bound \cup freed = Driver
  /\ \A d \in (freed \cup going) \ escaped : ~Used(d)
PinnedBy(d) == {i \in Pinned : DriverOf(i) = d}
PinsInv == \A d \in Driver \ escaped : pins[d] = Cardinality(PinnedBy(d))

\* Only Pin and Unpin change the set of pinned entries, by one card each.
LEMMA PinnedSame ==
  ASSUME ScanInv, LoadInv, UNCHANGED scanvars,
         \/ UNCHANGED <<step, at>>
         \/ Region \/ Device \/ CardFiles \/ SegmentFiles \/ ProcFiles \/ SemaInit
         \/ CreateThread \/ Up \/ Unload \/ DestroyDevice \/ DestroyProcFiles
         \/ StopSegments \/ Deinit \/ ThreadEnds
  PROVE  Pinned' = Pinned
<1>1. maxcard' = maxcard /\ Entry' = Entry
  BY SameWorld
<1>2. CASE UNCHANGED <<step, at>>
  BY <1>1, <1>2 DEF Pinned
<1>3. CASE Region \/ Device \/ CardFiles \/ SegmentFiles
  <2>1. /\ step \in {"region", "device", "card files", "segments"}
        /\ step' \in {"device", "card files", "segments", "procfs", "failed"}
    BY <1>3 DEF Region, Device, CardFiles, SegmentFiles, Fail
  <2> QED  BY <2>1 DEF Pinned
<1>4. CASE ProcFiles
  <2>1. step = "procfs" /\ phase = "found" /\ Loop("pin")
    BY <1>4 DEF ProcFiles, Running
  <2>2. step' = "procfs" \/ (step' = "pin" /\ at' = 0)
    BY <2>1, LoopStep
  <2>3. 0..(0 - 1) = {}
    OBVIOUS
  <2> QED  BY <2>1, <2>2, <2>3 DEF Pinned
<1>5. CASE SemaInit \/ CreateThread \/ Up \/ Unload
  <2>1. /\ step \in {"sema", "thread", "up", "live"}
        /\ step' \in {"thread", "up", "live", "destroy devices"}
    BY <1>5 DEF SemaInit, CreateThread, Up, Unload
  <2> QED  BY <1>1, <2>1 DEF Pinned
<1>6. CASE DestroyDevice \/ DestroyProcFiles \/ StopSegments
  <2>1. /\ phase = "found" /\ step \in {"destroy devices", "destroy procfs", "stop"}
        /\ \E next \in {"destroy procfs", "stop", "deinit"} : Loop(next)
    BY <1>6 DEF DestroyDevice, DestroyProcFiles, StopSegments, Running
  <2>2. step' \in {"destroy devices", "destroy procfs", "stop", "deinit"}
    BY <2>1, LoopStep
  <2> QED  BY <1>1, <2>1, <2>2 DEF Pinned
<1>7. CASE Deinit
  BY <1>1, <1>7 DEF Deinit, Pinned
<1>8. CASE ThreadEnds
  <2>1. step = "kthread_stop" /\ step' = "unpin" /\ at' = at
    BY <1>8 DEF ThreadEnds
  <2>2. at = 0
    BY <2>1 DEF LoadInv, StepInv
  <2> QED  BY <1>1, <2>1, <2>2 DEF Pinned, Entry
<1> QED  BY <1>2, <1>3, <1>4, <1>5, <1>6, <1>7, <1>8

LEMMA PinnedFinite ==
  ASSUME ScanInv, LoadInv, phase = "found"
  PROVE  Pinned \subseteq Entry /\ \A d : IsFiniteSet(PinnedBy(d))
<1>1. /\ at \in Nat /\ at < maxcard /\ maxcard \in Nat
  BY AtFacts
<1>2. Pinned \subseteq Entry
  <2>1. 0..(at - 1) \subseteq Entry /\ at..(maxcard - 1) \subseteq Entry
    BY <1>1 DEF Entry
  <2> QED  BY <2>1 DEF Pinned
<1>3. IsFiniteSet(Entry)
  BY <1>1, FS_Interval DEF Entry
<1>4. \A d : PinnedBy(d) \subseteq Entry
  BY <1>2 DEF PinnedBy
<1> QED  BY <1>2, <1>3, <1>4, FS_Subset

\* The driver of an entry is loaded and stays so unless it has escaped.
LEMMA InUse ==
  ASSUME DriverInv, NEW i \in Entry, DriverOf(i) \in Driver \ escaped
  PROVE  DriverOf(i) \in bound \ going
BY DEF DriverInv, Used

LEMMA PinStep ==
  ASSUME ScanInv, LoadInv, DriverInv, PinsInv, Pin
  PROVE  PinsInv'
<1>1. /\ phase = "found" /\ step = "pin" /\ Loop("sema") /\ escaped' = escaped
      /\ UNCHANGED scanvars
      /\ pins' = IF DriverOf(at) \in bound \ going THEN [pins EXCEPT ![DriverOf(at)] = @ + 1]
               ELSE pins
  BY DEF Pin, Running, world, drivers
<1>2. /\ at \in Entry /\ at \in Nat /\ maxcard \in Nat
      /\ \/ at' = at + 1 /\ step' = "pin"
         \/ at' = 0 /\ step' = "sema" /\ at + 1 = maxcard
  BY <1>1, LoopStep, AtFacts
<1>3. Entry' = Entry /\ maxcard' = maxcard /\ \A i : DriverOf(i)' = DriverOf(i)
  BY <1>1, SameWorld
<1>4. Pinned = 0..(at - 1)
  BY <1>1 DEF Pinned
<1>5. Pinned' = Pinned \cup {at} /\ at \notin Pinned
  <2>1. 0..at = (0..(at - 1)) \cup {at} /\ at \notin 0..(at - 1)
    BY <1>2
  <2>2. CASE at' = at + 1 /\ step' = "pin"
    <3>1. (at + 1) - 1 = at
      BY <1>2
    <3>2. Pinned' = 0..at
      BY <2>2, <3>1 DEF Pinned
    <3> QED  BY <1>4, <2>1, <3>2
  <2>3. CASE at' = 0 /\ step' = "sema" /\ at + 1 = maxcard
    <3>1. Entry = 0..at
      BY <1>2, <2>3 DEF Entry
    <3>2. Pinned' = 0..at
      BY <1>3, <2>3, <3>1 DEF Pinned
    <3> QED  BY <1>4, <2>1, <3>2
  <2> QED  BY <1>2, <2>2, <2>3
<1> SUFFICES ASSUME NEW d \in Driver \ escaped PROVE pins'[d] = Cardinality(PinnedBy(d)')
  BY <1>1 DEF PinsInv
<1>6. /\ pins \in [Driver -> Int] /\ pins[d] = Cardinality(PinnedBy(d)) /\ pins[d] \in Int
      /\ IsFiniteSet(PinnedBy(d))
  BY <1>1, TypeFacts, PinnedFinite DEF PinsInv
<1>7. CASE DriverOf(at) = d
  <2>1. d \in bound \ going
    BY <1>2, <1>7, InUse
  <2>2. pins'[d] = pins[d] + 1
    BY <1>1, <1>6, <1>7, <2>1
  <2>3. PinnedBy(d)' = PinnedBy(d) \cup {at} /\ at \notin PinnedBy(d)
    BY <1>3, <1>5, <1>7 DEF PinnedBy
  <2>4. Cardinality(PinnedBy(d) \cup {at}) = Cardinality(PinnedBy(d)) + 1
    BY <1>6, <2>3, FS_AddElement
  <2> QED  BY <1>6, <2>2, <2>3, <2>4
<1>8. CASE DriverOf(at) # d
  <2>1. pins'[d] = pins[d]
    BY <1>1, <1>6, <1>8
  <2>2. PinnedBy(d)' = PinnedBy(d)
    BY <1>3, <1>5, <1>8 DEF PinnedBy
  <2> QED  BY <1>6, <2>1, <2>2
<1> QED  BY <1>7, <1>8

LEMMA UnpinStep ==
  ASSUME ScanInv, LoadInv, DriverInv, PinsInv, Unpin
  PROVE  PinsInv'
<1>1. /\ phase = "found" /\ step = "unpin" /\ Loop("gone") /\ escaped' = escaped
      /\ UNCHANGED scanvars
      /\ pins' = IF DriverOf(at) \in bound THEN [pins EXCEPT ![DriverOf(at)] = @ - 1] ELSE pins
  BY DEF Unpin, Running, world, drivers
<1>2. /\ at \in Entry /\ at \in Nat /\ maxcard \in Nat
      /\ \/ at' = at + 1 /\ step' = "unpin"
         \/ at' = 0 /\ step' = "gone" /\ at + 1 = maxcard
  BY <1>1, LoopStep, AtFacts
<1>3. Entry' = Entry /\ maxcard' = maxcard /\ \A i : DriverOf(i)' = DriverOf(i)
  BY <1>1, SameWorld
<1>4. Pinned = at..(maxcard - 1) /\ at < maxcard
  BY <1>1, AtFacts DEF Pinned
<1>5. Pinned' = Pinned \ {at} /\ at \in Pinned
  <2>1. (at + 1)..(maxcard - 1) = (at..(maxcard - 1)) \ {at} /\ at \in at..(maxcard - 1)
    BY <1>2, <1>4
  <2>2. CASE at' = at + 1 /\ step' = "unpin"
    <3>1. Pinned' = (at + 1)..(maxcard - 1)
      BY <1>3, <2>2 DEF Pinned
    <3> QED  BY <1>4, <2>1, <3>1
  <2>3. CASE at' = 0 /\ step' = "gone" /\ at + 1 = maxcard
    <3>1. (at + 1)..(maxcard - 1) = {}
      BY <1>2, <2>3
    <3>2. Pinned' = {}
      BY <2>3 DEF Pinned
    <3> QED  BY <1>4, <2>1, <3>1, <3>2
  <2> QED  BY <1>2, <2>2, <2>3
<1> SUFFICES ASSUME NEW d \in Driver \ escaped PROVE pins'[d] = Cardinality(PinnedBy(d)')
  BY <1>1 DEF PinsInv
<1>6. /\ pins \in [Driver -> Int] /\ pins[d] = Cardinality(PinnedBy(d)) /\ pins[d] \in Int
      /\ IsFiniteSet(PinnedBy(d))
  BY <1>1, TypeFacts, PinnedFinite DEF PinsInv
<1>7. CASE DriverOf(at) = d
  <2>1. d \in bound
    BY <1>2, <1>7, InUse
  <2>2. pins'[d] = pins[d] - 1
    BY <1>1, <1>6, <1>7, <2>1
  <2>3. PinnedBy(d)' = PinnedBy(d) \ {at} /\ at \in PinnedBy(d)
    BY <1>3, <1>5, <1>7 DEF PinnedBy
  <2>4. Cardinality(PinnedBy(d) \ {at}) = Cardinality(PinnedBy(d)) - 1
    BY <1>6, <2>3, FS_RemoveElement
  <2> QED  BY <1>6, <2>2, <2>3, <2>4
<1>8. CASE DriverOf(at) # d
  <2>1. pins'[d] = pins[d]
    BY <1>1, <1>6, <1>8
  <2>2. PinnedBy(d)' = PinnedBy(d)
    BY <1>3, <1>5, <1>8 DEF PinnedBy
  <2> QED  BY <1>6, <2>1, <2>2
<1> QED  BY <1>7, <1>8

\* A driver that goes while the module is loaded has no references, so no card
\* of cards[] uses it; at any other time it counts as escaped.
LEMMA MoveStep ==
  ASSUME ScanInv, LoadInv, DriverInv, PinsInv, NEW d \in Driver, MoveDriver(d)
  PROVE  DriverInv' /\ PinsInv'
<1>1. /\ phase = "found" /\ UNCHANGED scanvars /\ UNCHANGED <<step, at, pins>>
      /\ \/ bound' = bound \cup {d} /\ UNCHANGED <<going, freed, escaped>>
         \/ /\ pins[d] = 0 /\ going' = going \cup {d} /\ UNCHANGED <<bound, freed>>
            /\ escaped' = IF step = "live" THEN escaped ELSE escaped \cup {d}
         \/ /\ d \in going /\ bound' = bound \ {d} /\ going' = going \ {d}
            /\ freed' = freed \cup {d} /\ escaped' = escaped
  BY DEF MoveDriver, DriverComes, DriverGoes, DriverGone, Running
<1>2. Entry' = Entry /\ (\A i : DriverOf(i)' = DriverOf(i)) /\ Pinned' = Pinned
  BY <1>1, SameWorld, PinnedSame
<1>3. \A e : Used(e)' <=> Used(e)
  BY <1>2 DEF Used
<1>4. \A e : PinnedBy(e)' = PinnedBy(e)
  BY <1>2 DEF PinnedBy
<1>5. PinsInv'
  BY <1>1, <1>4 DEF PinsInv
<1>6. bound' \cup freed' = Driver
  BY <1>1 DEF DriverInv
<1>7. ASSUME step = "live", pins[d] = 0, d \notin escaped PROVE ~Used(d)
  <2>1. Cardinality(PinnedBy(d)) = 0 /\ IsFiniteSet(PinnedBy(d)) /\ Pinned = Entry
    BY <1>1, <1>7, PinnedFinite DEF PinsInv, Pinned
  <2>2. PinnedBy(d) = {}
    BY <2>1, FS_EmptySet
  <2> QED  BY <2>1, <2>2 DEF PinnedBy, Used
<1>8. \A e \in (freed' \cup going') \ escaped' : ~Used(e)
  BY <1>1, <1>7 DEF DriverInv
<1> QED  BY <1>3, <1>5, <1>6, <1>8 DEF DriverInv

LEMMA DriverSteps ==
  ASSUME ScanInv, LoadInv, DriverInv, PinsInv, [Next]_vars
  PROVE  DriverInv' /\ PinsInv'
<1>1. CASE Scan /\ UNCHANGED loadvars
  <2>1. phase # "found"
    BY <1>1 DEF Scan, TakeDevice, FinishCard, Finish, NextKind
  <2>2. step = "region" /\ freed = {} /\ going = {}
    BY <2>1 DEF LoadInv, StepInv
  <2>3. Pinned = {} /\ Pinned' = {}
    BY <1>1, <2>2 DEF Pinned, loadvars
  <2>4. \A d : PinnedBy(d) = {} /\ PinnedBy(d)' = {}
    BY <2>3 DEF PinnedBy
  <2>5. PinsInv'
    BY <1>1, <2>4 DEF PinsInv, loadvars
  <2>6. DriverInv'
    BY <1>1, <2>2 DEF DriverInv, loadvars
  <2> QED  BY <2>5, <2>6
<1>2. CASE UNCHANGED scanvars
  <2>1. Entry' = Entry /\ \A i : DriverOf(i)' = DriverOf(i)
    BY <1>2, SameWorld
  <2>2. ASSUME UNCHANGED <<bound, going, freed, escaped>> PROVE DriverInv'
    <3>1. \A d : Used(d)' <=> Used(d)
      BY <2>1 DEF Used
    <3> QED  BY <2>2, <3>1 DEF DriverInv
  <2>3. ASSUME Pinned' = Pinned, UNCHANGED <<pins, escaped>> PROVE PinsInv'
    <3>1. \A d : PinnedBy(d)' = PinnedBy(d)
      BY <2>1, <2>3 DEF PinnedBy
    <3> QED  BY <2>3, <3>1 DEF PinsInv
  <2>4. CASE Pin
    BY <2>2, <2>4, PinStep DEF Pin, world, drivers
  <2>5. CASE Unpin
    BY <2>2, <2>5, UnpinStep DEF Unpin, world, drivers
  <2>6. CASE \E d \in Driver : MoveDriver(d)
    BY <2>6, MoveStep
  <2>7. CASE Region \/ Device \/ CardFiles \/ SegmentFiles \/ ProcFiles \/ SemaInit
             \/ CreateThread \/ Up \/ Unload \/ DestroyDevice \/ DestroyProcFiles
             \/ StopSegments \/ Deinit \/ ThreadEnds
    <3>1. UNCHANGED <<bound, going, freed, escaped, pins>>
      BY <2>7 DEF Region, Device, CardFiles, SegmentFiles, ProcFiles, SemaInit, CreateThread,
                  Up, Unload, DestroyDevice, DestroyProcFiles, StopSegments, Deinit,
                  ThreadEnds, kernel, world, drivers
    <3>2. Pinned' = Pinned
      BY <1>2, <2>7, PinnedSame
    <3> QED  BY <2>2, <2>3, <3>1, <3>2
  <2>8. CASE Users \/ LfdRound \/ (\E u \in User : Enter(u)) \/ Ended \/ UNCHANGED vars
    <3>1. UNCHANGED <<bound, going, freed, escaped, pins, step, at>>
      BY <2>8 DEF Users, SetLfd, ReadPort, LfdRound, Enter, Ended, vars, loadvars, drivers
    <3>2. Pinned' = Pinned
      BY <1>2, <3>1, PinnedSame
    <3> QED  BY <2>2, <2>3, <3>1, <3>2
  <2>9. CASE Scan /\ UNCHANGED loadvars
    BY <1>1, <2>9
  <2> QED  BY <2>4, <2>5, <2>6, <2>7, <2>8, <2>9 DEF Next, Loading, Unloading
<1> QED  BY <1>1, <1>2, Apart

LEMMA DriverInvariant == Spec => [](DriverInv /\ PinsInv)
<1>1. LoadInit => DriverInv /\ PinsInv
  <2> SUFFICES ASSUME LoadInit PROVE DriverInv /\ PinsInv
    OBVIOUS
  <2>1. /\ step = "region" /\ bound = Driver /\ freed = {} /\ going = {} /\ pins = [d \in Driver |-> 0]
    BY DEF LoadInit
  <2>2. \A d : PinnedBy(d) = {}
    BY <2>1 DEF PinnedBy, Pinned
  <2> QED  BY <2>1, <2>2, FS_EmptySet DEF DriverInv, PinsInv
<1> QED  BY <1>1, DriverSteps, ScanInvariant, LoadInvariant, PTL DEF Spec

\* try_module_get and module_put of niagara_init and niagara_destroy keep the
\* references to the Intel drivers: at each step those of the entries that are
\* pinned, none when the module is gone; but for a driver that is on its way out,
\* or gone, when niagara_init comes to it.
THEOREM PinsAreCounted == Spec => []PinsCounted
<1>1. PinsInv => PinsCounted
  BY DEF PinsInv, PinsCounted, PinnedBy
<1> QED  BY <1>1, DriverInvariant, PTL

(* Users of the loaded module *)

\* Once the module is loaded the semaphore is up, and there is an LFD thread
\* unless a kernel call failed.
Loaded == {"live", "destroy devices", "destroy procfs", "stop", "deinit", "kthread_stop",
           "unpin", "gone"}
KernelInv ==
  /\ step \in Loaded => sem = 1
  /\ thread = "error" => faults > 0

LEMMA KernelSteps ==
  ASSUME ScanInv, LoadInv, KernelInv, [Next]_vars
  PROVE  KernelInv'
<1>1. CASE (Scan /\ UNCHANGED loadvars) \/ UNCHANGED vars \/ Ended
  BY <1>1 DEF KernelInv, Loaded, Ended, vars, loadvars
<1>2. CASE Users \/ LfdRound \/ (\E u \in User : Enter(u)) \/ (\E d \in Driver : MoveDriver(d))
  <2>1. UNCHANGED <<step, sem, thread, faults>>
    BY <1>2 DEF Users, SetLfd, ReadPort, LfdRound, Enter, MoveDriver, lfdvars
  <2> QED  BY <2>1 DEF KernelInv, Loaded
<1>3. CASE Region \/ Device \/ CardFiles \/ SegmentFiles \/ ProcFiles \/ Pin \/ SemaInit
  <2>1. step' \in {"device", "card files", "segments", "procfs", "pin", "sema", "thread", "failed"}
    <3>1. CASE ProcFiles
      BY <3>1, LoopStep DEF ProcFiles, Running
    <3>2. CASE Pin
      BY <3>2, LoopStep DEF Pin, Running
    <3>3. CASE ~ProcFiles /\ ~Pin
      BY <1>3, <3>3 DEF Region, Device, CardFiles, SegmentFiles, SemaInit, Fail
    <3> QED  BY <3>1, <3>2, <3>3
  <2>2. /\ thread' = thread /\ faults' \in {faults, faults + 1}
    BY <1>3 DEF Region, Device, CardFiles, SegmentFiles, ProcFiles, Pin, SemaInit, Fail,
                kernel, lfdvars
  <2>3. faults \in Nat
    BY TypeFacts, LoadAssumption
  <2>4. step' \notin Loaded
    BY <2>1 DEF Loaded
  <2>5. thread' = "error" => faults' > 0
    BY <2>2, <2>3 DEF KernelInv
  <2> QED  BY <2>4, <2>5 DEF KernelInv, Loaded
<1>4. CASE CreateThread
  <2>1. /\ step' = "up"
        /\ \/ thread' = "running" /\ faults' = faults
           \/ thread' = "error" /\ faults' = faults + 1
    BY <1>4 DEF CreateThread
  <2>2. faults \in Nat
    BY TypeFacts, LoadAssumption
  <2>3. step' \notin Loaded
    BY <2>1 DEF Loaded
  <2>4. thread' = "error" => faults' > 0
    BY <2>1, <2>2
  <2> QED  BY <2>3, <2>4 DEF KernelInv, Loaded
<1>5. CASE Up
  BY <1>5 DEF Up, KernelInv
<1>6. CASE Unload \/ Unloading \/ ThreadEnds
  <2>1. step \in Loaded /\ UNCHANGED <<sem, faults>> /\ thread' \in {thread, "none"}
    BY <1>6 DEF Unload, Unloading, DestroyDevice, DestroyProcFiles, StopSegments, Deinit,
                ThreadEnds, Unpin, Loaded, kernel, lfdvars
  <2> QED  BY <2>1 DEF KernelInv
<1> QED  BY <1>1, <1>2, <1>3, <1>4, <1>5, <1>6 DEF Next, Loading

LEMMA KernelInvariant == Spec => []KernelInv
<1>1. LoadInit => KernelInv
  BY DEF LoadInit, KernelInv, Loaded
<1> QED  BY <1>1, KernelSteps, ScanInvariant, LoadInvariant, PTL DEF Spec

\* Nobody who uses a loaded module meets what is not there: not set_lfd, which
\* takes the semaphore and wakes the LFD thread, nor the thread and the reads of
\* ports, which go to the network devices; unless a kernel call of niagara_init
\* failed or a driver was going, or gone, before it was pinned.
THEOREM LoadedModuleIsSafe == Spec => LoadedIsSafe
<1> DEFINE Inv == ScanInv /\ LoadInv /\ DriverInv /\ KernelInv
<1>1. Inv /\ [Next]_vars =>
        [crash' /\ ~crash /\ step = "live" => faults > 0 \/ escaped # {}]_vars
  <2> SUFFICES ASSUME Inv, [Next]_vars, crash', ~crash, step = "live"
               PROVE  faults > 0 \/ escaped # {}
    OBVIOUS
  <2>1. sem = 1 /\ (thread = "error" => faults > 0)
    BY DEF KernelInv, Loaded
  <2>2. ASSUME NEW i \in Entry, DriverOf(i) \in freed PROVE escaped # {}
    BY <2>2 DEF DriverInv, Used
  <2>3. ASSUME NEW u \in User, SetLfd(u) PROVE faults > 0
    <3>1. sem # Raw
      BY <2>1 DEF Raw
    <3>2. thread = "error"
      BY <2>3, <3>1 DEF SetLfd
    <3> QED  BY <2>1, <3>2
  <2>4. ASSUME NEW u \in User, ReadPort(u) PROVE escaped # {}
    <3>1. Target(Where(u)) # <<-1, -1>> /\ DriverOf(Target(Where(u))[1]) \in freed
      BY <2>4 DEF ReadPort
    <3>2. Target(Where(u))[1] \in Entry
      BY <3>1, TargetFacts
    <3> QED  BY <2>2, <3>1, <3>2
  <2>5. ASSUME LfdRound PROVE escaped # {}
    <3>1. PICK t \in lfd_active_bmp : DriverOf(t[1]) \in freed
      BY <2>5 DEF LfdRound
    <3>2. t[1] \in Entry
      BY DEF LoadInv, FilesInv
    <3> QED  BY <2>2, <3>1, <3>2
  <2>6. ASSUME NEW u \in User, Enter(u) PROVE FALSE
    BY <2>6 DEF Enter, Freed
  <2>7. ASSUME NEW d \in Driver, MoveDriver(d) PROVE FALSE
    BY <2>7 DEF MoveDriver
  <2>8. ASSUME Loading \/ Unload \/ Unloading \/ ThreadEnds \/ Ended \/ UNCHANGED vars PROVE FALSE
    <3>1. CASE Unload \/ Ended \/ UNCHANGED vars
      BY <3>1 DEF Unload, Ended, vars, loadvars, kernel, world
    <3>2. CASE Loading
      BY <3>2 DEF Loading, Region, Device, CardFiles, SegmentFiles, ProcFiles, Pin, SemaInit,
                  CreateThread, Up
    <3>3. CASE Unloading
      BY <3>3 DEF Unloading, DestroyDevice, DestroyProcFiles, StopSegments, Deinit, Unpin
    <3>4. CASE ThreadEnds
      BY <3>4 DEF ThreadEnds
    <3> QED  BY <2>8, <3>1, <3>2, <3>3, <3>4
  <2>9. ASSUME UNCHANGED loadvars PROVE FALSE
    BY <2>9 DEF loadvars
  <2> QED  BY <2>3, <2>4, <2>5, <2>6, <2>7, <2>8, <2>9 DEF Next, Users
<1> QED  BY <1>1, ScanInvariant, LoadInvariant, DriverInvariant, KernelInvariant, PTL
         DEF Spec, LoadedIsSafe

(* The end of niagara_destroy *)

\* How far niagara_destroy is, if all proc files are where they belong: the files
\* of the cards passed are removed, then the users have left, and the segments of
\* the cards passed are stopped.
TearInv ==
  stray = {} =>
    /\ step = "destroy devices" => \A f \in file : f.via = "sysfs" => f.card >= at
    /\ step = "destroy procfs" => \A f \in file : f.via = "proc" /\ f.card >= at
    /\ step = "stop" => file = {} /\ (at > 0 => NoUsers /\ \A t \in lfd_active_bmp : t[1] >= at)
    /\ step \in {"deinit", "kthread_stop", "unpin", "gone"} =>
         file = {} /\ NoUsers /\ lfd_active_bmp = {} /\ (crash => thread = "error")

LEMMA TearKeeps ==
  ASSUME TearInv, UNCHANGED <<step, at, file, stray, thread>>,
         /\ file = {} /\ NoUsers => UNCHANGED <<user, crash>>
         /\ file = {} /\ NoUsers => lfd_active_bmp' \subseteq lfd_active_bmp
  PROVE  TearInv'
<1>1. CASE ~(file = {} /\ NoUsers)
  BY <1>1 DEF TearInv, NoUsers
<1>2. CASE file = {} /\ NoUsers
  <2>1. UNCHANGED <<step, at, file, stray, thread, user, crash>>
    BY <1>2
  <2>2. lfd_active_bmp' \subseteq lfd_active_bmp
    BY <1>2
  <2>3. NoUsers'
    BY <1>2, <2>1 DEF NoUsers
  <2> QED  BY <1>2, <2>1, <2>2, <2>3 DEF TearInv
<1> QED  BY <1>1, <1>2

\* Files of cards from this one on, without those of this one.
LEMMA FileCards ==
  ASSUME ScanInv, LoadInv, NEW f \in file
  PROVE  /\ f.card >= 0 /\ ~(f.card >= maxcard) /\ f.via \in {"sysfs", "proc"}
         /\ f.card >= at /\ f.card # at => f.card >= at + 1
<1>1. f.card \in Entry /\ f.via \in {"sysfs", "proc"} /\ at \in Slot
  BY TypeFacts DEF FileType
<1>2. Slot \subseteq Nat /\ maxcard \in Nat
  BY EntryFacts
<1> PICK c : c = f.card
  OBVIOUS
<1>3. c >= 0 /\ ~(c >= maxcard) /\ (c >= at /\ c # at => c >= at + 1)
  BY <1>1, <1>2 DEF Entry
<1> QED  BY <1>1, <1>3

LEMMA TearSteps ==
  ASSUME ScanInv, LoadInv, TearInv, [Next]_vars
  PROVE  TearInv'
<1>1. CASE (Scan /\ UNCHANGED loadvars) \/ UNCHANGED vars \/ Ended
  BY <1>1, TearKeeps DEF Ended, vars, loadvars
<1>2. CASE Users \/ LfdRound \/ (\E u \in User : Enter(u)) \/ (\E d \in Driver : MoveDriver(d))
  <2>1. ASSUME NEW u \in User, SetLfd(u) \/ ReadPort(u) PROVE ~NoUsers
    <3>1. user[u].op \in {"lfd 0", "lfd 1", "port"}
      BY <2>1 DEF SetLfd, ReadPort
    <3>2. Out.op = "none"
      BY DEF Out
    <3>3. user[u] # Out
      BY <3>1, <3>2
    <3> QED  BY <3>3 DEF NoUsers
  <2>2. ASSUME NEW u \in User, Enter(u) PROVE file # {}
    BY <2>2 DEF Enter
  <2>3. CASE Users \/ (\E u \in User : Enter(u))
    <3>1. UNCHANGED <<step, at, file, stray, thread>> /\ ~(file = {} /\ NoUsers)
      BY <2>1, <2>2, <2>3 DEF Users, SetLfd, ReadPort, Enter, lfdvars
    <3> QED  BY <3>1, TearKeeps
  <2>4. CASE LfdRound
    <3>1. UNCHANGED <<step, at, file, stray, thread, user, lfd_active_bmp>> /\ lfd_active_bmp # {}
      BY <2>4 DEF LfdRound, lfdvars
    <3> QED  BY <3>1 DEF TearInv, NoUsers
  <2>5. CASE \E d \in Driver : MoveDriver(d)
    <3>1. UNCHANGED <<step, at, file, stray, thread, user, crash, lfd_active_bmp>>
      BY <2>5 DEF MoveDriver, lfdvars
    <3> QED  BY <3>1, TearKeeps
  <2> QED  BY <1>2, <2>3, <2>4, <2>5
<1>3. CASE Loading
  <2>1. step' \in {"device", "card files", "segments", "procfs", "pin", "sema", "thread", "up",
                   "live", "failed"}
    <3>1. CASE ProcFiles
      BY <3>1, LoopStep DEF ProcFiles, Running
    <3>2. CASE Pin
      BY <3>2, LoopStep DEF Pin, Running
    <3>3. CASE ~ProcFiles /\ ~Pin
      BY <1>3, <3>3 DEF Loading, Region, Device, CardFiles, SegmentFiles, SemaInit,
                        CreateThread, Up, Fail
    <3> QED  BY <3>1, <3>2, <3>3
  <2> QED  BY <2>1 DEF TearInv
<1>4. CASE Unload
  <2>1. step' = "destroy devices" /\ at' = 0 /\ file' = file /\ phase = "found"
    BY <1>4 DEF Unload, LoadInv, StepInv, Running
  <2>2. \A f \in file : f.card >= 0
    BY FileCards
  <2> QED  BY <2>1, <2>2 DEF TearInv
<1>5. CASE DestroyDevice
  <2>1. /\ phase = "found" /\ step = "destroy devices" /\ stray' = stray
        /\ file' = {f \in file : f.via # "sysfs" \/ f.card # at} /\ Loop("destroy procfs")
    BY <1>5 DEF DestroyDevice, Running
  <2>2. /\ at \in Nat /\ maxcard \in Nat
        /\ \/ at' = at + 1 /\ step' = "destroy devices"
           \/ at' = 0 /\ step' = "destroy procfs" /\ at + 1 = maxcard
    BY <2>1, LoopStep, AtFacts
  <2> SUFFICES ASSUME stray = {} PROVE TearInv'
    BY <2>1 DEF TearInv
  <2>4. \A f \in file' : f.via = "sysfs" => f.card >= at + 1
    <3> SUFFICES ASSUME NEW f \in file', f.via = "sysfs" PROVE f.card >= at + 1
      OBVIOUS
    <3>1. f \in file /\ f.card # at
      BY <2>1
    <3>2. f.card >= at
      BY <2>1, <3>1 DEF TearInv
    <3> QED  BY <3>1, <3>2, FileCards
  <2>5. CASE at' = at + 1 /\ step' = "destroy devices"
    BY <2>4, <2>5 DEF TearInv
  <2>6. CASE at' = 0 /\ step' = "destroy procfs" /\ at + 1 = maxcard
    <3>1. ASSUME NEW f \in file' PROVE f.via = "proc" /\ f.card >= 0
      <4>1. f.card >= 0 /\ ~(f.card >= maxcard) /\ f.via \in {"sysfs", "proc"}
        BY <2>1, FileCards
      <4>2. f.via = "sysfs" => f.card >= maxcard
        BY <2>4, <2>6
      <4> QED  BY <4>1, <4>2
    <3> QED  BY <2>6, <3>1 DEF TearInv
  <2> QED  BY <2>2, <2>5, <2>6
<1>6. CASE DestroyProcFiles
  <2>1. /\ phase = "found" /\ step = "destroy procfs" /\ stray' = stray
        /\ file' = {f \in file : f.via # "proc" \/ f.card # at \/ f \in stray} /\ Loop("stop")
    BY <1>6 DEF DestroyProcFiles, Running
  <2>2. /\ at \in Nat /\ maxcard \in Nat
        /\ \/ at' = at + 1 /\ step' = "destroy procfs"
           \/ at' = 0 /\ step' = "stop" /\ at + 1 = maxcard
    BY <2>1, LoopStep, AtFacts
  <2> SUFFICES ASSUME stray = {} PROVE TearInv'
    BY <2>1 DEF TearInv
  <2>4. \A f \in file' : f.via = "proc" /\ f.card >= at + 1
    <3> SUFFICES ASSUME NEW f \in file' PROVE f.via = "proc" /\ f.card >= at + 1
      OBVIOUS
    <3>1. f \in file /\ f.via = "proc" /\ f.card >= at
      BY <2>1 DEF TearInv
    <3>2. f.card # at
      BY <2>1, <3>1
    <3> QED  BY <3>1, <3>2, FileCards
  <2>5. CASE at' = at + 1 /\ step' = "destroy procfs"
    BY <2>4, <2>5 DEF TearInv
  <2>6. CASE at' = 0 /\ step' = "stop" /\ at + 1 = maxcard
    <3>1. file' = {}
      <4> SUFFICES ASSUME NEW f \in file' PROVE FALSE
        OBVIOUS
      <4>1. ~(f.card >= maxcard)
        BY <2>1, FileCards
      <4>2. f.card >= maxcard
        BY <2>4, <2>6
      <4> QED  BY <4>1, <4>2
    <3>2. ~(at' > 0)
      BY <2>6
    <3> QED  BY <2>6, <3>1, <3>2 DEF TearInv
  <2> QED  BY <2>2, <2>5, <2>6
<1>7. CASE StopSegments
  <2> DEFINE bits == {t \in lfd_active_bmp : t[1] # at}
  <2>1. /\ phase = "found" /\ step = "stop" /\ Drained /\ Loop("deinit")
        /\ lfd_active_bmp' = bits /\ UNCHANGED <<file, stray, thread, user>>
        /\ crash' => thread = "error"
    BY <1>7 DEF StopSegments, Running
  <2>2. /\ at \in Nat /\ maxcard \in Nat
        /\ \/ at' = at + 1 /\ step' = "stop"
           \/ at' = 0 /\ step' = "deinit" /\ at + 1 = maxcard
    BY <2>1, LoopStep, AtFacts
  <2> SUFFICES ASSUME stray = {} PROVE TearInv'
    BY <2>1 DEF TearInv
  <2>3. file = {} /\ NoUsers
    BY <2>1 DEF TearInv, Drained, NoUsers
  <2>4. \A t \in lfd_active_bmp : t[1] \in Nat /\ t[1] < maxcard /\ t[1] >= at
    <3>1. \A t \in lfd_active_bmp : t[1] \in Entry
      BY DEF LoadInv, FilesInv
    <3>2. at > 0 => \A t \in lfd_active_bmp : t[1] >= at
      BY <2>1 DEF TearInv
    <3> QED  BY <2>2, <3>1, <3>2 DEF Entry
  <2>5. \A t \in bits : t[1] >= at + 1
    BY <2>2, <2>4
  <2>6. NoUsers'
    BY <2>1, <2>3 DEF NoUsers
  <2>7. CASE at' = at + 1 /\ step' = "stop"
    BY <2>1, <2>3, <2>5, <2>6, <2>7 DEF TearInv
  <2>8. CASE at' = 0 /\ step' = "deinit" /\ at + 1 = maxcard
    <3>1. bits = {}
      BY <2>2, <2>4, <2>5, <2>8
    <3> HIDE DEF bits
    <3> QED  BY <2>1, <2>3, <2>6, <2>8, <3>1 DEF TearInv
  <2> QED  BY <2>2, <2>7, <2>8
<1>8. CASE Deinit
  <2>1. /\ step = "deinit" /\ step' = "kthread_stop"
        /\ UNCHANGED <<file, stray, user, lfd_active_bmp, thread>>
        /\ crash' => thread = "error"
    BY <1>8 DEF Deinit, lfdvars
  <2> QED  BY <2>1 DEF TearInv, NoUsers
<1>10. CASE ThreadEnds
  <2>1. /\ step = "kthread_stop" /\ step' = "unpin"
        /\ UNCHANGED <<file, stray, user, lfd_active_bmp, crash>> /\ ~crash
    BY <1>10 DEF ThreadEnds, Running, world
  <2> QED  BY <2>1 DEF TearInv, NoUsers
<1>9. CASE Unpin
  <2>1. /\ phase = "found" /\ step = "unpin" /\ Loop("gone")
        /\ UNCHANGED <<file, stray, user, lfd_active_bmp, thread, crash>>
    BY <1>9 DEF Unpin, Running, lfdvars, world
  <2>2. step' \in {"unpin", "gone"}
    BY <2>1, LoopStep
  <2> QED  BY <2>1, <2>2 DEF TearInv, NoUsers
<1> QED  BY <1>1, <1>2, <1>3, <1>4, <1>5, <1>6, <1>7, <1>8, <1>9, <1>10
         DEF Next, Unloading

\* From lfd_deinit on nobody is inside the module or can come, and no segment is
\* on: the files are removed first, which waits for their users, and only then
\* are the segments stopped one card after the other (niagara_destroy).
THEOREM TeardownIsUndisturbed == Spec => []TeardownUndisturbed
<1>1. LoadInit => TearInv
  BY DEF LoadInit, TearInv
<1>2. TearInv => TeardownUndisturbed
  BY DEF TearInv, TeardownUndisturbed, NoUsers
<1> QED  BY <1>1, <1>2, TearSteps, ScanInvariant, LoadInvariant, PTL DEF Spec
=============================================================================
