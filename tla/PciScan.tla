------------------------------ MODULE PciScan ------------------------------
(***************************************************************************)
(* The first half of niagara_init in module/main.c with cpld_validate of   *)
(* module/cpld_validate.c: the scan of the PCI functions for known cards.  *)
(* The functions of one kind of card come one after the other; num_ports   *)
(* of them make a card.  Nobody else knows of the cards meanwhile.         *)
(***************************************************************************)
EXTENDS Integers, Sequences, FiniteSets

CONSTANTS PciCards,  \* pci_cards: a sequence of [num_ports, side, swap, driver]
          Machines,  \* for each of them, the sequence of cards in the machine:
                     \* [alive, ctrl, net], whether the CPLD answers, its control
                     \* ports (or port and address), the ports with a network device
          MAX_CARD,
          MaxFunctions \* bound: PCI functions of one kind in a machine

Kind == 1..Len(PciCards)
Slot == 0..(MAX_CARD - 1)

ASSUME ScanAssumption ==
  /\ MAX_CARD \in Nat \ {0} /\ Len(PciCards) > 0
  /\ PciCards \in Seq([num_ports : {2, 4, 6, 8}, side : {"flash", "sdp", "esdp", "mdio"},
                       swap : BOOLEAN, driver : STRING])
  /\ \A k \in Kind : PciCards[k].swap => PciCards[k].num_ports > 2
  /\ MaxFunctions \in Nat
  /\ \A m \in Machines : /\ DOMAIN m = Kind
                         /\ \A k \in Kind :
                              /\ m[k] \in Seq([alive : BOOLEAN, ctrl : Nat \X Nat,
                                              net : SUBSET (0..7)])
                              /\ Len(m[k]) * PciCards[k].num_ports <= MaxFunctions

VARIABLES
  machine,
  phase,           \* "scan", "finish", "found", or the error returned
  kind, cursor,    \* pci and pci_dev: the kind of card, its last function
  port_in_card,
  cards, maxcard, hw_ctrl,
  refs,            \* refs[f]: references taken by pci_get_subsys
  leftover         \* slots that held an unfinished or a mute card (history)

scanvars == <<machine, phase, kind, cursor, port_in_card, cards, maxcard,
              hw_ctrl, refs, leftover>>

\* PCI function n of kind k, and where it sits.
NoDev == <<0, 0>>
Functions(k) == Len(machine[k]) * PciCards[k].num_ports
AllFunctions == {<<k, n>> : k \in Kind, n \in 1..MaxFunctions} \cup {NoDev}
Ports(k) == 0..(PciCards[k].num_ports - 1)
CardOf(f) == 1 + (f[2] - 1) \div PciCards[f[1]].num_ports
PortOf(f) == (f[2] - 1) % PciCards[f[1]].num_ports
HasNetDev(f) == PortOf(f) \in machine[f[1]][CardOf(f)].net

Init ==
  /\ machine \in Machines
  /\ phase = "scan" /\ kind = 1 /\ cursor = NoDev /\ port_in_card = 0
  /\ cards = [s \in Slot |-> [kind |-> 0, pci_dev |-> [p \in 0..7 |-> NoDev],
                              net_dev |-> [p \in 0..7 |-> NoDev]]]
  /\ maxcard = 0 /\ hw_ctrl = [s \in Slot |-> <<NoDev, NoDev>>]
  /\ refs = [f \in AllFunctions |-> 0] /\ leftover = {}

\* pci_get_subsys drops the reference to the function it starts from.
Get(f) == refs' = [refs EXCEPT ![f] = @ + 1,
                               ![cursor] = @ - (IF cursor = NoDev THEN 0 ELSE 1)]

\* The next function of this kind joins the card in progress.  Its network
\* device is looked up; what an earlier card left in the slot counts as well.
TakeDevice ==
  LET f == <<kind, cursor[2] + 1>>
      old == cards[maxcard].net_dev[port_in_card]
      net == IF HasNetDev(f) THEN f ELSE old
  IN  /\ phase = "scan" /\ cursor[2] < Functions(kind)
      /\ Get(f) /\ cursor' = f
      /\ IF port_in_card = 0 /\ maxcard >= MAX_CARD
         THEN phase' = "E2BIG" /\ UNCHANGED <<port_in_card, cards>>
         ELSE /\ cards' = [cards EXCEPT ![maxcard].pci_dev[port_in_card] = f,
                                        ![maxcard].net_dev[port_in_card] = net]
              /\ phase' = IF net = NoDev THEN "ENXIO"
                          ELSE IF port_in_card + 1 = PciCards[kind].num_ports
                               THEN "finish" ELSE phase
              /\ port_in_card' = port_in_card + (IF net = NoDev THEN 0 ELSE 1)
      /\ UNCHANGED <<machine, kind, maxcard, hw_ctrl, leftover>>

-----------------------------------------------------------------------------
(* cpld_validate *)

\* The pairs of control ports that are tried, in order; for MDIO cards a port
\* and an MDIO address, for FLASH cards a port's two windows.
Tries(k) ==
  LET n == PciCards[k].num_ports IN
  CASE PciCards[k].side = "flash" -> [t \in 1..n |-> <<t - 1, t - 1>>]
    [] PciCards[k].side \in {"sdp", "esdp"} ->
         [t \in 1..n |-> IF t % 2 = 1 THEN <<t - 1, t>> ELSE <<t - 1, t - 2>>]
    [] PciCards[k].side = "mdio" ->
         [t \in 1..(2 * n) |-> <<(t - 1) \div 2, IF t % 2 = 1 THEN 1 ELSE 30>>]

\* Every card has its control ports at one of the pairs.
ASSUME ControlAssumption ==
  \A m \in Machines : \A k \in Kind : \A c \in DOMAIN m[k] :
    \E t \in DOMAIN Tries(k) : Tries(k)[t] = m[k][c].ctrl

\* What validate_ports leaves in hw_ctrl: two functions, or one and an address.
Control(dev, k, try) ==
  <<dev[try[1]], IF PciCards[k].side = "mdio" THEN <<0, try[2]>> ELSE dev[try[2]]>>

\* Mutant: what reads back is not compared with what was written.
Accessible_Any(ctrl) == TRUE

\* The byte written to AVR_ADDR reads back: these are the control ports of a
\* card whose CPLD answers.
Accessible(ctrl) ==
  LET a == ctrl[1]
      b == ctrl[2]
      card == machine[a[1]][CardOf(a)]
  IN  /\ card.alive
      /\ IF b[1] = 0 THEN card.ctrl = <<PortOf(a), b[2]>>
         ELSE CardOf(a) = CardOf(b) /\ card.ctrl = <<PortOf(a), PortOf(b)>>

-----------------------------------------------------------------------------
\* Segments of N32264 and N42264 are exchanged in pairs.
Swapped(k, p) ==
  IF ~PciCards[k].swap THEN p
  ELSE IF p % 4 >= 2 THEN p - 2
  ELSE IF p + 2 < PciCards[k].num_ports THEN p + 2 ELSE p

\* The exchange uses pci_dev, the cursor of the scan: it is left at the device
\* of the last port that was moved up.
LastMoved(k) == CHOOSE p \in Ports(k) :
                  /\ p % 4 < 2 /\ Swapped(k, p) # p
                  /\ \A q \in Ports(k) : q % 4 < 2 /\ Swapped(k, q) # q => q <= p

Moved(dev) == [p \in 0..7 |-> IF p \in Ports(kind) THEN dev[Swapped(kind, p)]
                                                   ELSE dev[p]]

\* The card is complete: exchange the segments, find the control ports.  The
\* last pair tried stays in hw_ctrl; without an answer the slot is used again.
Finish(next_port, net_dev) ==
  LET dev == Moved(cards[maxcard].pci_dev)
      tries == [t \in DOMAIN Tries(kind) |-> Control(dev, kind, Tries(kind)[t])]
      answers == {t \in DOMAIN tries : Accessible(tries[t])}
      last == IF answers = {} THEN Len(tries)
              ELSE CHOOSE t \in answers : \A u \in answers : t <= u
  IN  /\ phase = "finish"
      /\ cards' = [cards EXCEPT ![maxcard] =
                     [kind |-> kind, pci_dev |-> dev, net_dev |-> net_dev]]
      /\ cursor' = IF PciCards[kind].swap
                   THEN cards[maxcard].pci_dev[LastMoved(kind)] ELSE cursor
      /\ hw_ctrl' = [hw_ctrl EXCEPT ![maxcard] = tries[last]]
      /\ IF answers = {} THEN leftover' = leftover \cup {maxcard} /\ UNCHANGED maxcard
                         ELSE maxcard' = maxcard + 1 /\ UNCHANGED leftover
      /\ port_in_card' = next_port /\ phase' = "scan"
      /\ UNCHANGED <<machine, kind, refs>>

\* Mutant: counting goes on with the ports of the card that is complete.
FinishCard_NoReset == Finish(port_in_card, Moved(cards[maxcard].net_dev))

\* Mutant: the exchange forgets the network devices.
FinishCard_NetStays == Finish(0, cards[maxcard].net_dev)

FinishCard == Finish(0, Moved(cards[maxcard].net_dev))

\* No more functions of this kind: on to the next one.
NextKind ==
  /\ phase = "scan" /\ cursor[2] = Functions(kind)
  /\ refs' = IF cursor = NoDev THEN refs ELSE [refs EXCEPT ![cursor] = @ - 1]
  /\ cursor' = NoDev /\ port_in_card' = 0
  /\ leftover' = IF port_in_card > 0 THEN leftover \cup {maxcard} ELSE leftover
  /\ IF kind < Len(PciCards) THEN kind' = kind + 1 /\ UNCHANGED phase
     ELSE /\ phase' = IF maxcard = 0 THEN "ENXIO" ELSE "found"
          /\ UNCHANGED kind
  /\ UNCHANGED <<machine, cards, maxcard, hw_ctrl>>

Scan == TakeDevice \/ FinishCard \/ NextKind

-----------------------------------------------------------------------------
ScanTypeOK ==
  /\ machine \in Machines /\ kind \in Kind
  /\ phase \in {"scan", "finish", "found", "ENXIO", "E2BIG"}
  /\ cursor \in AllFunctions
  /\ port_in_card \in 0..8 /\ maxcard \in 0..MAX_CARD
  /\ cards \in [Slot -> [kind : 0..Len(PciCards),
                         pci_dev : [0..7 -> AllFunctions],
                         net_dev : [0..7 -> AllFunctions]]]
  /\ hw_ctrl \in [Slot -> AllFunctions \X (AllFunctions \cup {<<0, 1>>, <<0, 30>>})]
  /\ refs \in [AllFunctions -> Int] /\ leftover \subseteq 0..MAX_CARD
  /\ port_in_card > 0 => maxcard < MAX_CARD

\* Entry s is the card c of kind k: its ports, in the order of its segments,
\* and its control ports.
IsCard(s, k, c) ==
  /\ cards[s].kind = k
  /\ \A p \in Ports(k) :
       cards[s].pci_dev[p] = <<k, (c - 1) * PciCards[k].num_ports + Swapped(k, p) + 1>>
  /\ Accessible(hw_ctrl[s]) /\ hw_ctrl[s][1][1] = k /\ CardOf(hw_ctrl[s][1]) = c

\* Every entry of cards[] is one card of the machine.
CardsArePhysical ==
  phase = "found" =>
    \A s \in 0..(maxcard - 1) : \E k \in Kind : \E c \in DOMAIN machine[k] :
      IsCard(s, k, c)

\* The cards in the machine, and those whose CPLD answers.
Cards == UNION {{<<k, c>> : c \in DOMAIN machine[k]} : k \in Kind}
Alive == {c \in Cards : machine[c[1]][c[2]].alive}

\* A scan that goes through has one entry for each card whose CPLD answers,
\* with that card's ports, and has given back its references to the devices;
\* mute cards in between shift nothing.  It fails only if there is no such card
\* or a port has no network device, or if there are too many cards.  Excepted are
\* machines with N32264 or N42264: their exchange moves the cursor of the scan.
ScanExactUnlessSwapped ==
  (\A k \in Kind : PciCards[k].swap => machine[k] = <<>>) =>
    CASE phase = "found" ->
           /\ CardsArePhysical /\ maxcard = Cardinality(Alive)
           /\ \A c \in Alive : \E s \in 0..(maxcard - 1) : IsCard(s, c[1], c[2])
           /\ \A f \in AllFunctions : refs[f] = 0
      [] phase = "ENXIO" ->
           \/ Alive = {}
           \/ \E c \in Cards : ~(Ports(c[1]) \subseteq machine[c[1]][c[2]].net)
      [] phase = "E2BIG" -> Cardinality(Cards) > MAX_CARD
      [] OTHER -> TRUE

\* A port's network device is the one of its PCI function, also after the
\* exchange, so a card with a port that has none is refused; except in a slot
\* where an unfinished or mute card has left its devices.
NetDevsOwn ==
  phase = "found" =>
    \A s \in (0..(maxcard - 1)) \ leftover : \A p \in Ports(cards[s].kind) :
      cards[s].net_dev[p] = cards[s].pci_dev[p]
=============================================================================
