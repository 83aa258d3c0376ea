------------------------------- MODULE MCLoad -------------------------------
(* Kinds of cards as in supported_cards.txt, and the machines that are tried. *)
EXTENDS Load

MCPciCards ==
  LET card(n, side, swap, driver) ==
        [num_ports |-> n, side |-> side, swap |-> swap, driver |-> driver]
  IN  <<card(2, "flash", FALSE, "e1000"),  \* N2282
        card(4, "sdp", TRUE, "igb"),       \* N32264
        card(6, "sdp", FALSE, "igb"),      \* N32266
        card(2, "mdio", FALSE, "ixgbe")>>  \* N32710

LOCAL Card(alive, ctrl, net) == [alive |-> alive, ctrl |-> ctrl, net |-> net]
LOCAL Flash == Card(TRUE, <<1, 1>>, 0..1)
LOCAL Six(alive, ctrl) == Card(alive, ctrl, 0..5)
LOCAL Mdio(alive) == Card(alive, <<1, 30>>, 0..1)
LOCAL Swap == Card(TRUE, <<2, 3>>, 0..3)
LOCAL Empty == <<>>

\* One card, two, three, with exchanged control ports, mute, without network
\* devices, in several orders.
MCMachines ==
  {<<Empty, Empty, Empty, <<Mdio(TRUE), Mdio(TRUE)>>>>,
   <<Empty, Empty, <<Six(TRUE, <<3, 2>>)>>, Empty>>,
   <<<<Flash>>, Empty, Empty, <<Mdio(TRUE)>>>>,
   <<Empty, Empty, Empty, <<Mdio(FALSE), Mdio(TRUE)>>>>,
   <<Empty, Empty, <<Six(FALSE, <<0, 1>>)>>, <<Mdio(TRUE)>>>>,
   <<Empty, Empty, <<Six(FALSE, <<0, 1>>)>>, <<Card(TRUE, <<0, 1>>, {})>>>>,
   <<Empty, Empty, Empty, <<Mdio(TRUE), Card(TRUE, <<0, 30>>, {1}), Mdio(TRUE)>>>>,
   <<Empty, Empty, Empty, <<Mdio(TRUE), Mdio(TRUE), Mdio(TRUE)>>>>,
   <<Empty, Empty, Empty, <<Mdio(FALSE)>>>>,
   <<Empty, <<Swap>>, Empty, Empty>>}

MCSwapped == {<<Empty, <<Swap, Swap>>, Empty, Empty>>}
=============================================================================
