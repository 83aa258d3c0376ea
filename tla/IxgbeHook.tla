------------------------------ MODULE IxgbeHook ------------------------------
(***************************************************************************)
(* ixgbe_port_set of module/niagara_ixgbe.c: a port of an ixgbe card is    *)
(* taken down by exchanging its check_link operation for one that reports  *)
(* no link.  One global keeps the original of all ports.  Left out are the *)
(* refusal of a network device that is not ixgbe's, which changes nothing, *)
(* and the flag that asks the driver to look at the link again, whose word *)
(* is the driver's.                                                        *)
(***************************************************************************)
EXTENDS CardThreads, Integers

CONSTANTS Port,
          Operations   \* check_link operations of the ixgbe driver

ASSUME HookAssumption ==
  Port # {} /\ "emulated_check_link" \notin Operations /\ "NULL" \notin Operations

VARIABLES
  check_link,       \* check_link[x]: the operation in port x's structure
  orig_check_link,
  hook,             \* where a thread is in ixgbe_port_set
  own,              \* the operation that ixgbe gave to a port
  down,             \* ports taken down by the last call for them (history)
  raced             \* two calls were at one port at a time (history)

hookvars == <<check_link, orig_check_link, hook, own, down, raced>>

NoHook == [pc |-> "idle", port |-> CHOOSE x \in Port : TRUE]

HookInit ==
  /\ own \in [Port -> Operations] /\ check_link = own
  /\ orig_check_link = "NULL"
  /\ hook = [p \in Thread |-> NoHook]
  /\ down = {} /\ raced = FALSE

\* The test: nothing to do, or on to the exchange.
ixgbe_port_set(p, x, link_up) ==
  LET emulated == check_link[x] = "emulated_check_link"
      to == IF emulated = link_up THEN IF emulated THEN "restore" ELSE "save"
            ELSE "idle"
  IN  /\ hook[p].pc = "idle"
      /\ hook' = [hook EXCEPT ![p] = IF to = "idle" THEN NoHook
                                     ELSE [pc |-> to, port |-> x]]
      /\ down' = IF link_up THEN down \ {x} ELSE down \cup {x}
      /\ raced' = (raced \/ \E q \in Thread : hook[q].pc # "idle" /\ hook[q].port = x)
      /\ UNCHANGED <<check_link, orig_check_link, own>>

\* Mutant: the original is saved after the exchange.
Save_Late(p) ==
  /\ hook[p].pc = "save"
  /\ orig_check_link' = "emulated_check_link"
  /\ hook' = [hook EXCEPT ![p].pc = "exchange"]
  /\ UNCHANGED <<check_link, own, down, raced>>

\* The operation is read once more.
Save(p) ==
  /\ hook[p].pc = "save"
  /\ orig_check_link' = check_link[hook[p].port]
  /\ hook' = [hook EXCEPT ![p].pc = "exchange"]
  /\ UNCHANGED <<check_link, own, down, raced>>

Exchange(p) ==
  /\ hook[p].pc = "exchange"
  /\ check_link' = [check_link EXCEPT ![hook[p].port] = "emulated_check_link"]
  /\ hook' = [hook EXCEPT ![p] = NoHook]
  /\ UNCHANGED <<orig_check_link, own, down, raced>>

Restore(p) ==
  /\ hook[p].pc = "restore"
  /\ check_link' = [check_link EXCEPT ![hook[p].port] = orig_check_link]
  /\ hook' = [hook EXCEPT ![p] = NoHook]
  /\ UNCHANGED <<orig_check_link, own, down, raced>>

HookStep(p) == Save(p) \/ Exchange(p) \/ Restore(p)

HookTypeOK ==
  LET ops == Operations \cup {"emulated_check_link"} IN
  /\ own \in [Port -> Operations] /\ check_link \in [Port -> ops]
  /\ orig_check_link \in ops \cup {"NULL"}
  /\ hook \in [Thread -> [pc : {"idle", "save", "exchange", "restore"}, port : Port]]
  /\ down \subseteq Port /\ raced \in BOOLEAN

\* Unless calls raced at one port, or the ports' own operations differ:
\* the ixgbe driver always reaches a port's own operation, directly or through
\* emulated_check_link (which never calls itself), whatever happens at the other
\* ports; and a port reports no link exactly if the last call took it down.
HookExact ==
  raced \/ (\E x, y \in Port : own[x] # own[y])
    \/ \A x \in Port :
         /\ check_link[x] = own[x] \/ orig_check_link = own[x]
         /\ (\A p \in Thread : hook[p].pc = "idle" \/ hook[p].port # x) =>
              ((check_link[x] = "emulated_check_link") <=> (x \in down))
=============================================================================
