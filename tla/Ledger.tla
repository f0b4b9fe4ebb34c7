------------------------------- MODULE Ledger -------------------------------
(***************************************************************************)
(* What consensus promises its users: every validator has a chain that only *)
(* grows, one block at a time, and no two chains ever differ at a height    *)
(* that both have reached.                                                  *)
(***************************************************************************)
EXTENDS Naturals, Sequences

CONSTANTS Nodes, Blocks

VARIABLE chain

\* b may follow as block number h: no other chain has another block there.
Undisputed(h, b) ==
  \A p \in Nodes : h <= Len(chain[p]) => chain[p][h] = b

Init == chain = [n \in Nodes |-> << >>]

Extend(n, b) ==
  /\ b.number = Len(chain[n]) + 1
  /\ Undisputed(Len(chain[n]) + 1, b)
  /\ chain' = [chain EXCEPT ![n] = Append(@, b)]

Next == \E n \in Nodes, b \in Blocks : Extend(n, b)

Spec == Init /\ [][Next]_chain
=============================================================================
