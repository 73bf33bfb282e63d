---- MODULE MCSimKernel ----
(* Small instances of SimKernel for TLC. *)
EXTENDS SimKernel

CONSTANTS n1, n2

RemoveAndAdd == <<[at |-> 3, type |-> "REMOVE", node |-> n1],
                  [at |-> 3, type |-> "ADD", node |-> n2]>>

MCSetups == {[external |-> FALSE, plan |-> <<>>],
             [external |-> TRUE, plan |-> RemoveAndAdd]}
====
