----------------------------- MODULE MCAvlTree -----------------------------
(* Instances of AvlTree for TLC: a node is a number whose tens are its key. *)
EXTENDS AvlTree

Tens == [n \in Nodes |-> n \div 10]

\* No step depends on the latest call; what it answers is checked on every step.
Tree == <<root, bal>>
=============================================================================
