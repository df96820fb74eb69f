-------------------------- MODULE MCOffchainWorker --------------------------
(* Nodes n1 and n2, and the price their exchange answers with. *)
EXTENDS OffchainWorker

CONSTANTS n1, n2

\* 1.259.
OneQuote == {[integer |-> 1, fraction |-> 259, fraction_length |-> 3]}
=============================================================================
