----------------------------- MODULE MCRuntime -----------------------------
(* Alice lends asset 0 and Bob borrows it against asset 1, whose price the node n1 asks
   for and puts on the chain. *)
EXTENDS Runtime

CONSTANTS alice, bob, pallet, n1

MCGenesis == << [account |-> alice, amount |-> 10, price |-> 1],
                [account |-> bob,   amount |-> 10, price |-> 2] >>

\* 1.5 and 2.259: at the lower one Bob's debt is not covered.
MCQuotes == {[integer |-> 1, fraction |-> 5,   fraction_length |-> 1],
             [integer |-> 2, fraction |-> 259, fraction_length |-> 3]}

MCFeed == {<<1, on_chain(quote)>> : quote \in MCQuotes} \cup {<<1, stored(p)>> : p \in OtherPrices}
=============================================================================
