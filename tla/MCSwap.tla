------------------------------- MODULE MCSwap -------------------------------
(* Alice, whom the genesis issues to, Bob, the owner of its grants, and the accounts of the
   pools: e1 and e2 for assets 1 and 2 against asset 0, `other` for any other pair. *)
EXTENDS Swap

CONSTANTS alice, bob, e1, e2, other

MCGenesis == << [account |-> alice, amount |-> 7, price |-> 1],
                [account |-> alice, amount |-> 6, price |-> 1],
                [account |-> alice, amount |-> 4, price |-> 1] >>

\* A small ledger, for the run of every operation.
SmallGenesis == << [account |-> alice, amount |-> 3, price |-> 1],
                   [account |-> alice, amount |-> 2, price |-> 1],
                   [account |-> alice, amount |-> 2, price |-> 1] >>

OneDeposit == {<<1, 2>>}
MCDeposits == {<<2, 2>>, <<3, 1>>}

MCExchange == [i \in AssetIds |-> [a \in AssetIds |->
                   CASE i = 0 /\ a = 1 -> e1 [] i = 0 /\ a = 2 -> e2 [] OTHER -> other]]

CONSTANT LiquidityBound   \* bound: liquidity minted without payment would grow for ever
LiquidityBounded == \A id \in AssetIds : total_liquidity[id] <= LiquidityBound
=============================================================================
