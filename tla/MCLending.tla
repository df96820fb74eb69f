------------------------------ MODULE MCLending ------------------------------
(* Two users of one or two pools.  Bob is the account the genesis issues to, Alice the
   owner that gets a grant of each asset, and `pallet` the lending pallet's account. *)
EXTENDS Lending

CONSTANTS alice, bob, pallet

OneAsset  == << [account |-> bob, amount |-> 18, price |-> 1] >>

\* Alice lends asset 0, Bob's collateral is asset 1; its price falls.
TwoAssets(lent, lent_price, held, held_price) ==
    << [account |-> alice, amount |-> lent, price |-> lent_price],
       [account |-> bob,   amount |-> held, price |-> held_price] >>

EvenAssets == TwoAssets(20, 1, 12, 2)
EvenFall   == {<<1, DIV>>}

\* The exchange rates are not whole, and beyond MaxBalance before they are divided.
OddAssets == TwoAssets(20, 2, 12, 4)
OddFall   == {<<1, (23 * DIV) \div 10>>}

\* Both the rates and the amounts are: what Bob supplied is bought with an error of a unit.
RoundedAssets == TwoAssets(60, 14, 60, 20)
RoundedFall   == {<<1, 13 * DIV>>}

CONSTANT TotalsBound    \* bound: liquidations never lower the pools' totals, which would grow for ever
TotalsBounded == \A asset \in GenesisPools : pools[asset].supply <= TotalsBound
=============================================================================
