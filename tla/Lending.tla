------------------------------ MODULE Lending ------------------------------
(***************************************************************************)
(* The lending pallet (src/pallets/lending/src/lib.rs) over the assets     *)
(* pallet's ledger: money market pools that accrue linear interest through *)
(* an index, the users' supplies and debts in them, and liquidation.       *)
(*                                                                         *)
(* Dispatchables of Substrate 2.0.1 are not transactional: what an         *)
(* extrinsic stored before it returns an error stays stored.  An action    *)
(* is the whole extrinsic: it is disabled when the call stores nothing,    *)
(* takes the ELSE branch when it stores something and then fails, and      *)
(* a computation that panics disables it.                                  *)
(***************************************************************************)
EXTENDS Assets

CONSTANTS None,                 \* Option::None
          account_id,           \* the pallet's own account, PALLET_ID.into_account()
          UtilizationFactor,    \* slope of the interest model, fixed point
          InitialInterestRate,  \* its value at zero utilization, fixed point
          GenesisPools,         \* config(pools)
          InitPoolAssets,       \* the assets init_pool is called with
          Liquidators,          \* the accounts that call liquidate
          MaxBlock              \* bound: the last block of the model

SafeFactor           == saturating_from_rational(7, 10)
CloseFactor          == one
DiscountFactor       == saturating_from_rational(95, 100)
LiquidationThreshold == one

Entry == [amount : Balance, index : Balance]       \* UserSupply, UserDebt

Pool == [can_be_collateral  : BOOLEAN,
         supply             : Balance,
         debt               : Balance,
         total_supply_index : Balance,
         total_debt_index   : Balance,
         last_updated       : 0..MaxBlock]

ASSUME LendingAssumption ==
    /\ None \notin [amount : Outcome, index : Balance] /\ None \notin Pool
    /\ account_id \in Accounts \ Signers
    /\ UtilizationFactor \in Balance /\ InitialInterestRate \in Balance
    /\ GenesisPools \subseteq AssetIds /\ InitPoolAssets \subseteq AssetIds
    /\ Liquidators \subseteq Signers
    /\ MaxBlock \in Nat \ {0}

VARIABLES pools,            \* Pools: asset id -> Pool or None
          user_supplies,    \* UserSupplies: asset id -> account -> Entry or None
          user_debts,       \* UserDebts, likewise
          user_supply_set,  \* UserSupplySet: account -> the Vec, as how often it lists an asset
          user_debt_set,    \* UserDebtSet, likewise
          block_number      \* frame_system's block number

user_vars    == <<user_supplies, user_debts, user_supply_set, user_debt_set>>
lending_vars == <<pools, user_vars, block_number>>
vars         == <<assets_vars, lending_vars>>

-----------------------------------------------------------------------------
(* Interest. *)

debt_rate_internal(pool) ==
    IF pool.supply = 0 THEN InitialInterestRate
    ELSE fixed_add(InitialInterestRate,
                   fixed_mul(UtilizationFactor, saturating_from_rational(pool.debt, pool.supply)))

\* Mutant of supply_rate_internal: suppliers earn the debt rate on all they supply.
supply_rate_unscaled(pool) == IF pool.supply = 0 THEN 0 ELSE debt_rate_internal(pool)

supply_rate_internal(pool) ==
    IF pool.supply = 0 THEN 0
    ELSE fixed_mul(debt_rate_internal(pool), saturating_from_rational(pool.debt, pool.supply))

\* Mutant of multiplier: the interest without the principal.
multiplier_without_one(rate, pool) ==
    fixed_mul(rate, saturating_from_integer(block_number - pool.last_updated))

multiplier(rate, pool) ==
    fixed_add(one, fixed_mul(rate, saturating_from_integer(block_number - pool.last_updated)))
supply_multiplier(pool) == multiplier(supply_rate_internal(pool), pool)
debt_multiplier(pool)   == multiplier(debt_rate_internal(pool), pool)

supply_index_now(pool) == fixed_mul(pool.total_supply_index, supply_multiplier(pool))
debt_index_now(pool)   == fixed_mul(pool.total_debt_index, debt_multiplier(pool))

\* Mutant of accrue_interest: last_updated is not stored.
accrue_interest_undated(pool) ==
    IF pool.last_updated = block_number THEN pool
    ELSE [pool EXCEPT !.supply = saturating_mul_int(supply_multiplier(pool), @),
                      !.debt = saturating_mul_int(debt_multiplier(pool), @),
                      !.total_supply_index = supply_index_now(pool),
                      !.total_debt_index = debt_index_now(pool)]

accrue_interest(pool) ==
    IF pool.last_updated = block_number THEN pool
    ELSE [pool EXCEPT !.supply = saturating_mul_int(supply_multiplier(pool), @),
                      !.debt = saturating_mul_int(debt_multiplier(pool), @),
                      !.total_supply_index = supply_index_now(pool),
                      !.total_debt_index = debt_index_now(pool),
                      !.last_updated = block_number]

-----------------------------------------------------------------------------
(* A user's position in one pool. *)

\* The amount an entry is worth once its pool's index is `index`.
grown(entry, index) == saturating_mul_int(fixed_div(index, entry.index), entry.amount)

\* accrue_supply_with_interest and accrue_debt_with_interest.
accrued(entry, index) ==
    IF entry = None THEN None ELSE [amount |-> grown(entry, index), index |-> index]

\* Mutant of updated: an entry that exists is accrued and the amount is lost.
updated_accrued_only(entry, index, amount, positive) ==
    IF entry = None THEN [amount |-> amount, index |-> index]
    ELSE [amount |-> grown(entry, index), index |-> index]

\* update_user_supply and update_user_debt: the entry after adding or taking an amount.
updated(entry, index, amount, positive) ==
    LET before == IF entry = None THEN 0 ELSE grown(entry, index)
        after  == IF positive THEN wrapping_add[before][amount] ELSE wrapping_sub[before][amount]
        stored == IF entry = None THEN amount ELSE after
    IN  IF stored = 0 THEN None ELSE [amount |-> stored, index |-> index]

capped(amount, limit) == IF amount > limit THEN limit ELSE amount

\* Mutants of retained and pushed: the asset is dropped whatever is left of the entry; it
\* is pushed again for an entry that is listed already.
retained_never(list, who, asset, before, after) == [list EXCEPT ![who][asset] = 0]
pushed_again(list, who, asset) == [list EXCEPT ![who][asset] = @ + 1]

\* The user's Vec of assets, after update_user_* removed an entry, and after an entry was made.
retained(list, who, asset, before, after) ==
    IF before # None /\ after = None THEN [list EXCEPT ![who][asset] = 0] ELSE list
pushed(list, who, asset) == [list EXCEPT ![who][asset] = IF @ = 0 THEN 1 ELSE @]

get_user_supply_with_interest(supplies, asset, user) ==
    IF pools[asset] = None \/ supplies[asset][user] = None THEN 0
    ELSE grown(supplies[asset][user], supply_index_now(pools[asset]))
get_user_debt_with_interest(debts, asset, user) ==
    IF pools[asset] = None \/ debts[asset][user] = None THEN 0
    ELSE grown(debts[asset][user], debt_index_now(pools[asset]))

-----------------------------------------------------------------------------
(* get_user_info: the user's borrowing power and debt, in the unit of prices, *)
(* given the entries now in storage.                                          *)

\* worth[asset] for each time the user's Vec lists the asset.
listed_sum(list, worth) ==
    MapThenFoldSet(LAMBDA a, b : wrapping_add[a][b], 0,
                   LAMBDA asset : IF worth[asset] = Panic THEN Panic
                                  ELSE (list[asset] * worth[asset]) % (MaxBalance + 1),
                   LAMBDA set : CHOOSE asset \in set : TRUE,
                   {asset \in AssetIds : list[asset] > 0})

collateral_value(asset, amount) == saturating_mul_int(fixed_mul(price[asset], SafeFactor), amount)
debt_value(asset, amount)       == saturating_mul_int(price[asset], amount)

\* Self::pool(asset).unwrap() panics on a listed asset without a pool.
supply_converted(supplies, user) ==
    listed_sum(user_supply_set[user],
               [asset \in AssetIds |->
                    IF pools[asset] = None THEN Panic
                    ELSE collateral_value(asset,
                             get_user_supply_with_interest(supplies, asset, user))])
debt_balance(debts, user) ==
    listed_sum(user_debt_set[user],
               [asset \in AssetIds |->
                    debt_value(asset, get_user_debt_with_interest(debts, asset, user))])

\* get_liquidation_threshold() times the debt is within the borrowing power.
covered(borrow, supply) == saturating_mul_int(LiquidationThreshold, borrow) <= supply

-----------------------------------------------------------------------------
(* The extrinsics.  A computation is bound as the one element of a set that is *)
(* empty when it panics.                                                       *)

value(v)       == {v} \ {Panic}
defined(entry) == {e \in {entry} : e # None => e.amount # Panic}

\* The pool of an asset with its interest up to this block, if there is a pool.
accrued_pool(asset) ==
    {p \in {accrue_interest(pool) : pool \in {pools[asset]} \ {None}} :
        Panic \notin {p.supply, p.debt, p.total_supply_index, p.total_debt_index}}

cash(pool) == wrapping_sub[pool.supply][pool.debt]

supplied(who, asset, pool, entry, amount) ==
    \E after \in defined(updated(entry, pool.total_supply_index, amount, TRUE)) :
        /\ transfer_ok(balances, who, asset, amount)
        /\ balances' = moved(balances, who, asset, account_id, amount)
        /\ user_supplies' = [user_supplies EXCEPT ![asset][who] = after]
        /\ user_supply_set' = pushed(retained(user_supply_set, who, asset, entry, after), who, asset)
        /\ pools' = [pools EXCEPT ![asset] = [pool EXCEPT !.supply = wrapping_add[@][amount]]]

supply(who, asset, amount) ==
    /\ \E pool \in accrued_pool(asset) :
           supplied(who, asset, pool, user_supplies[asset][who], amount)
    /\ UNCHANGED <<total_supply, next_asset_id, inherent_asset_id, price,
                   user_debts, user_debt_set, block_number>>

withdrawn(who, asset, pool, entry, amount) ==
    \E after \in defined(updated(entry, pool.total_supply_index, amount, FALSE)) :
        /\ transfer_ok(balances, account_id, asset, amount)
        /\ balances' = moved(balances, account_id, asset, who, amount)
        /\ user_supplies' = [user_supplies EXCEPT ![asset][who] = after]
        /\ user_supply_set' = retained(user_supply_set, who, asset, entry, after)
        /\ pools' = [pools EXCEPT ![asset] = [pool EXCEPT !.supply = wrapping_sub[@][amount]]]

\* The extrinsic stops with an error, after it stored the user's accrued entry.
supply_accrued(who, asset, entry) ==
    /\ user_supplies' = [user_supplies EXCEPT ![asset][who] = entry]
    /\ UNCHANGED <<balances, user_supply_set, pools>>

withdraw_checked(who, asset, pool, entry, amount) ==
    \E supplies \in {[user_supplies EXCEPT ![asset][who] = entry]} :
    \E power \in value(wrapping_sub[supply_converted(supplies, who)]
                                   [collateral_value(asset, amount)]),
       borrowed \in value(debt_balance(user_debts, who)) :
        IF /\ covered(borrowed, power)
           /\ cash(pool) >= amount
           /\ transfer_ok(balances, account_id, asset, amount)
        THEN withdrawn(who, asset, pool, entry, amount)
        ELSE supply_accrued(who, asset, entry)

withdraw(who, asset, wanted) ==
    /\ user_supplies[asset][who] # None
    /\ \E pool \in accrued_pool(asset) :
       \E entry \in defined(accrued(user_supplies[asset][who], pool.total_supply_index)) :
           withdraw_checked(who, asset, pool, entry, capped(wanted, entry.amount))
    /\ UNCHANGED <<total_supply, next_asset_id, inherent_asset_id, price,
                   user_debts, user_debt_set, block_number>>

borrowed_from(who, asset, pool, entry, amount) ==
    \E after \in defined(updated(entry, pool.total_debt_index, amount, TRUE)) :
        /\ transfer_ok(balances, account_id, asset, amount)
        /\ balances' = moved(balances, account_id, asset, who, amount)
        /\ user_debts' = [user_debts EXCEPT ![asset][who] = after]
        /\ user_debt_set' = pushed(retained(user_debt_set, who, asset, entry, after), who, asset)
        /\ pools' = [pools EXCEPT ![asset] = [pool EXCEPT !.debt = wrapping_add[@][amount]]]

\* As supply_accrued, for a debt.
debt_accrued(who, asset, entry) ==
    /\ user_debts' = [user_debts EXCEPT ![asset][who] = entry]
    /\ UNCHANGED <<balances, user_debt_set, pools>>

\* Mutant of borrow_checked: the borrowing power is not checked.
borrow_unchecked(who, asset, pool, entry, amount) ==
    IF transfer_ok(balances, account_id, asset, amount)
    THEN borrowed_from(who, asset, pool, entry, amount)
    ELSE debt_accrued(who, asset, entry)

borrow_checked(who, asset, pool, entry, amount) ==
    \E debts \in {[user_debts EXCEPT ![asset][who] = entry]} :
    \E power \in value(supply_converted(user_supplies, who)),
       borrowed \in value(wrapping_add[debt_balance(debts, who)][debt_value(asset, amount)]) :
        IF /\ covered(borrowed, power)
           /\ transfer_ok(balances, account_id, asset, amount)
        THEN borrowed_from(who, asset, pool, entry, amount)
        ELSE debt_accrued(who, asset, entry)

\* The pool's cash is checked before anything is stored.
borrow(who, asset, amount) ==
    /\ \E pool \in accrued_pool(asset) :
       \E entry \in defined(accrued(user_debts[asset][who], pool.total_debt_index)) :
           /\ cash(pool) >= amount
           /\ borrow_checked(who, asset, pool, entry, amount)
    /\ UNCHANGED <<total_supply, next_asset_id, inherent_asset_id, price,
                   user_supplies, user_supply_set, block_number>>

repaid(who, asset, pool, entry, amount) ==
    \E after \in defined(updated(entry, pool.total_debt_index, amount, FALSE)) :
        /\ transfer_ok(balances, who, asset, amount)
        /\ balances' = moved(balances, who, asset, account_id, amount)
        /\ user_debts' = [user_debts EXCEPT ![asset][who] = after]
        /\ user_debt_set' = retained(user_debt_set, who, asset, entry, after)
        /\ pools' = [pools EXCEPT ![asset] = [pool EXCEPT !.debt = wrapping_sub[@][amount]]]

repay(who, asset, offered) ==
    /\ user_debts[asset][who] # None
    /\ \E pool \in accrued_pool(asset) :
       \E entry \in defined(accrued(user_debts[asset][who], pool.total_debt_index)) :
           IF transfer_ok(balances, who, asset, capped(offered, entry.amount))
           THEN repaid(who, asset, pool, entry, capped(offered, entry.amount))
           ELSE debt_accrued(who, asset, entry)
    /\ UNCHANGED <<total_supply, next_asset_id, inherent_asset_id, price,
                   user_supplies, user_supply_set, block_number>>

-----------------------------------------------------------------------------
(* Liquidation: `who` pays some of the debt of `target` in pay_asset and gets some *)
(* of its supply in get_asset, at a discount.                                      *)

\* Mutant of pay_limit: of what the pool has, not the target.
pay_limit_pooled(s_entry, pay_asset, get_asset) ==
    saturating_mul_int(fixed_mul(fixed_div(price[get_asset], price[pay_asset]), DiscountFactor),
                       saturating_mul_int(CloseFactor, pools[get_asset].supply))

pay_limit(s_entry, pay_asset, get_asset) ==
    saturating_mul_int(fixed_mul(fixed_div(price[get_asset], price[pay_asset]), DiscountFactor),
                       saturating_mul_int(CloseFactor, s_entry.amount))

\* Mutant of get_amount: the wrong factor as the discount.
get_amount_misdiscounted(pay, pay_asset, get_asset) ==
    saturating_mul_int(fixed_div(fixed_div(price[pay_asset], price[get_asset]), SafeFactor), pay)

get_amount(pay, pay_asset, get_asset) ==
    saturating_mul_int(fixed_div(fixed_div(price[pay_asset], price[get_asset]), DiscountFactor), pay)

\* The extrinsic stops with an error: the accrued entries stay, and so does a payment
\* already made.
liquidate_fails(target, pay_asset, get_asset, s_entry, d_entry, bal) ==
    /\ user_supplies' = [user_supplies EXCEPT ![get_asset][target] = s_entry]
    /\ user_debts' = [user_debts EXCEPT ![pay_asset][target] = d_entry]
    /\ balances' = bal
    /\ UNCHANGED <<user_supply_set, user_debt_set, pools>>

\* Both transfers went through.  Neither pool's totals are touched.
liquidated(who, target, pay_asset, get_asset, pay, get, pay_pool, get_pool, s_entry, d_entry, paid) ==
    \E s_after \in defined(updated(s_entry, get_pool.total_supply_index, get, FALSE)),
       d_after \in defined(updated(d_entry, pay_pool.total_debt_index, pay, FALSE)) :
        /\ transfer_ok(paid, account_id, get_asset, get)
        /\ balances' = moved(paid, account_id, get_asset, who, get)
        /\ user_supplies' = [user_supplies EXCEPT ![get_asset][target] = s_after]
        /\ user_debts' = [user_debts EXCEPT ![pay_asset][target] = d_after]
        /\ user_supply_set' = retained(user_supply_set, target, get_asset, s_entry, s_after)
        /\ user_debt_set' = retained(user_debt_set, target, pay_asset, d_entry, d_after)
        /\ pools' = [[pools EXCEPT ![get_asset] = get_pool] EXCEPT ![pay_asset] = pay_pool]

\* The target is under the threshold and has both a supply to seize and a debt to pay.
settle(who, target, pay_asset, get_asset, pay, pay_pool, get_pool, s_entry, d_entry) ==
    \E paid \in {transfer(balances, who, pay_asset, account_id, pay)},
       get \in value(get_amount(pay, pay_asset, get_asset)) :
        IF /\ transfer_ok(balances, who, pay_asset, pay)
           /\ transfer_ok(paid, account_id, get_asset, get)
        THEN liquidated(who, target, pay_asset, get_asset, pay, get, pay_pool, get_pool,
                        s_entry, d_entry, paid)
        ELSE liquidate_fails(target, pay_asset, get_asset, s_entry, d_entry, paid)

\* Mutant of liquidate_checked: the target's health is not checked.
liquidate_unchecked(who, target, pay_asset, get_asset, offered, pay_pool, get_pool, s_entry, d_entry) ==
    IF None \in {s_entry, d_entry}
    THEN liquidate_fails(target, pay_asset, get_asset, s_entry, d_entry, balances)
    ELSE \E limit \in value(pay_limit(s_entry, pay_asset, get_asset)) :
             settle(who, target, pay_asset, get_asset,
                    capped(capped(offered, limit), d_entry.amount),
                    pay_pool, get_pool, s_entry, d_entry)

liquidate_checked(who, target, pay_asset, get_asset, offered, pay_pool, get_pool, s_entry, d_entry) ==
    \E supplies \in {[user_supplies EXCEPT ![get_asset][target] = s_entry]},
       debts \in {[user_debts EXCEPT ![pay_asset][target] = d_entry]} :
    \E power \in value(supply_converted(supplies, target)),
       borrowed \in value(debt_balance(debts, target)) :
        IF covered(borrowed, power) \/ s_entry = None
        THEN liquidate_fails(target, pay_asset, get_asset, s_entry, d_entry, balances)
        ELSE \E limit \in value(pay_limit(s_entry, pay_asset, get_asset)) :
             IF d_entry = None
             THEN liquidate_fails(target, pay_asset, get_asset, s_entry, d_entry, balances)
             ELSE settle(who, target, pay_asset, get_asset,
                         capped(capped(offered, limit), d_entry.amount),
                         pay_pool, get_pool, s_entry, d_entry)

liquidate(who, target, pay_asset, get_asset, offered) ==
    /\ \E get_pool \in accrued_pool(get_asset), pay_pool \in accrued_pool(pay_asset) :
       \E s_entry \in defined(accrued(user_supplies[get_asset][target], get_pool.total_supply_index)),
          d_entry \in defined(accrued(user_debts[pay_asset][target], pay_pool.total_debt_index)) :
           /\ get_pool.can_be_collateral
           /\ liquidate_checked(who, target, pay_asset, get_asset, offered, pay_pool, get_pool,
                                s_entry, d_entry)
    /\ UNCHANGED <<total_supply, next_asset_id, inherent_asset_id, price, block_number>>

\* _init_pool, run in a given block.
new_pool_at(block, can_be_collateral) ==
    [can_be_collateral  |-> can_be_collateral,
     supply             |-> 0,
     debt               |-> 0,
     total_supply_index |-> one,
     total_debt_index   |-> one,
     last_updated       |-> block]

new_pool(can_be_collateral) == new_pool_at(block_number, can_be_collateral)

\* Mutant of init_pool: a pool that is no collateral is removed instead.
init_pool_removing(asset, can_be_collateral) ==
    /\ pools' = [pools EXCEPT ![asset] = IF can_be_collateral THEN new_pool(TRUE) ELSE None]
    /\ UNCHANGED <<assets_vars, user_vars, block_number>>

\* Any origin, and whether or not the pool exists.
init_pool(asset, can_be_collateral) ==
    /\ pools' = [pools EXCEPT ![asset] = new_pool(can_be_collateral)]
    /\ UNCHANGED <<assets_vars, user_vars, block_number>>

\* frame_system starts the next block.
next_block ==
    /\ block_number < MaxBlock
    /\ block_number' = block_number + 1
    /\ UNCHANGED <<assets_vars, pools, user_vars>>

-----------------------------------------------------------------------------
\* The genesis build is block 0; extrinsics start in block 1.
Init ==
    LET nothing  == [asset \in AssetIds |-> [a \in Accounts |-> None]]
        unlisted == [a \in Accounts |-> [asset \in AssetIds |-> 0]]
    IN  /\ AssetsInit
        /\ block_number = 1
        /\ pools = [asset \in AssetIds |-> IF asset \in GenesisPools THEN new_pool_at(0, TRUE) ELSE None]
        /\ user_supplies = nothing /\ user_debts = nothing
        /\ user_supply_set = unlisted /\ user_debt_set = unlisted

UserNext ==
    \E who \in Signers, asset \in AssetIds, amount \in Amounts :
        \/ supply(who, asset, amount)
        \/ withdraw(who, asset, amount)
        \/ borrow(who, asset, amount)
        \/ repay(who, asset, amount)

LiquidateNext ==
    \E who \in Liquidators, target \in Signers, pay_asset, get_asset \in AssetIds, amount \in Amounts :
        liquidate(who, target, pay_asset, get_asset, amount)

EnvNext ==
    \/ next_block
    \/ \E asset \in InitPoolAssets, c \in BOOLEAN : init_pool(asset, c)
    \/ AssetsNext /\ UNCHANGED lending_vars

Next == EnvNext \/ UserNext \/ LiquidateNext

Spec == Init /\ [][Next]_vars

-----------------------------------------------------------------------------
(* Properties. *)

\* Every number the pallet stores is a u128 and every record is whole: no panic value,
\* and no half-built entry, ever reaches storage.
LendingTypeOK ==
    /\ AssetsTypeOK
    /\ pools \in [AssetIds -> Pool \cup {None}]
    /\ user_supplies \in [AssetIds -> [Accounts -> Entry \cup {None}]]
    /\ user_debts \in [AssetIds -> [Accounts -> Entry \cup {None}]]
    /\ user_supply_set \in [Accounts -> [AssetIds -> Nat]]
    /\ user_debt_set \in [Accounts -> [AssetIds -> Nat]]
    /\ block_number \in 0..MaxBlock

\* What get_user_info sums over is every position, once: an entry in UserSupplies or
\* UserDebts is listed exactly once in the user's set, through removals and re-entries.
\* A position left out would escape the health check, one listed twice count double.
PositionsListed ==
    \A user \in Accounts, asset \in AssetIds :
        /\ user_supply_set[user][asset] <= 1 /\ user_debt_set[user][asset] <= 1
        /\ user_supplies[asset][user] # None => user_supply_set[user][asset] = 1
        /\ user_debts[asset][user] # None => user_debt_set[user][asset] = 1

\* `Self::pool(asset).unwrap()` in get_user_info (lib.rs:726) never panics: an asset is
\* only listed by a user once it has a pool, and a pool is never removed.
ListedHasPool ==
    \A user \in Accounts, asset \in AssetIds :
        user_supply_set[user][asset] > 0 \/ user_debt_set[user][asset] > 0 => pools[asset] # None

supply_now(asset, user) == get_user_supply_with_interest(user_supplies, asset, user)
debt_now(asset, user)   == get_user_debt_with_interest(user_debts, asset, user)
net(asset, user)        == balances[asset][user] + supply_now(asset, user) - debt_now(asset, user)

\* Interest can be computed.  PoolDebtCoversUsers shows how this fails: repaying a debt that
\* rounding let outgrow the pool's takes the pool's to about 2^128, and from then on computing
\* its rates overflows and panics.
computable ==
    \A asset \in AssetIds : pools[asset] # None =>
        supply_index_now(pools[asset]) > 0 /\ debt_index_now(pools[asset]) > 0

\* And no position is near the width of a u128.
intact ==
    /\ computable
    /\ \A asset \in AssetIds, user \in Signers :
           /\ balances[asset][user] + supply_now(asset, user) <= MaxBalance
           /\ balances[asset][account_id] + debt_now(asset, user) <= MaxBalance

\* Within a block no call of the four user extrinsics, successful or failed half way,
\* gives or takes anything: for every user and asset, wallet + supply - debt, with the
\* interest due, is what it was.  In particular accruing a pool or an entry twice in a
\* block, or by somebody else's call, adds no interest.
NetWorthKept ==
    [][block_number' = block_number /\ intact /\ intact' =>
          \A asset \in AssetIds, user \in Signers : net(asset, user)' = net(asset, user)]_vars

healthy(user)        == covered(debt_balance(user_debts, user), supply_converted(user_supplies, user))
healthyBut(user, n)  == covered(debt_balance(user_debts, user), supply_converted(user_supplies, user) + n)

\* "Any actions resulting not enough collaterals" are refused (lib.rs:157): at constant
\* prices, in one block, no call takes a user whose debt is covered to one whose debt is
\* not, by more than the 1 unit that rounding the two amounts apart can hide.
HealthKept ==
    [][block_number' = block_number /\ price' = price /\ computable /\ computable' =>
          \A user \in Signers : healthy(user) => healthyBut(user, 1)']_vars

\* The pallet's account holds at least what the pool says is there to withdraw or
\* borrow, supply - debt: interest owed to suppliers never outgrows interest charged to
\* borrowers.
CashBacked ==
    \A asset \in GenesisPools :
        balances[asset][account_id] + pools[asset].debt >= pools[asset].supply

\* An entry, or none, at an index of its pool.
worth(entry, index) == IF entry = None THEN 0 ELSE grown(entry, index)

\* one + rate * blocks, of either rate of a pool, fits in a u128 (it wraps in the code).
multipliers_fit(pool) ==
    \A rate \in {supply_rate_internal(pool), debt_rate_internal(pool)} :
        one + fixed_mul(rate, saturating_from_integer(block_number - pool.last_updated)) <= MaxBalance

\* The interest due on a pool fits, and nothing on the suppliers' side is rounded up.
interest_fits(pool) ==
    /\ multipliers_fit(pool)
    /\ (block_number - pool.last_updated) * DIV <= MaxBalance
    /\ pool.supply > 0 =>
           /\ rounds_down(pool.debt, DIV, pool.supply)
           /\ rounds_down(debt_rate_internal(pool),
                          saturating_from_rational(pool.debt, pool.supply), DIV)
           /\ rounds_down(supply_multiplier(pool), pool.supply, DIV)

\* The totals of a pool with the interest due: no more is lent than was supplied; or no user's
\* supply exceeds the pool's, and what may still be lent fits, or does so once a debt that was
\* repaid below zero is counted as negative.
totals_fit(asset) ==
    \A p \in accrued_pool(asset) :
        \/ p.debt <= p.supply
        \/ /\ \A user \in Signers : worth(user_supplies[asset][user], p.total_supply_index) <= p.supply
           /\ \/ balances[asset][account_id] + p.debt <= MaxBalance
              \/ balances[asset][account_id] + p.debt - (MaxBalance + 1) >= p.supply

\* The rounding and the widths that CashBacked rests on: with them nothing but a liquidation
\* breaks it.
CashIsSound == \A asset \in GenesisPools : interest_fits(pools[asset]) /\ totals_fit(asset)

\* A user whose debt is covered loses supply only to their own wallet: nobody can
\* liquidate them, and no other call touches it.
OnlyUnhealthyAreSeized ==
    [][block_number' = block_number /\ intact /\ intact' =>
          \A user \in Signers, asset \in AssetIds :
              supply_now(asset, user)' < supply_now(asset, user) /\ healthy(user) =>
                  balances'[asset][user] - balances[asset][user]
                      = supply_now(asset, user) - supply_now(asset, user)']_vars

\* What a liquidation takes from a user is paid for: supply that leaves a user without
\* reaching their wallet is worth, at the discounted price, no more than what their debt
\* fell by in some asset.  Quotients beyond a u128 are rounded to the nearest, three of them
\* one after the other, and that may add to the worth the part of it that the price and four
\* times one are of 2^129, and no more.
SeizureIsPaidFor ==
    [][block_number' = block_number /\ intact /\ computable' =>
          \A user \in Signers, get \in AssetIds :
              \A lost \in {supply_now(get, user) - supply_now(get, user)'} :
                  lost > 0 /\ balances'[get][user] - balances[get][user] # lost =>
                      \E pay \in AssetIds :
                          \A paid \in {price[pay] * (debt_now(pay, user) - debt_now(pay, user)') * DIV} :
                              price[get] * lost * DiscountFactor
                                  <= paid + (paid * (price[get] + 4 * one)) \div (2 * MaxBalance)]_vars

\* A supply small enough, at the price of the asset and of any that its owner owes, for the
\* rounding of a liquidation to stay below one unit of it.
seizure_fits(asset, user) ==
    \A pay \in AssetIds : user_debts[pay][user] # None =>
        supply_now(asset, user) * (price[asset] + price[pay] + 8 * one) <= MaxBalance

\* "TODO: check rounding errors due to discount_factor" (lib.rs:458): what a payment within
\* pay_limit buys is rounded on another path than the limit was, and an amount above the
\* target's supply would wrap it to about 2^128.  A supply for which seizure_fits never is: it
\* only grows by what its owner paid in.  WithinCloseFactor shows a larger one that is.
SupplyIsPaidIn ==
    [][block_number' = block_number /\ intact /\ computable' =>
          \A user \in Signers, asset \in AssetIds :
              supply_now(asset, user)' > supply_now(asset, user) /\ seizure_fits(asset, user) =>
                  balances[asset][user] - balances'[asset][user]
                      = supply_now(asset, user)' - supply_now(asset, user)]_vars

\* "The arbitrageurs can only purchase up to `CloseFactor` of the assets.  The current value is
\* 1." (README.md:108): whoever pays for a debt of a user gets no more of an asset than the user
\* has supplied.
WithinCloseFactor ==
    [][block_number' = block_number /\ computable /\ computable' =>
          \A user \in Signers, get, pay \in AssetIds :
              debt_now(pay, user)' < debt_now(pay, user) =>
                  balances[get][account_id] - balances'[get][account_id] <= supply_now(get, user)]_vars

\* What an account pays into the pallet is credited to somebody: its own supply grows, or
\* a debt falls.
PaymentsAreCredited ==
    [][block_number' = block_number =>
          \A asset \in AssetIds :
              /\ balances'[asset][account_id] > balances[asset][account_id]
              /\ intact /\ intact'
              => \E user \in Signers : \/ supply_now(asset, user)' > supply_now(asset, user)
                                       \/ debt_now(asset, user)' < debt_now(asset, user)]_vars

\* A pool's indices only grow: a position is never worth less because time passed.
IndexGrows ==
    [][\A asset \in AssetIds : pools[asset] # None =>
          /\ pools'[asset].total_supply_index >= pools[asset].total_supply_index
          /\ pools'[asset].total_debt_index >= pools[asset].total_debt_index]_vars

\* "Total debt of the pool" (lib.rs:54) covers each user's debt in it.
PoolDebtCoversUsers ==
    \A asset \in AssetIds : pools[asset] # None =>
        accrue_interest(pools[asset]).debt >=
            MapThenSumSet(LAMBDA user : debt_now(asset, user), Accounts)
=============================================================================
