-------------------------------- MODULE Swap --------------------------------
(***************************************************************************)
(* The exchange of src/pallets/swap/src/lib.rs: one pool for each asset,   *)
(* holding the inherent asset and that asset on an account of its own,     *)
(* which trades at a constant product and belongs to its liquidity         *)
(* providers.                                                              *)
(*                                                                         *)
(* No call of assets' transfer is checked (lib.rs:288-299 and everywhere   *)
(* else): one that fails moves nothing and the extrinsic goes on.  The     *)
(* limits a caller passes (min_output, max_input, min_liquidity, ...) and  *)
(* the fee rate are never read and are no parameters here.                 *)
(***************************************************************************)
EXTENDS Assets

CONSTANTS Swappers,      \* the signers that swap
          Providers,     \* the signers that add and remove liquidity
          PairedIds,     \* the assets they do it with
          Inputs,        \* exact inputs
          Outputs,       \* exact outputs
          Deposits,      \* amounts of the inherent asset and of the paired one, added
          Removals,      \* amounts of liquidity, removed
          FeeRates,
          GenesisFeeRate,
          Exchange       \* make_exchange_address: inherent asset -> asset -> account

ASSUME SwapAssumption ==
    /\ Swappers \subseteq Signers /\ Providers \subseteq Signers
    /\ PairedIds \subseteq AssetIds
    /\ Inputs \subseteq Balance /\ Outputs \subseteq Balance
    /\ Deposits \subseteq Balance \X Balance /\ Removals \subseteq Balance
    /\ GenesisFeeRate \in FeeRates
    /\ Exchange \in [AssetIds -> [AssetIds -> Accounts \ Signers]]

VARIABLES fee_rate,           \* FeeRateGlobal
          total_liquidity,    \* TotalLiquidities: asset -> units
          account_liquidity,  \* AccountLiquidities: asset -> account -> units
          exchange_account    \* ExchangeAccounts: the assets that have an entry -> account

swap_vars == <<fee_rate, total_liquidity, account_liquidity, exchange_account>>
vars == <<assets_vars, swap_vars>>

-----------------------------------------------------------------------------
(* A pool and its prices. *)

get_exchange_address(id) == Exchange[inherent_asset_id][id]

inherent_reserve(id) == balances[inherent_asset_id][get_exchange_address(id)]
paired_reserve(id)   == balances[id][get_exchange_address(id)]

\* "Empty Pool.", the one error a swap can return.
tradable(id) == 0 \notin {inherent_reserve(id), paired_reserve(id)}

\* Mutant of calc_output_at_known_input: the input is left out of the denominator.
calc_output_at_spot_price(input, input_part, output_part) ==
    wrapping_mul_div[output_part][input][input_part]

calc_output_at_known_input(input, input_part, output_part) ==
    wrapping_mul_div[output_part][input][wrapping_add[input][input_part]]

\* The quotient of lib.rs:1011 is computed and dropped: what is returned is the output.
calc_input_at_known_output(output, input_part, output_part) ==
    IF output >= output_part THEN MaxBalance ELSE output

calc_paired_asset_output_amount(id, amount) ==
    calc_output_at_known_input(amount, inherent_reserve(id), paired_reserve(id))
calc_inherent_asset_output_amount(id, amount) ==
    calc_output_at_known_input(amount, paired_reserve(id), inherent_reserve(id))
calc_inherent_asset_input_amount(id, amount) ==
    calc_input_at_known_output(amount, inherent_reserve(id), paired_reserve(id))
calc_paired_asset_input_amount(id, amount) ==
    calc_input_at_known_output(amount, paired_reserve(id), inherent_reserve(id))

\* Mutant of calculate_output: the reserves are swapped.
calculate_output_reversed(in_id, out_id, amount) ==
    IF ~ tradable(out_id) THEN Panic
    ELSE IF in_id = inherent_asset_id THEN calc_inherent_asset_output_amount(out_id, amount)
    ELSE calc_paired_asset_output_amount(out_id, amount)

\* The quote of the RPC.  Whatever is sold, the pool is that of the asset bought.
calculate_output(in_id, out_id, amount) ==
    IF ~ tradable(out_id) THEN Panic
    ELSE IF in_id = inherent_asset_id THEN calc_paired_asset_output_amount(out_id, amount)
    ELSE calc_inherent_asset_output_amount(out_id, amount)

-----------------------------------------------------------------------------
(* Swapping.  Every amount is computed before anything moves. *)

\* `who` pays a pool and the pool pays `to`.
through(who, id_in, amount_in, pool, id_out, amount_out, to) ==
    /\ Panic \notin {amount_in, amount_out}
    /\ balances' = transfer(transfer(balances, who, id_in, pool, amount_in),
                            pool, id_out, to, amount_out)

\* The same through two pools, the inherent asset passing from one to the other.
through_both(who, a, amount_a, inherent_amount, b, amount_b, to) ==
    LET pool_a == get_exchange_address(a)
        pool_b == get_exchange_address(b)
    IN  /\ Panic \notin {amount_a, inherent_amount, amount_b}
        /\ balances' = transfer(transfer(transfer(balances, who, a, pool_a, amount_a),
                                         pool_a, inherent_asset_id, pool_b, inherent_amount),
                                pool_b, b, to, amount_b)

inherent_asset_to_paired_asset_with_exact_input(who, to, id, amount) ==
    /\ tradable(id)
    /\ through(who, inherent_asset_id, amount, get_exchange_address(id),
               id, calc_paired_asset_output_amount(id, amount), to)

paired_asset_to_inherent_asset_with_exact_input(who, to, id, amount) ==
    /\ tradable(id)
    /\ through(who, id, amount, get_exchange_address(id),
               inherent_asset_id, calc_inherent_asset_output_amount(id, amount), to)

asset_a_to_asset_b_with_exact_input(who, to, a, b, amount) ==
    LET inherent_amount == calc_inherent_asset_output_amount(a, amount)
    IN  /\ tradable(a) /\ tradable(b)
        /\ through_both(who, a, amount, inherent_amount,
                        b, calc_paired_asset_output_amount(b, inherent_amount), to)

inherent_asset_to_paired_asset_with_exact_output(who, to, id, amount) ==
    /\ tradable(id)
    /\ through(who, inherent_asset_id, calc_inherent_asset_input_amount(id, amount),
               get_exchange_address(id), id, amount, to)

paired_asset_to_inherent_asset_with_exact_output(who, to, id, amount) ==
    /\ tradable(id)
    /\ through(who, id, calc_paired_asset_input_amount(id, amount),
               get_exchange_address(id), inherent_asset_id, amount, to)

asset_a_to_asset_b_with_exact_output(who, to, a, b, amount) ==
    LET inherent_amount == calc_inherent_asset_input_amount(b, amount)
    IN  /\ tradable(a) /\ tradable(b)
        /\ through_both(who, a, calc_paired_asset_input_amount(a, inherent_amount),
                        inherent_amount, b, amount, to)

swap_assets_with_exact_input(who, to, input, output, amount) ==
    /\ \/ /\ input = inherent_asset_id
          /\ inherent_asset_to_paired_asset_with_exact_input(who, to, output, amount)
       \/ /\ input # inherent_asset_id /\ output = inherent_asset_id
          /\ paired_asset_to_inherent_asset_with_exact_input(who, to, input, amount)
       \/ /\ inherent_asset_id \notin {input, output}
          /\ asset_a_to_asset_b_with_exact_input(who, to, input, output, amount)
    /\ UNCHANGED <<swap_vars, total_supply, next_asset_id, inherent_asset_id, price>>

swap_assets_with_exact_output(who, to, input, output, amount) ==
    /\ \/ /\ input = inherent_asset_id
          /\ inherent_asset_to_paired_asset_with_exact_output(who, to, output, amount)
       \/ /\ input # inherent_asset_id /\ output = inherent_asset_id
          /\ paired_asset_to_inherent_asset_with_exact_output(who, to, input, amount)
       \/ /\ inherent_asset_id \notin {input, output}
          /\ asset_a_to_asset_b_with_exact_output(who, to, input, output, amount)
    /\ UNCHANGED <<swap_vars, total_supply, next_asset_id, inherent_asset_id, price>>

-----------------------------------------------------------------------------
(* Liquidity. *)

\* Mutant of minted: measured against the paired asset's reserve.
minted_by_paired(id, amount) ==
    wrapping_mul_div[total_liquidity[id]][amount][paired_reserve(id)]

minted(id, amount) ==
    wrapping_mul_div[total_liquidity[id]][amount][inherent_reserve(id)]

\* What the account holds afterwards: the first injection overwrites it.
liquidity_after(who, id, amount) ==
    IF total_liquidity[id] = 0 THEN amount
    ELSE wrapping_add[account_liquidity[id][who]][minted(id, amount)]

total_after(id, amount) ==
    IF total_liquidity[id] = 0 THEN amount
    ELSE wrapping_add[total_liquidity[id]][minted(id, amount)]

add_liquidity(who, id, amount, asset_amount) ==
    LET pool == get_exchange_address(id)
    IN  /\ total_after(id, amount) # Panic
        /\ balances' = transfer(transfer(balances, who, inherent_asset_id, pool, amount),
                                who, id, pool, asset_amount)
        /\ account_liquidity' = [account_liquidity EXCEPT ![id][who] = liquidity_after(who, id, amount)]
        /\ total_liquidity' = [total_liquidity EXCEPT ![id] = total_after(id, amount)]
        /\ exchange_account' = [a \in DOMAIN exchange_account \cup {id} |->
                                    IF a = id THEN pool ELSE exchange_account[a]]
        /\ UNCHANGED <<fee_rate, total_supply, next_asset_id, inherent_asset_id, price>>

\* Of a pool that has no liquidity it panics: the amounts are divided by the total.
share(reserve, liquidity, total) == wrapping_mul_div[reserve][liquidity][total]

remove_liquidity(who, id, liquidity) ==
    LET pool == get_exchange_address(id)
        amount == share(inherent_reserve(id), liquidity, total_liquidity[id])
        asset_amount == share(paired_reserve(id), liquidity, total_liquidity[id])
    IN  /\ Panic \notin {amount, asset_amount}
        /\ balances' = transfer(transfer(balances, pool, inherent_asset_id, who, amount),
                                pool, id, who, asset_amount)
        /\ account_liquidity' = [account_liquidity EXCEPT ![id][who] = wrapping_sub[@][liquidity]]
        /\ total_liquidity' = [total_liquidity EXCEPT ![id] = wrapping_sub[@][liquidity]]
        /\ UNCHANGED <<fee_rate, exchange_account, total_supply, next_asset_id,
                       inherent_asset_id, price>>

\* Any origin: the root check is commented out.
set_fee_rate(who, rate) ==
    /\ fee_rate' = rate
    /\ UNCHANGED <<assets_vars, total_liquidity, account_liquidity, exchange_account>>

-----------------------------------------------------------------------------
Init ==
    /\ AssetsInit
    /\ fee_rate = GenesisFeeRate
    /\ total_liquidity = [id \in AssetIds |-> 0]
    /\ account_liquidity = [id \in AssetIds |-> nobody]
    /\ exchange_account = [id \in {} |-> Owner]

Next ==
    \/ AssetsNext /\ UNCHANGED swap_vars
    \/ \E who \in Swappers, to \in Signers, i, o \in AssetIds, amount \in Inputs :
           swap_assets_with_exact_input(who, to, i, o, amount)
    \/ \E who \in Swappers, to \in Signers, i, o \in AssetIds, amount \in Outputs :
           swap_assets_with_exact_output(who, to, i, o, amount)
    \/ \E who \in Providers, id \in PairedIds, d \in Deposits : add_liquidity(who, id, d[1], d[2])
    \/ \E who \in Providers, id \in PairedIds, liquidity \in Removals :
           remove_liquidity(who, id, liquidity)
    \/ \E who \in Swappers, rate \in FeeRates : set_fee_rate(who, rate)

Spec == Init /\ [][Next]_vars

-----------------------------------------------------------------------------
(* Properties. *)

\* Every stored number is a u128 and every pool that has an entry has an account.
SwapTypeOK ==
    /\ AssetsTypeOK
    /\ fee_rate \in FeeRates
    /\ total_liquidity \in [AssetIds -> Balance]
    /\ account_liquidity \in [AssetIds -> [Accounts -> Balance]]
    /\ \E ids \in SUBSET AssetIds : exchange_account \in [ids -> Accounts]

\* Reserves before and after a step, and whether the step traded with the pool.
product(id) == inherent_reserve(id) * paired_reserve(id)

traded(id) ==
    /\ inherent_asset_id' = inherent_asset_id
    /\ total_liquidity'[id] = total_liquidity[id]
    /\ \/ inherent_reserve(id)' < inherent_reserve(id)
       \/ paired_reserve(id)'   < paired_reserve(id)

paid(id) ==
    \/ inherent_reserve(id)' > inherent_reserve(id)
    \/ paired_reserve(id)'   > paired_reserve(id)

\* The step is a swap with an exact output, whose price the code computes and drops.
ByExactOutput ==
    \E who \in Swappers, to \in Signers, i \in AssetIds, o \in AssetIds, amount \in Outputs :
        swap_assets_with_exact_output(who, to, i, o, amount)

\* A trade the pool was paid for lowers the product of its reserves only if it has an exact
\* output: the truncated quotient of calc_output_at_known_input, and an overflow in it, favour
\* the pool, in one hop, in two, and from an asset to itself.
ProductKept ==
    [][\A id \in PairedIds :
          traded(id) /\ paid(id) /\ ~ ByExactOutput => product(id)' >= product(id)]_vars

\* The RPC quotes what a trade does: whoever pays the inherent asset into a pool by an exact
\* input, directly or on the way to another asset, makes it pay out what calculate_output, on a
\* path of its own, quotes for that payment on the state before the trade.
QuotesStand ==
    [][\A id \in PairedIds :
          LET payment == inherent_reserve(id)' - inherent_reserve(id)
          IN  traded(id) /\ payment > 0 /\ ~ ByExactOutput =>
                paired_reserve(id) - paired_reserve(id)'
                    = calculate_output(inherent_asset_id, id, payment)]_vars

\* Nobody's liquidity is diluted: a deposit that arrived, or a removal, leaves at least as
\* much of the inherent asset behind each unit of liquidity as there was.  The pool of the
\* inherent asset with itself is no pair: it pays a removal from its one reserve twice.
SharesKept ==
    [][\A id \in PairedIds :
          /\ id # inherent_asset_id /\ total_liquidity[id] # 0
          /\ \/ total_liquidity'[id] < total_liquidity[id]
             \/ total_liquidity'[id] > total_liquidity[id]
                  /\ inherent_reserve(id)' > inherent_reserve(id)
          => inherent_reserve(id)' * total_liquidity[id]
               >= inherent_reserve(id) * total_liquidity'[id]]_vars

\* "Calculate how much amount of inherent asset should be input" (lib.rs:835): a trade
\* that takes `out` of a reserve pays for it what the pool's reserves say it costs.
PaidInFull ==
    [][\A id \in PairedIds : traded(id) /\ paid(id) =>
          LET out == paired_reserve(id) - paired_reserve(id)'
          IN  out > 0 /\ paired_reserve(id)' > 0 =>
                inherent_reserve(id)' - inherent_reserve(id)
                  >= (inherent_reserve(id) * out) \div paired_reserve(id)']_vars

\* "Total liquidity of each pair pool" and "the liquidity of each account" (lib.rs:50-52)
\* are two views of the same units: what deposits mint and removals burn is entered in both.
LiquidityAddsUp ==
    \A id \in AssetIds :
        MapThenSumSet(LAMBDA a : account_liquidity[id][a], Accounts) = total_liquidity[id]
=============================================================================
