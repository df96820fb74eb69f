# A TLA+ model of the Konomi node

Konomi is a Substrate 2.0.1 chain with four pallets of its own: a multi-asset ledger
(`assets`), a money market (`lending`), a constant-product exchange (`swap`) and a price
feed run by off-chain workers (`offchain-worker`). This directory models those pallets,
model-checks them with TLC on small instances and proves with TLAPS, for every value of
the constants, what the runs check of their safety, some of it under named conditions on
widths and rounding; liveness is left to TLC. One module puts the market and the price feed
on the same chain, and one states what the ledger promises whatever pallet uses it.

Paths below are relative to the repository; `lending:256` stands for
`pallets/lending/src/lib.rs:256`, and so on.

## 1. The system

| component | state | operations | works with |
|---|---|---|---|
| `assets` pallet | `Balances`, `TotalSupply`, `NextAssetId`, `InherentAsset`, `Price` | `issue`, `destroy`, `set_inherent_asset`, `transfer_asset`, `set_price`; the genesis build | `lending` and `swap` move units with `MultiAsset::transfer`; `lending` reads prices through `Oracle`; `offchain-worker` writes a price |
| `lending` pallet | `Pools`, `UserSupplies`, `UserDebts`, `UserSupplySet`, `UserDebtSet` | `supply`, `withdraw`, `borrow`, `repay`, `liquidate`, `init_pool` | transfers to and from its own account; interest per block |
| `swap` pallet | `FeeRateGlobal`, `TotalLiquidities`, `AccountLiquidities`, `ExchangeAccounts` | exact-input and exact-output swaps in three routes each, `add_liquidity`, `remove_liquidity`, `set_fee_rate` | its reserves are ledger balances of one account per pair |
| `offchain-worker` pallet | `NextUnsignedAt` | `offchain_worker` after each block, `validate_unsigned`, `submit_price_unsigned` | an exchange over HTTP, the nodes' transaction pools, the ledger's price store |
| `traits` | none | the interfaces `Oracle` and `MultiAsset` | implemented by `assets` |
| RPCs of `lending` and `swap` | none | forward read-only calls, on the best block unless told otherwise | the runtime, which narrows `get_user_info` to `u64` |
| runtime | configuration | composes the pallets: blocks, signed and unsigned calls, the workers' hook | supplies the constants |
| node | its transaction pool and running workers, both in memory | starts workers if configured to, authors blocks if an authority, gossips | genesis values of `chain_spec.rs` |

What makes it hard, and what correctness means for each part:

* **Half-done extrinsics.** Dispatchables of Substrate 2.0.1 are not transactional:
  storage written before an `Err` stays written. A panic, on the other hand, makes the
  author drop the extrinsic with all it wrote. `lending` stores accrued entries before it
  checks, `liquidate` makes two transfers, and `swap` ignores the result of every transfer.
* **Arithmetic.** `Balance` is `u128` and the release build wraps on `+`, `-`, `*`.
  `FixedU128`'s `*` and `/` panic on overflow and its `saturating_*` saturate; they truncate
  while products fit a `u128`, and round to the nearest beyond it. Totals and positions, limits
  and purchases are rounded separately.
* **Ordering.** Calls of users and liquidators, price changes and blocks interleave at will;
  a pool is accrued by whoever comes first in a block; workers of several nodes fetch,
  submit and gossip concurrently and late answers arrive after newer prices; and the chain
  takes an unsigned price from anybody, a worker or not.
* **Stale prices.** The market's health checks read the feed's last price, which was asked
  for blocks before it was stored, while the exchange's price moves on.
* **Nodes.** The nodes that run workers need not be those that author; a node that restarts
  forgets its pool and its workers.
* **Progress.** Fetches fail, transactions expire and duplicates are refused, but a price
  must still get through.

Ledger: units are conserved, an issued supply never grows, and a call takes units from at
most one holder. Money market: a call neither
makes nor destroys value, no covered user becomes uncovered or is liquidated, every position
is seen by the health check exactly once, what is seized is paid for, payments are credited,
and the pallet can pay what its pools say. Exchange: rounding favours the pool and does not
dilute its providers, an output is paid for at the pool's price, accounts add up to totals.
Price feed: prices are spaced, in order, read as quoted and do arrive. Chain: the feed and the market
do not disturb each other, and who is covered on the chain comes to be who is covered at the
exchange's price.

`PROJECT.json` lists the hazards line by line, with the properties that watch over each.

## 2. Modules

| module | models | |
|---|---|---|
| `FixedU128` | `u128` in a release build, `sp_arithmetic::FixedU128` | constant operators; external |
| `Assets` | `pallets/assets` | state machine; `transfer_ok`, `moved`, `transfer` are used by the two below |
| `Custody` | what the ledger promises its holders | abstract specification that `Lending` and `Swap` implement (`KeepsCustody`) |
| `Lending` | `pallets/lending` over `Assets` | composition: ledger, prices and market in one `Next` |
| `Swap` | `pallets/swap` over `Assets` | composition likewise |
| `OffchainWorker` | `pallets/offchain-worker`, with pools, gossip and the exchange as external parts | state machine with fairness |
| `Runtime` | `Lending` and `OffchainWorker` on one chain, as `runtime/src/lib.rs` puts them | composition with fairness; implements both (`MarketRefined`, `FeedRefined`) |
| `FixedU128Proofs`, `AssetsProofs` | | lemmas: the arithmetic, sums over a finite set, what a transfer does to a ledger |
| `LendingProofs`, `LendingWorthProofs`, `LendingSolvencyProofs`, `SwapProofs`, `OffchainWorkerProofs`, `RuntimeProofs` | | theorems and their lemmas (section 4) |
| `MC*` | | instances for TLC |

### Conventions

* A variable has the name of the storage item it stands for, an action that of the
  extrinsic, an operator that of the function. One action is the *whole* extrinsic.
* A call that fails before it stored anything leaves the state alone and is no step: its
  check is a conjunct of the action. A call that fails later takes the branch that keeps
  what it had stored (`supply_accrued`, `debt_accrued`, `liquidate_fails`).
* A computation that panics yields `Panic` (-1), every arithmetic operator passes it on,
  and the action is then disabled. `value(v)` and `defined(entry)` are the sets with the
  result in them, or empty after a panic; `\E x \in value(...)` binds a result.
* `multiply_by_rational` of sp_arithmetic truncates when the product fits or the divisor is
  one 32-bit limb, and otherwise rounds to nearest. Both are in the model; `LIMB` chooses.
  In the runtime a limb is below `DIV`, and a product of two numbers of 18 decimals is beyond a
  `u128` once the numbers themselves multiply to more than about 340. `lending_liquidation` and
  `lending_rounded_seizure` have `LIMB` below `DIV` and prices beyond that point, as the genesis
  prices of 600 and 20000 (chain_spec.rs:162-163) are; the other configurations take `LIMB`
  above `DIV`, where everything truncates.
* The primitive operations are curried functions (`wrapping_add[a][b]`), which the SMT
  backend handles and whose arguments TLC evaluates once.
* Definitions whose comment begins "Mutant of" are deliberate mistakes. No specification uses
  them; each, put in the place of the definition it names, makes one property of one run
  fail (`PROJECT.json`, `mutants`), which is how we know the property has teeth.

### How the state and the actions correspond to the code

`Assets`: `balances[id][account]` is `Balances`, a missing key being 0. `moved` stores the
debit before it reads the receiver's balance, as `transfer` does (assets:205-240), so a
transfer to oneself changes nothing. `transfer_asset` ignores failure as the code does.
`set_inherent_asset` has no guard: its `ensure_root` is commented out.

`Lending`: `user_supply_set[user][asset]` is how often the user's `Vec` lists the asset (the
order never matters; how often does). `accrued_pool` is the pool after `accrue_interest`,
held in a local as in the code and stored only by a call that succeeds. `updated` is
`update_user_supply` and `update_user_debt`, which are the same but for the index. The
health check `covered(debt_balance, supply_converted)` is `get_user_info` and runs on the
entries as stored at that point. `next_block` is frame_system's.

`Swap`: `get_exchange_address` is a constant function, an injective address per pair in the
code. `calc_input_at_known_output` returns what the code returns (see section 5). Limits the
code never reads are not parameters. `calculate_output` is the RPC's quote, which changes no
state and is compared with what trades pay.

`OffchainWorker`: `block_number` is the block being built. `import_block` completes it: every
node of `Feeders` (those with `config.offchain_worker.enabled`, service.rs:106) starts a
worker for it on the state after it, and pools drop expired transactions. A worker then gets
a quote (`fetch_price`) or none (`fetch_fails`: deadline, bad status, unreadable body), then
submits to its node's pool, which validates. Pools hold one transaction per tag, gossip
(`propagate`) and revalidate; a node of `Authors` (service.rs:147) includes one
(`submit_price_unsigned`), which validates it again. `validate_unsigned` ignores where a
transaction comes from (offchain-worker:200), so a peer or a client of any node may submit a
price too: `submitted_by_others` puts a price of `OtherPrices`, for any block, into any pool
that takes it. Validation of a transaction for block
`b` is the code's `NextUnsignedAt <= b <= now`. `restart` empties a node's pool, which
`BasicPool::new_full` makes anew (service.rs:48), and forgets its workers. `accepted` is a
history variable.

`Runtime`: extends `Lending` and instantiates `OffchainWorker` with the ledger's price of
asset `FeedId` as the feed's `price`, and the same `block_number`. `new_block` is both
modules' step to the next block; `signed_call` is any extrinsic of a user or a liquidator;
`feed_price` is the unsigned extrinsic, which is `set_price` to the ledger and
`submit_price_unsigned` to the feed at once. `market` is the exchange's own price: it moves
at any time (`market_moves`) and a worker is answered with the price of the moment it asks.
`Others` are the prices of others. They stop with the market's moves (`LastMove`), without which
nothing would ever bring the chain's price back to the market's; before, they come in any order.
Root's calls and the exchange pallet are not part of this composition: the first would be
a second source of prices, the second changes no position.

`Custody`: `held` and `next_id` are `Balances` and `NextAssetId`; `Issue`, `Burn` and `Move`
are all a call may do. `Holders` are the accounts with a key (`Signers`); the lending account
and the exchange accounts are none, since they pay out on the calls of others. The caller of
a step is existentially quantified, so the refinement says that at most one holder pays.

## 3. What TLC checks

Passing runs:

| run | instance | states | properties |
|---|---|---|---|
| `lending_market` | 2 users, 1 pool, 3 blocks, amounts 6 and 40 (more than anyone has, so that caps and failures happen) | 77,491 | `LendingTypeOK`, `CashBacked`, `CashIsSound`, `NetWorthKept`, `HealthKept`, `IndexGrows`, `PaymentsAreCredited` |
| `lending_liquidation` | 2 pools, a price that falls, exchange rates rounded to the nearest, a liquidator, 1 block of interest | 7,697 | `PositionsListed`, `Conservation`, `OnlyUnhealthyAreSeized`, `SeizureIsPaidFor`, `SupplyIsPaidIn` |
| `lending_open` | no pool at genesis; pools made and made again under positions; assets issued, moved (amounts 0 and 6), destroyed | 362,900 | `PositionsListed`, `ListedHasPool`, `Conservation`, `SupplyOnlyShrinks`, `KeepsCustody` |
| `swap` | 2 pools, every operation, one- and two-hop trades and trades of an asset for itself, amounts that overdraw and fail; another account destroys units and changes the inherent asset | 675,819 | `SwapTypeOK`, `Conservation`, `ProductKept`, `QuotesStand`, `SharesKept`, `KeepsCustody` |
| `price_feed` | 2 nodes that run workers, one of them an author, and somebody else who submits a price, 4 blocks, interval 2, longevity 2, restarts | 170,544 | `WorkerTypeOK`, `PricesAreSpaced`, `PricesInOrder`, `PriceArrives` |
| `runtime` | a lender, a borrower who may also liquidate, one node, 5 blocks, interval 1, quotes 1.5 and 2.259 of the collateral, and 1.50 from somebody else | 129,898 | `CentsRead`, `MarketRefined`, `FeedRefined`, `HealthFollowsMarket` |

The refinements. `KeepsCustody` is `Custody!Spec` with `balances` for `held`: in `lending_open`
and `swap` every step, half-failed ones included, is an issue, a burn or a move that
makes or loses no unit and takes from at most one holder. `MarketRefined` is `Lending!Spec`
and `FeedRefined` is `OffchainWorker!Spec`, both checked of `RuntimeSpec`: the feed's writes
are price changes `Lending` allows for, and nothing users do concerns the feed. What the
other runs and the theorems of section 4 say of the parts therefore holds of the whole.

`HealthFollowsMarket` bounds the age of a price the only way the code allows: not by a number
of blocks, but by "once a window opens after the exchange's price and the prices of others have
come to rest, chain and exchange come to agree on who is covered, for good". A transaction asked
for before the rest, or submitted by somebody else, may still be in a pool or with a worker, but
validation refuses it in the new window because it was made for a block before the window (with
that check dropped the property fails). The exchange's price is compared as `parse_price` reads
it. While somebody goes on submitting prices of their own there is no such agreement: the code
takes whichever valid transaction an author includes first.

`CentsRead` states what `parse_price`, "`Some(price in cents)`" (offchain-worker:151), makes of a
quote: its cents, except that a single decimal is read as cents (1.5 as 105; section 5). That a
price on the chain is some quote's at all cannot be said, since others may submit; the property
says of every price a worker, a pool or the ledger holds that it is one of the two.

Runs that end in a counterexample, each a disagreement between the code and what the
repository says of it (section 5): `lending_pool_debt`, `lending_seized_cash`,
`lending_lost_payment`, `lending_rounded_seizure`, `swap_exact_output`, `swap_overdraft`.

**Bounds.** Widths and factors are scaled down together: `DIV = 20` keeps 0.7 exact and 0.95
exact, and makes truncation visible at amounts of 6 or 10 units; `MaxBalance = 4095` leaves
room for the products that do not overflow in practice while subtraction still wraps. In
`lending_liquidation` `DIV = 100` and `MaxBalance = 16383` put the products of two prices beyond
the width and those of a position and a price within it, so that `seizure_fits` holds of Bob's
supply while its price is rounded to the nearest; in `lending_rounded_seizure` neither is within
it. Rates
of 2/20 and 4/20 per block make interest visible in one block. `MaxBlock` gives accruals over
zero, one and several blocks. Two constraints cut off growth without end: `TotalsBounded` in
`lending_liquidation` (a liquidation leaves the pools' totals, so supply and liquidation can
alternate for ever; likewise in the violation runs with liquidators) and `LiquidityBounded` in
the swap runs (a deposit whose transfer fails
still mints). `CHECK_DEADLOCK FALSE` is set where the last block, the constraint or empty
wallets end every behaviour. `ProductKept` and `QuotesStand` except the trades with an exact
output, which `swap_exact_output` shows to be charged wrongly, and `SharesKept` and the others
hold with every operation, overdrawn removals included.

`price_feed` has four blocks, so that a second window opens and closes after the first price
was taken, and a restart can fall into either; the runtime's interval 4 and longevity 5
change the lengths only. `runtime` has one node, since `price_feed` already has the race
between nodes, and zero rates, since `lending_market` already has interest: what is new is
when the price is asked for, stored and read. `LastCall` ends the users' calls and
`LastMove` the exchange's moves before `MaxBlock`, which leaves the feed a window after
both; before them every order of calls, moves, fetches and inclusions happens, a liquidation
included.

Several action properties of `Lending` are conditional on `computable`: every pool's indices
can be computed and are not zero. `lending_pool_debt` shows how that ends: a total wraps, and
from then on the pool's rates panic. Three are conditional on `intact`, which adds that no
wallet plus supply, and no cash plus debt, exceeds a `u128`: beyond it `update_user_supply`
wraps and the amount is lost. At the runtime's width that is 3.4e38 units; the condition is
there for the theorems, which hold for every width.

`SharesKept` leaves out the pool that pairs the inherent asset with itself. Nothing in
`add_liquidity` or `remove_liquidity` refuses it, and a removal then pays both shares out of
the one reserve.

`HealthKept` allows one unit of difference, which the code needs: `withdraw` subtracts the
truncated value of the amount from the truncated value of the whole (lending:256), and that
may exceed the truncated value of the rest by one.

`SeizureIsPaidFor` and `SupplyIsPaidIn` are about a comment in the code, "TODO: check rounding
errors due to discount_factor" (lending:458): the most a liquidator may pay is the target's
supply times a rounded price, and what a payment buys is the payment times another rounded
price. If it is more than the supply, the subtraction wraps. Where quotients are rounded to the
nearest, both statements need what the rounding can add, and no more: `SeizureIsPaidFor` allows
the worth of a seizure to exceed its payment by the part of it that `price[get]` and four times
one are of 2^129, and `SupplyIsPaidIn` is about supplies small enough for that to be less than a
unit of them (`seizure_fits`). `lending_rounded_seizure` shows that larger ones do wrap.

`CashIsSound` is the condition under which `CashBacked` is proved, as an invariant of its own:
interest fits and is not rounded up for the suppliers (`interest_fits`), and so do the totals
(`totals_fit`). Its last disjunct is there because the pool's debt does go below zero and
wrap on this instance (the disagreement of `lending_pool_debt`), after which cash and debt
still add up modulo the width.

**Fairness.** `PriceArrives` and `HealthFollowsMarket` are checked under weak fairness of
`import_block` (the chain goes on), `Fetch` (a request ends: `fetch_price` sets a deadline),
`Submit` (the worker's next statement), `Gossip` (the pools of the network are connected;
needed only because a feeder need not be an author) and `Author` (authors include what is
valid). Users' calls, the exchange's moves, revalidation, failures and restarts have none.
Two assumptions keep faults from lasting for ever, both as named bounds: the workers of the
last block the model imports get an answer (`fetch_fails`), and nodes do not restart after
it (`restart`). An exchange that is down for good gives no price.

## 4. What is proved

For any accounts (a finite set), assets, amounts, prices, rates, fees, widths, nodes, quotes
and number of blocks. The assumptions are the named `ASSUME`s of the modules, which TLC
evaluates on each instance.

| module | theorem | states |
|---|---|---|
| `LendingProofs` | `Invariance` | `Spec => []IInv` |
| | `TypeCorrect` | `[]LendingTypeOK`: no panic value or half-built entry is ever stored |
| | `PositionsAreListed` | `[]PositionsListed` |
| | `UnwrapNeverPanics` | `[]ListedHasPool`: the `unwrap` of `get_user_info` |
| | `UnitsAreConserved` | `[]Conservation` |
| | `SupplyNeverGrows` | `SupplyOnlyShrinks` |
| | `MarketKeepsCustody` | `KeepsCustody`: the refinement of `Custody` |
| `LendingWorthProofs` | `UserCallsKeepNetWorth` | in every configuration, no user extrinsic changes anybody's wallet + supply - debt |
| | `NetWorthIsKept` | `NetWorthKept`, without liquidators, `init_pool` and direct ledger calls |
| | `PaymentsReachTheirPayer` | `PaymentsAreCredited`, likewise |
| | `HealthyAreSafe` | `OnlyUnhealthyAreSeized`, without `init_pool` |
| `LendingSolvencyProofs` | `CashIsKept` | in every configuration, while `CashIsSound`, only a liquidation can leave less cash than the pools say |
| | `CashIsBacked` | `[]CashBacked`, without liquidators, while `CashIsSound` |
| | `IndicesGrow` | `IndexGrows`, without `init_pool`, while `one + rate * blocks` fits |
| | `LiquidationsCreateNothing` | in every configuration and at any prices, a liquidation raises no debt and touches nobody but liquidator and target; under `seizure_fits` it raises no supply and makes the two together no richer in the asset |
| | `SeizuresArePaidFor`, `SuppliesArePaidIn` | `SeizureIsPaidFor`, `SupplyIsPaidIn`, without `init_pool`, at any prices |
| | `HealthIsKept` | `HealthKept`, without `init_pool`, while `intact /\ powers_fit` |
| `SwapProofs` | `SwapInvariance` | `Spec => []SwapInv` |
| | `SwapTypeCorrect` | `[]SwapTypeOK` |
| | `SwapConservesUnits`, `SwapSupplyNeverGrows`, `ExchangeKeepsCustody` | as for the market |
| | `SharesAreKept` | `SharesKept`, for every operation and whatever overflows |
| | `ProductIsKept`, `TradesPayTheQuote` | `ProductKept`, `QuotesStand`, for every operation and whatever overflows |
| `OffchainWorkerProofs` | `WorkerTypesCorrect` | `[]WorkerTypeOK` |
| | `PricesSpaced`, `PricesOrdered` | `PricesAreSpaced`, `PricesInOrder` |
| | `CentsAreRead` | `[]CentsRead`, if every quote fits |
| `RuntimeProofs` | `RuntimeInvariance` | `RuntimeSpec => []RInv` |
| | `ChainKeepsMarket`, `ChainKeepsFeed` | `MarketRefined`, `FeedRefined` |
| | `ChainConservesUnits` | `[](Conservation /\ PositionsListed)` of the chain |
| | `ChainReadsCents` | `[]CentsRead` of the chain, if every quote fits |
| | `ChainSparesTheHealthy`, `ChainSeizesFairly`, `ChainKeepsHealth` | `OnlyUnhealthyAreSeized`, `SeizureIsPaidFor` and `SupplyIsPaidIn`, `HealthKept` of the chain, on the market's conditions |

The hypotheses of the conditional theorems are met by the runs that check the property,
and each is there because the property is false without it. A liquidation gives a discount,
so it changes net worth, and it can lose a payment (`lending_lost_payment`); `init_pool`
resets the indices positions are measured in; a direct `transfer_asset` moves wallets; a
liquidation leaves the totals of its pools (`lending_seized_cash`). A quote `Fits` if it is below
2^32 cents and its fraction below one: `parse_price` truncates to `u32`.

Three conditions are about widths and rounding, and are asked of every state of the behaviour
(the last one only while the pools' indices can be computed at all):

* `CashIsSound`, above; an invariant of `lending_market`.
* `multipliers_fit`: `one + rate * blocks` is an unchecked `u128` addition.
* `powers_fit`: the positions can be computed, their values are rounded down and the sums of
  `get_user_info`, which wrap, are within a `u128`. `computable => intact /\ powers_fit` was
  checked with TLC as an invariant of the instance of `lending_market`, so the condition of
  `HealthIsKept` is met there. In the runtime it is a bound on positions: a product of price and
  position below 2^128, that is 1.7e16 units at a price of 20000.

The theorems about liquidations have no condition on prices. `SeizureIsPaidFor` and
`SupplyIsPaidIn` speak of steps from states in which positions fit (`intact`), and the second of
supplies for which `seizure_fits`: the supply, times the sum of its price, that of a debt of its
owner and 8, is below 3.4e20. At the genesis prices of 600 and 20000 that is 1.65e16 units
(1.65% of the 1e18 issued); where the two prices add up to less than 332 it is all that is issued.

**The ledger.** `Conservation` is a sum over `Accounts`. The sum of the community modules is a
fold, and `AssetsProofs` shows what it needs of it without an induction rule: among the sets
for which a statement about sums fails there would be one of least cardinality
(`LeastNumber`), and removing an element from it gives a contradiction. From that,
`MovedExactly`: on a ledger whose totals fit, a transfer that has the balance moves the
amount exactly, because the debit is stored before the credit is read and the credit is
bounded by the total. The invariant is

    LedgerInv == AssetsTypeOK /\ Conservation /\ Unissued

`Conservation` is not inductive alone: `issue` overwrites the supply of `next_asset_id`, and
only `Unissued` says there was none. `Handed(before, after, who)` is what a chain of transfers
may do for one caller, failures included; it composes (`HandedOn`), keeps `LedgerInv` and is a
step of `Custody`. Each extrinsic of lending and swap is shown to be one.

**The market.** The invariant is

    IInv == LendingTypeOK /\ LedgerInv /\ PositionsListed /\ ListedHasPool /\ NoFuturePool

The elapsed time has a type only if no pool is dated
ahead; a pool has a type only if the elapsed time has; `ListedHasPool` needs `pushed` to list
only assets whose pool was found; and the lists stay in step with the entries only because
an entry that fails half way is replaced and never created or deleted, which is the
well-formedness of `accrued`. The proof first types the arithmetic, then an accrued pool and
an updated entry, then shows that replacing, deleting and making an entry each keep a list
in step (`InStep*`), that storing a pool keeps it dated (`PoolStored`), and reduces each
extrinsic to `StepKeeps`, with one lemma for each action.

`LendingWorthProofs` rests on three exact facts of the rounding arithmetic (`FixedExact`):
multiplying by one, dividing a number by itself and multiplying by zero round nothing.
Hence the index of a pool accrued in this block is its index (`RestingIndex`), an accrued pool
has the index positions were measured in before the call (`AccruedIndex`, `IndicesKept`), and
an entry stored at an index is worth its amount at it (`StoredWorth`), whatever the rates and
however often interest is rounded. Every user call then is a `UserMove`: n units between
the caller's wallet and the caller's position, the cash of the pallet changing by the same n,
and nobody else's position at all. For liquidations, `get_user_info` on the entries that
`liquidate` accrued gives what it gives on the stored ones (`SamePower`), so that what the
check refuses is exactly `healthy`.

`LendingSolvencyProofs` has three arguments. *Cash.* Every call first accrues the pool it stores,
so `CashBacked` of the pool as stored has to give it of the accrued one (`AccruedBacked`): the
suppliers' multiplier adds to the supply no more than the borrowers' adds to the debt, because
the supply rate is the debt rate times the utilization, each truncated (`GrowthBacked`, from
`interest_fits`). The call then moves cash and totals by the same amount (`BackedAfter`), and
`totals_fit` is what keeps the wrapping comparisons and subtractions of that amount honest.

*Liquidations.* A payment `p` buys `p * rate / DIV` and was bounded by `supply * limit / DIV`,
where `rate` and `limit` are quotients of the same ratio of prices by the discount and times
it. A quotient exceeds the exact one only if its product is beyond the width, and then by at
most half; so relative to it the excess is at most its divisor over 2^129 (`Overshoot`, and for
a quotient of quotients `OvershootAgain` and `ChainedQuotients`). Three in a row add up to the
slack of `SeizureIsPaidFor` (`SeizedWorth`, `OvershootOfWorth`), and the limit, of which no
more than the ratio and the discount may be too large, to `seizure_fits` (`LimitedQuotients`,
`SeizedWithin`), under which what is bought is at most the supply. The case where the asset
paid is the asset seized needs the entries in the order in which the code stores them; a
payment whose second transfer fails only moves cash to the pallet. So no subtraction of
`liquidate` on such a supply wraps, and what the two parties have together does not grow; on a
larger one it wraps upwards (`SubWrapped`), so that nobody's debt grows and `SeizureIsPaidFor`
still holds.

*Health.* The check is a wrapping fold over the user's lists. Because every position is listed
exactly once (`PositionsListed`) and has its pool (`ListedHasPool`), and because the sums fit,
it is the sum over all assets of the truncated value of each position (`ListedSum`,
`InfoIsSum`), hence a comparison of `owed` and `borrowing_power` (`CheckCompares`). One call
changes one position by n units; a truncated value of a whole exceeds those of its two parts
together by at most one (`ValueSplits`), and `withdraw` and `borrow` compare the value of n with
what is left (`MayWithdraw`, `MayBorrow`). One unit of slack is therefore enough however many
assets the user has. For liquidations a covered user is not touched.

**The exchange.** `SwapInv == SwapTypeOK /\ LedgerInv`. The rest is arithmetic: a truncated
quotient times its divisor is at most the dividend, and a product that wrapped is smaller
still (`MulDivFacts`), so overflow and rounding both favour the pool in the exact-input
path and in shares. An exact-output step is excepted inside `ProductKept` and `QuotesStand`, so
that the theorems speak of every configuration.

**The feed.** `WInv` adds to the types of the numbers that validation compares the one fact
that matters, `WindowSet`: `NextUnsignedAt` is where the last accepted price put it. Pools may
hold anything made for some block, by whomever. Both action properties then follow from the
validation at inclusion; the validation at submission and the pools' tags are not needed for
safety. `FInv == WorkerTypeOK /\ Answered` says that every price a worker holds is what
`parse_price` made of a quote, and that every price in a pool or on the chain is that or one of
`OtherPrices`. What `pow10` is for every number of decimals again follows from a least
counterexample.

**The chain.** `RInv == market \in Quotes /\ Feed!FInv`, where `Feed` is the instance of
`OffchainWorkerProofs` on the chain's variables; its lemmas are used, with the assumptions on
the constants supplied by `RuntimeAssumption`. `MarketRefined` needs the feed's invariant: only
`Answered` shows that the price `feed_price` stores is in the `PriceFeed` that `Lending`
allows, which has the prices of others in it. Since the chain implements both parts, their
theorems hold of it: `ChainConservesUnits`, `ChainSparesTheHealthy`, `ChainSeizesFairly`,
`ChainKeepsHealth` and `ChainReadsCents` draw that conclusion, so that what is said of prices
and health holds with the feed's writes falling between any two calls of a block.

**Only model-checked**, and why:

* `PriceArrives` and `HealthFollowsMarket`: liveness under fairness.
* `CashIsSound`: it is a condition on rates, roundings and totals, which depends on the constants;
  it is checked as an invariant and used as a hypothesis. For rates near the width, or in the
  round-to-nearest regime of `multiply_by_rational`, it is false.

## 5. Where code and repository disagree

With a counterexample from TLC:

* `lending_pool_debt`: "Total debt of the pool" (lending:54) is truncated at every accrual
  and the users' debts are not, so the users come to owe more than the pool says. Repaying
  in full then wraps the total (lending:625). At the runtime's scale, with a debt of 1e6
  units and a rate of about 2.3e-8 per block, some 44 accruals are enough.
* `lending_seized_cash`: `liquidate` changes neither pool's totals (lending:480), so the
  pool of the seized asset counts as cash what has left.
* `lending_lost_payment`: if the second transfer of `liquidate` fails (lending:475) the
  liquidator has paid and the debt is what it was.
* `lending_rounded_seizure`: beyond a `u128` the quotients of `liquidate` round to the nearest,
  and a payment within `pay_limit` buys more than the target has supplied (lending:459), whose
  supply then wraps, although "the arbitrageurs can only purchase up to `CloseFactor` of the
  assets. The current value is 1." (README.md:108). In the instance a limit of 27 buys 31 of 30
  units. At the runtime's scale, with prices of 35796.67 for the collateral and 600 for the
  debt, a supply of 743352522221960519 gives a limit of 42131779475108046798, which buys
  743352522221960531.
* `swap_exact_output`: `calc_input_at_known_output` converts the output instead of the price
  it computed (swap:1015): an exact output costs as many units as it delivers.
* `swap_overdraft`: `remove_liquidity` does not compare with what the account has
  (swap:1176), and the account's liquidity wraps.

Seen while reading, without a run of their own: `init_pool` is open to any origin and resets
a pool in use (lending:489, 498); a swap pays its output although its input transfer failed
(swap:282, 287); `min_output`, `max_input` and the other limits are never read (swap:265);
`set_inherent_asset` is open (assets:83) and changes the account every pool trades from,
while liquidity stays keyed by the paired asset (swap:1090); `calculate_output` quotes with
the pool of the asset bought, also when an asset is sold for the inherent one, so that
`QuotesStand` can speak of payments in the inherent asset only (swap:830); the RPC's
`get_user_info` saturates balances to `u64` (runtime:557), which the genesis assets are
worth more than; `set_fee_rate` "need root permission" (swap:68) and the check is commented
out; `parse_price` returns "`Some(price in cents)`" (offchain-worker:151) and reads a
quote of 1.5 as 105 (offchain-worker:168), the one exception that `CentsRead` spells out;
`validate_unsigned` takes a price from any source (offchain-worker:200), so that nothing ties the
chain's price to the exchange's but who is included first.

## 6. What is not modelled

* Events, debug output, error codes, weights and fees.
* The JSON layer of the RPCs. What they forward to is in `Lending` (`supply_rate_internal`,
  `debt_rate_internal`, the sums of `get_user_info`, the balances with interest) and in `Swap`
  (`calculate_output`).
* HTTP and the lexing of JSON, reduced to an answer or none.
* Forks: the chain is linear. Substrate rolls storage back with the block, so a fork drops a
  suffix of the steps of each model; what it does to a pool's transactions is Substrate's.
* In `Runtime`: root's calls and the exchange pallet, as said above, and Substrate's own
  pallets (`Balances`, `Sudo`, `Aura`, `Grandpa`, ...), which touch none of this state.
* The rest of the node (command line, client, import queue, consensus), which is wiring of
  Substrate's services.

## 7. Plan

Done: the ledger and its abstract specification, the money market, the exchange with the
RPC's quote, the price feed with restarts, the chain that composes feed and market, their
runs, and the theorems of section 4, which state every safety property of the runs but
`CashIsSound`. There remain

1. the round-to-nearest regime of `multiply_by_rational`, in which the seizures are already
   checked and proved, for the cash and the health check, with the slack they need in it;
2. the arithmetic checked against a rational reference over bounded inputs;
3. the exchange pallet on the chain of `Runtime`, which shares the ledger with the market.
