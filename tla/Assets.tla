------------------------------- MODULE Assets -------------------------------
(***************************************************************************)
(* The assets pallet (src/pallets/assets/src/lib.rs): the ledger of every  *)
(* fungible asset of the chain and the price feed the other pallets read.  *)
(*                                                                         *)
(* An extrinsic that returns an error before it wrote anything leaves the  *)
(* state alone: its guard is a conjunct of the action.  The transfer       *)
(* operators are shared by the pallets that move assets (MultiAsset).      *)
(***************************************************************************)
EXTENDS FixedU128, FiniteSetsExt, Sequences

CONSTANTS Accounts,      \* every account of the chain, the pallets' own included
          Signers,       \* the accounts somebody has a key of
          AssetSigners,  \* those that call this pallet's extrinsics themselves
          MaxAssetId,    \* bound: the largest asset id the model can issue
          Amounts,       \* the amounts the extrinsics are called with
          PriceFeed,     \* the (asset, fixed point price) pairs root sets
          Genesis,       \* config(assets): a sequence of (account, amount, price)
          Owner,         \* config(owner)
          GenesisGrant   \* what the genesis build moves to Owner, 500000 in the code

AssetIds == 0..MaxAssetId

ASSUME AssetsAssumption ==
    /\ MaxAssetId \in Nat
    /\ IsFiniteSet(Accounts)
    /\ Signers \subseteq Accounts /\ AssetSigners \subseteq Signers
    /\ Owner \in Accounts
    /\ Amounts \subseteq Balance
    /\ PriceFeed \subseteq AssetIds \X Balance
    /\ GenesisGrant \in Balance
    /\ Genesis \in Seq([account : Accounts, amount : Balance, price : Nat])
    /\ Len(Genesis) <= MaxAssetId + 1

VARIABLES balances,          \* Balances: asset id -> account -> units held
          total_supply,      \* TotalSupply: asset id -> units
          next_asset_id,     \* NextAssetId
          inherent_asset_id, \* InherentAsset
          price              \* Price: asset id -> FixedU128

assets_vars == <<balances, total_supply, next_asset_id, inherent_asset_id, price>>

-----------------------------------------------------------------------------
(* Moving units of an asset between two holders. *)

\* Mutant of transfer_ok: the sender's balance is not looked at.
transfer_ok_unfunded(bal, from, id, amount) == amount # 0

transfer_ok(bal, from, id, amount) == amount # 0 /\ bal[id][from] >= amount

\* Mutants of moved: the receiver's balance is read before the debit; the debit is forgotten;
\* what is sent replaces what the receiver had.
moved_stale(bal, from, id, to, amount) ==
    [[bal EXCEPT ![id][from] = @ - amount] EXCEPT ![id][to] = wrapping_add[bal[id][to]][amount]]
moved_undebited(bal, from, id, to, amount) == [bal EXCEPT ![id][to] = wrapping_add[@][amount]]
moved_overwriting(bal, from, id, to, amount) ==
    [[bal EXCEPT ![id][from] = @ - amount] EXCEPT ![id][to] = amount]

\* The debit is stored before the credit is read, so a transfer to oneself moves nothing.
moved(bal, from, id, to, amount) ==
    LET debited == [bal EXCEPT ![id][from] = @ - amount]
    IN  [debited EXCEPT ![id][to] = wrapping_add[@][amount]]

transfer(bal, from, id, to, amount) ==
    IF transfer_ok(bal, from, id, amount) THEN moved(bal, from, id, to, amount) ELSE bal

-----------------------------------------------------------------------------
(* The genesis build: issue, grant to the owner, set the price. *)

nobody == [a \in Accounts |-> 0]

issued(bal, id, who, total) == [bal EXCEPT ![id][who] = total]

Init_balances ==
    LET empty == [id \in AssetIds |-> nobody]
        grant(id) == LET g == Genesis[id + 1]
                     IN  transfer(issued(empty, id, g.account, g.amount),
                                  g.account, id, Owner, GenesisGrant)
    IN  [id \in AssetIds |-> IF id < Len(Genesis) THEN grant(id)[id] ELSE nobody]

AssetsInit ==
    /\ balances = Init_balances
    /\ total_supply = [id \in AssetIds |-> IF id < Len(Genesis) THEN Genesis[id + 1].amount ELSE 0]
    /\ next_asset_id = Len(Genesis)
    /\ inherent_asset_id = 0
    /\ price = [id \in AssetIds |-> IF id < Len(Genesis)
                                    THEN saturating_from_integer(Genesis[id + 1].price)
                                    ELSE 0]

-----------------------------------------------------------------------------
(* The extrinsics. *)

issue(who, total) ==
    /\ next_asset_id <= MaxAssetId
    /\ balances' = issued(balances, next_asset_id, who, total)
    /\ total_supply' = [total_supply EXCEPT ![next_asset_id] = total]
    /\ next_asset_id' = next_asset_id + 1
    /\ UNCHANGED <<inherent_asset_id, price>>

\* Mutant of destroy: what is destroyed is added to the supply.
destroy_adding(who, id) ==
    /\ balances[id][who] # 0
    /\ balances' = [balances EXCEPT ![id][who] = 0]
    /\ total_supply' = [total_supply EXCEPT ![id] = wrapping_add[@][balances[id][who]]]
    /\ UNCHANGED <<next_asset_id, inherent_asset_id, price>>

destroy(who, id) ==
    /\ balances[id][who] # 0
    /\ balances' = [balances EXCEPT ![id][who] = 0]
    /\ total_supply' = [total_supply EXCEPT ![id] = wrapping_sub[@][balances[id][who]]]
    /\ UNCHANGED <<next_asset_id, inherent_asset_id, price>>

\* Any origin: the root check is commented out.
set_inherent_asset(who, id) ==
    /\ inherent_asset_id' = id
    /\ UNCHANGED <<balances, total_supply, next_asset_id, price>>

\* The result of transfer is dropped: the extrinsic succeeds whatever it was.
transfer_asset(who, id, to, amount) ==
    /\ balances' = transfer(balances, who, id, to, amount)
    /\ UNCHANGED <<total_supply, next_asset_id, inherent_asset_id, price>>

set_price(id, p) ==
    /\ price' = [price EXCEPT ![id] = p]
    /\ UNCHANGED <<balances, total_supply, next_asset_id, inherent_asset_id>>

AssetsNext ==
    \/ \E who \in AssetSigners, total \in Amounts : issue(who, total)
    \/ \E who \in AssetSigners, id \in AssetIds : destroy(who, id)
    \/ \E who \in AssetSigners, id \in AssetIds : set_inherent_asset(who, id)
    \/ \E who \in AssetSigners, id \in AssetIds, to \in Accounts, amount \in Amounts :
           transfer_asset(who, id, to, amount)
    \/ \E feed \in PriceFeed : set_price(feed[1], feed[2])

-----------------------------------------------------------------------------
(* Properties. *)

\* Every stored number is a u128, and the next id is within the bound or one past it.
AssetsTypeOK ==
    /\ balances \in [AssetIds -> [Accounts -> Balance]]
    /\ total_supply \in [AssetIds -> Balance]
    /\ next_asset_id \in 0..(MaxAssetId + 1)
    /\ inherent_asset_id \in AssetIds
    /\ price \in [AssetIds -> Balance]

\* An asset's units are all held by somebody: what the accounts hold adds up to
\* TotalSupply, through transfers to oneself, failed transfers, and destruction.
\* (Every credit therefore stays below TotalSupply and never wraps.)
Conservation ==
    \A id \in AssetIds :
        MapThenSumSet(LAMBDA a : balances[id][a], Accounts) = total_supply[id]

\* "There are, and will only ever be, `total` such assets" (lib.rs:166): once an id is
\* issued its supply never grows; issue never lands on an id that is in use.
SupplyOnlyShrinks ==
    [][\A id \in AssetIds : id < next_asset_id => total_supply'[id] <= total_supply[id]]_assets_vars

Ledger == INSTANCE Custody WITH Ids <- AssetIds, Holders <- Signers,
                                held <- balances, next_id <- next_asset_id

\* Lending and Swap, which move units for their callers through the unchecked
\* MultiAsset::transfer, implement the ledger's promise: a call takes units from at most one
\* holder's wallet, and makes or loses none, in a chain of transfers that fails half way too.
KeepsCustody == Ledger!Spec
=============================================================================
