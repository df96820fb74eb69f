--------------------------- MODULE LendingProofs ---------------------------
(***************************************************************************)
(* For every width, every set of accounts and assets, every interest model *)
(* and every sequence of calls: the lending pallet's storage stays well    *)
(* formed, and its lists of positions stay in step with the positions.     *)
(***************************************************************************)
EXTENDS Lending, AssetsProofs

-----------------------------------------------------------------------------
(* Accruing a pool. *)

\* debt_rate_internal and supply_rate_internal yield a rate or panic.
LEMMA RateType ==
  ASSUME NEW pool \in Pool
  PROVE  debt_rate_internal(pool) \in Outcome /\ supply_rate_internal(pool) \in Outcome
  <1>1. /\ pool.supply \in Outcome /\ pool.debt \in Outcome
        /\ UtilizationFactor \in Outcome /\ InitialInterestRate \in Outcome
        /\ 0 \in Outcome
    BY LendingAssumption, WidthAssumption DEF Pool, Outcome, Balance
  <1>2. saturating_from_rational(pool.debt, pool.supply) \in Outcome
    BY <1>1, FixedType
  <1>3. debt_rate_internal(pool) \in Outcome
    BY <1>1, <1>2, FixedType DEF debt_rate_internal
  <1>4. supply_rate_internal(pool) \in Outcome
    BY <1>1, <1>2, <1>3, FixedType DEF supply_rate_internal
  <1> QED
    BY <1>3, <1>4

\* What accrue_interest multiplies totals and indices by is a u128 or a panic.
LEMMA MultiplierType ==
  ASSUME NEW pool \in Pool, block_number \in 0..MaxBlock
  PROVE  supply_multiplier(pool) \in Outcome /\ debt_multiplier(pool) \in Outcome
  <1>1. block_number - pool.last_updated \in Int
    BY LendingAssumption DEF Pool
  <1>2. saturating_from_integer(block_number - pool.last_updated) \in Outcome
    BY <1>1, FromIntegerType
  <1>3. one \in Outcome
    BY WidthAssumption DEF one, Outcome, Balance
  <1>4. ASSUME NEW r \in Outcome PROVE multiplier(r, pool) \in Outcome
    BY <1>2, <1>3, FixedType DEF multiplier
  <1> QED
    BY <1>4, RateType DEF supply_multiplier, debt_multiplier

\* accrue_interest, when it does not panic, yields a well-formed pool of this block.
LEMMA AccruedPool ==
  ASSUME LendingTypeOK, NEW asset \in AssetIds, NEW p \in accrued_pool(asset)
  PROVE  /\ pools[asset] \in Pool
         /\ p \in Pool
         /\ p.last_updated = block_number
  <1>1. /\ pools[asset] \in Pool
        /\ p = accrue_interest(pools[asset])
        /\ Panic \notin {p.supply, p.debt, p.total_supply_index, p.total_debt_index}
    BY DEF accrued_pool, LendingTypeOK
  <1>2. block_number \in 0..MaxBlock
    BY DEF LendingTypeOK
  <1> DEFINE pool == pools[asset]
  <1>3. CASE pool.last_updated = block_number
    BY <1>1, <1>3 DEF accrue_interest
  <1>4. CASE pool.last_updated # block_number
    <2>1. /\ supply_multiplier(pool) \in Outcome /\ debt_multiplier(pool) \in Outcome
          /\ pool.supply \in Outcome /\ pool.debt \in Outcome
          /\ pool.total_supply_index \in Outcome /\ pool.total_debt_index \in Outcome
      BY <1>1, <1>2, MultiplierType DEF Pool, Outcome
    <2>2. /\ saturating_mul_int(supply_multiplier(pool), pool.supply) \in Outcome
          /\ saturating_mul_int(debt_multiplier(pool), pool.debt) \in Outcome
          /\ supply_index_now(pool) \in Outcome
          /\ debt_index_now(pool) \in Outcome
      BY <2>1, FixedType DEF supply_index_now, debt_index_now
    <2>3. p = [pool EXCEPT !.supply = saturating_mul_int(supply_multiplier(pool), pool.supply),
                           !.debt = saturating_mul_int(debt_multiplier(pool), pool.debt),
                           !.total_supply_index = supply_index_now(pool),
                           !.total_debt_index = debt_index_now(pool),
                           !.last_updated = block_number]
      BY <1>1, <1>4 DEF accrue_interest
    <2> HIDE DEF pool
    <2>4. pool \in Pool
      BY <1>1 DEF pool
    <2> QED
      BY <1>1, <1>2, <2>2, <2>3, <2>4 DEF Pool, Outcome
  <1> QED
    BY <1>3, <1>4

-----------------------------------------------------------------------------
(* Positions. *)

\* A position with its interest, get_user_debt_with_interest, is a u128 or a panic.
LEMMA GrownType ==
  ASSUME NEW entry \in Entry, NEW index \in Balance
  PROVE  grown(entry, index) \in Outcome
  BY FixedType DEF grown, Entry, Outcome

\* accrue_*_with_interest stores a well-formed entry where there was one, and nothing else.
LEMMA AccruedEntry ==
  ASSUME NEW entry \in Entry \cup {None}, NEW index \in Balance,
         NEW e \in defined(accrued(entry, index))
  PROVE  /\ e \in Entry \cup {None}
         /\ e = None <=> entry = None
  <1>1. e = accrued(entry, index) /\ (e # None => e.amount # Panic)
    BY DEF defined
  <1>2. CASE entry = None
    BY <1>1, <1>2 DEF accrued
  <1>3. CASE entry # None
    <2>1. e = [amount |-> grown(entry, index), index |-> index]
      BY <1>1, <1>3 DEF accrued
    <2>2. grown(entry, index) \in Outcome
      BY <1>3, GrownType
    <2>3. e # None => e \in Entry
      BY <1>1, <2>1, <2>2 DEF Entry, Outcome
    <2>4. e # None
      BY <2>1, <2>2, LendingAssumption
    <2> QED
      BY <1>3, <2>3, <2>4
  <1> QED
    BY <1>2, <1>3

\* update_user_supply and update_user_debt store a well-formed entry or delete it.
LEMMA UpdatedEntry ==
  ASSUME NEW entry \in Entry \cup {None}, NEW index \in Balance, NEW amount \in Balance,
         NEW positive \in BOOLEAN,
         NEW e \in defined(updated(entry, index, amount, positive))
  PROVE  e \in Entry \cup {None}
  <1> DEFINE before == IF entry = None THEN 0 ELSE grown(entry, index)
             after  == IF positive THEN wrapping_add[before][amount] ELSE wrapping_sub[before][amount]
             stored == IF entry = None THEN amount ELSE after
  <1>1. e = updated(entry, index, amount, positive) /\ (e # None => e.amount # Panic)
    BY DEF defined
  <1>2. before \in Outcome
    <2>1. 0 \in Outcome
      BY WidthAssumption DEF Outcome, Balance
    <2>2. entry # None => grown(entry, index) \in Outcome
      BY GrownType
    <2> QED
      BY <2>1, <2>2
  <1>3. amount \in Outcome
    BY DEF Outcome
  <1>4. after \in Outcome
    <2> HIDE DEF before
    <2>1. wrapping_add[before][amount] \in Outcome /\ wrapping_sub[before][amount] \in Outcome
      BY <1>2, <1>3, WrappingAddType, WrappingSubType
    <2> QED
      BY <2>1
  <1>5. stored \in Outcome
    <2> HIDE DEF after
    <2> QED
      BY <1>3, <1>4
  <1>6. e = IF stored = 0 THEN None ELSE [amount |-> stored, index |-> index]
    BY <1>1 DEF updated
  <1> HIDE DEF stored
  <1> QED
    BY <1>1, <1>5, <1>6 DEF Entry, Outcome

Lists == [Accounts -> [AssetIds -> Nat]]

\* The push of supply and borrow lists the asset for that user once, and touches no other.
LEMMA PushedList ==
  ASSUME NEW list \in Lists, NEW who \in Accounts, NEW asset \in AssetIds
  PROVE  /\ pushed(list, who, asset) \in Lists
         /\ \A u \in Accounts, a \in AssetIds :
                pushed(list, who, asset)[u][a] =
                    IF u = who /\ a = asset /\ list[u][a] = 0 THEN 1 ELSE list[u][a]
  BY DEF pushed, Lists

\* The retain of update_user_* unlists the asset when its entry is deleted, and only then.
LEMMA RetainedList ==
  ASSUME NEW list \in Lists, NEW who \in Accounts, NEW asset \in AssetIds, NEW before, NEW after
  PROVE  /\ retained(list, who, asset, before, after) \in Lists
         /\ \A u \in Accounts, a \in AssetIds :
                retained(list, who, asset, before, after)[u][a] =
                    IF u = who /\ a = asset /\ before # None /\ after = None THEN 0 ELSE list[u][a]
  BY DEF retained, Lists

-----------------------------------------------------------------------------
(* The inductive invariant, and what a step that changes one position of one pool must *)
(* establish to keep it.                                                               *)

Positions == [AssetIds -> [Accounts -> Entry \cup {None}]]

\* No pool was updated in a later block, so block_number - last_updated is a number.
NoFuturePool ==
    \A asset \in AssetIds : pools[asset] # None => pools[asset].last_updated <= block_number

IInv == LendingTypeOK /\ LedgerInv /\ PositionsListed /\ ListedHasPool /\ NoFuturePool

\* Which entries a list must name.
InStep(entries, list) ==
    \A user \in Accounts, asset \in AssetIds :
        /\ list[user][asset] <= 1
        /\ entries[asset][user] # None => list[user][asset] = 1

\* PositionsListed, said of the supplies and of the debts apart.
LEMMA PositionsInStep ==
  PositionsListed <=> InStep(user_supplies, user_supply_set) /\ InStep(user_debts, user_debt_set)
  BY DEF PositionsListed, InStep

\* Replacing an entry by another keeps the list in step.
LEMMA InStepReplaced ==
  ASSUME NEW entries \in Positions, NEW list \in Lists, InStep(entries, list),
         NEW who \in Accounts, NEW asset \in AssetIds, NEW e \in Entry \cup {None},
         e # None => entries[asset][who] # None
  PROVE  /\ [entries EXCEPT ![asset][who] = e] \in Positions
         /\ InStep([entries EXCEPT ![asset][who] = e], list)
  BY DEF InStep, Positions, Lists

\* ... and so does emptying one, with the retain of update_user_*.
LEMMA InStepRetained ==
  ASSUME NEW entries \in Positions, NEW list \in Lists, InStep(entries, list),
         NEW who \in Accounts, NEW asset \in AssetIds, entries[asset][who] # None,
         NEW before, before # None, NEW after \in Entry \cup {None}
  PROVE  LET next == [entries EXCEPT ![asset][who] = after]
             l    == retained(list, who, asset, before, after)
         IN  next \in Positions /\ l \in Lists /\ InStep(next, l)
  <1> DEFINE next == [entries EXCEPT ![asset][who] = after]
             l    == retained(list, who, asset, before, after)
  <1>1. /\ l \in Lists
        /\ \A u \in Accounts, a \in AssetIds :
               l[u][a] = IF u = who /\ a = asset /\ after = None THEN 0 ELSE list[u][a]
    BY RetainedList
  <1>2. /\ next \in Positions
        /\ \A u \in Accounts, a \in AssetIds :
               next[a][u] = IF u = who /\ a = asset THEN after ELSE entries[a][u]
    BY DEF Positions
  <1> HIDE DEF next, l
  <1>3. InStep(next, l)
    <2> SUFFICES ASSUME NEW u \in Accounts, NEW a \in AssetIds
                 PROVE  l[u][a] <= 1 /\ (next[a][u] # None => l[u][a] = 1)
      BY DEF InStep
    <2>1. list[u][a] \in Nat /\ list[u][a] <= 1 /\ (entries[a][u] # None => list[u][a] = 1)
      BY DEF InStep, Lists
    <2>2. CASE u = who /\ a = asset
      BY <1>1, <1>2, <2>1, <2>2
    <2>3. CASE ~ (u = who /\ a = asset)
      BY <1>1, <1>2, <2>1, <2>3
    <2> QED
      BY <2>2, <2>3
  <1> QED
    BY <1>1, <1>2, <1>3 DEF next, l

\* ... and making one, with the push of supply and borrow.
LEMMA InStepPushed ==
  ASSUME NEW entries \in Positions, NEW list \in Lists, InStep(entries, list),
         NEW who \in Accounts, NEW asset \in AssetIds, NEW before,
         NEW after \in Entry \cup {None}
  PROVE  LET next == [entries EXCEPT ![asset][who] = after]
             l    == pushed(retained(list, who, asset, before, after), who, asset)
         IN  /\ next \in Positions /\ l \in Lists /\ InStep(next, l)
             /\ \A u \in Accounts, a \in AssetIds : l[u][a] > 0 => list[u][a] > 0 \/ a = asset
  <1> DEFINE next == [entries EXCEPT ![asset][who] = after]
             r    == retained(list, who, asset, before, after)
             l    == pushed(r, who, asset)
  <1>1. /\ r \in Lists
        /\ \A u \in Accounts, a \in AssetIds :
               r[u][a] = IF u = who /\ a = asset /\ before # None /\ after = None THEN 0 ELSE list[u][a]
    BY RetainedList
  <1> HIDE DEF r
  <1>2. /\ l \in Lists
        /\ \A u \in Accounts, a \in AssetIds :
               l[u][a] = IF u = who /\ a = asset /\ r[u][a] = 0 THEN 1 ELSE r[u][a]
    BY <1>1, PushedList
  <1>3. /\ next \in Positions
        /\ \A u \in Accounts, a \in AssetIds :
               next[a][u] = IF u = who /\ a = asset THEN after ELSE entries[a][u]
    BY DEF Positions
  <1> HIDE DEF next, l
  <1>4. InStep(next, l)
    <2> SUFFICES ASSUME NEW u \in Accounts, NEW a \in AssetIds
                 PROVE  l[u][a] <= 1 /\ (next[a][u] # None => l[u][a] = 1)
      BY DEF InStep
    <2>1. list[u][a] \in Nat /\ list[u][a] <= 1 /\ (entries[a][u] # None => list[u][a] = 1)
      BY DEF InStep, Lists
    <2>2. CASE u = who /\ a = asset
      BY <1>1, <1>2, <2>1, <2>2
    <2>3. CASE ~ (u = who /\ a = asset)
      BY <1>1, <1>2, <1>3, <2>1, <2>3
    <2> QED
      BY <2>2, <2>3
  <1>5. \A u \in Accounts, a \in AssetIds : l[u][a] > 0 => list[u][a] > 0 \/ a = asset
    BY <1>1, <1>2 DEF Lists
  <1> QED
    BY <1>2, <1>3, <1>4, <1>5 DEF next, l, r

\* A retain lists nothing new.
LEMMA RetainedListsLess ==
  ASSUME NEW list \in Lists, NEW who \in Accounts, NEW asset \in AssetIds, NEW before, NEW after
  PROVE  \A u \in Accounts, a \in AssetIds :
             retained(list, who, asset, before, after)[u][a] > 0 => list[u][a] > 0
  <1> TAKE u \in Accounts, a \in AssetIds
  <1>1. retained(list, who, asset, before, after)[u][a] \in {0, list[u][a]}
    BY RetainedList
  <1> QED
    BY <1>1

\* Storing a pool brought up to this block.
LEMMA PoolStored ==
  ASSUME IInv, NEW asset \in AssetIds, NEW p \in Pool, p.last_updated = block_number,
         NEW stored, stored = [pools EXCEPT ![asset] = p]
  PROVE  /\ stored \in [AssetIds -> Pool \cup {None}]
         /\ \A a \in AssetIds : pools[a] # None => stored[a] # None
         /\ \A a \in AssetIds : stored[a] # None => stored[a].last_updated <= block_number
  <1>1. pools \in [AssetIds -> Pool \cup {None}] /\ block_number \in 0..MaxBlock
    BY DEF IInv, LendingTypeOK
  <1>2. \A a \in AssetIds : stored[a] = IF a = asset THEN p ELSE pools[a]
    BY <1>1
  <1>3. None \notin Pool
    BY LendingAssumption
  <1>4. \A a \in AssetIds : pools[a] # None => pools[a].last_updated <= block_number
    BY DEF IInv, NoFuturePool
  <1>5. block_number <= block_number
    BY <1>1, LendingAssumption
  <1> QED
    BY <1>1, <1>2, <1>3, <1>4, <1>5

\* Every change the user extrinsics make to a pool's totals is such a pool.
LEMMA PoolSupplyStored ==
  ASSUME IInv, NEW asset \in AssetIds, NEW pool \in Pool, pool.last_updated = block_number,
         NEW amount \in Balance,
         \/ pools' = [pools EXCEPT ![asset] = [pool EXCEPT !.supply = wrapping_add[@][amount]]]
         \/ pools' = [pools EXCEPT ![asset] = [pool EXCEPT !.supply = wrapping_sub[@][amount]]]
  PROVE  /\ pools' \in [AssetIds -> Pool \cup {None}]
         /\ \A a \in AssetIds : pools[a] # None => pools'[a] # None
         /\ \A a \in AssetIds : pools'[a] # None => pools'[a].last_updated <= block_number
  <1>1. /\ wrapping_add[pool.supply][amount] \in Balance
        /\ wrapping_sub[pool.supply][amount] \in Balance
    BY WrapStaysInWidth DEF Pool
  <1>2. PICK n \in Balance : pools' = [pools EXCEPT ![asset] = [pool EXCEPT !.supply = n]]
    BY <1>1
  <1>3. [pool EXCEPT !.supply = n] \in Pool /\ [pool EXCEPT !.supply = n].last_updated = block_number
    BY DEF Pool
  <1> QED
    BY <1>2, <1>3, PoolStored

\* The same for a change of the pool's debt, by borrow and repay.
LEMMA PoolDebtStored ==
  ASSUME IInv, NEW asset \in AssetIds, NEW pool \in Pool, pool.last_updated = block_number,
         NEW amount \in Balance,
         \/ pools' = [pools EXCEPT ![asset] = [pool EXCEPT !.debt = wrapping_add[@][amount]]]
         \/ pools' = [pools EXCEPT ![asset] = [pool EXCEPT !.debt = wrapping_sub[@][amount]]]
  PROVE  /\ pools' \in [AssetIds -> Pool \cup {None}]
         /\ \A a \in AssetIds : pools[a] # None => pools'[a] # None
         /\ \A a \in AssetIds : pools'[a] # None => pools'[a].last_updated <= block_number
  <1>1. /\ wrapping_add[pool.debt][amount] \in Balance
        /\ wrapping_sub[pool.debt][amount] \in Balance
    BY WrapStaysInWidth DEF Pool
  <1>2. PICK n \in Balance : pools' = [pools EXCEPT ![asset] = [pool EXCEPT !.debt = n]]
    BY <1>1
  <1>3. [pool EXCEPT !.debt = n] \in Pool /\ [pool EXCEPT !.debt = n].last_updated = block_number
    BY DEF Pool
  <1> QED
    BY <1>2, <1>3, PoolStored

\* A step that stores well-formed positions, lists in step with them and pools of this block
\* at the latest keeps the invariant: what each extrinsic below is reduced to.
LEMMA StepKeeps ==
  ASSUME IInv,
         LedgerStep, UNCHANGED block_number,
         user_supplies' \in Positions, user_supply_set' \in Lists,
         user_debts' \in Positions, user_debt_set' \in Lists,
         InStep(user_supplies', user_supply_set'), InStep(user_debts', user_debt_set'),
         pools' \in [AssetIds -> Pool \cup {None}],
         \A a \in AssetIds : pools[a] # None => pools'[a] # None,
         \A a \in AssetIds : pools'[a] # None => pools'[a].last_updated <= block_number,
         \A u \in Accounts, a \in AssetIds :
             /\ user_supply_set'[u][a] > 0 => user_supply_set[u][a] > 0 \/ pools[a] # None
             /\ user_debt_set'[u][a] > 0 => user_debt_set[u][a] > 0 \/ pools[a] # None
  PROVE  IInv' /\ LedgerStep
  <1>1. LendingTypeOK'
    BY DEF IInv, LendingTypeOK, LedgerStep, LedgerInv, Positions, Lists
  <1>2. PositionsListed'
    BY DEF PositionsListed, InStep
  <1>3. ListedHasPool'
    BY DEF IInv, ListedHasPool
  <1>4. NoFuturePool'
    BY DEF NoFuturePool
  <1> QED
    BY <1>1, <1>2, <1>3, <1>4 DEF IInv, LedgerStep

\* The state in the vocabulary of the lemmas.
LEMMA InvFacts ==
  ASSUME IInv
  PROVE  /\ balances \in Ledgers /\ Bounded(balances)
         /\ user_supplies \in Positions /\ user_supply_set \in Lists
         /\ user_debts \in Positions /\ user_debt_set \in Lists
         /\ InStep(user_supplies, user_supply_set) /\ InStep(user_debts, user_debt_set)
         /\ pools \in [AssetIds -> Pool \cup {None}]
         /\ \A a \in AssetIds : pools[a] # None => pools[a].last_updated <= block_number
         /\ account_id \in Accounts /\ account_id \notin Signers
         /\ Signers \subseteq Accounts /\ Amounts \subseteq Balance
  BY PositionsInStep, LedgerFacts, LendingAssumption, AssetsAssumption
  DEF IInv, LendingTypeOK, AssetsTypeOK, Ledgers, Positions, Lists, NoFuturePool

-----------------------------------------------------------------------------
(* One lemma per extrinsic. *)

\* supply keeps the invariant: it pushes the asset with the first entry.
LEMMA SupplyKeeps ==
  ASSUME IInv, NEW who \in Signers, NEW asset \in AssetIds, NEW amount \in Amounts,
         supply(who, asset, amount)
  PROVE  IInv' /\ LedgerStep
  <1> DEFINE before == user_supplies[asset][who]
  <1>1. who \in Accounts /\ amount \in Balance
    BY InvFacts
  <1>0. PICK pool \in accrued_pool(asset) : supplied(who, asset, pool, before, amount)
    BY DEF supply
  <1>2. PICK after \in defined(updated(before, pool.total_supply_index, amount, TRUE)) :
           /\ balances' = moved(balances, who, asset, account_id, amount)
           /\ user_supplies' = [user_supplies EXCEPT ![asset][who] = after]
           /\ user_supply_set' =
                  pushed(retained(user_supply_set, who, asset, before, after), who, asset)
           /\ pools' = [pools EXCEPT ![asset] = [pool EXCEPT !.supply = wrapping_add[@][amount]]]
    BY <1>0 DEF supplied
  <1>3. pools[asset] \in Pool /\ pool \in Pool /\ pool.last_updated = block_number
    BY AccruedPool DEF IInv
  <1>4. after \in Entry \cup {None}
    <2>1. before \in Entry \cup {None}
      BY <1>1, InvFacts DEF Positions
    <2>2. pool.total_supply_index \in Balance
      BY <1>3 DEF Pool
    <2> QED
      BY <1>1, <1>2, <2>1, <2>2, UpdatedEntry
  <1>5. LedgerStep
    <2>1. Handed(balances, balances', who)
      BY <1>0, <1>1, <1>2, InvFacts, MovedHands DEF supplied
    <2> QED
      BY <2>1, HandedKeeps DEF IInv, supply
  <1>6. /\ user_supplies' \in Positions /\ user_supply_set' \in Lists
        /\ InStep(user_supplies', user_supply_set')
        /\ \A u \in Accounts, a \in AssetIds :
               user_supply_set'[u][a] > 0 => user_supply_set[u][a] > 0 \/ a = asset
    BY <1>1, <1>2, <1>4, InvFacts, InStepPushed
  <1>7. /\ pools' \in [AssetIds -> Pool \cup {None}]
        /\ \A a \in AssetIds : pools[a] # None => pools'[a] # None
        /\ \A a \in AssetIds : pools'[a] # None => pools'[a].last_updated <= block_number
    BY <1>1, <1>2, <1>3, PoolSupplyStored
  <1>8. pools[asset] # None
    BY <1>3, LendingAssumption
  <1> QED
    BY <1>5, <1>6, <1>7, <1>8, InvFacts, StepKeeps DEF supply

\* withdraw keeps the invariant, also when a check fails after the entry was accrued.
LEMMA WithdrawKeeps ==
  ASSUME IInv, NEW who \in Signers, NEW asset \in AssetIds, NEW wanted \in Amounts,
         withdraw(who, asset, wanted)
  PROVE  IInv' /\ LedgerStep
  <1>1. who \in Accounts /\ wanted \in Balance
    BY InvFacts
  <1>2. PICK pool \in accrued_pool(asset) :
           \E entry \in defined(accrued(user_supplies[asset][who], pool.total_supply_index)) :
               withdraw_checked(who, asset, pool, entry, capped(wanted, entry.amount))
    BY DEF withdraw
  <1>3. PICK entry \in defined(accrued(user_supplies[asset][who], pool.total_supply_index)) :
           withdraw_checked(who, asset, pool, entry, capped(wanted, entry.amount))
    BY <1>2
  <1> DEFINE amount == capped(wanted, entry.amount)
  <1>4. \/ withdrawn(who, asset, pool, entry, amount)
        \/ supply_accrued(who, asset, entry)
    BY <1>3 DEF withdraw_checked
  <1>5. /\ pools[asset] \in Pool /\ pool \in Pool /\ pool.last_updated = block_number
        /\ pool.total_supply_index \in Balance
    BY AccruedPool DEF IInv, Pool
  <1>6. /\ user_supplies[asset][who] \in Entry \cup {None}
        /\ user_supplies[asset][who] # None
    BY <1>1, InvFacts DEF Positions, withdraw
  <1>7. entry \in Entry /\ entry # None
    BY <1>3, <1>5, <1>6, AccruedEntry
  <1>8. amount \in Balance
    BY <1>1, <1>7 DEF capped, Entry
  <1> HIDE DEF amount
  <1>9. CASE supply_accrued(who, asset, entry)
    <2>1. LedgerStep
      BY <1>9, InvFacts, NothingHanded, HandedKeeps DEF IInv, withdraw, supply_accrued
    <2> QED
      BY <1>1, <1>6, <1>7, <1>9, <2>1, InvFacts, InStepReplaced, StepKeeps DEF withdraw, supply_accrued
  <1>10. CASE withdrawn(who, asset, pool, entry, amount)
    <2>1. PICK after \in defined(updated(entry, pool.total_supply_index, amount, FALSE)) :
              /\ balances' = moved(balances, account_id, asset, who, amount)
              /\ user_supplies' = [user_supplies EXCEPT ![asset][who] = after]
              /\ user_supply_set' = retained(user_supply_set, who, asset, entry, after)
              /\ pools' = [pools EXCEPT ![asset] = [pool EXCEPT !.supply = wrapping_sub[@][amount]]]
      BY <1>10 DEF withdrawn
    <2>2. after \in Entry \cup {None}
      BY <1>5, <1>7, <1>8, UpdatedEntry
    <2>3. LedgerStep
      <3>1. Handed(balances, balances', who)
        BY <1>1, <1>8, <1>10, <2>1, InvFacts, MovedHands DEF withdrawn
      <3> QED
        BY <3>1, HandedKeeps DEF IInv, withdraw
    <2>4. /\ user_supplies' \in Positions /\ user_supply_set' \in Lists
          /\ InStep(user_supplies', user_supply_set')
      BY <1>1, <1>6, <1>7, <2>1, <2>2, InvFacts, InStepRetained
    <2>5. \A u \in Accounts, a \in AssetIds :
              user_supply_set'[u][a] > 0 => user_supply_set[u][a] > 0
      BY <1>1, <2>1, InvFacts, RetainedListsLess
    <2>6. /\ pools' \in [AssetIds -> Pool \cup {None}]
          /\ \A a \in AssetIds : pools[a] # None => pools'[a] # None
          /\ \A a \in AssetIds : pools'[a] # None => pools'[a].last_updated <= block_number
      BY <1>5, <1>8, <2>1, PoolSupplyStored
    <2> QED
      BY <2>3, <2>4, <2>5, <2>6, InvFacts, StepKeeps DEF withdraw
  <1> QED
    BY <1>4, <1>9, <1>10

\* repay keeps the invariant, also when a check fails after the entry was accrued.
LEMMA RepayKeeps ==
  ASSUME IInv, NEW who \in Signers, NEW asset \in AssetIds, NEW offered \in Amounts,
         repay(who, asset, offered)
  PROVE  IInv' /\ LedgerStep
  <1>1. who \in Accounts /\ offered \in Balance
    BY InvFacts
  <1>2. PICK pool \in accrued_pool(asset) :
           \E entry \in defined(accrued(user_debts[asset][who], pool.total_debt_index)) :
               \/ repaid(who, asset, pool, entry, capped(offered, entry.amount))
               \/ debt_accrued(who, asset, entry)
    BY DEF repay
  <1>3. PICK entry \in defined(accrued(user_debts[asset][who], pool.total_debt_index)) :
           \/ repaid(who, asset, pool, entry, capped(offered, entry.amount))
           \/ debt_accrued(who, asset, entry)
    BY <1>2
  <1> DEFINE amount == capped(offered, entry.amount)
  <1>4. \/ repaid(who, asset, pool, entry, amount)
        \/ debt_accrued(who, asset, entry)
    BY <1>3
  <1>5. /\ pools[asset] \in Pool /\ pool \in Pool /\ pool.last_updated = block_number
        /\ pool.total_debt_index \in Balance
    BY AccruedPool DEF IInv, Pool
  <1>6. /\ user_debts[asset][who] \in Entry \cup {None}
        /\ user_debts[asset][who] # None
    BY <1>1, InvFacts DEF Positions, repay
  <1>7. entry \in Entry /\ entry # None
    BY <1>3, <1>5, <1>6, AccruedEntry
  <1>8. amount \in Balance
    BY <1>1, <1>7 DEF capped, Entry
  <1> HIDE DEF amount
  <1>9. CASE debt_accrued(who, asset, entry)
    <2>1. LedgerStep
      BY <1>9, InvFacts, NothingHanded, HandedKeeps DEF IInv, repay, debt_accrued
    <2> QED
      BY <1>1, <1>6, <1>7, <1>9, <2>1, InvFacts, InStepReplaced, StepKeeps DEF repay, debt_accrued
  <1>10. CASE repaid(who, asset, pool, entry, amount)
    <2>1. PICK after \in defined(updated(entry, pool.total_debt_index, amount, FALSE)) :
              /\ balances' = moved(balances, who, asset, account_id, amount)
              /\ user_debts' = [user_debts EXCEPT ![asset][who] = after]
              /\ user_debt_set' = retained(user_debt_set, who, asset, entry, after)
              /\ pools' = [pools EXCEPT ![asset] = [pool EXCEPT !.debt = wrapping_sub[@][amount]]]
      BY <1>10 DEF repaid
    <2>2. after \in Entry \cup {None}
      BY <1>5, <1>7, <1>8, UpdatedEntry
    <2>3. LedgerStep
      <3>1. Handed(balances, balances', who)
        BY <1>1, <1>8, <1>10, <2>1, InvFacts, MovedHands DEF repaid
      <3> QED
        BY <3>1, HandedKeeps DEF IInv, repay
    <2>4. /\ user_debts' \in Positions /\ user_debt_set' \in Lists
          /\ InStep(user_debts', user_debt_set')
      BY <1>1, <1>6, <1>7, <2>1, <2>2, InvFacts, InStepRetained
    <2>5. \A u \in Accounts, a \in AssetIds :
              user_debt_set'[u][a] > 0 => user_debt_set[u][a] > 0
      BY <1>1, <2>1, InvFacts, RetainedListsLess
    <2>6. /\ pools' \in [AssetIds -> Pool \cup {None}]
          /\ \A a \in AssetIds : pools[a] # None => pools'[a] # None
          /\ \A a \in AssetIds : pools'[a] # None => pools'[a].last_updated <= block_number
      BY <1>5, <1>8, <2>1, PoolDebtStored
    <2> QED
      BY <2>3, <2>4, <2>5, <2>6, InvFacts, StepKeeps DEF repay
  <1> QED
    BY <1>4, <1>9, <1>10

\* borrow keeps the invariant: it pushes the asset with the first entry.
LEMMA BorrowKeeps ==
  ASSUME IInv, NEW who \in Signers, NEW asset \in AssetIds, NEW amount \in Amounts,
         borrow(who, asset, amount)
  PROVE  IInv' /\ LedgerStep
  <1>1. who \in Accounts /\ amount \in Balance
    BY InvFacts
  <1>2. PICK pool \in accrued_pool(asset) :
           \E entry \in defined(accrued(user_debts[asset][who], pool.total_debt_index)) :
               borrow_checked(who, asset, pool, entry, amount)
    BY DEF borrow
  <1>3. PICK entry \in defined(accrued(user_debts[asset][who], pool.total_debt_index)) :
           borrow_checked(who, asset, pool, entry, amount)
    BY <1>2
  <1>4. \/ borrowed_from(who, asset, pool, entry, amount)
        \/ debt_accrued(who, asset, entry)
    BY <1>3 DEF borrow_checked
  <1>5. /\ pools[asset] \in Pool /\ pool \in Pool /\ pool.last_updated = block_number
        /\ pool.total_debt_index \in Balance
    BY AccruedPool DEF IInv, Pool
  <1>6. user_debts[asset][who] \in Entry \cup {None}
    BY <1>1, InvFacts DEF Positions
  <1>7. entry \in Entry \cup {None} /\ (entry # None => user_debts[asset][who] # None)
    BY <1>3, <1>5, <1>6, AccruedEntry
  <1>8. CASE debt_accrued(who, asset, entry)
    <2>1. LedgerStep
      BY <1>8, InvFacts, NothingHanded, HandedKeeps DEF IInv, borrow, debt_accrued
    <2> QED
      BY <1>1, <1>7, <1>8, <2>1, InvFacts, InStepReplaced, StepKeeps DEF borrow, debt_accrued
  <1>9. CASE borrowed_from(who, asset, pool, entry, amount)
    <2>1. PICK after \in defined(updated(entry, pool.total_debt_index, amount, TRUE)) :
              /\ balances' = moved(balances, account_id, asset, who, amount)
              /\ user_debts' = [user_debts EXCEPT ![asset][who] = after]
              /\ user_debt_set' = pushed(retained(user_debt_set, who, asset, entry, after), who, asset)
              /\ pools' = [pools EXCEPT ![asset] = [pool EXCEPT !.debt = wrapping_add[@][amount]]]
      BY <1>9 DEF borrowed_from
    <2>2. after \in Entry \cup {None}
      BY <1>1, <1>5, <1>7, UpdatedEntry
    <2>3. LedgerStep
      <3>1. Handed(balances, balances', who)
        BY <1>1, <1>9, <2>1, InvFacts, MovedHands DEF borrowed_from
      <3> QED
        BY <3>1, HandedKeeps DEF IInv, borrow
    <2>4. /\ user_debts' \in Positions /\ user_debt_set' \in Lists
          /\ InStep(user_debts', user_debt_set')
          /\ \A u \in Accounts, a \in AssetIds :
                 user_debt_set'[u][a] > 0 => user_debt_set[u][a] > 0 \/ a = asset
      BY <1>1, <2>1, <2>2, InvFacts, InStepPushed
    <2>5. /\ pools' \in [AssetIds -> Pool \cup {None}]
          /\ \A a \in AssetIds : pools[a] # None => pools'[a] # None
          /\ \A a \in AssetIds : pools'[a] # None => pools'[a].last_updated <= block_number
      BY <1>1, <1>5, <2>1, PoolDebtStored
    <2>6. pools[asset] # None
      BY <1>5, LendingAssumption
    <2> QED
      BY <2>3, <2>4, <2>5, <2>6, InvFacts, StepKeeps DEF borrow
  <1> QED
    BY <1>4, <1>8, <1>9

\* Twice a pool stored.
LEMMA PoolsStored ==
  ASSUME IInv, NEW get_asset \in AssetIds, NEW pay_asset \in AssetIds,
         NEW g \in Pool, g.last_updated = block_number,
         NEW p \in Pool, p.last_updated = block_number,
         pools' = [[pools EXCEPT ![get_asset] = g] EXCEPT ![pay_asset] = p]
  PROVE  /\ pools' \in [AssetIds -> Pool \cup {None}]
         /\ \A a \in AssetIds : pools[a] # None => pools'[a] # None
         /\ \A a \in AssetIds : pools'[a] # None => pools'[a].last_updated <= block_number
  <1> DEFINE stored == [pools EXCEPT ![get_asset] = g]
  <1>1. /\ stored \in [AssetIds -> Pool \cup {None}]
        /\ \A a \in AssetIds : pools[a] # None => stored[a] # None
        /\ \A a \in AssetIds : stored[a] # None => stored[a].last_updated <= block_number
    BY PoolStored
  <1> HIDE DEF stored
  <1>2. pools' = [stored EXCEPT ![pay_asset] = p]
    BY DEF stored
  <1>3. \A a \in AssetIds : pools'[a] = IF a = pay_asset THEN p ELSE stored[a]
    BY <1>1, <1>2
  <1>4. None \notin Pool /\ block_number <= block_number
    BY LendingAssumption DEF IInv, LendingTypeOK
  <1> QED
    BY <1>1, <1>2, <1>3, <1>4

\* What liquidate lets be paid and what it seizes are u128s or panics.
LEMMA LiquidateAmountsType ==
  ASSUME IInv, NEW pay_asset \in AssetIds, NEW get_asset \in AssetIds
  PROVE  /\ \A s_entry \in Entry : pay_limit(s_entry, pay_asset, get_asset) \in Outcome
         /\ \A pay \in Balance : get_amount(pay, pay_asset, get_asset) \in Outcome
  <1>1. price[get_asset] \in Outcome /\ price[pay_asset] \in Outcome
    BY DEF IInv, LendingTypeOK, AssetsTypeOK, Outcome
  <1>2. DiscountFactor \in Outcome
    <2>1. DIV \in Int
      BY WidthAssumption
    <2>2. multiply_by_rational[95][DIV][100] \in Int
      BY <2>1, RationalType
    <2> QED
      BY <2>2, CheckedType DEF DiscountFactor, saturating_from_rational
  <1>3. CloseFactor \in Outcome
    BY WidthAssumption DEF CloseFactor, one, Outcome, Balance
  <1>4. ASSUME NEW s_entry \in Entry PROVE pay_limit(s_entry, pay_asset, get_asset) \in Outcome
    <2>1. s_entry.amount \in Outcome
      BY DEF Entry, Outcome
    <2>2. saturating_mul_int(CloseFactor, s_entry.amount) \in Outcome
      BY <1>3, <2>1, FixedType
    <2>3. fixed_mul(fixed_div(price[get_asset], price[pay_asset]), DiscountFactor) \in Outcome
      BY <1>1, <1>2, FixedType
    <2> QED
      BY <2>2, <2>3, FixedType DEF pay_limit
  <1>5. ASSUME NEW pay \in Balance PROVE get_amount(pay, pay_asset, get_asset) \in Outcome
    <2>1. fixed_div(fixed_div(price[pay_asset], price[get_asset]), DiscountFactor) \in Outcome
      BY <1>1, <1>2, FixedType
    <2> QED
      BY <2>1, FixedType DEF get_amount, Outcome
  <1> QED
    BY <1>4, <1>5

\* liquidate keeps the invariant, with two pools or one and at each of its error returns.
LEMMA LiquidateKeeps ==
  ASSUME IInv, NEW who \in Liquidators, NEW target \in Signers,
         NEW pay_asset \in AssetIds, NEW get_asset \in AssetIds, NEW offered \in Amounts,
         liquidate(who, target, pay_asset, get_asset, offered)
  PROVE  IInv' /\ LedgerStep
  <1> DEFINE s_old == user_supplies[get_asset][target]
             d_old == user_debts[pay_asset][target]
  <1>0. who \in Signers
    BY LendingAssumption
  <1>1. who \in Accounts /\ target \in Accounts /\ offered \in Balance
    BY <1>0, InvFacts
  <1>2. PICK get_pool \in accrued_pool(get_asset), pay_pool \in accrued_pool(pay_asset) :
           \E s_entry \in defined(accrued(s_old, get_pool.total_supply_index)),
              d_entry \in defined(accrued(d_old, pay_pool.total_debt_index)) :
               liquidate_checked(who, target, pay_asset, get_asset, offered, pay_pool, get_pool,
                                 s_entry, d_entry)
    BY DEF liquidate
  <1>3. PICK s_entry \in defined(accrued(s_old, get_pool.total_supply_index)),
             d_entry \in defined(accrued(d_old, pay_pool.total_debt_index)) :
           liquidate_checked(who, target, pay_asset, get_asset, offered, pay_pool, get_pool,
                             s_entry, d_entry)
    BY <1>2
  <1>4. /\ get_pool \in Pool /\ get_pool.last_updated = block_number
        /\ pay_pool \in Pool /\ pay_pool.last_updated = block_number
        /\ get_pool.total_supply_index \in Balance /\ pay_pool.total_debt_index \in Balance
    BY AccruedPool DEF IInv, Pool
  <1>5. s_old \in Entry \cup {None} /\ d_old \in Entry \cup {None}
    BY <1>1, InvFacts DEF Positions
  <1>6. /\ s_entry \in Entry \cup {None} /\ (s_entry # None => s_old # None)
        /\ d_entry \in Entry \cup {None} /\ (d_entry # None => d_old # None)
    BY <1>4, <1>5, AccruedEntry
  <1>7. ASSUME NEW bal, Handed(balances, bal, who),
               liquidate_fails(target, pay_asset, get_asset, s_entry, d_entry, bal)
        PROVE  IInv' /\ LedgerStep
    <2>1. /\ user_supplies' \in Positions /\ InStep(user_supplies', user_supply_set')
          /\ user_debts' \in Positions /\ InStep(user_debts', user_debt_set')
      BY <1>1, <1>6, <1>7, InvFacts, InStepReplaced DEF liquidate_fails
    <2>2. LedgerStep
      BY <1>0, <1>7, HandedKeeps DEF IInv, liquidate, liquidate_fails
    <2> QED
      BY <1>7, <2>1, <2>2, InvFacts, StepKeeps DEF liquidate, liquidate_fails
  <1>8. ASSUME NEW pay \in Balance, s_entry # None, d_entry # None,
               settle(who, target, pay_asset, get_asset, pay, pay_pool, get_pool, s_entry, d_entry)
        PROVE  IInv' /\ LedgerStep
    <2> DEFINE paid == transfer(balances, who, pay_asset, account_id, pay)
    <2>1. Handed(balances, paid, who)
      BY <1>1, InvFacts, TransferHands
    <2> HIDE DEF paid
    <2>2. PICK get \in value(get_amount(pay, pay_asset, get_asset)) :
             \/ liquidated(who, target, pay_asset, get_asset, pay, get, pay_pool, get_pool,
                           s_entry, d_entry, paid)
             \/ liquidate_fails(target, pay_asset, get_asset, s_entry, d_entry, paid)
      BY <1>8 DEF settle, paid
    <2>3. get \in Balance
      BY LiquidateAmountsType DEF value, Outcome
    <2>4. CASE liquidated(who, target, pay_asset, get_asset, pay, get, pay_pool, get_pool,
                          s_entry, d_entry, paid)
      <3>1. PICK s_after \in defined(updated(s_entry, get_pool.total_supply_index, get, FALSE)),
                 d_after \in defined(updated(d_entry, pay_pool.total_debt_index, pay, FALSE)) :
               /\ transfer_ok(paid, account_id, get_asset, get)
               /\ balances' = moved(paid, account_id, get_asset, who, get)
               /\ user_supplies' = [user_supplies EXCEPT ![get_asset][target] = s_after]
               /\ user_debts' = [user_debts EXCEPT ![pay_asset][target] = d_after]
               /\ user_supply_set' = retained(user_supply_set, target, get_asset, s_entry, s_after)
               /\ user_debt_set' = retained(user_debt_set, target, pay_asset, d_entry, d_after)
               /\ pools' = [[pools EXCEPT ![get_asset] = get_pool] EXCEPT ![pay_asset] = pay_pool]
        BY <2>4 DEF liquidated
      <3>2. s_after \in Entry \cup {None} /\ d_after \in Entry \cup {None}
        BY <1>4, <1>6, <1>8, <2>3, UpdatedEntry
      <3>3. LedgerStep
        <4>1. paid \in Ledgers /\ Bounded(paid)
          BY <2>1, InvFacts, HandedBounded
        <4>2. Handed(paid, balances', who)
          BY <1>1, <2>3, <3>1, <4>1, InvFacts, MovedHands
        <4>3. Handed(balances, balances', who)
          BY <2>1, <4>2, InvFacts, HandedOn
        <4> QED
          BY <1>0, <4>3, HandedKeeps DEF IInv, liquidate
      <3>4. /\ user_supplies' \in Positions /\ user_supply_set' \in Lists
            /\ InStep(user_supplies', user_supply_set')
        BY <1>1, <1>6, <1>8, <3>1, <3>2, InvFacts, InStepRetained
      <3>5. /\ user_debts' \in Positions /\ user_debt_set' \in Lists
            /\ InStep(user_debts', user_debt_set')
        BY <1>1, <1>6, <1>8, <3>1, <3>2, InvFacts, InStepRetained
      <3>6. \A u \in Accounts, a \in AssetIds :
                /\ user_supply_set'[u][a] > 0 => user_supply_set[u][a] > 0
                /\ user_debt_set'[u][a] > 0 => user_debt_set[u][a] > 0
        BY <1>1, <3>1, InvFacts, RetainedListsLess
      <3>7. /\ pools' \in [AssetIds -> Pool \cup {None}]
            /\ \A a \in AssetIds : pools[a] # None => pools'[a] # None
            /\ \A a \in AssetIds : pools'[a] # None => pools'[a].last_updated <= block_number
        BY <1>4, <3>1, PoolsStored
      <3> QED
        BY <3>3, <3>4, <3>5, <3>6, <3>7, StepKeeps DEF liquidate
    <2> QED
      BY <1>7, <2>1, <2>2, <2>4
  <1>9. \/ liquidate_fails(target, pay_asset, get_asset, s_entry, d_entry, balances)
        \/ /\ s_entry # None /\ d_entry # None
           /\ \E pay \in Balance :
                  settle(who, target, pay_asset, get_asset, pay, pay_pool, get_pool, s_entry, d_entry)
    <2>1. \/ liquidate_fails(target, pay_asset, get_asset, s_entry, d_entry, balances)
          \/ /\ s_entry # None /\ d_entry # None
             /\ \E limit \in value(pay_limit(s_entry, pay_asset, get_asset)) :
                    settle(who, target, pay_asset, get_asset,
                           capped(capped(offered, limit), d_entry.amount),
                           pay_pool, get_pool, s_entry, d_entry)
      BY <1>3 DEF liquidate_checked
    <2>2. ASSUME s_entry # None, d_entry # None,
                 NEW limit \in value(pay_limit(s_entry, pay_asset, get_asset))
          PROVE  capped(capped(offered, limit), d_entry.amount) \in Balance
      <3>1. limit \in Balance
        BY <1>6, <2>2, LiquidateAmountsType DEF value, Outcome
      <3>2. d_entry.amount \in Balance
        BY <1>6, <2>2 DEF Entry
      <3> QED
        BY <1>1, <3>1, <3>2 DEF capped
    <2> QED
      BY <2>1, <2>2
  <1> QED
    BY <1>7, <1>8, <1>9, InvFacts, NothingHanded

-----------------------------------------------------------------------------
(* The other steps, and the initial state. *)

\* _init_pool makes a well-formed pool dated when it ran.
LEMMA NewPool ==
  ASSUME NEW c \in BOOLEAN, NEW b \in 0..MaxBlock
  PROVE  new_pool_at(b, c) \in Pool /\ new_pool_at(b, c).last_updated = b
  BY WidthAssumption DEF new_pool_at, Pool, one, Balance

\* init_pool keeps the invariant, on a pool that is in use too.
LEMMA InitPoolKeeps ==
  ASSUME IInv, NEW asset \in InitPoolAssets, NEW c \in BOOLEAN, init_pool(asset, c)
  PROVE  IInv' /\ LedgerStep
  <1>1. asset \in AssetIds
    BY LendingAssumption
  <1>2. new_pool(c) \in Pool /\ new_pool(c).last_updated = block_number
    BY NewPool DEF new_pool, IInv, LendingTypeOK
  <1>3. pools' = [pools EXCEPT ![asset] = new_pool(c)]
    BY DEF init_pool
  <1>4. /\ pools' \in [AssetIds -> Pool \cup {None}]
        /\ \A a \in AssetIds : pools[a] # None => pools'[a] # None
        /\ \A a \in AssetIds : pools'[a] # None => pools'[a].last_updated <= block_number
    BY <1>1, <1>2, <1>3, PoolStored
  <1>5. LedgerStep
    BY LedgerUntouched DEF IInv, LedgerInv, AssetsTypeOK, init_pool, assets_vars
  <1> QED
    BY <1>4, <1>5, InvFacts, StepKeeps DEF init_pool, user_vars

\* A new block keeps the invariant: pools are then older than before.
LEMMA NextBlockKeeps ==
  ASSUME IInv, next_block
  PROVE  IInv' /\ LedgerStep
  <1>1. block_number \in 0..MaxBlock /\ block_number' \in 0..MaxBlock /\ block_number <= block_number'
    BY LendingAssumption DEF IInv, LendingTypeOK, next_block
  <1>0. LedgerStep
    BY LedgerUntouched DEF IInv, LedgerInv, AssetsTypeOK, next_block, assets_vars
  <1>2. LendingTypeOK'
    BY <1>1 DEF IInv, LendingTypeOK, AssetsTypeOK, next_block, assets_vars, user_vars
  <1>3. PositionsListed' /\ ListedHasPool'
    BY DEF IInv, PositionsListed, ListedHasPool, next_block, user_vars
  <1>4. NoFuturePool'
    <2> SUFFICES ASSUME NEW a \in AssetIds, pools[a] # None
                 PROVE  pools[a].last_updated <= block_number'
      BY DEF NoFuturePool, next_block
    <2>1. pools[a].last_updated <= block_number
      BY DEF IInv, NoFuturePool
    <2>2. pools[a].last_updated \in 0..MaxBlock
      BY DEF IInv, LendingTypeOK, Pool
    <2> QED
      BY <1>1, <2>1, <2>2, LendingAssumption
  <1> QED
    BY <1>0, <1>2, <1>3, <1>4 DEF IInv, LedgerStep

\* An extrinsic of the assets pallet keeps the lending invariant.
LEMMA AssetsNextKeeps ==
  ASSUME IInv, AssetsNext, UNCHANGED lending_vars
  PROVE  IInv' /\ LedgerStep
  <1>1. LedgerStep
    BY LedgerNextKeeps DEF IInv
  <1> QED
    BY <1>1 DEF IInv, LedgerStep, LedgerInv, LendingTypeOK, PositionsListed, ListedHasPool,
                NoFuturePool, lending_vars, user_vars

\* The genesis state satisfies the invariant.
LEMMA InitEstablishes ==
  ASSUME Init PROVE IInv
  <1>1. LedgerInv /\ AssetsTypeOK
    BY GenesisLedger DEF Init, LedgerInv
  <1>2. block_number \in 0..MaxBlock
    BY LendingAssumption DEF Init
  <1>3. new_pool_at(0, TRUE) \in Pool /\ new_pool_at(0, TRUE).last_updated = 0
    <2>1. 0 \in 0..MaxBlock
      BY LendingAssumption
    <2> QED
      BY <2>1, NewPool
  <1>4. \A a \in AssetIds : pools[a] \in {new_pool_at(0, TRUE), None}
    BY DEF Init
  <1>5. LendingTypeOK
    BY <1>1, <1>2, <1>3 DEF Init, LendingTypeOK
  <1>6. PositionsListed /\ ListedHasPool
    BY DEF Init, PositionsListed, ListedHasPool
  <1>7. NoFuturePool
    <2> SUFFICES ASSUME NEW a \in AssetIds, pools[a] # None
                 PROVE  pools[a].last_updated <= block_number
      BY DEF NoFuturePool
    <2>1. pools[a] = new_pool_at(0, TRUE)
      BY <1>4
    <2>2. pools[a].last_updated = 0
      BY <1>3, <2>1
    <2> QED
      BY <1>2, <2>2, LendingAssumption
  <1> QED
    BY <1>1, <1>5, <1>6, <1>7 DEF IInv

-----------------------------------------------------------------------------
(* The theorems. *)

\* Every extrinsic, every new block and every root call keeps the invariant and the ledger's
\* promise, errors half way included.
LEMMA NextKeeps ==
  ASSUME IInv, [Next]_vars PROVE IInv' /\ LedgerStep
  <1>1. CASE UserNext
    <2>1. PICK who \in Signers, asset \in AssetIds, amount \in Amounts :
             \/ supply(who, asset, amount)
             \/ withdraw(who, asset, amount)
             \/ borrow(who, asset, amount)
             \/ repay(who, asset, amount)
      BY <1>1 DEF UserNext
    <2> QED
      BY <2>1, SupplyKeeps, WithdrawKeeps, BorrowKeeps, RepayKeeps
  <1>2. CASE LiquidateNext
    BY <1>2, LiquidateKeeps DEF LiquidateNext
  <1>3. CASE EnvNext
    BY <1>3, NextBlockKeeps, InitPoolKeeps, AssetsNextKeeps DEF EnvNext
  <1>4. CASE UNCHANGED vars
    <2>1. LedgerStep
      BY <1>4, LedgerUntouched DEF IInv, LedgerInv, AssetsTypeOK, vars, assets_vars
    <2> QED
      BY <1>4, <2>1 DEF IInv, LedgerStep, LendingTypeOK, AssetsTypeOK, PositionsListed,
                        ListedHasPool, NoFuturePool, vars, assets_vars, lending_vars, user_vars
  <1> QED
    BY <1>1, <1>2, <1>3, <1>4 DEF Next

\* The invariant is inductive: it holds in the genesis state and every step keeps it.
THEOREM Invariance == Spec => []IInv
  <1>1. Init => IInv
    BY InitEstablishes
  <1>2. IInv /\ [Next]_vars => IInv'
    BY NextKeeps
  <1> QED
    BY <1>1, <1>2, PTL DEF Spec

\* No extrinsic ever stores a panic value, a half-built entry or a number wider than a
\* u128.
THEOREM TypeCorrect == Spec => []LendingTypeOK
  <1>1. IInv => LendingTypeOK
    BY DEF IInv
  <1> QED
    BY <1>1, Invariance, PTL

\* The lists get_user_info walks name every position, exactly once.
THEOREM PositionsAreListed == Spec => []PositionsListed
  <1>1. IInv => PositionsListed
    BY DEF IInv
  <1> QED
    BY <1>1, Invariance, PTL

\* `Self::pool(asset).unwrap()` in get_user_info is never reached without a pool.
THEOREM UnwrapNeverPanics == Spec => []ListedHasPool
  <1>1. IInv => ListedHasPool
    BY DEF IInv
  <1> QED
    BY <1>1, Invariance, PTL

\* Through every call of every user and every error half way, the units of an asset the
\* accounts hold add up to its TotalSupply.  No credit of a transfer therefore wraps.
THEOREM UnitsAreConserved == Spec => []Conservation
  <1>1. IInv => Conservation
    BY DEF IInv, LedgerInv
  <1> QED
    BY <1>1, Invariance, PTL

\* Once an asset is issued its supply only falls, by what destroy takes away.
THEOREM SupplyNeverGrows == Spec => SupplyOnlyShrinks
  <1>1. IInv /\ [Next]_vars =>
            [\A id \in AssetIds : id < next_asset_id =>
                total_supply'[id] <= total_supply[id]]_assets_vars
    BY NextKeeps DEF LedgerStep
  <1> QED
    BY <1>1, Invariance, PTL DEF Spec, SupplyOnlyShrinks

\* The money market on the assets pallet implements the abstract ledger: whatever lending
\* transfers for a caller, in a liquidation too, is taken from no other holder's wallet.
THEOREM MarketKeepsCustody == Spec => KeepsCustody
  <1>1. Init => Ledger!Init
    BY GenesisLedger DEF Init
  <1>2. IInv /\ [Next]_vars => [Ledger!Next]_(Ledger!ledger)
    BY NextKeeps DEF LedgerStep
  <1> QED
    BY <1>1, <1>2, Invariance, PTL DEF Spec, KeepsCustody, Ledger!Spec
=============================================================================
