------------------------- MODULE LendingWorthProofs -------------------------
(***************************************************************************)
(* What a call of the lending pallet may do to the users' positions, for   *)
(* every width, every set of accounts and assets and every interest model: *)
(* a user extrinsic moves units between the caller's wallet and the        *)
(* caller's own position and nothing else, and accruing a pool or an entry *)
(* early, late or twice changes nobody's worth.                            *)
(***************************************************************************)
EXTENDS LendingProofs

-----------------------------------------------------------------------------
(* Indices. *)

\* supply_index_now and debt_index_now, of the index and the rate stored in the pool and the
\* blocks since.
index_at(index, rate, blocks) ==
    fixed_mul(index, fixed_add(one, fixed_mul(rate, saturating_from_integer(blocks))))

\* The operations of FixedU128 hand a panic on.
LEMMA PanicStays ==
  ASSUME NEW x \in Outcome
  PROVE  fixed_mul(Panic, x) = Panic /\ fixed_mul(x, Panic) = Panic /\ fixed_add(x, Panic) = Panic
  <1>1. x \in Int /\ Panic \in Int /\ DIV \in Int
    BY OutcomeIsInt, WidthAssumption
  <1>2. checked[Panic] = Panic
    BY DEF checked, Balance, Panic
  <1> QED
    BY <1>1, <1>2 DEF fixed_mul, fixed_add, multiply_by_rational, wrapping_add

\* Within the block an index was stored in it is the index, if its rate can be computed.
LEMMA RestingIndex ==
  ASSUME NEW i \in Balance, NEW r \in Outcome, index_at(i, r, 0) > 0
  PROVE  index_at(i, r, 0) = i
  <1>1. /\ DIV \in Balance /\ DIV \in Nat /\ DIV + 0 = DIV /\ DIV <= MaxBalance
        /\ 0 \in Balance /\ 0 \in Nat
    BY WidthAssumption DEF Balance
  <1>2. saturating_from_integer(0) = 0
    <2>1. 0 * DIV = 0
      BY <1>1
    <2> QED
      BY <1>1, <2>1 DEF saturating_from_integer, saturating, Outcome
  <1>3. index_at(i, r, 0) = fixed_mul(i, fixed_add(one, fixed_mul(r, 0)))
    BY <1>2 DEF index_at
  <1>4. CASE r = Panic
    <2>1. fixed_mul(r, 0) = Panic
      BY <1>1, <1>4, PanicStays DEF Outcome
    <2>2. fixed_add(one, Panic) = Panic /\ fixed_mul(i, Panic) = Panic
      BY <1>1, PanicStays DEF Outcome, one
    <2> QED
      BY <1>3, <2>1, <2>2 DEF Panic
  <1>5. CASE r \in Balance
    <2>1. fixed_mul(r, 0) = 0
      BY <1>5, FixedExact
    <2>2. fixed_add(one, 0) = one
      BY <1>1, AddExact DEF fixed_add, one
    <2> QED
      BY <1>3, <2>1, <2>2, FixedExact
  <1> QED
    BY <1>4, <1>5 DEF Outcome

\* The indices of this state and of the next in those terms.
LEMMA IndexNow ==
  ASSUME NEW a \in AssetIds
  PROVE  /\ supply_index_now(pools[a])
                = index_at(pools[a].total_supply_index, supply_rate_internal(pools[a]),
                           block_number - pools[a].last_updated)
         /\ debt_index_now(pools[a])
                = index_at(pools[a].total_debt_index, debt_rate_internal(pools[a]),
                           block_number - pools[a].last_updated)
         /\ supply_index_now(pools[a])'
                = index_at(pools'[a].total_supply_index, supply_rate_internal(pools'[a]),
                           block_number' - pools'[a].last_updated)
         /\ debt_index_now(pools[a])'
                = index_at(pools'[a].total_debt_index, debt_rate_internal(pools'[a]),
                           block_number' - pools'[a].last_updated)
  <1>1. /\ supply_index_now(pools[a])
                = index_at(pools[a].total_supply_index, supply_rate_internal(pools[a]),
                           block_number - pools[a].last_updated)
        /\ debt_index_now(pools[a])
                = index_at(pools[a].total_debt_index, debt_rate_internal(pools[a]),
                           block_number - pools[a].last_updated)
    BY DEF supply_index_now, debt_index_now, supply_multiplier, debt_multiplier, multiplier, index_at
  <1>2. /\ supply_index_now(pools[a])'
                = index_at(pools'[a].total_supply_index, supply_rate_internal(pools'[a]),
                           block_number' - pools'[a].last_updated)
        /\ debt_index_now(pools[a])'
                = index_at(pools'[a].total_debt_index, debt_rate_internal(pools'[a]),
                           block_number' - pools'[a].last_updated)
    BY DEF supply_index_now, debt_index_now, supply_multiplier, debt_multiplier, multiplier, index_at
  <1> QED
    BY <1>1, <1>2

\* accrue_interest stores what the indices are worth now, also when it has nothing to do.
LEMMA AccruedIndex ==
  ASSUME IInv, computable, NEW a \in AssetIds, NEW p \in accrued_pool(a)
  PROVE  /\ pools[a] # None
         /\ p.total_supply_index = supply_index_now(pools[a])
         /\ p.total_debt_index = debt_index_now(pools[a])
         /\ supply_index_now(pools[a]) \in Balance \ {0}
         /\ debt_index_now(pools[a]) \in Balance \ {0}
  <1>1. pools[a] \in Pool /\ p \in Pool /\ pools[a] # None /\ p = accrue_interest(pools[a])
    BY AccruedPool, LendingAssumption DEF IInv, accrued_pool
  <1>2. supply_index_now(pools[a]) > 0 /\ debt_index_now(pools[a]) > 0
    BY <1>1 DEF computable
  <1>3. /\ pools[a].total_supply_index \in Balance /\ pools[a].total_debt_index \in Balance
        /\ p.total_supply_index \in Balance /\ p.total_debt_index \in Balance
    BY <1>1 DEF Pool
  <1>4. CASE pools[a].last_updated = block_number
    <2>1. block_number - pools[a].last_updated = 0
      BY <1>4 DEF IInv, LendingTypeOK
    <2>2. supply_rate_internal(pools[a]) \in Outcome /\ debt_rate_internal(pools[a]) \in Outcome
      BY <1>1, RateType
    <2>3. /\ supply_index_now(pools[a]) = pools[a].total_supply_index
          /\ debt_index_now(pools[a]) = pools[a].total_debt_index
      BY <1>2, <1>3, <2>1, <2>2, IndexNow, RestingIndex
    <2> QED
      BY <1>1, <1>2, <1>3, <1>4, <2>3 DEF accrue_interest
  <1>5. CASE pools[a].last_updated # block_number
    <2>1. /\ p.total_supply_index = supply_index_now(pools[a])
          /\ p.total_debt_index = debt_index_now(pools[a])
      BY <1>1, <1>5 DEF accrue_interest, Pool
    <2> QED
      BY <1>1, <1>2, <1>3, <2>1
  <1> QED
    BY <1>4, <1>5

\* The pool a call stores for an asset, if it does: its totals changed, its indices accrued.
Restored(a) ==
    \/ pools'[a] = pools[a]
    \/ \E p \in accrued_pool(a) : /\ pools'[a] \in Pool
                                  /\ pools'[a].total_supply_index = p.total_supply_index
                                  /\ pools'[a].total_debt_index = p.total_debt_index
                                  /\ pools'[a].last_updated = block_number

\* Storing it, within a block, leaves what positions are measured in as it was.
LEMMA IndicesKept ==
  ASSUME IInv, computable, computable', UNCHANGED block_number,
         NEW a \in AssetIds, Restored(a)
  PROVE  /\ pools'[a] = None <=> pools[a] = None
         /\ pools[a] # None => /\ supply_index_now(pools[a])' = supply_index_now(pools[a])
                               /\ debt_index_now(pools[a])' = debt_index_now(pools[a])
  <1>1. CASE pools'[a] = pools[a]
    BY <1>1, IndexNow
  <1>2. CASE pools'[a] # pools[a]
    <2>1. PICK p \in accrued_pool(a) : /\ pools'[a] \in Pool
                                       /\ pools'[a].total_supply_index = p.total_supply_index
                                       /\ pools'[a].total_debt_index = p.total_debt_index
                                       /\ pools'[a].last_updated = block_number
      BY <1>2 DEF Restored
    <2>2. pools[a] # None /\ pools'[a] # None
      BY <2>1, AccruedIndex, LendingAssumption
    <2>3. supply_index_now(pools[a])' > 0 /\ debt_index_now(pools[a])' > 0
      BY <2>2 DEF computable
    <2>4. block_number' - pools'[a].last_updated = 0
      BY <2>1 DEF IInv, LendingTypeOK
    <2>5. supply_rate_internal(pools'[a]) \in Outcome /\ debt_rate_internal(pools'[a]) \in Outcome
      BY <2>1, RateType
    <2>6. pools'[a].total_supply_index \in Balance /\ pools'[a].total_debt_index \in Balance
      BY <2>1 DEF Pool
    <2>7. /\ supply_index_now(pools[a])'
                 = index_at(pools'[a].total_supply_index, supply_rate_internal(pools'[a]), 0)
          /\ debt_index_now(pools[a])'
                 = index_at(pools'[a].total_debt_index, debt_rate_internal(pools'[a]), 0)
      BY <2>4, IndexNow
    <2>8. /\ supply_index_now(pools[a])' = pools'[a].total_supply_index
          /\ debt_index_now(pools[a])' = pools'[a].total_debt_index
      BY <2>3, <2>5, <2>6, <2>7, RestingIndex
    <2> QED
      BY <2>1, <2>2, <2>8, AccruedIndex
  <1> QED
    BY <1>1, <1>2

-----------------------------------------------------------------------------
(* What an entry is worth. *)

\* An entry stored at an index is worth its amount at that index.
LEMMA StoredWorth ==
  ASSUME NEW amount \in Balance, NEW index \in Balance \ {0}
  PROVE  grown([amount |-> amount, index |-> index], index) = amount
  <1>1. index > 0 /\ index \in Balance
    BY WidthAssumption DEF Balance
  <1>2. fixed_div(index, index) = one /\ saturating_mul_int(one, amount) = amount
    BY <1>1, FixedExact
  <1> QED
    BY <1>2 DEF grown

\* accrue_*_with_interest: the entry stored is worth, at this index, what the entry was.
LEMMA AccruedWorth ==
  ASSUME NEW entry \in Entry \cup {None}, NEW index \in Balance \ {0},
         NEW e \in defined(accrued(entry, index))
  PROVE  /\ worth(e, index) = worth(entry, index)
         /\ worth(entry, index) \in Balance
         /\ e # None => e.amount = worth(e, index)
  <1>1. e = accrued(entry, index) /\ (e # None => e.amount # Panic)
    BY DEF defined
  <1>2. e \in Entry \cup {None} /\ (e = None <=> entry = None)
    BY AccruedEntry
  <1>3. CASE entry = None
    BY <1>2, <1>3, WidthAssumption DEF worth, Balance
  <1>4. CASE entry # None
    <2>1. e = [amount |-> grown(entry, index), index |-> index] /\ e # None /\ e.amount \in Balance
      BY <1>1, <1>2, <1>4 DEF accrued, Entry
    <2>2. grown(entry, index) \in Balance /\ e.amount = grown(entry, index)
      BY <2>1
    <2>3. grown(e, index) = grown(entry, index)
      BY <2>1, <2>2, StoredWorth
    <2> QED
      BY <1>4, <2>1, <2>2, <2>3 DEF worth
  <1> QED
    BY <1>3, <1>4

\* update_user_supply and update_user_debt: what the entry is worth is the wrapped sum or
\* difference; an entry that is removed was worth exactly what was taken.
LEMMA UpdatedWraps ==
  ASSUME NEW entry \in Entry \cup {None}, NEW index \in Balance \ {0},
         NEW amount \in Balance, NEW positive \in BOOLEAN,
         NEW e \in defined(updated(entry, index, amount, positive))
  PROVE  /\ worth(entry, index) \in Balance
         /\ entry = None => worth(e, index) = amount
         /\ entry # None /\ positive => worth(e, index) = wrapping_add[worth(entry, index)][amount]
         /\ entry # None /\ ~ positive => worth(e, index) = wrapping_sub[worth(entry, index)][amount]
  <1> DEFINE before == worth(entry, index)
             after  == IF positive THEN wrapping_add[before][amount] ELSE wrapping_sub[before][amount]
             stored == IF entry = None THEN amount ELSE after
  <1>1. e = (IF stored = 0 THEN None ELSE [amount |-> stored, index |-> index])
        /\ (e # None => e.amount # Panic)
    BY DEF defined, updated, worth
  <1>2. before \in Outcome
    <2>1. 0 \in Outcome
      BY WidthAssumption DEF Outcome, Balance
    <2>2. index \in Balance /\ (entry # None => grown(entry, index) \in Outcome)
      BY GrownType
    <2> QED
      BY <2>1, <2>2 DEF worth
  <1> HIDE DEF before
  <1>3. amount \in Nat /\ amount \in Int /\ MaxBalance \in Nat
    BY WidthAssumption DEF Balance
  <1>4. before # Panic
    <2>1. CASE entry = None
      BY <2>1 DEF before, worth, Panic
    <2>2. ASSUME entry # None, before = Panic PROVE FALSE
      <3>1. after = Panic
        BY <1>3, <2>2 DEF wrapping_add, wrapping_sub, Panic
      <3>2. stored = Panic
        BY <2>2, <3>1
      <3> HIDE DEF stored
      <3>3. e = [amount |-> stored, index |-> index]
        BY <1>1, <3>2 DEF Panic
      <3>4. e \in [amount : Outcome, index : Balance]
        BY <3>2, <3>3 DEF Outcome
      <3>5. e # None
        BY <3>4, LendingAssumption
      <3> QED
        BY <1>1, <3>2, <3>3, <3>5
    <2> QED
      BY <2>1, <2>2
  <1>5. before \in Balance /\ before \in Nat
    BY <1>2, <1>4, WidthAssumption DEF Outcome, Balance
  <1>6. stored \in Balance
    BY <1>5, WrapStaysInWidth
  <1>7. worth(entry, index) = before
    BY DEF before
  <1>8. stored = IF entry = None THEN amount ELSE after
    OBVIOUS
  <1> HIDE DEF stored
  <1>9. worth(e, index) = stored
    <2>1. CASE stored = 0
      BY <1>1, <2>1 DEF worth
    <2>2. CASE stored # 0
      <3>1. e = [amount |-> stored, index |-> index]
        BY <1>1, <2>2
      <3>2. e \in [amount : Outcome, index : Balance]
        BY <1>6, <3>1 DEF Outcome
      <3>3. e # None
        BY <3>2, LendingAssumption
      <3> QED
        BY <1>6, <3>1, <3>3, StoredWorth DEF worth
    <2> QED
      BY <2>1, <2>2
  <1> QED
    BY <1>5, <1>7, <1>8, <1>9

\* It is the amount more, or less, when that fits.
LEMMA UpdatedWorth ==
  ASSUME NEW entry \in Entry \cup {None}, NEW index \in Balance \ {0},
         NEW amount \in Balance, NEW positive \in BOOLEAN,
         NEW e \in defined(updated(entry, index, amount, positive)),
         positive => worth(entry, index) + amount <= MaxBalance,
         ~ positive => entry # None /\ amount <= worth(entry, index)
  PROVE  /\ worth(entry, index) \in Balance
         /\ positive => worth(e, index) = worth(entry, index) + amount
         /\ ~ positive => worth(e, index) = worth(entry, index) - amount
  <1> DEFINE before == worth(entry, index)
             after  == worth(e, index)
  <1>1. /\ before \in Balance
        /\ entry = None => after = amount
        /\ entry # None /\ positive => after = wrapping_add[before][amount]
        /\ entry # None /\ ~ positive => after = wrapping_sub[before][amount]
    BY UpdatedWraps
  <1>2. /\ positive => before + amount <= MaxBalance
        /\ ~ positive => entry # None /\ amount <= before
        /\ entry = None => before = 0
    BY DEF worth
  <1> SUFFICES /\ before \in Balance
               /\ positive => after = before + amount
               /\ ~ positive => after = before - amount
    OBVIOUS
  <1> HIDE DEF before, after
  <1>3. amount \in Nat /\ before \in Nat /\ MaxBalance \in Nat
    BY <1>1, WidthAssumption DEF Balance
  <1>4. positive => wrapping_add[before][amount] = before + amount
    BY <1>2, <1>3, AddExact
  <1>5. ~ positive => wrapping_sub[before][amount] = before - amount
    BY <1>1, <1>2, <1>3, SubExact
  <1> QED
    BY <1>1, <1>2, <1>3, <1>4, <1>5

\* update_user_* with a positive amount.
LEMMA AddedWorth ==
  ASSUME NEW entry \in Entry \cup {None}, NEW index \in Balance \ {0}, NEW amount \in Balance,
         NEW e \in defined(updated(entry, index, amount, TRUE)),
         worth(entry, index) + amount <= MaxBalance
  PROVE  worth(e, index) = worth(entry, index) + amount
  <1>1. TRUE \in BOOLEAN
    OBVIOUS
  <1> QED
    BY <1>1, UpdatedWorth, Zenon

\* ... and with a negative one.
LEMMA TakenWorth ==
  ASSUME NEW entry \in Entry, entry # None, NEW index \in Balance \ {0}, NEW amount \in Balance,
         NEW e \in defined(updated(entry, index, amount, FALSE)),
         amount <= worth(entry, index)
  PROVE  worth(e, index) = worth(entry, index) - amount
  <1>1. FALSE \in BOOLEAN /\ entry \in Entry \cup {None}
    OBVIOUS
  <1> QED
    BY <1>1, UpdatedWorth, Zenon

\* ... and what is left where it does not fit, as a u128.
LEMMA TakenWraps ==
  ASSUME NEW entry \in Entry, entry # None, NEW index \in Balance \ {0}, NEW amount \in Balance,
         NEW e \in defined(updated(entry, index, amount, FALSE))
  PROVE  worth(e, index) = wrapping_sub[worth(entry, index)][amount]
  <1>1. PICK positive \in BOOLEAN : positive = FALSE
    OBVIOUS
  <1>2. entry \in Entry \cup {None} /\ e \in defined(updated(entry, index, amount, positive))
    BY <1>1
  <1>3. entry # None /\ ~ positive => worth(e, index) = wrapping_sub[worth(entry, index)][amount]
    BY ONLY <1>2, UpdatedWraps, positive \in BOOLEAN, index \in Balance \ {0}, amount \in Balance
  <1> QED
    BY <1>1, <1>3

-----------------------------------------------------------------------------
(* A call, as a movement between a wallet and a position. *)

\* get_user_supply_with_interest and get_user_debt_with_interest, before a call and after it.
LEMMA PositionsNow ==
  ASSUME IInv, computable, computable', UNCHANGED block_number, \A a \in AssetIds : Restored(a)
  PROVE  \A a \in AssetIds, u \in Accounts :
             /\ supply_now(a, u) = IF pools[a] = None THEN 0
                                   ELSE worth(user_supplies[a][u], supply_index_now(pools[a]))
             /\ supply_now(a, u)' = IF pools[a] = None THEN 0
                                    ELSE worth(user_supplies'[a][u], supply_index_now(pools[a]))
             /\ debt_now(a, u) = IF pools[a] = None THEN 0
                                 ELSE worth(user_debts[a][u], debt_index_now(pools[a]))
             /\ debt_now(a, u)' = IF pools[a] = None THEN 0
                                  ELSE worth(user_debts'[a][u], debt_index_now(pools[a]))
  <1> SUFFICES ASSUME NEW a \in AssetIds, NEW u \in Accounts
               PROVE  /\ supply_now(a, u) = IF pools[a] = None THEN 0
                            ELSE worth(user_supplies[a][u], supply_index_now(pools[a]))
                      /\ supply_now(a, u)' = IF pools[a] = None THEN 0
                            ELSE worth(user_supplies'[a][u], supply_index_now(pools[a]))
                      /\ debt_now(a, u) = IF pools[a] = None THEN 0
                            ELSE worth(user_debts[a][u], debt_index_now(pools[a]))
                      /\ debt_now(a, u)' = IF pools[a] = None THEN 0
                            ELSE worth(user_debts'[a][u], debt_index_now(pools[a]))
    OBVIOUS
  <1>1. /\ supply_now(a, u) = IF pools[a] = None THEN 0
               ELSE worth(user_supplies[a][u], supply_index_now(pools[a]))
        /\ debt_now(a, u) = IF pools[a] = None THEN 0
               ELSE worth(user_debts[a][u], debt_index_now(pools[a]))
    BY DEF supply_now, debt_now, get_user_supply_with_interest, get_user_debt_with_interest, worth
  <1>2. /\ supply_now(a, u)' = IF pools'[a] = None THEN 0
               ELSE worth(user_supplies'[a][u], supply_index_now(pools[a])')
        /\ debt_now(a, u)' = IF pools'[a] = None THEN 0
               ELSE worth(user_debts'[a][u], debt_index_now(pools[a])')
    BY DEF supply_now, debt_now, get_user_supply_with_interest, get_user_debt_with_interest, worth
  <1>3. /\ pools'[a] = None <=> pools[a] = None
        /\ pools[a] # None => /\ supply_index_now(pools[a])' = supply_index_now(pools[a])
                              /\ debt_index_now(pools[a])' = debt_index_now(pools[a])
    BY IndicesKept
  <1> QED
    BY <1>1, <1>2, <1>3

\* The call moved w units into the wallet of `who`, out of the pallet's, and made its supply
\* and its debt in the asset s and d larger, to the unit; it touched nobody else.
Moves(who, asset, w, s, d) ==
    /\ \A a \in AssetIds, u \in Signers : a # asset \/ u # who =>
           /\ balances'[a][u] = balances[a][u]
           /\ supply_now(a, u)' = supply_now(a, u)
           /\ debt_now(a, u)' = debt_now(a, u)
    /\ balances'[asset][who] = balances[asset][who] + w
    /\ supply_now(asset, who)' = supply_now(asset, who) + s
    /\ debt_now(asset, who)' = debt_now(asset, who) + d
    /\ \A a \in AssetIds :
           balances'[a][account_id] = balances[a][account_id] - (IF a = asset THEN w ELSE 0)

\* The health checks of withdraw and borrow, on what is stored.
MayWithdraw(who, asset, n) ==
    covered(debt_balance(user_debts, who),
            wrapping_sub[supply_converted(user_supplies, who)][collateral_value(asset, n)])
MayBorrow(who, asset, n) ==
    covered(wrapping_add[debt_balance(user_debts, who)][debt_value(asset, n)],
            supply_converted(user_supplies, who))

\* One of supply, withdraw, borrow and repay, of n units, or a call that failed half way (n = 0).
UserMove(who, asset, n) ==
    \/ Moves(who, asset, -n, n, 0)
    \/ Moves(who, asset, n, -n, 0) /\ MayWithdraw(who, asset, n)
    \/ Moves(who, asset, n, 0, n) /\ MayBorrow(who, asset, n)
    \/ Moves(who, asset, -n, 0, -n)

\* The wallets' part of such a movement, from the transfer into or out of the pallet.
LEMMA WalletsMoved ==
  ASSUME IInv, NEW who \in Signers, NEW asset \in AssetIds, NEW n \in Balance
  PROVE  /\ transfer_ok(balances, who, asset, n)
            /\ balances' = moved(balances, who, asset, account_id, n) =>
                /\ n <= balances[asset][who]
                /\ \A a \in AssetIds, u \in Signers : a # asset \/ u # who =>
                       balances'[a][u] = balances[a][u]
                /\ balances'[asset][who] = balances[asset][who] + (-n)
                /\ \A a \in AssetIds : balances'[a][account_id]
                       = balances[a][account_id] - (IF a = asset THEN -n ELSE 0)
         /\ transfer_ok(balances, account_id, asset, n)
            /\ balances' = moved(balances, account_id, asset, who, n) =>
                /\ n <= balances[asset][account_id]
                /\ \A a \in AssetIds, u \in Signers : a # asset \/ u # who =>
                       balances'[a][u] = balances[a][u]
                /\ balances'[asset][who] = balances[asset][who] + n
                /\ \A a \in AssetIds : balances'[a][account_id]
                       = balances[a][account_id] - (IF a = asset THEN n ELSE 0)
  <1>1. /\ balances \in Ledgers /\ Bounded(balances)
        /\ who \in Accounts /\ account_id \in Accounts /\ account_id \notin Signers
        /\ Signers \subseteq Accounts
    BY InvFacts
  <1>2. /\ \A a \in AssetIds, u \in Accounts : balances[a][u] \in Nat
        /\ n \in Nat
    BY <1>1, WidthAssumption DEF Ledgers, Balance
  <1>3. ASSUME transfer_ok(balances, who, asset, n),
               balances' = moved(balances, who, asset, account_id, n)
        PROVE  /\ n <= balances[asset][who]
               /\ \A a \in AssetIds, u \in Signers : a # asset \/ u # who =>
                      balances'[a][u] = balances[a][u]
               /\ balances'[asset][who] = balances[asset][who] + (-n)
               /\ \A a \in AssetIds : balances'[a][account_id]
                      = balances[a][account_id] - (IF a = asset THEN -n ELSE 0)
    <2>1. \A a \in AssetIds, u \in Accounts :
              balances'[a][u] = IF a # asset \/ who = account_id THEN balances[a][u]
                                ELSE IF u = who THEN balances[a][u] - n
                                ELSE IF u = account_id THEN balances[a][u] + n
                                ELSE balances[a][u]
      BY <1>1, <1>3, MovedExactly
    <2>2. n <= balances[asset][who]
      BY <1>1, <1>2, <1>3 DEF transfer_ok
    <2> QED
      BY <1>1, <1>2, <2>1, <2>2
  <1>4. ASSUME transfer_ok(balances, account_id, asset, n),
               balances' = moved(balances, account_id, asset, who, n)
        PROVE  /\ n <= balances[asset][account_id]
               /\ \A a \in AssetIds, u \in Signers : a # asset \/ u # who =>
                      balances'[a][u] = balances[a][u]
               /\ balances'[asset][who] = balances[asset][who] + n
               /\ \A a \in AssetIds : balances'[a][account_id]
                      = balances[a][account_id] - (IF a = asset THEN n ELSE 0)
    <2>1. \A a \in AssetIds, u \in Accounts :
              balances'[a][u] = IF a # asset \/ who = account_id THEN balances[a][u]
                                ELSE IF u = account_id THEN balances[a][u] - n
                                ELSE IF u = who THEN balances[a][u] + n
                                ELSE balances[a][u]
      BY <1>1, <1>4, MovedExactly
    <2>2. n <= balances[asset][account_id]
      BY <1>1, <1>2, <1>4 DEF transfer_ok
    <2> QED
      BY <1>1, <1>2, <2>1, <2>2
  <1> QED
    BY <1>3, <1>4

\* What a call stores in place of a pool.
LEMMA RestoredPool ==
  ASSUME IInv, NEW asset \in AssetIds, NEW p \in accrued_pool(asset), NEW q \in Pool,
         q.total_supply_index = p.total_supply_index, q.total_debt_index = p.total_debt_index,
         q.last_updated = p.last_updated, pools' = [pools EXCEPT ![asset] = q]
  PROVE  \A a \in AssetIds : Restored(a)
  <1>1. p.last_updated = block_number /\ pools \in [AssetIds -> Pool \cup {None}]
    BY AccruedPool, InvFacts DEF IInv
  <1>2. pools'[asset] = q /\ \A a \in AssetIds \ {asset} : pools'[a] = pools[a]
    BY <1>1
  <1> QED
    BY <1>1, <1>2 DEF Restored

\* A total of the pool added to or taken from, as supply, withdraw, borrow and repay do.
LEMMA RestoredTotal ==
  ASSUME IInv, NEW asset \in AssetIds, NEW p \in accrued_pool(asset), NEW n \in Balance,
         \/ pools' = [pools EXCEPT ![asset] = [p EXCEPT !.supply = wrapping_add[@][n]]]
         \/ pools' = [pools EXCEPT ![asset] = [p EXCEPT !.supply = wrapping_sub[@][n]]]
         \/ pools' = [pools EXCEPT ![asset] = [p EXCEPT !.debt = wrapping_add[@][n]]]
         \/ pools' = [pools EXCEPT ![asset] = [p EXCEPT !.debt = wrapping_sub[@][n]]]
  PROVE  \A a \in AssetIds : Restored(a)
  <1>1. p \in Pool
    BY AccruedPool DEF IInv
  <1>2. p.supply \in Balance /\ p.debt \in Balance
    BY <1>1 DEF Pool
  <1>3. /\ wrapping_add[p.supply][n] \in Balance /\ wrapping_sub[p.supply][n] \in Balance
        /\ wrapping_add[p.debt][n] \in Balance /\ wrapping_sub[p.debt][n] \in Balance
    BY <1>2, WrapStaysInWidth
  <1>4. PICK t \in Balance : \/ pools' = [pools EXCEPT ![asset] = [p EXCEPT !.supply = t]]
                             \/ pools' = [pools EXCEPT ![asset] = [p EXCEPT !.debt = t]]
    BY <1>1, <1>3
  <1>5. PICK q \in Pool :
           /\ q.total_supply_index = p.total_supply_index /\ q.total_debt_index = p.total_debt_index
           /\ q.last_updated = p.last_updated
           /\ pools' = [pools EXCEPT ![asset] = q]
    <2>1. CASE pools' = [pools EXCEPT ![asset] = [p EXCEPT !.supply = t]]
      <3>1. /\ [p EXCEPT !.supply = t] \in Pool
            /\ [p EXCEPT !.supply = t].total_supply_index = p.total_supply_index
            /\ [p EXCEPT !.supply = t].total_debt_index = p.total_debt_index
            /\ [p EXCEPT !.supply = t].last_updated = p.last_updated
        BY <1>1 DEF Pool
      <3> QED
        BY <2>1, <3>1
    <2>2. CASE pools' = [pools EXCEPT ![asset] = [p EXCEPT !.debt = t]]
      <3>1. /\ [p EXCEPT !.debt = t] \in Pool
            /\ [p EXCEPT !.debt = t].total_supply_index = p.total_supply_index
            /\ [p EXCEPT !.debt = t].total_debt_index = p.total_debt_index
            /\ [p EXCEPT !.debt = t].last_updated = p.last_updated
        BY <1>1 DEF Pool
      <3> QED
        BY <2>2, <3>1
    <2> QED
      BY <1>4, <2>1, <2>2
  <1> QED
    BY <1>5, RestoredPool

\* A position with its interest is a u128 or a panic.
LEMMA PositionType ==
  ASSUME IInv, computable, NEW a \in AssetIds, NEW u \in Accounts
  PROVE  /\ supply_now(a, u) \in Outcome /\ supply_now(a, u) \in Int
         /\ debt_now(a, u) \in Outcome /\ debt_now(a, u) \in Int
  <1>1. 0 \in Outcome /\ Outcome \subseteq Int
    BY OutcomeIsInt, WidthAssumption DEF Outcome, Balance
  <1>2. /\ user_supplies[a][u] \in Entry \cup {None} /\ user_debts[a][u] \in Entry \cup {None}
        /\ pools[a] \in Pool \cup {None}
    BY InvFacts DEF Positions
  <1>3. ASSUME pools[a] # None
        PROVE  /\ supply_index_now(pools[a]) \in Balance
               /\ debt_index_now(pools[a]) \in Balance
    <2>1. supply_index_now(pools[a]) > 0 /\ debt_index_now(pools[a]) > 0
      BY <1>3 DEF computable
    <2>2. supply_multiplier(pools[a]) \in Outcome /\ debt_multiplier(pools[a]) \in Outcome
      BY <1>2, <1>3, MultiplierType DEF IInv, LendingTypeOK
    <2>3. pools[a].total_supply_index \in Outcome /\ pools[a].total_debt_index \in Outcome
      BY <1>2, <1>3 DEF Pool, Outcome
    <2>4. supply_index_now(pools[a]) \in Outcome /\ debt_index_now(pools[a]) \in Outcome
      BY <2>2, <2>3, FixedType DEF supply_index_now, debt_index_now
    <2> QED
      BY <2>1, <2>4 DEF Outcome, Panic
  <1>4. supply_now(a, u) \in Outcome
    BY <1>1, <1>2, <1>3, GrownType DEF supply_now, get_user_supply_with_interest
  <1>5. debt_now(a, u) \in Outcome
    BY <1>1, <1>2, <1>3, GrownType DEF debt_now, get_user_debt_with_interest
  <1> QED
    BY <1>1, <1>4, <1>5

\* A call that stores one entry of one user changes that user's supply in that asset only.
LEMMA SupplyMoved ==
  ASSUME IInv, computable, computable', UNCHANGED <<block_number, user_debts>>,
         \A a \in AssetIds : Restored(a),
         NEW who \in Signers, NEW asset \in AssetIds, pools[asset] # None,
         NEW e \in Entry \cup {None},
         user_supplies' = [user_supplies EXCEPT ![asset][who] = e], NEW s \in Int,
         worth(e, supply_index_now(pools[asset])) = supply_now(asset, who) + s
  PROVE  /\ \A a \in AssetIds, u \in Signers : a # asset \/ u # who =>
                supply_now(a, u)' = supply_now(a, u) /\ debt_now(a, u)' = debt_now(a, u)
         /\ supply_now(asset, who)' = supply_now(asset, who) + s
         /\ debt_now(asset, who)' = debt_now(asset, who) + 0
  <1>1. user_supplies \in Positions /\ Signers \subseteq Accounts /\ who \in Accounts
    BY InvFacts
  <1>2. /\ user_supplies'[asset][who] = e
        /\ \A a \in AssetIds, u \in Accounts : a # asset \/ u # who =>
               user_supplies'[a][u] = user_supplies[a][u]
    BY <1>1 DEF Positions
  <1>3. /\ \A a \in AssetIds, u \in Accounts : a # asset \/ u # who =>
               supply_now(a, u)' = supply_now(a, u)
        /\ supply_now(asset, who)' = supply_now(asset, who) + s
        /\ \A a \in AssetIds, u \in Accounts : debt_now(a, u)' = debt_now(a, u)
    BY <1>1, <1>2, PositionsNow
  <1>4. debt_now(asset, who) \in Int
    BY <1>1, PositionType
  <1> QED
    BY <1>1, <1>3, <1>4

\* The same of a debt.
LEMMA DebtMoved ==
  ASSUME IInv, computable, computable', UNCHANGED <<block_number, user_supplies>>,
         \A a \in AssetIds : Restored(a),
         NEW who \in Signers, NEW asset \in AssetIds, pools[asset] # None,
         NEW e \in Entry \cup {None},
         user_debts' = [user_debts EXCEPT ![asset][who] = e], NEW d \in Int,
         worth(e, debt_index_now(pools[asset])) = debt_now(asset, who) + d
  PROVE  /\ \A a \in AssetIds, u \in Signers : a # asset \/ u # who =>
                supply_now(a, u)' = supply_now(a, u) /\ debt_now(a, u)' = debt_now(a, u)
         /\ supply_now(asset, who)' = supply_now(asset, who) + 0
         /\ debt_now(asset, who)' = debt_now(asset, who) + d
  <1>1. user_debts \in Positions /\ Signers \subseteq Accounts /\ who \in Accounts
    BY InvFacts
  <1>2. /\ user_debts'[asset][who] = e
        /\ \A a \in AssetIds, u \in Accounts : a # asset \/ u # who =>
               user_debts'[a][u] = user_debts[a][u]
    BY <1>1 DEF Positions
  <1>3. /\ \A a \in AssetIds, u \in Accounts : a # asset \/ u # who =>
               debt_now(a, u)' = debt_now(a, u)
        /\ debt_now(asset, who)' = debt_now(asset, who) + d
        /\ \A a \in AssetIds, u \in Accounts : supply_now(a, u)' = supply_now(a, u)
    BY <1>1, <1>2, PositionsNow
  <1>4. supply_now(asset, who) \in Int
    BY <1>1, PositionType
  <1> QED
    BY <1>1, <1>3, <1>4

-----------------------------------------------------------------------------
(* The health check. *)

\* get_user_info on entries that a call accrued: the power and the debt are what they were.
LEMMA SamePower ==
  ASSUME NEW user \in Accounts, NEW supplies, NEW debts,
         \A a \in AssetIds : get_user_supply_with_interest(supplies, a, user) = supply_now(a, user),
         \A a \in AssetIds : get_user_debt_with_interest(debts, a, user) = debt_now(a, user)
  PROVE  /\ supply_converted(supplies, user) = supply_converted(user_supplies, user)
         /\ debt_balance(debts, user) = debt_balance(user_debts, user)
  <1>1. [a \in AssetIds |->
            IF pools[a] = None THEN Panic
            ELSE collateral_value(a, get_user_supply_with_interest(supplies, a, user))]
        = [a \in AssetIds |->
            IF pools[a] = None THEN Panic
            ELSE collateral_value(a, get_user_supply_with_interest(user_supplies, a, user))]
    BY DEF supply_now
  <1>2. [a \in AssetIds |-> debt_value(a, get_user_debt_with_interest(debts, a, user))]
        = [a \in AssetIds |-> debt_value(a, get_user_debt_with_interest(user_debts, a, user))]
    BY DEF debt_now
  <1> QED
    BY <1>1, <1>2 DEF supply_converted, debt_balance

\* An accrued entry in place of the stored one, in the supplies or in the debts.
LEMMA AccruedInPlace ==
  ASSUME IInv, computable, NEW user \in Accounts, NEW asset \in AssetIds,
         NEW pool \in accrued_pool(asset)
  PROVE  /\ \A e \in defined(accrued(user_supplies[asset][user], pool.total_supply_index)) :
                \A a \in AssetIds :
                    get_user_supply_with_interest([user_supplies EXCEPT ![asset][user] = e], a, user)
                        = supply_now(a, user)
         /\ \A e \in defined(accrued(user_debts[asset][user], pool.total_debt_index)) :
                \A a \in AssetIds :
                    get_user_debt_with_interest([user_debts EXCEPT ![asset][user] = e], a, user)
                        = debt_now(a, user)
  <1>1. /\ user_supplies \in Positions /\ user_debts \in Positions
        /\ user_supplies[asset][user] \in Entry \cup {None}
        /\ user_debts[asset][user] \in Entry \cup {None}
    BY InvFacts DEF Positions
  <1>2. /\ pools[asset] # None
        /\ pool.total_supply_index = supply_index_now(pools[asset])
        /\ pool.total_debt_index = debt_index_now(pools[asset])
        /\ pool.total_supply_index \in Balance \ {0} /\ pool.total_debt_index \in Balance \ {0}
    BY AccruedIndex
  <1>3. ASSUME NEW e \in defined(accrued(user_supplies[asset][user], pool.total_supply_index)),
               NEW a \in AssetIds
        PROVE  get_user_supply_with_interest([user_supplies EXCEPT ![asset][user] = e], a, user)
                   = supply_now(a, user)
    <2>1. worth(e, supply_index_now(pools[asset]))
              = worth(user_supplies[asset][user], supply_index_now(pools[asset]))
      BY <1>1, <1>2, AccruedWorth
    <2>2. [user_supplies EXCEPT ![asset][user] = e][a][user]
              = IF a = asset THEN e ELSE user_supplies[a][user]
      BY <1>1 DEF Positions
    <2> QED
      BY <1>2, <2>1, <2>2 DEF get_user_supply_with_interest, supply_now, worth
  <1>4. ASSUME NEW e \in defined(accrued(user_debts[asset][user], pool.total_debt_index)),
               NEW a \in AssetIds
        PROVE  get_user_debt_with_interest([user_debts EXCEPT ![asset][user] = e], a, user)
                   = debt_now(a, user)
    <2>1. worth(e, debt_index_now(pools[asset]))
              = worth(user_debts[asset][user], debt_index_now(pools[asset]))
      BY <1>1, <1>2, AccruedWorth
    <2>2. [user_debts EXCEPT ![asset][user] = e][a][user]
              = IF a = asset THEN e ELSE user_debts[a][user]
      BY <1>1 DEF Positions
    <2> QED
      BY <1>2, <2>1, <2>2 DEF get_user_debt_with_interest, debt_now, worth
  <1> QED
    BY <1>3, <1>4

-----------------------------------------------------------------------------
(* The four user extrinsics. *)

\* What a call finds: the pool's index is what the caller's entry is measured in.
LEMMA CallFacts ==
  ASSUME IInv, intact, NEW who \in Signers, NEW asset \in AssetIds, NEW p \in accrued_pool(asset)
  PROVE  /\ computable /\ pools[asset] # None /\ who \in Accounts
         /\ user_supplies[asset][who] \in Entry \cup {None}
         /\ user_debts[asset][who] \in Entry \cup {None}
         /\ p.total_supply_index \in Balance \ {0} /\ p.total_debt_index \in Balance \ {0}
         /\ p.total_supply_index = supply_index_now(pools[asset])
         /\ p.total_debt_index = debt_index_now(pools[asset])
         /\ worth(user_supplies[asset][who], p.total_supply_index) = supply_now(asset, who)
         /\ worth(user_debts[asset][who], p.total_debt_index) = debt_now(asset, who)
         /\ supply_now(asset, who) \in Int /\ debt_now(asset, who) \in Int
         /\ balances[asset][who] \in Nat /\ balances[asset][account_id] \in Nat
         /\ balances[asset][who] + supply_now(asset, who) <= MaxBalance
         /\ balances[asset][account_id] + debt_now(asset, who) <= MaxBalance
  <1>1. computable
    BY DEF intact
  <1>2. /\ pools[asset] # None
        /\ p.total_supply_index = supply_index_now(pools[asset])
        /\ p.total_debt_index = debt_index_now(pools[asset])
        /\ p.total_supply_index \in Balance \ {0} /\ p.total_debt_index \in Balance \ {0}
    BY <1>1, AccruedIndex
  <1>3. /\ who \in Accounts /\ account_id \in Accounts
        /\ user_supplies[asset][who] \in Entry \cup {None}
        /\ user_debts[asset][who] \in Entry \cup {None}
        /\ balances[asset][who] \in Nat /\ balances[asset][account_id] \in Nat
    BY InvFacts, WidthAssumption DEF Positions, Ledgers, Balance
  <1>4. /\ worth(user_supplies[asset][who], supply_index_now(pools[asset])) = supply_now(asset, who)
        /\ worth(user_debts[asset][who], debt_index_now(pools[asset])) = debt_now(asset, who)
    BY <1>2
    DEF supply_now, debt_now, get_user_supply_with_interest, get_user_debt_with_interest, worth
  <1>5. supply_now(asset, who) \in Int /\ debt_now(asset, who) \in Int
    BY <1>1, <1>3, PositionType
  <1>6. /\ balances[asset][who] + supply_now(asset, who) <= MaxBalance
        /\ balances[asset][account_id] + debt_now(asset, who) <= MaxBalance
    BY DEF intact
  <1> QED
    BY <1>1, <1>2, <1>3, <1>4, <1>5, <1>6

\* supply: from the wallet into the supply.
LEMMA SupplyMoves ==
  ASSUME IInv, intact, computable',
         NEW who \in Signers, NEW asset \in AssetIds, NEW amount \in Amounts,
         supply(who, asset, amount)
  PROVE  \E n \in Nat : UserMove(who, asset, n)
  <1> DEFINE before == user_supplies[asset][who]
  <1>1. amount \in Balance /\ amount \in Nat /\ -amount \in Int /\ amount \in Int
    BY InvFacts, WidthAssumption DEF Balance
  <1>2. PICK pool \in accrued_pool(asset) : supplied(who, asset, pool, before, amount)
    BY DEF supply
  <1>3. PICK after \in defined(updated(before, pool.total_supply_index, amount, TRUE)) :
           /\ transfer_ok(balances, who, asset, amount)
           /\ balances' = moved(balances, who, asset, account_id, amount)
           /\ user_supplies' = [user_supplies EXCEPT ![asset][who] = after]
           /\ pools' = [pools EXCEPT ![asset] = [pool EXCEPT !.supply = wrapping_add[@][amount]]]
    BY <1>2 DEF supplied
  <1>4. /\ amount <= balances[asset][who]
        /\ \A a \in AssetIds, u \in Signers : a # asset \/ u # who =>
               balances'[a][u] = balances[a][u]
        /\ balances'[asset][who] = balances[asset][who] + (-amount)
        /\ \A a \in AssetIds : balances'[a][account_id]
               = balances[a][account_id] - (IF a = asset THEN -amount ELSE 0)
    BY <1>1, <1>3, WalletsMoved
  <1>5. worth(after, pool.total_supply_index) = supply_now(asset, who) + amount
    <2>1. /\ worth(before, pool.total_supply_index) = supply_now(asset, who)
          /\ before \in Entry \cup {None} /\ pool.total_supply_index \in Balance \ {0}
          /\ after \in defined(updated(before, pool.total_supply_index, amount, TRUE))
      BY CallFacts
    <2>2. worth(before, pool.total_supply_index) + amount <= MaxBalance
      BY <1>1, <1>4, CallFacts, WidthAssumption
    <2> HIDE DEF before
    <2>3. worth(after, pool.total_supply_index) = worth(before, pool.total_supply_index) + amount
      BY ONLY <1>1, <2>1, <2>2, AddedWorth
    <2> QED
      BY <2>1, <2>3
  <1>6. computable' /\ UNCHANGED <<block_number, user_debts>>
    BY DEF intact, supply
  <1>7. \A a \in AssetIds : Restored(a)
    BY <1>1, <1>3, RestoredTotal
  <1>8. /\ \A a \in AssetIds, u \in Signers : a # asset \/ u # who =>
               supply_now(a, u)' = supply_now(a, u) /\ debt_now(a, u)' = debt_now(a, u)
        /\ supply_now(asset, who)' = supply_now(asset, who) + amount
        /\ debt_now(asset, who)' = debt_now(asset, who) + 0
    <2>1. /\ pools[asset] # None /\ computable
          /\ pool.total_supply_index = supply_index_now(pools[asset])
      BY CallFacts
    <2>2. after \in Entry \cup {None} /\ who \in Signers /\ asset \in AssetIds
      BY <1>1, <1>3, CallFacts, UpdatedEntry
    <2>3. worth(after, supply_index_now(pools[asset])) = supply_now(asset, who) + amount
      BY <1>5, <2>1
    <2>4. user_supplies' = [user_supplies EXCEPT ![asset][who] = after]
      BY <1>3
    <2> QED
      BY ONLY IInv, <1>1, <1>6, <1>7, <2>1, <2>2, <2>3, <2>4, SupplyMoved
  <1>9. Moves(who, asset, -amount, amount, 0)
    BY <1>4, <1>8 DEF Moves
  <1> QED
    BY <1>1, <1>9 DEF UserMove

\* withdraw: from the supply into the wallet, or nothing where it fails half way.
LEMMA WithdrawMoves ==
  ASSUME IInv, intact, computable',
         NEW who \in Signers, NEW asset \in AssetIds, NEW wanted \in Amounts,
         withdraw(who, asset, wanted)
  PROVE  \E n \in Nat : UserMove(who, asset, n)
  <1>1. wanted \in Balance /\ computable' /\ UNCHANGED <<block_number, user_debts>>
    BY InvFacts DEF intact, withdraw
  <1>2. PICK pool \in accrued_pool(asset) :
           \E entry \in defined(accrued(user_supplies[asset][who], pool.total_supply_index)) :
               withdraw_checked(who, asset, pool, entry, capped(wanted, entry.amount))
    BY DEF withdraw
  <1>3. PICK entry \in defined(accrued(user_supplies[asset][who], pool.total_supply_index)) :
           withdraw_checked(who, asset, pool, entry, capped(wanted, entry.amount))
    BY <1>2
  <1> DEFINE amount == capped(wanted, entry.amount)
             index  == pool.total_supply_index
  <1>4. \/ withdrawn(who, asset, pool, entry, amount) /\ MayWithdraw(who, asset, amount)
        \/ supply_accrued(who, asset, entry)
    <2> DEFINE supplies == [user_supplies EXCEPT ![asset][who] = entry]
    <2>1. \/ supply_accrued(who, asset, entry)
          \/ /\ withdrawn(who, asset, pool, entry, amount)
             /\ covered(debt_balance(user_debts, who),
                        wrapping_sub[supply_converted(supplies, who)][collateral_value(asset, amount)])
      BY <1>3 DEF withdraw_checked, value
    <2>2. /\ computable /\ who \in Accounts
          /\ \A a \in AssetIds :
                 get_user_debt_with_interest(user_debts, a, who) = debt_now(a, who)
      BY InvFacts DEF intact, debt_now
    <2>3. \A a \in AssetIds : get_user_supply_with_interest(supplies, a, who) = supply_now(a, who)
      BY <1>3, <2>2, AccruedInPlace
    <2> HIDE DEF supplies
    <2>4. supply_converted(supplies, who) = supply_converted(user_supplies, who)
      BY <2>2, <2>3, SamePower
    <2> QED
      BY <2>1, <2>4 DEF MayWithdraw
  <1>5. /\ index \in Balance \ {0} /\ index \in Balance
        /\ user_supplies[asset][who] \in Entry \cup {None} /\ user_supplies[asset][who] # None
        /\ pools[asset] # None /\ computable
        /\ index = supply_index_now(pools[asset])
        /\ worth(user_supplies[asset][who], index) = supply_now(asset, who)
        /\ supply_now(asset, who) \in Int
        /\ balances[asset][who] \in Nat /\ balances[asset][account_id] \in Nat
    BY CallFacts DEF withdraw
  <1>6. entry \in Entry /\ entry # None
    BY <1>3, <1>5, AccruedEntry
  <1>7. worth(entry, index) = supply_now(asset, who) /\ entry.amount = worth(entry, index)
    BY <1>3, <1>5, <1>6, AccruedWorth
  <1>8. amount \in Balance /\ amount \in Nat /\ amount <= worth(entry, index)
    BY <1>1, <1>6, <1>7, WidthAssumption DEF capped, Entry, Balance
  <1> HIDE DEF amount, index
  <1>9. CASE supply_accrued(who, asset, entry)
    <2>1. user_supplies' = [user_supplies EXCEPT ![asset][who] = entry] /\ UNCHANGED <<balances, pools>>
      BY <1>9 DEF supply_accrued
    <2>2. \A a \in AssetIds : Restored(a)
      BY <2>1 DEF Restored
    <2>3. worth(entry, supply_index_now(pools[asset])) = supply_now(asset, who) + 0
      BY <1>5, <1>7
    <2>4. who \in Signers /\ asset \in AssetIds /\ entry \in Entry \cup {None} /\ 0 \in Int
      BY <1>6
    <2>5. /\ \A a \in AssetIds, u \in Signers : a # asset \/ u # who =>
                 supply_now(a, u)' = supply_now(a, u) /\ debt_now(a, u)' = debt_now(a, u)
          /\ supply_now(asset, who)' = supply_now(asset, who) + 0
          /\ debt_now(asset, who)' = debt_now(asset, who) + 0
      BY ONLY IInv, <1>1, <1>5, <2>1, <2>2, <2>3, <2>4, SupplyMoved
    <2>6. Moves(who, asset, 0, 0, 0)
      <3>1. balances'[asset][who] = balances[asset][who] + 0
        BY <1>5, <2>1
      <3>2. \A a \in AssetIds : balances'[a][account_id]
                = balances[a][account_id] - (IF a = asset THEN 0 ELSE 0)
        BY <2>1, InvFacts, WidthAssumption DEF Ledgers, Balance
      <3> QED
        BY <2>1, <2>5, <3>1, <3>2 DEF Moves
    <2> QED
      BY <2>6 DEF UserMove
  <1>10. CASE withdrawn(who, asset, pool, entry, amount) /\ MayWithdraw(who, asset, amount)
    <2>1. PICK after \in defined(updated(entry, index, amount, FALSE)) :
              /\ transfer_ok(balances, account_id, asset, amount)
              /\ balances' = moved(balances, account_id, asset, who, amount)
              /\ user_supplies' = [user_supplies EXCEPT ![asset][who] = after]
              /\ pools' = [pools EXCEPT ![asset] = [pool EXCEPT !.supply = wrapping_sub[@][amount]]]
      BY <1>10 DEF withdrawn, index
    <2>2. \A a \in AssetIds : Restored(a)
      BY <1>8, <2>1, RestoredTotal
    <2>3. after \in Entry \cup {None}
      BY <1>5, <1>6, <1>8, UpdatedEntry
    <2>4. worth(after, index) = worth(entry, index) - amount
      <3>1. after \in defined(updated(entry, index, amount, FALSE))
        BY <2>1
      <3> QED
        BY ONLY <1>5, <1>6, <1>8, <3>1, TakenWorth
    <2>5. worth(after, supply_index_now(pools[asset])) = supply_now(asset, who) + (-amount)
      BY <1>5, <1>7, <1>8, <2>4
    <2>6. who \in Signers /\ asset \in AssetIds /\ -amount \in Int
      BY <1>8
    <2>7. /\ \A a \in AssetIds, u \in Signers : a # asset \/ u # who =>
                 supply_now(a, u)' = supply_now(a, u) /\ debt_now(a, u)' = debt_now(a, u)
          /\ supply_now(asset, who)' = supply_now(asset, who) + (-amount)
          /\ debt_now(asset, who)' = debt_now(asset, who) + 0
      BY ONLY IInv, <1>1, <1>5, <2>1, <2>2, <2>3, <2>5, <2>6, SupplyMoved
    <2>8. /\ \A a \in AssetIds, u \in Signers : a # asset \/ u # who =>
                 balances'[a][u] = balances[a][u]
          /\ balances'[asset][who] = balances[asset][who] + amount
          /\ \A a \in AssetIds : balances'[a][account_id]
                 = balances[a][account_id] - (IF a = asset THEN amount ELSE 0)
      BY <1>8, <2>1, WalletsMoved
    <2>9. Moves(who, asset, amount, -amount, 0)
      BY <2>7, <2>8 DEF Moves
    <2> QED
      BY <1>8, <1>10, <2>9 DEF UserMove
  <1> QED
    BY <1>4, <1>9, <1>10

\* borrow: into the wallet against a debt, or nothing where it fails half way.
LEMMA BorrowMoves ==
  ASSUME IInv, intact, computable',
         NEW who \in Signers, NEW asset \in AssetIds, NEW amount \in Amounts,
         borrow(who, asset, amount)
  PROVE  \E n \in Nat : UserMove(who, asset, n)
  <1>1. /\ amount \in Balance /\ amount \in Nat /\ amount \in Int
        /\ computable' /\ UNCHANGED <<block_number, user_supplies>>
    BY InvFacts, WidthAssumption DEF intact, borrow, Balance
  <1>2. PICK pool \in accrued_pool(asset) :
           \E entry \in defined(accrued(user_debts[asset][who], pool.total_debt_index)) :
               borrow_checked(who, asset, pool, entry, amount)
    BY DEF borrow
  <1>3. PICK entry \in defined(accrued(user_debts[asset][who], pool.total_debt_index)) :
           borrow_checked(who, asset, pool, entry, amount)
    BY <1>2
  <1> DEFINE index == pool.total_debt_index
  <1>4. \/ borrowed_from(who, asset, pool, entry, amount) /\ MayBorrow(who, asset, amount)
        \/ debt_accrued(who, asset, entry)
    <2> DEFINE debts == [user_debts EXCEPT ![asset][who] = entry]
    <2>1. \/ debt_accrued(who, asset, entry)
          \/ /\ borrowed_from(who, asset, pool, entry, amount)
             /\ covered(wrapping_add[debt_balance(debts, who)][debt_value(asset, amount)],
                        supply_converted(user_supplies, who))
      BY <1>3 DEF borrow_checked, value
    <2>2. /\ computable /\ who \in Accounts
          /\ \A a \in AssetIds :
                 get_user_supply_with_interest(user_supplies, a, who) = supply_now(a, who)
      BY InvFacts DEF intact, supply_now
    <2>3. \A a \in AssetIds : get_user_debt_with_interest(debts, a, who) = debt_now(a, who)
      BY <1>3, <2>2, AccruedInPlace
    <2> HIDE DEF debts
    <2>4. debt_balance(debts, who) = debt_balance(user_debts, who)
      BY <2>2, <2>3, SamePower
    <2> QED
      BY <2>1, <2>4 DEF MayBorrow
  <1>5. /\ index \in Balance \ {0} /\ index \in Balance
        /\ user_debts[asset][who] \in Entry \cup {None}
        /\ pools[asset] # None /\ computable
        /\ index = debt_index_now(pools[asset])
        /\ worth(user_debts[asset][who], index) = debt_now(asset, who)
        /\ debt_now(asset, who) \in Int
        /\ balances[asset][who] \in Nat /\ balances[asset][account_id] \in Nat
        /\ balances[asset][account_id] + debt_now(asset, who) <= MaxBalance
    BY CallFacts
  <1>6. entry \in Entry \cup {None}
    BY <1>3, <1>5, AccruedEntry
  <1>7. worth(entry, index) = debt_now(asset, who)
    BY <1>3, <1>5, <1>6, AccruedWorth
  <1> HIDE DEF index
  <1>8. CASE debt_accrued(who, asset, entry)
    <2>1. user_debts' = [user_debts EXCEPT ![asset][who] = entry] /\ UNCHANGED <<balances, pools>>
      BY <1>8 DEF debt_accrued
    <2>2. \A a \in AssetIds : Restored(a)
      BY <2>1 DEF Restored
    <2>3. worth(entry, debt_index_now(pools[asset])) = debt_now(asset, who) + 0
      BY <1>5, <1>7
    <2>4. who \in Signers /\ asset \in AssetIds /\ 0 \in Int
      OBVIOUS
    <2>5. /\ \A a \in AssetIds, u \in Signers : a # asset \/ u # who =>
                 supply_now(a, u)' = supply_now(a, u) /\ debt_now(a, u)' = debt_now(a, u)
          /\ supply_now(asset, who)' = supply_now(asset, who) + 0
          /\ debt_now(asset, who)' = debt_now(asset, who) + 0
      BY ONLY IInv, <1>1, <1>5, <1>6, <2>1, <2>2, <2>3, <2>4, DebtMoved
    <2>6. Moves(who, asset, 0, 0, 0)
      <3>1. balances'[asset][who] = balances[asset][who] + 0
        BY <1>5, <2>1
      <3>2. \A a \in AssetIds : balances'[a][account_id]
                = balances[a][account_id] - (IF a = asset THEN 0 ELSE 0)
        BY <2>1, InvFacts, WidthAssumption DEF Ledgers, Balance
      <3> QED
        BY <2>1, <2>5, <3>1, <3>2 DEF Moves
    <2> QED
      BY <2>6 DEF UserMove
  <1>9. CASE borrowed_from(who, asset, pool, entry, amount) /\ MayBorrow(who, asset, amount)
    <2>1. PICK after \in defined(updated(entry, index, amount, TRUE)) :
              /\ transfer_ok(balances, account_id, asset, amount)
              /\ balances' = moved(balances, account_id, asset, who, amount)
              /\ user_debts' = [user_debts EXCEPT ![asset][who] = after]
              /\ pools' = [pools EXCEPT ![asset] = [pool EXCEPT !.debt = wrapping_add[@][amount]]]
      BY <1>9 DEF borrowed_from, index
    <2>2. \A a \in AssetIds : Restored(a)
      BY <1>1, <2>1, RestoredTotal
    <2>3. after \in Entry \cup {None}
      BY <1>1, <1>5, <1>6, UpdatedEntry
    <2>4. /\ amount <= balances[asset][account_id]
          /\ \A a \in AssetIds, u \in Signers : a # asset \/ u # who =>
                 balances'[a][u] = balances[a][u]
          /\ balances'[asset][who] = balances[asset][who] + amount
          /\ \A a \in AssetIds : balances'[a][account_id]
                 = balances[a][account_id] - (IF a = asset THEN amount ELSE 0)
      BY <1>1, <2>1, WalletsMoved
    <2>5. worth(after, index) = worth(entry, index) + amount
      <3>1. after \in defined(updated(entry, index, amount, TRUE))
        BY <2>1
      <3>2. worth(entry, index) + amount <= MaxBalance
        BY <1>1, <1>5, <1>7, <2>4, WidthAssumption
      <3> QED
        BY ONLY <1>1, <1>5, <1>6, <3>1, <3>2, AddedWorth
    <2>6. worth(after, debt_index_now(pools[asset])) = debt_now(asset, who) + amount
      BY <1>5, <1>7, <2>5
    <2>7. who \in Signers /\ asset \in AssetIds
      OBVIOUS
    <2>8. /\ \A a \in AssetIds, u \in Signers : a # asset \/ u # who =>
                 supply_now(a, u)' = supply_now(a, u) /\ debt_now(a, u)' = debt_now(a, u)
          /\ supply_now(asset, who)' = supply_now(asset, who) + 0
          /\ debt_now(asset, who)' = debt_now(asset, who) + amount
      BY ONLY IInv, <1>1, <1>5, <2>1, <2>2, <2>3, <2>6, <2>7, DebtMoved
    <2>9. Moves(who, asset, amount, 0, amount)
      BY <2>4, <2>8 DEF Moves
    <2> QED
      BY <1>1, <1>9, <2>9 DEF UserMove
  <1> QED
    BY <1>4, <1>8, <1>9

\* repay: from the wallet against the debt, or nothing where it fails half way.
LEMMA RepayMoves ==
  ASSUME IInv, intact, computable',
         NEW who \in Signers, NEW asset \in AssetIds, NEW offered \in Amounts,
         repay(who, asset, offered)
  PROVE  \E n \in Nat : UserMove(who, asset, n)
  <1>1. offered \in Balance /\ computable' /\ UNCHANGED <<block_number, user_supplies>>
    BY InvFacts DEF intact, repay
  <1>2. PICK pool \in accrued_pool(asset) :
           \E entry \in defined(accrued(user_debts[asset][who], pool.total_debt_index)) :
               IF transfer_ok(balances, who, asset, capped(offered, entry.amount))
               THEN repaid(who, asset, pool, entry, capped(offered, entry.amount))
               ELSE debt_accrued(who, asset, entry)
    BY DEF repay
  <1>3. PICK entry \in defined(accrued(user_debts[asset][who], pool.total_debt_index)) :
           \/ repaid(who, asset, pool, entry, capped(offered, entry.amount))
           \/ debt_accrued(who, asset, entry)
    BY <1>2
  <1> DEFINE amount == capped(offered, entry.amount)
             index  == pool.total_debt_index
  <1>4. \/ repaid(who, asset, pool, entry, amount)
        \/ debt_accrued(who, asset, entry)
    BY <1>3
  <1>5. /\ index \in Balance \ {0} /\ index \in Balance
        /\ user_debts[asset][who] \in Entry \cup {None} /\ user_debts[asset][who] # None
        /\ pools[asset] # None /\ computable
        /\ index = debt_index_now(pools[asset])
        /\ worth(user_debts[asset][who], index) = debt_now(asset, who)
        /\ debt_now(asset, who) \in Int
        /\ balances[asset][who] \in Nat /\ balances[asset][account_id] \in Nat
    BY CallFacts DEF repay
  <1>6. entry \in Entry /\ entry # None
    BY <1>3, <1>5, AccruedEntry
  <1>7. worth(entry, index) = debt_now(asset, who) /\ entry.amount = worth(entry, index)
    BY <1>3, <1>5, <1>6, AccruedWorth
  <1>8. amount \in Balance /\ amount \in Nat /\ amount <= worth(entry, index)
    BY <1>1, <1>6, <1>7, WidthAssumption DEF capped, Entry, Balance
  <1> HIDE DEF amount, index
  <1>9. CASE debt_accrued(who, asset, entry)
    <2>1. user_debts' = [user_debts EXCEPT ![asset][who] = entry] /\ UNCHANGED <<balances, pools>>
      BY <1>9 DEF debt_accrued
    <2>2. \A a \in AssetIds : Restored(a)
      BY <2>1 DEF Restored
    <2>3. worth(entry, debt_index_now(pools[asset])) = debt_now(asset, who) + 0
      BY <1>5, <1>7
    <2>4. who \in Signers /\ asset \in AssetIds /\ entry \in Entry \cup {None} /\ 0 \in Int
      BY <1>6
    <2>5. /\ \A a \in AssetIds, u \in Signers : a # asset \/ u # who =>
                 supply_now(a, u)' = supply_now(a, u) /\ debt_now(a, u)' = debt_now(a, u)
          /\ supply_now(asset, who)' = supply_now(asset, who) + 0
          /\ debt_now(asset, who)' = debt_now(asset, who) + 0
      BY ONLY IInv, <1>1, <1>5, <2>1, <2>2, <2>3, <2>4, DebtMoved
    <2>6. Moves(who, asset, 0, 0, 0)
      <3>1. balances'[asset][who] = balances[asset][who] + 0
        BY <1>5, <2>1
      <3>2. \A a \in AssetIds : balances'[a][account_id]
                = balances[a][account_id] - (IF a = asset THEN 0 ELSE 0)
        BY <2>1, InvFacts, WidthAssumption DEF Ledgers, Balance
      <3> QED
        BY <2>1, <2>5, <3>1, <3>2 DEF Moves
    <2> QED
      BY <2>6 DEF UserMove
  <1>10. CASE repaid(who, asset, pool, entry, amount)
    <2>1. PICK after \in defined(updated(entry, index, amount, FALSE)) :
              /\ transfer_ok(balances, who, asset, amount)
              /\ balances' = moved(balances, who, asset, account_id, amount)
              /\ user_debts' = [user_debts EXCEPT ![asset][who] = after]
              /\ pools' = [pools EXCEPT ![asset] = [pool EXCEPT !.debt = wrapping_sub[@][amount]]]
      BY <1>10 DEF repaid, index
    <2>2. \A a \in AssetIds : Restored(a)
      BY <1>8, <2>1, RestoredTotal
    <2>3. after \in Entry \cup {None}
      BY <1>5, <1>6, <1>8, UpdatedEntry
    <2>4. worth(after, index) = worth(entry, index) - amount
      <3>1. after \in defined(updated(entry, index, amount, FALSE))
        BY <2>1
      <3> QED
        BY ONLY <1>5, <1>6, <1>8, <3>1, TakenWorth
    <2>5. worth(after, debt_index_now(pools[asset])) = debt_now(asset, who) + (-amount)
      BY <1>5, <1>7, <1>8, <2>4
    <2>6. who \in Signers /\ asset \in AssetIds /\ -amount \in Int
      BY <1>8
    <2>7. /\ \A a \in AssetIds, u \in Signers : a # asset \/ u # who =>
                 supply_now(a, u)' = supply_now(a, u) /\ debt_now(a, u)' = debt_now(a, u)
          /\ supply_now(asset, who)' = supply_now(asset, who) + 0
          /\ debt_now(asset, who)' = debt_now(asset, who) + (-amount)
      BY ONLY IInv, <1>1, <1>5, <2>1, <2>2, <2>3, <2>5, <2>6, DebtMoved
    <2>8. /\ \A a \in AssetIds, u \in Signers : a # asset \/ u # who =>
                 balances'[a][u] = balances[a][u]
          /\ balances'[asset][who] = balances[asset][who] + (-amount)
          /\ \A a \in AssetIds : balances'[a][account_id]
                 = balances[a][account_id] - (IF a = asset THEN -amount ELSE 0)
      BY <1>8, <2>1, WalletsMoved
    <2>9. Moves(who, asset, -amount, 0, -amount)
      BY <2>7, <2>8 DEF Moves
    <2> QED
      BY <1>8, <2>9 DEF UserMove
  <1> QED
    BY <1>4, <1>9, <1>10

\* Every user extrinsic, however it ends, is such a movement.
LEMMA UserNextMoves ==
  ASSUME IInv, intact, computable', UserNext
  PROVE  \E who \in Signers, asset \in AssetIds, n \in Nat : UserMove(who, asset, n)
  BY SupplyMoves, WithdrawMoves, BorrowMoves, RepayMoves DEF UserNext

-----------------------------------------------------------------------------
(* What every call may do. *)

\* Such a movement leaves wallet + supply - debt as it was, of everyone in every asset.
LEMMA MoveKeepsNet ==
  ASSUME IInv, intact, NEW who \in Signers, NEW asset \in AssetIds, NEW n \in Nat,
         UserMove(who, asset, n), NEW a \in AssetIds, NEW u \in Signers
  PROVE  net(a, u)' = net(a, u)
  <1>1. net(a, u)' = balances'[a][u] + supply_now(a, u)' - debt_now(a, u)'
    BY DEF net
  <1>2. net(a, u) = balances[a][u] + supply_now(a, u) - debt_now(a, u)
    BY DEF net
  <1>3. CASE a # asset \/ u # who
    <2>1. /\ balances'[a][u] = balances[a][u]
          /\ supply_now(a, u)' = supply_now(a, u)
          /\ debt_now(a, u)' = debt_now(a, u)
      BY <1>3 DEF UserMove, Moves
    <2> QED
      BY <1>1, <1>2, <2>1
  <1>4. CASE a = asset /\ u = who
    <2>1. supply_now(a, u) \in Int /\ debt_now(a, u) \in Int /\ balances[a][u] \in Int
      BY PositionType, InvFacts, OutcomeIsInt DEF intact, Ledgers
    <2>2. PICK w \in {n, -n}, s \in {n, -n, 0}, d \in {n, -n, 0} :
             w + s - d = 0 /\ Moves(who, asset, w, s, d)
      BY DEF UserMove
    <2>3. /\ balances'[a][u] = balances[a][u] + w
          /\ supply_now(a, u)' = supply_now(a, u) + s
          /\ debt_now(a, u)' = debt_now(a, u) + d
      BY <1>4, <2>2 DEF Moves
    <2>4. w \in Int /\ s \in Int /\ d \in Int
      OBVIOUS
    <2>5. w + s - d = 0
      BY <2>2
    <2>6. \A x, y, z \in Int : (x + w) + (y + s) - (z + d) = x + y - z
      BY ONLY <2>4, <2>5
    <2> QED
      BY <1>1, <1>2, <2>1, <2>3, <2>6
  <1> QED
    BY <1>3, <1>4

\* A call that stores no pool and no position changes no position.
LEMMA NothingMoves ==
  ASSUME IInv, computable, computable', UNCHANGED <<pools, user_supplies, user_debts, block_number>>,
         NEW a \in AssetIds, NEW u \in Accounts
  PROVE  supply_now(a, u)' = supply_now(a, u) /\ debt_now(a, u)' = debt_now(a, u)
  <1>1. \A b \in AssetIds : Restored(b)
    BY DEF Restored
  <1> QED
    BY <1>1, PositionsNow

\* Without liquidations, new pools and direct calls of the assets pallet, what else happens
\* within a block is a new price.
LEMMA QuietStep ==
  ASSUME Liquidators = {}, InitPoolAssets = {}, AssetSigners = {},
         IInv, [Next]_vars, UNCHANGED block_number, ~ UserNext
  PROVE  UNCHANGED <<balances, lending_vars>>
  <1>1. ~ LiquidateNext /\ ~ next_block
    BY DEF LiquidateNext, next_block, IInv, LendingTypeOK
  <1>2. CASE UNCHANGED vars
    BY <1>2 DEF vars, assets_vars
  <1>3. CASE EnvNext
    <2>1. AssetsNext /\ UNCHANGED lending_vars
      BY <1>1, <1>3 DEF EnvNext
    <2>2. PICK feed \in PriceFeed : set_price(feed[1], feed[2])
      BY <2>1 DEF AssetsNext
    <2> QED
      BY <2>1, <2>2 DEF set_price
  <1> QED
    BY <1>1, <1>2, <1>3 DEF Next

\* In every configuration, whatever else goes on: the four user extrinsics, successful or
\* failed half way, give and take nothing, from the caller or from anybody.
THEOREM UserCallsKeepNetWorth ==
    Spec => [][UserNext /\ intact /\ intact' =>
                  \A asset \in AssetIds, user \in Signers : net(asset, user)' = net(asset, user)]_vars
  <1>1. IInv /\ [Next]_vars =>
            [UserNext /\ intact /\ intact' =>
                \A asset \in AssetIds, user \in Signers : net(asset, user)' = net(asset, user)]_vars
    BY UserNextMoves, MoveKeepsNet DEF intact
  <1> QED
    BY <1>1, Invariance, PTL DEF Spec

\* Without liquidations, re-created pools and direct calls of the assets pallet, no call of a
\* block changes what anybody has: accruing twice, or by somebody else's call, adds nothing.
THEOREM NetWorthIsKept ==
    Liquidators = {} /\ InitPoolAssets = {} /\ AssetSigners = {} => (Spec => NetWorthKept)
  <1> SUFFICES ASSUME Liquidators = {}, InitPoolAssets = {}, AssetSigners = {}
               PROVE  Spec => NetWorthKept
    OBVIOUS
  <1>1. ASSUME IInv, [Next]_vars, block_number' = block_number, intact, intact',
               NEW asset \in AssetIds, NEW user \in Signers
        PROVE  net(asset, user)' = net(asset, user)
    <2>1. CASE UserNext
      BY <1>1, <2>1, UserNextMoves, MoveKeepsNet DEF intact
    <2>2. CASE ~ UserNext
      <3>1. UNCHANGED <<balances, lending_vars>>
        BY <1>1, <2>2, QuietStep
      <3>2. /\ supply_now(asset, user)' = supply_now(asset, user)
            /\ debt_now(asset, user)' = debt_now(asset, user)
        BY <1>1, <3>1, NothingMoves, InvFacts DEF lending_vars, user_vars, intact
      <3> QED
        BY <3>1, <3>2 DEF net
    <2> QED
      BY <2>1, <2>2
  <1>2. IInv /\ [Next]_vars =>
            [block_number' = block_number /\ intact /\ intact' =>
                \A asset \in AssetIds, user \in Signers : net(asset, user)' = net(asset, user)]_vars
    BY <1>1
  <1> QED
    BY <1>2, Invariance, PTL DEF Spec, NetWorthKept

\* ... and what is paid into the pallet is credited to the payer's supply or taken off its debt.
THEOREM PaymentsReachTheirPayer ==
    Liquidators = {} /\ InitPoolAssets = {} /\ AssetSigners = {} => (Spec => PaymentsAreCredited)
  <1> SUFFICES ASSUME Liquidators = {}, InitPoolAssets = {}, AssetSigners = {}
               PROVE  Spec => PaymentsAreCredited
    OBVIOUS
  <1>1. ASSUME IInv, [Next]_vars, block_number' = block_number, NEW asset \in AssetIds,
               balances'[asset][account_id] > balances[asset][account_id], intact, intact'
        PROVE  \E user \in Signers : \/ supply_now(asset, user)' > supply_now(asset, user)
                                     \/ debt_now(asset, user)' < debt_now(asset, user)
    <2>1. balances[asset][account_id] \in Int /\ IInv'
      BY <1>1, InvFacts, NextKeeps, OutcomeIsInt DEF Ledgers
    <2>2. UserNext
      <3>1. ~ UNCHANGED balances
        BY <1>1, <2>1
      <3> QED
        BY <1>1, <3>1, QuietStep
    <2>3. PICK who \in Signers, a \in AssetIds, n \in Nat : UserMove(who, a, n)
      BY <1>1, <2>2, UserNextMoves DEF intact
    <2>4. supply_now(a, who) \in Int /\ debt_now(a, who) \in Int
      BY <1>1, PositionType, InvFacts DEF intact
    <2>5. PICK w \in {n, -n}, s \in {n, -n, 0}, d \in {n, -n, 0} :
             w + s - d = 0 /\ (s = 0 \/ d = 0) /\ Moves(who, a, w, s, d)
      BY <2>3 DEF UserMove
    <2>6. asset = a /\ w < 0
      BY <1>1, <2>1, <2>5 DEF Moves
    <2>7. s > 0 \/ d < 0
      BY <2>5, <2>6
    <2>8. supply_now(a, who)' = supply_now(a, who) + s /\ debt_now(a, who)' = debt_now(a, who) + d
      BY <2>5 DEF Moves
    <2> QED
      BY <2>4, <2>5, <2>6, <2>7, <2>8
  <1>2. IInv /\ [Next]_vars =>
            [block_number' = block_number =>
                \A asset \in AssetIds :
                    /\ balances'[asset][account_id] > balances[asset][account_id]
                    /\ intact /\ intact'
                    => \E user \in Signers : \/ supply_now(asset, user)' > supply_now(asset, user)
                                             \/ debt_now(asset, user)' < debt_now(asset, user)]_vars
    BY <1>1
  <1> QED
    BY <1>2, Invariance, PTL DEF Spec, PaymentsAreCredited

-----------------------------------------------------------------------------
(* Liquidation. *)

\* What a liquidation stores: it fails and only accrues, or the target is not healthy.
SeizesFrom(target, get_asset, get_pool, pay_asset, pay_pool, s_entry, d_entry) ==
    \/ /\ user_supplies' = [user_supplies EXCEPT ![get_asset][target] = s_entry]
       /\ user_debts' = [user_debts EXCEPT ![pay_asset][target] = d_entry]
       /\ UNCHANGED pools
    \/ /\ ~ healthy(target)
       /\ \A a \in AssetIds, u \in Accounts : u # target =>
              user_supplies'[a][u] = user_supplies[a][u] /\ user_debts'[a][u] = user_debts[a][u]
       /\ pools' = [[pools EXCEPT ![get_asset] = get_pool] EXCEPT ![pay_asset] = pay_pool]

\* liquidate_checked's two outcomes.
LEMMA LiquidateChecked ==
  ASSUME IInv, computable, NEW who \in Signers, NEW target \in Signers,
         NEW pay_asset \in AssetIds, NEW get_asset \in AssetIds, NEW offered \in Amounts,
         NEW get_pool \in accrued_pool(get_asset), NEW pay_pool \in accrued_pool(pay_asset),
         NEW s_entry \in defined(accrued(user_supplies[get_asset][target], get_pool.total_supply_index)),
         NEW d_entry \in defined(accrued(user_debts[pay_asset][target], pay_pool.total_debt_index)),
         liquidate_checked(who, target, pay_asset, get_asset, offered, pay_pool, get_pool,
                           s_entry, d_entry)
  PROVE  SeizesFrom(target, get_asset, get_pool, pay_asset, pay_pool, s_entry, d_entry)
  <1>1. target \in Accounts
    BY InvFacts
  <1> DEFINE supplies == [user_supplies EXCEPT ![get_asset][target] = s_entry]
             debts    == [user_debts EXCEPT ![pay_asset][target] = d_entry]
  <1>2. /\ supply_converted(supplies, target) = supply_converted(user_supplies, target)
        /\ debt_balance(debts, target) = debt_balance(user_debts, target)
    <2>1. /\ \A a \in AssetIds :
                 get_user_supply_with_interest(supplies, a, target) = supply_now(a, target)
          /\ \A a \in AssetIds :
                 get_user_debt_with_interest(debts, a, target) = debt_now(a, target)
      BY <1>1, AccruedInPlace
    <2> HIDE DEF supplies, debts
    <2> QED
      BY <1>1, <2>1, SamePower
  <1>3. CASE liquidate_fails(target, pay_asset, get_asset, s_entry, d_entry, balances)
    BY <1>3 DEF liquidate_fails, SeizesFrom
  <1>4. CASE ~ liquidate_fails(target, pay_asset, get_asset, s_entry, d_entry, balances)
    <2>1. /\ ~ covered(debt_balance(debts, target), supply_converted(supplies, target))
          /\ s_entry # None /\ d_entry # None
          /\ \E limit \in value(pay_limit(s_entry, pay_asset, get_asset)) :
                 settle(who, target, pay_asset, get_asset,
                        capped(capped(offered, limit), d_entry.amount),
                        pay_pool, get_pool, s_entry, d_entry)
      BY <1>4 DEF liquidate_checked, value
    <2>2. ~ healthy(target)
      BY <1>2, <2>1 DEF healthy
    <2>3. PICK limit \in value(pay_limit(s_entry, pay_asset, get_asset)) :
             settle(who, target, pay_asset, get_asset,
                    capped(capped(offered, limit), d_entry.amount),
                    pay_pool, get_pool, s_entry, d_entry)
      BY <2>1
    <2> DEFINE pay == capped(capped(offered, limit), d_entry.amount)
               paid == transfer(balances, who, pay_asset, account_id, pay)
    <2>4. PICK get \in value(get_amount(pay, pay_asset, get_asset)) :
             \/ liquidated(who, target, pay_asset, get_asset, pay, get, pay_pool, get_pool,
                           s_entry, d_entry, paid)
             \/ liquidate_fails(target, pay_asset, get_asset, s_entry, d_entry, paid)
      BY <2>3 DEF settle
    <2>5. CASE liquidate_fails(target, pay_asset, get_asset, s_entry, d_entry, paid)
      BY <2>5 DEF liquidate_fails, SeizesFrom
    <2>6. CASE liquidated(who, target, pay_asset, get_asset, pay, get, pay_pool, get_pool,
                          s_entry, d_entry, paid)
      <3>1. PICK s_after \in defined(updated(s_entry, get_pool.total_supply_index, get, FALSE)) :
               /\ user_supplies' = [user_supplies EXCEPT ![get_asset][target] = s_after]
               /\ \E d_after : user_debts' = [user_debts EXCEPT ![pay_asset][target] = d_after]
               /\ pools' = [[pools EXCEPT ![get_asset] = get_pool] EXCEPT ![pay_asset] = pay_pool]
        BY <2>6 DEF liquidated
      <3>2. \A a \in AssetIds, u \in Accounts : u # target =>
                user_supplies'[a][u] = user_supplies[a][u] /\ user_debts'[a][u] = user_debts[a][u]
        BY <3>1, InvFacts DEF Positions
      <3> QED
        BY <2>2, <3>1, <3>2 DEF SeizesFrom
    <2> QED
      BY <2>4, <2>5, <2>6
  <1> QED
    BY <1>3, <1>4

\* A liquidation changes nobody's position, but that of a user whose debt is not covered.
LEMMA LiquidateSeizes ==
  ASSUME IInv, intact, intact', LiquidateNext, NEW a \in AssetIds, NEW u \in Signers
  PROVE  (supply_now(a, u)' = supply_now(a, u) /\ debt_now(a, u)' = debt_now(a, u)) \/ ~ healthy(u)
  <1>1. PICK who \in Liquidators, target \in Signers, pay_asset \in AssetIds, get_asset \in AssetIds,
             offered \in Amounts : liquidate(who, target, pay_asset, get_asset, offered)
    BY DEF LiquidateNext
  <1>2. /\ who \in Signers /\ target \in Accounts /\ u \in Accounts
        /\ computable /\ computable' /\ UNCHANGED block_number
    BY <1>1, InvFacts, LendingAssumption DEF intact, liquidate
  <1>3. PICK get_pool \in accrued_pool(get_asset), pay_pool \in accrued_pool(pay_asset) :
           \E s_entry \in defined(accrued(user_supplies[get_asset][target], get_pool.total_supply_index)),
              d_entry \in defined(accrued(user_debts[pay_asset][target], pay_pool.total_debt_index)) :
               liquidate_checked(who, target, pay_asset, get_asset, offered, pay_pool, get_pool,
                                 s_entry, d_entry)
    BY <1>1 DEF liquidate
  <1>4. PICK s_entry \in defined(accrued(user_supplies[get_asset][target], get_pool.total_supply_index)),
             d_entry \in defined(accrued(user_debts[pay_asset][target], pay_pool.total_debt_index)) :
           liquidate_checked(who, target, pay_asset, get_asset, offered, pay_pool, get_pool,
                             s_entry, d_entry)
    BY <1>3
  <1>5. SeizesFrom(target, get_asset, get_pool, pay_asset, pay_pool, s_entry, d_entry)
    BY <1>2, <1>4, LiquidateChecked
  <1>6. /\ get_pool \in Pool /\ get_pool.last_updated = block_number
        /\ pay_pool \in Pool /\ pay_pool.last_updated = block_number
        /\ pools \in [AssetIds -> Pool \cup {None}]
        /\ user_supplies \in Positions /\ user_debts \in Positions
        /\ user_supplies[get_asset][target] \in Entry \cup {None}
        /\ user_debts[pay_asset][target] \in Entry \cup {None}
    BY <1>2, AccruedPool, InvFacts DEF IInv, Positions
  <1>7. /\ pools[get_asset] # None
        /\ get_pool.total_supply_index = supply_index_now(pools[get_asset])
        /\ get_pool.total_supply_index \in Balance \ {0}
        /\ pools[pay_asset] # None
        /\ pay_pool.total_debt_index = debt_index_now(pools[pay_asset])
        /\ pay_pool.total_debt_index \in Balance \ {0}
    BY <1>2, AccruedIndex
  <1>8. CASE /\ user_supplies' = [user_supplies EXCEPT ![get_asset][target] = s_entry]
             /\ user_debts' = [user_debts EXCEPT ![pay_asset][target] = d_entry]
             /\ UNCHANGED pools
    <2>1. \A b \in AssetIds : Restored(b)
      BY <1>8 DEF Restored
    <2>2. worth(s_entry, supply_index_now(pools[get_asset]))
              = worth(user_supplies[get_asset][target], supply_index_now(pools[get_asset]))
      BY <1>4, <1>6, <1>7, AccruedWorth
    <2>3. worth(d_entry, debt_index_now(pools[pay_asset]))
              = worth(user_debts[pay_asset][target], debt_index_now(pools[pay_asset]))
      BY <1>4, <1>6, <1>7, AccruedWorth
    <2>4. /\ user_supplies'[a][u] = IF a = get_asset /\ u = target THEN s_entry ELSE user_supplies[a][u]
          /\ user_debts'[a][u] = IF a = pay_asset /\ u = target THEN d_entry ELSE user_debts[a][u]
      BY <1>2, <1>6, <1>8 DEF Positions
    <2> QED
      BY <1>2, <1>7, <2>1, <2>2, <2>3, <2>4, PositionsNow
  <1>9. CASE /\ ~ healthy(target)
             /\ \A b \in AssetIds, v \in Accounts : v # target =>
                    user_supplies'[b][v] = user_supplies[b][v] /\ user_debts'[b][v] = user_debts[b][v]
             /\ pools' = [[pools EXCEPT ![get_asset] = get_pool] EXCEPT ![pay_asset] = pay_pool]
    <2>1. ASSUME NEW b \in AssetIds PROVE Restored(b)
      <3>1. pools'[b] = IF b = pay_asset THEN pay_pool
                        ELSE IF b = get_asset THEN get_pool ELSE pools[b]
        BY <1>6, <1>9
      <3> QED
        BY <1>6, <3>1 DEF Restored
    <2>2. u # target => supply_now(a, u)' = supply_now(a, u) /\ debt_now(a, u)' = debt_now(a, u)
      BY <1>2, <1>9, <2>1, PositionsNow
    <2> QED
      BY <1>9, <2>2
  <1> QED
    BY <1>5, <1>8, <1>9 DEF SeizesFrom

\* Unless pools are re-created, a user whose debt is covered loses supply only to their own
\* wallet: no liquidation, whoever calls it with whatever amount and pair of assets, reaches it.
THEOREM HealthyAreSafe == InitPoolAssets = {} => (Spec => OnlyUnhealthyAreSeized)
  <1> SUFFICES ASSUME InitPoolAssets = {} PROVE Spec => OnlyUnhealthyAreSeized
    OBVIOUS
  <1>1. ASSUME IInv, [Next]_vars, block_number' = block_number, intact, intact',
               NEW user \in Signers, NEW asset \in AssetIds,
               supply_now(asset, user)' < supply_now(asset, user), healthy(user)
        PROVE  balances'[asset][user] - balances[asset][user]
                   = supply_now(asset, user) - supply_now(asset, user)'
    <2>1. /\ supply_now(asset, user) \in Int /\ balances[asset][user] \in Int
          /\ user \in Accounts /\ computable /\ computable'
      BY <1>1, PositionType, InvFacts, OutcomeIsInt DEF intact, Ledgers
    <2>2. supply_now(asset, user)' # supply_now(asset, user)
      BY <1>1, <2>1
    <2>3. UserNext
      <3>1. ~ LiquidateNext
        BY <1>1, <2>2, LiquidateSeizes
      <3>2. ~ UNCHANGED <<pools, user_supplies, user_debts>>
        BY <1>1, <2>1, <2>2, NothingMoves
      <3>3. ~ EnvNext
        BY <1>1, <3>2 DEF EnvNext, next_block, lending_vars, user_vars, IInv, LendingTypeOK
      <3> QED
        BY <1>1, <3>1, <3>2, <3>3 DEF Next, vars, lending_vars, user_vars
    <2>4. PICK who \in Signers, a \in AssetIds, n \in Nat : UserMove(who, a, n)
      BY <1>1, <2>3, UserNextMoves DEF intact
    <2>5. PICK w \in {n, -n}, s \in {n, -n, 0}, d \in {n, -n, 0} :
             (s = 0 \/ w = -s) /\ Moves(who, a, w, s, d)
      BY <2>4 DEF UserMove
    <2>6. a = asset /\ who = user
      BY <2>2, <2>5 DEF Moves
    <2>7. /\ supply_now(asset, user)' = supply_now(asset, user) + s
          /\ balances'[asset][user] = balances[asset][user] + w
      BY <2>5, <2>6 DEF Moves
    <2> QED
      BY <1>1, <2>1, <2>2, <2>5, <2>7
  <1>2. IInv /\ [Next]_vars =>
            [block_number' = block_number /\ intact /\ intact' =>
                \A user \in Signers, asset \in AssetIds :
                    supply_now(asset, user)' < supply_now(asset, user) /\ healthy(user) =>
                        balances'[asset][user] - balances[asset][user]
                            = supply_now(asset, user) - supply_now(asset, user)']_vars
    BY <1>1
  <1> QED
    BY <1>2, Invariance, PTL DEF Spec, OnlyUnhealthyAreSeized
=============================================================================
