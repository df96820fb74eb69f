------------------------ MODULE LendingSolvencyProofs ------------------------
(***************************************************************************)
(* What rounding and the width of a u128 leave of the lending pallet's     *)
(* promises about value, for every width, every set of accounts and assets *)
(* and every interest model: the pallet's account covers what the pools    *)
(* say is there, indices only grow, what a liquidation seizes is paid for, *)
(* and a covered user stays covered.  Cash and health ask that the         *)
(* quotients they rest on fit and are rounded down; seizures allow for     *)
(* what quotients that are not can add.                                    *)
(***************************************************************************)
EXTENDS LendingWorthProofs

-----------------------------------------------------------------------------
(* Interest: what suppliers earn is no more than what borrowers owe. *)

\* The rate times the amount on the two sides: with utilization u at most d / s and the
\* supply rate q at most r * u, interest on the supply s is at most interest on the debt d.
LEMMA InterestOrdered ==
  ASSUME NEW s \in Nat, NEW d \in Nat, NEW u \in Nat, NEW r \in Nat, NEW q \in Nat, NEW n \in Nat,
         NEW D \in Nat \ {0}, u * s <= d * D, q * D <= r * u
  PROVE  (q * n) * s <= (r * n) * d
  <1>1. /\ u * s \in Nat /\ d * D \in Nat /\ q * D \in Nat /\ r * u \in Nat
        /\ q * s \in Nat /\ r * d \in Nat
    BY ProductsOrdered
  <1>2. (q * D) * s <= (r * u) * s
    BY <1>1, ProductsOrdered
  <1>3. (u * s) * r <= (d * D) * r
    BY <1>1, ProductsOrdered
  <1>4. (q * s) * D <= (r * d) * D
    <2>1. (q * s) * D = (q * D) * s /\ (r * u) * s = (u * s) * r /\ (d * D) * r = (r * d) * D
      OBVIOUS
    <2>2. (q * D) * s \in Nat /\ (r * u) * s \in Nat /\ (d * D) * r \in Nat
      BY <1>1, ProductsOrdered
    <2> QED
      BY <1>2, <1>3, <2>1, <2>2
  <1>5. q * s <= r * d
    BY <1>1, <1>4, ProductsOrdered
  <1>6. (q * s) * n <= (r * d) * n
    BY <1>1, <1>5, ProductsOrdered
  <1> QED
    BY <1>6

\* ... and so is the growth, each rounded down to whole units.
LEMMA GrowthOrdered ==
  ASSUME NEW s \in Nat, NEW d \in Nat, NEW x \in Nat, NEW y \in Nat, NEW D \in Nat \ {0},
         x * s <= y * d, NEW m \in Nat, m <= D + x, NEW sup \in Nat, sup * D <= m * s
  PROVE  \E g \in Nat : sup <= s + g /\ (d + g) * D <= (D + y) * d
  <1> DEFINE i == y * d
             g == i \div D
  <1>1. i \in Nat /\ x * s \in Nat /\ m * s \in Nat /\ (D + x) * s \in Nat /\ sup * D \in Nat
    BY ProductsOrdered
  <1>2. x * s <= i
    OBVIOUS
  <1>3. (D + y) * d = d * D + i
    OBVIOUS
  <1> HIDE DEF i
  <1>4. g \in Nat /\ g * D \in Nat /\ g * D <= i /\ i < g * D + D
    <2>1. i = g * D + (i % D) /\ i % D \in Nat /\ i % D < D /\ g \in Nat /\ g * D \in Nat
      BY <1>1, Remainder
    <2> QED
      BY <1>1, <2>1
  <1> HIDE DEF g
  <1>5. (d + g) * D <= (D + y) * d
    <2>1. (d + g) * D = d * D + g * D /\ d * D \in Nat
      BY <1>4
    <2> QED
      BY <1>1, <1>3, <1>4, <2>1
  <1>6. sup * D < (s + g + 1) * D
    <2>1. m * s <= (D + x) * s
      BY ProductsOrdered
    <2>2. (D + x) * s = s * D + x * s /\ s * D \in Nat
      OBVIOUS
    <2>3. (s + g + 1) * D = s * D + g * D + D
      BY <1>4
    <2> QED
      BY <1>1, <1>2, <1>4, <2>1, <2>2, <2>3
  <1>7. sup <= s + g
    <2>1. s + g + 1 \in Nat /\ (s + g + 1) * D \in Nat
      BY <1>4
    <2>2. ~ (s + g + 1 <= sup)
      BY <1>1, <1>6, <2>1, ProductsOrdered
    <2> QED
      BY <1>4, <2>2
  <1> QED
    BY <1>4, <1>5, <1>7

\* A multiplication of fixed point numbers and a sum with one hand a panic on.
LEMMA PanicInMultiplier ==
  ASSUME NEW r \in Outcome, NEW n \in Nat, NEW a \in Balance,
         saturating_mul_int(fixed_add(one, fixed_mul(r, saturating_from_integer(n))), a) # Panic
  PROVE  /\ r \in Balance
         /\ fixed_mul(r, saturating_from_integer(n)) \in Balance
         /\ fixed_add(one, fixed_mul(r, saturating_from_integer(n))) \in Balance
  <1> DEFINE f == saturating_from_integer(n)
             x == fixed_mul(r, f)
             m == fixed_add(one, x)
  <1>1. /\ f \in Balance /\ f \in Outcome /\ one \in Balance /\ one \in Outcome
        /\ Panic \in Int /\ a \in Int /\ DIV \in Int /\ Panic \notin Balance
    BY FromIntegerBounds, WidthAssumption DEF Outcome, one, Balance, Panic
  <1> HIDE DEF f
  <1>2. x \in Outcome
    BY <1>1, FixedType
  <1>3. r = Panic => x = Panic
    BY <1>1, PanicStays
  <1> HIDE DEF x
  <1>4. m \in Outcome
    BY <1>1, <1>2, FixedType
  <1>5. x = Panic => m = Panic
    BY <1>1, PanicStays
  <1> HIDE DEF m
  <1>6. m # Panic
    <2>1. saturating_mul_int(m, a) # Panic
      BY DEF m, x, f
    <2>2. multiply_by_rational[Panic][a][DIV] = Panic
      BY <1>1 DEF multiply_by_rational
    <2>3. saturating[Panic] = Panic
      BY <1>1 DEF saturating, Outcome
    <2> QED
      BY <2>1, <2>2, <2>3 DEF saturating_mul_int
  <1> QED
    BY <1>2, <1>3, <1>4, <1>5, <1>6 DEF Outcome, m, x, f

\* The multiplier of a rate over n blocks is at most one + rate * n.
LEMMA MultiplierAtMost ==
  ASSUME NEW r \in Balance, NEW n \in Nat,
         fixed_mul(r, saturating_from_integer(n)) \in Balance
  PROVE  /\ r * n \in Nat
         /\ fixed_mul(r, saturating_from_integer(n)) <= r * n
         /\ fixed_add(one, fixed_mul(r, saturating_from_integer(n))) <= DIV + r * n
  <1> DEFINE f == saturating_from_integer(n)
             x == fixed_mul(r, f)
  <1>1. /\ f \in Balance /\ f \in Nat /\ f <= n * DIV /\ r \in Nat /\ r * n \in Nat
        /\ DIV \in Balance /\ DIV \in Nat \ {0} /\ n * DIV \in Nat /\ Panic \notin Balance
    BY FromIntegerBounds, WidthAssumption DEF Balance, Panic
  <1> HIDE DEF f
  <1>2. x \in Balance /\ x = multiply_by_rational[r][f][DIV]
    BY <1>1, FixedBounds DEF f
  <1>3. r * f <= (r * n) * DIV
    <2>1. f * r <= (n * DIV) * r
      BY <1>1, ProductsOrdered
    <2> QED
      BY <1>1, <2>1
  <1>4. x <= r * n
    BY <1>1, <1>2, <1>3, RationalBounds
  <1> HIDE DEF x
  <1>5. fixed_add(one, x) <= DIV + x /\ fixed_add(one, x) \in Balance
    BY <1>1, <1>2, WrapBounds DEF fixed_add, one
  <1> QED
    BY <1>1, <1>2, <1>4, <1>5 DEF x, f, Balance

\* A multiplier that fits is one + rate * blocks.
LEMMA MultiplierExact ==
  ASSUME NEW r \in Balance, NEW n \in Nat, n * DIV <= MaxBalance,
         fixed_mul(r, saturating_from_integer(n)) \in Balance,
         one + fixed_mul(r, saturating_from_integer(n)) <= MaxBalance
  PROVE  fixed_add(one, fixed_mul(r, saturating_from_integer(n))) = DIV + r * n
  <1>1. /\ n * DIV \in Nat /\ r \in Nat /\ DIV \in Nat \ {0} /\ r * n \in Nat
        /\ MaxBalance \in Nat /\ Panic \notin Balance
    BY WidthAssumption DEF Balance, Panic
  <1>2. saturating_from_integer(n) = n * DIV /\ n * DIV \in Balance
    BY <1>1 DEF saturating_from_integer, saturating, Outcome, Balance
  <1>3. r * (n * DIV) = (r * n) * DIV
    BY <1>1
  <1>4. fixed_mul(r, n * DIV) = multiply_by_rational[r][n * DIV][DIV]
    BY <1>1, <1>2, FixedBounds
  <1>5. multiply_by_rational[r][n * DIV][DIV] = r * n
    BY <1>1, <1>3, RationalExact
  <1>6. fixed_mul(r, saturating_from_integer(n)) = r * n
    BY <1>2, <1>4, <1>5
  <1>7. DIV + r * n <= MaxBalance
    BY <1>6 DEF one
  <1> QED
    BY <1>1, <1>6, <1>7, AddExact DEF fixed_add, one

\* The debt of a pool grows at least by what its supply grows, up to the width of a u128.
LEMMA GrowthBacked ==
  ASSUME NEW pool \in Pool, block_number \in 0..MaxBlock, pool.last_updated <= block_number,
         interest_fits(pool),
         NEW sup \in Balance, sup = saturating_mul_int(supply_multiplier(pool), pool.supply),
         NEW deb \in Balance, deb = saturating_mul_int(debt_multiplier(pool), pool.debt)
  PROVE  deb = MaxBalance \/ sup = 0 \/ \E g \in Nat : sup <= pool.supply + g /\ pool.debt + g <= deb
  <1> DEFINE s == pool.supply
             d == pool.debt
             n == block_number - pool.last_updated
             r == debt_rate_internal(pool)
             q == supply_rate_internal(pool)
             u == saturating_from_rational(d, s)
             sm == supply_multiplier(pool)
             dm == debt_multiplier(pool)
  <1>1. /\ s \in Balance /\ d \in Balance /\ s \in Nat /\ d \in Nat /\ n \in Nat
        /\ DIV \in Nat \ {0} /\ MaxBalance \in Nat /\ Panic \notin Balance
        /\ sup \in Nat /\ deb \in Nat
    BY WidthAssumption, LendingAssumption DEF Pool, Balance, Panic
  <1>2. /\ r \in Outcome /\ q \in Outcome
        /\ sm = fixed_add(one, fixed_mul(q, saturating_from_integer(n)))
        /\ dm = fixed_add(one, fixed_mul(r, saturating_from_integer(n)))
        /\ one + fixed_mul(r, saturating_from_integer(n)) <= MaxBalance /\ n * DIV <= MaxBalance
        /\ sup = saturating_mul_int(sm, s) /\ deb = saturating_mul_int(dm, d)
        /\ s > 0 => q = fixed_mul(r, u)
        /\ s > 0 => rounds_down(d, DIV, s) /\ rounds_down(r, u, DIV) /\ rounds_down(sm, s, DIV)
    BY RateType DEF supply_multiplier, debt_multiplier, multiplier, interest_fits,
                    multipliers_fit, supply_rate_internal
  <1>3. u = saturating_from_rational(d, s)
    OBVIOUS
  <1> HIDE DEF s, d, n, r, q, u, sm, dm
  <1>4. /\ q \in Balance /\ fixed_mul(q, saturating_from_integer(n)) \in Balance /\ sm \in Balance
        /\ r \in Balance /\ fixed_mul(r, saturating_from_integer(n)) \in Balance /\ dm \in Balance
    <2>1. saturating_mul_int(fixed_add(one, fixed_mul(q, saturating_from_integer(n))), s) # Panic
      BY <1>1, <1>2
    <2>2. saturating_mul_int(fixed_add(one, fixed_mul(r, saturating_from_integer(n))), d) # Panic
      BY <1>1, <1>2
    <2>3. /\ q \in Balance /\ fixed_mul(q, saturating_from_integer(n)) \in Balance
          /\ fixed_add(one, fixed_mul(q, saturating_from_integer(n))) \in Balance
      BY ONLY <1>1, <1>2, <2>1, PanicInMultiplier
    <2>4. /\ r \in Balance /\ fixed_mul(r, saturating_from_integer(n)) \in Balance
          /\ fixed_add(one, fixed_mul(r, saturating_from_integer(n))) \in Balance
      BY ONLY <1>1, <1>2, <2>2, PanicInMultiplier
    <2> QED
      BY <1>2, <2>3, <2>4
  <1>5. sm \in Nat /\ dm \in Nat /\ q \in Nat /\ r \in Nat /\ dm = DIV + r * n
    <2>1. dm = DIV + r * n
      BY <1>1, <1>2, <1>4, MultiplierExact
    <2> QED
      BY <1>4, <2>1 DEF Balance
  <1>6. CASE s = 0
    <2>1. sm * 0 = 0 * DIV
      BY <1>1, <1>5
    <2>2. multiply_by_rational[sm][0][DIV] = 0
      BY <1>1, <1>5, <2>1, RationalExact
    <2>3. sup <= 0
      BY <1>1, <1>2, <1>4, <1>6, <2>2, FixedBounds
    <2> QED
      BY <1>1, <2>3
  <1>7. CASE s > 0
    <2>1. s # 0 /\ s \in Nat \ {0}
      BY <1>1, <1>7
    <2>2. /\ u \in Balance /\ u \in Nat /\ u * s <= d * DIV
      <3>1. u \in Balance /\ u <= multiply_by_rational[d][DIV][s]
        BY <1>1, <1>3, <2>1, FixedBounds
      <3>2. /\ multiply_by_rational[d][DIV][s] \in Nat
            /\ multiply_by_rational[d][DIV][s] * s <= d * DIV
        BY <1>1, <1>2, <1>7, <2>1, RationalBounds
      <3>3. u \in Nat
        BY <3>1 DEF Balance
      <3>4. u * s <= multiply_by_rational[d][DIV][s] * s
        BY <1>1, <3>1, <3>2, <3>3, ProductsOrdered
      <3>5. /\ u * s \in Nat /\ d * DIV \in Nat /\ multiply_by_rational[d][DIV][s] * s \in Nat
        BY <1>1, <3>2, <3>3, ProductsOrdered
      <3> QED
        BY <3>1, <3>2, <3>3, <3>4, <3>5
    <2>3. q * DIV <= r * u
      <3>1. q = multiply_by_rational[r][u][DIV]
        BY <1>1, <1>2, <1>4, <1>7, <2>2, FixedBounds
      <3> QED
        BY <1>1, <1>2, <1>5, <1>7, <2>2, <3>1, RationalBounds
    <2>4. (q * n) * s <= (r * n) * d
      BY ONLY <1>1, <1>5, <2>2, <2>3, InterestOrdered
    <2>5. sm <= DIV + q * n /\ q * n \in Nat /\ r * n \in Nat
      BY <1>1, <1>2, <1>4, <1>5, MultiplierAtMost, ProductsOrdered
    <2>6. sup * DIV <= sm * s
      <3>1. sup <= multiply_by_rational[sm][s][DIV]
        <4>1. saturating_mul_int(sm, s) <= multiply_by_rational[sm][s][DIV]
          BY ONLY <1>1, <1>4, FixedBounds
        <4> QED
          BY ONLY <1>2, <4>1
      <3>2. /\ multiply_by_rational[sm][s][DIV] \in Nat
            /\ multiply_by_rational[sm][s][DIV] * DIV <= sm * s
        BY <1>1, <1>2, <1>5, <1>7, RationalBounds
      <3>3. sup * DIV <= multiply_by_rational[sm][s][DIV] * DIV
        BY <1>1, <3>1, <3>2, ProductsOrdered
      <3>4. sup * DIV \in Nat /\ sm * s \in Nat /\ multiply_by_rational[sm][s][DIV] * DIV \in Nat
        BY <1>1, <1>5, <3>2, ProductsOrdered
      <3> QED
        BY <3>2, <3>3, <3>4
    <2>7. PICK g \in Nat : sup <= s + g /\ (d + g) * DIV <= (DIV + r * n) * d
      BY ONLY <1>1, <1>5, <2>4, <2>5, <2>6, GrowthOrdered
    <2>8. deb = MaxBalance \/ d + g <= deb
      <3>1. deb \in {MaxBalance, multiply_by_rational[dm][d][DIV]}
        BY <1>1, <1>2, <1>4, FixedBounds
      <3>2. d + g \in Nat /\ (d + g) * DIV <= dm * d
        BY <1>1, <1>5, <2>7
      <3>3. d + g <= multiply_by_rational[dm][d][DIV]
        BY <1>1, <1>5, <3>2, RationalBounds
      <3> QED
        BY <3>1, <3>3
    <2> QED
      BY <2>7, <2>8 DEF s, d
  <1> QED
    BY <1>1, <1>6, <1>7

\* So a pool that is backed is backed with the interest due.
LEMMA AccruedBacked ==
  ASSUME IInv, NEW asset \in AssetIds, pools[asset] # None, interest_fits(pools[asset]),
         balances[asset][account_id] + pools[asset].debt >= pools[asset].supply,
         NEW p \in accrued_pool(asset)
  PROVE  balances[asset][account_id] + p.debt >= p.supply
  <1>1. /\ pools[asset] \in Pool /\ p \in Pool /\ block_number \in 0..MaxBlock
        /\ pools[asset].last_updated <= block_number
        /\ balances[asset][account_id] \in Nat
        /\ p.supply \in Balance /\ p.debt \in Balance /\ p.supply \in Nat /\ p.debt \in Nat
        /\ pools[asset].supply \in Nat /\ pools[asset].debt \in Nat
    <2>1. p \in Pool /\ pools[asset] \in Pool
      BY AccruedPool DEF IInv
    <2> QED
      BY <2>1, InvFacts, OutcomeIsInt DEF IInv, LendingTypeOK, Pool, Balance, Ledgers
  <1>2. p = accrue_interest(pools[asset])
    BY DEF accrued_pool
  <1>3. CASE pools[asset].last_updated = block_number
    BY <1>2, <1>3 DEF accrue_interest
  <1>4. CASE pools[asset].last_updated # block_number
    <2>1. /\ p.supply = saturating_mul_int(supply_multiplier(pools[asset]), pools[asset].supply)
          /\ p.debt = saturating_mul_int(debt_multiplier(pools[asset]), pools[asset].debt)
      BY <1>1, <1>2, <1>4 DEF accrue_interest, Pool
    <2>2. \/ p.debt = MaxBalance \/ p.supply = 0
          \/ \E g \in Nat : p.supply <= pools[asset].supply + g /\ pools[asset].debt + g <= p.debt
      BY <1>1, <2>1, GrowthBacked
    <2> QED
      BY <1>1, <2>2 DEF Balance
  <1> QED
    BY <1>3, <1>4

-----------------------------------------------------------------------------
(* The pallet's account covers the pools' cash. *)

\* CashBacked, of one asset, which has a pool.
Backed(asset) ==
    /\ pools[asset] # None
    /\ balances[asset][account_id] + pools[asset].debt >= pools[asset].supply

\* A call that stores the accrued pool of one asset with new totals, and moves w out of the
\* account.
LEMMA BackedAfter ==
  ASSUME IInv, NEW a \in AssetIds, Backed(a), interest_fits(pools[a]),
         NEW asset \in AssetIds, NEW p \in accrued_pool(asset), NEW q \in Pool, NEW w \in Int,
         pools' = [pools EXCEPT ![asset] = q],
         \A b \in AssetIds : balances'[b][account_id]
                = balances[b][account_id] - (IF b = asset THEN w ELSE 0),
         a = asset /\ balances[asset][account_id] + p.debt >= p.supply =>
             balances[asset][account_id] - w + q.debt >= q.supply
  PROVE  Backed(a)'
  <1>1. /\ pools \in [AssetIds -> Pool \cup {None}]
        /\ balances[a][account_id] \in Int /\ None \notin Pool
    BY InvFacts, OutcomeIsInt, LendingAssumption DEF Ledgers
  <1>2. pools'[a] = IF a = asset THEN q ELSE pools[a]
    BY <1>1
  <1>3. CASE a # asset
    BY <1>1, <1>2, <1>3 DEF Backed
  <1>4. CASE a = asset
    <2>1. balances[asset][account_id] + p.debt >= p.supply
      BY <1>4, AccruedBacked DEF Backed
    <2> QED
      BY <1>1, <1>2, <1>4, <2>1 DEF Backed
  <1> QED
    BY <1>3, <1>4

\* A call that stores no pool and takes nothing out of the account.
LEMMA BackedStill ==
  ASSUME IInv, NEW a \in AssetIds, Backed(a), UNCHANGED pools,
         balances'[a][account_id] \in Int, balances'[a][account_id] >= balances[a][account_id]
  PROVE  Backed(a)'
  <1>1. balances[a][account_id] \in Int /\ pools[a] \in Pool
    BY InvFacts, OutcomeIsInt DEF Ledgers, Backed
  <1>2. pools[a].debt \in Int /\ pools[a].supply \in Int
    BY <1>1, OutcomeIsInt DEF Pool
  <1> QED
    BY <1>1, <1>2 DEF Backed

\* The numbers of a pool with its interest.
LEMMA AccruedTotals ==
  ASSUME IInv, NEW asset \in AssetIds, NEW p \in accrued_pool(asset)
  PROVE  /\ p \in Pool /\ p.supply \in Balance /\ p.debt \in Balance
         /\ p.supply \in Nat /\ p.debt \in Nat /\ p.total_supply_index \in Balance
         /\ balances[asset][account_id] \in Nat
  <1>1. p \in Pool
    BY AccruedPool DEF IInv
  <1> QED
    BY <1>1, InvFacts DEF Pool, Balance, Ledgers

\* supply.
LEMMA SupplyBacked ==
  ASSUME IInv, NEW a \in AssetIds, Backed(a), interest_fits(pools[a]),
         NEW who \in Signers, NEW asset \in AssetIds, NEW amount \in Amounts,
         supply(who, asset, amount)
  PROVE  Backed(a)'
  <1>1. PICK pool \in accrued_pool(asset) :
           supplied(who, asset, pool, user_supplies[asset][who], amount)
    BY DEF supply
  <1>2. amount \in Balance /\ amount \in Nat /\ -amount \in Int
    BY InvFacts DEF Balance
  <1> DEFINE q == [pool EXCEPT !.supply = wrapping_add[@][amount]]
  <1>3. /\ transfer_ok(balances, who, asset, amount)
        /\ balances' = moved(balances, who, asset, account_id, amount)
        /\ pools' = [pools EXCEPT ![asset] = q]
    BY <1>1 DEF supplied
  <1>4. \A b \in AssetIds : balances'[b][account_id]
            = balances[b][account_id] - (IF b = asset THEN -amount ELSE 0)
    BY <1>2, <1>3, WalletsMoved
  <1>5. /\ pool \in Pool /\ pool.supply \in Balance /\ pool.supply \in Nat /\ pool.debt \in Nat
        /\ balances[asset][account_id] \in Nat
    BY AccruedTotals
  <1>6. wrapping_add[pool.supply][amount] \in Balance
        /\ wrapping_add[pool.supply][amount] <= pool.supply + amount
    BY <1>2, <1>5, WrapBounds
  <1>7. q \in Pool /\ q.supply = wrapping_add[pool.supply][amount] /\ q.debt = pool.debt
    BY <1>5, <1>6 DEF Pool
  <1> HIDE DEF q
  <1>8. balances[asset][account_id] + pool.debt >= pool.supply =>
            balances[asset][account_id] - (-amount) + q.debt >= q.supply
    BY <1>2, <1>5, <1>6, <1>7 DEF Balance
  <1> QED
    BY <1>2, <1>3, <1>4, <1>7, <1>8, BackedAfter

\* withdraw: what leaves the account is in the pool's supply.
LEMMA WithdrawBacked ==
  ASSUME IInv, NEW a \in AssetIds, Backed(a), interest_fits(pools[a]), totals_fit(a),
         NEW who \in Signers, NEW asset \in AssetIds, NEW wanted \in Amounts,
         withdraw(who, asset, wanted)
  PROVE  Backed(a)'
  <1>1. PICK pool \in accrued_pool(asset) :
           \E entry \in defined(accrued(user_supplies[asset][who], pool.total_supply_index)) :
               withdraw_checked(who, asset, pool, entry, capped(wanted, entry.amount))
    BY DEF withdraw
  <1>2. PICK entry \in defined(accrued(user_supplies[asset][who], pool.total_supply_index)) :
           withdraw_checked(who, asset, pool, entry, capped(wanted, entry.amount))
    BY <1>1
  <1>3. /\ pool \in Pool /\ pool.supply \in Balance /\ pool.supply \in Nat /\ pool.debt \in Nat
        /\ pool.debt \in Balance /\ pool.total_supply_index \in Balance
        /\ balances[asset][account_id] \in Nat
    BY AccruedTotals
  <1>4. user_supplies[asset][who] # None /\ user_supplies[asset][who] \in Entry \cup {None}
    BY InvFacts DEF withdraw, Positions
  <1>5. /\ entry \in Entry
        /\ entry.amount = worth(user_supplies[asset][who], pool.total_supply_index)
    BY <1>2, <1>3, <1>4, AccruedEntry DEF accrued, defined, worth
  <1> DEFINE amount == capped(wanted, entry.amount)
  <1>6. amount \in Balance /\ amount \in Nat /\ amount <= entry.amount
    BY <1>5, InvFacts DEF capped, Entry, Balance
  <1>7. \/ /\ withdrawn(who, asset, pool, entry, amount)
           /\ cash(pool) >= amount
        \/ supply_accrued(who, asset, entry)
    BY <1>2 DEF withdraw_checked
  <1> HIDE DEF amount
  <1>8. CASE supply_accrued(who, asset, entry)
    <2>1. UNCHANGED <<balances, pools>>
      BY <1>8 DEF supply_accrued
    <2> QED
      BY <2>1, BackedStill, InvFacts, OutcomeIsInt DEF Backed
  <1>9. CASE withdrawn(who, asset, pool, entry, amount) /\ cash(pool) >= amount
    <2> DEFINE q == [pool EXCEPT !.supply = wrapping_sub[@][amount]]
    <2>1. /\ transfer_ok(balances, account_id, asset, amount)
          /\ balances' = moved(balances, account_id, asset, who, amount)
          /\ pools' = [pools EXCEPT ![asset] = q]
      BY <1>9 DEF withdrawn
    <2>2. \A b \in AssetIds : balances'[b][account_id]
              = balances[b][account_id] - (IF b = asset THEN amount ELSE 0)
      BY <1>6, <2>1, WalletsMoved
    <2>3. wrapping_sub[pool.supply][amount] \in Balance
      BY <1>3, <1>6, WrapBounds
    <2>4. q \in Pool /\ q.supply = wrapping_sub[pool.supply][amount] /\ q.debt = pool.debt
      BY <1>3, <2>3 DEF Pool
    <2> HIDE DEF q
    <2>5. ASSUME a = asset, balances[asset][account_id] + pool.debt >= pool.supply
          PROVE  balances[asset][account_id] - amount + q.debt >= q.supply
      <3>1. amount <= pool.supply
        <4>1. CASE pool.debt <= pool.supply
          <5>1. cash(pool) = pool.supply - pool.debt
            BY <1>3, <4>1, SubExact DEF cash
          <5> QED
            BY <1>3, <1>6, <1>9, <5>1
        <4>2. CASE worth(user_supplies[asset][who], pool.total_supply_index) <= pool.supply
          BY <1>3, <1>5, <1>6, <4>2 DEF Entry, Balance
        <4> QED
          BY <2>5, <4>1, <4>2 DEF totals_fit
      <3>2. q.supply = pool.supply - amount
        BY <1>3, <1>6, <2>4, <3>1, SubExact
      <3> QED
        BY <1>3, <1>6, <2>4, <2>5, <3>2
    <2>6. amount \in Int
      BY <1>6
    <2> QED
      BY <2>1, <2>2, <2>4, <2>5, <2>6, BackedAfter
  <1> QED
    BY <1>7, <1>8, <1>9

\* borrow: what leaves the account is added to the pool's debt, which does not wrap.
LEMMA BorrowBacked ==
  ASSUME IInv, NEW a \in AssetIds, Backed(a), interest_fits(pools[a]), totals_fit(a),
         NEW who \in Signers, NEW asset \in AssetIds, NEW amount \in Amounts,
         borrow(who, asset, amount)
  PROVE  Backed(a)'
  <1>1. PICK pool \in accrued_pool(asset) :
           \E entry \in defined(accrued(user_debts[asset][who], pool.total_debt_index)) :
               cash(pool) >= amount /\ borrow_checked(who, asset, pool, entry, amount)
    BY DEF borrow
  <1>2. PICK entry \in defined(accrued(user_debts[asset][who], pool.total_debt_index)) :
           cash(pool) >= amount /\ borrow_checked(who, asset, pool, entry, amount)
    BY <1>1
  <1>3. /\ pool \in Pool /\ pool.supply \in Balance /\ pool.supply \in Nat /\ pool.debt \in Nat
        /\ pool.debt \in Balance /\ balances[asset][account_id] \in Nat /\ MaxBalance \in Nat
    BY AccruedTotals, WidthAssumption
  <1>4. amount \in Balance /\ amount \in Nat
    BY InvFacts DEF Balance
  <1>5. \/ borrowed_from(who, asset, pool, entry, amount)
        \/ debt_accrued(who, asset, entry)
    BY <1>2 DEF borrow_checked
  <1>6. CASE debt_accrued(who, asset, entry)
    <2>1. UNCHANGED <<balances, pools>>
      BY <1>6 DEF debt_accrued
    <2> QED
      BY <2>1, BackedStill, InvFacts, OutcomeIsInt DEF Backed
  <1>7. CASE borrowed_from(who, asset, pool, entry, amount)
    <2> DEFINE q == [pool EXCEPT !.debt = wrapping_add[@][amount]]
    <2>1. /\ transfer_ok(balances, account_id, asset, amount)
          /\ balances' = moved(balances, account_id, asset, who, amount)
          /\ pools' = [pools EXCEPT ![asset] = q]
      BY <1>7 DEF borrowed_from
    <2>2. /\ amount <= balances[asset][account_id]
          /\ \A b \in AssetIds : balances'[b][account_id]
                 = balances[b][account_id] - (IF b = asset THEN amount ELSE 0)
      BY <1>4, <2>1, WalletsMoved
    <2>3. wrapping_add[pool.debt][amount] \in Balance
      BY <1>3, <1>4, WrapBounds
    <2>4. q \in Pool /\ q.debt = wrapping_add[pool.debt][amount] /\ q.supply = pool.supply
      BY <1>3, <2>3 DEF Pool
    <2> HIDE DEF q
    <2>5. ASSUME a = asset, balances[asset][account_id] + pool.debt >= pool.supply
          PROVE  balances[asset][account_id] - amount + q.debt >= q.supply
      <3>1. CASE pool.debt + amount <= MaxBalance
        <4>1. q.debt = pool.debt + amount
          BY <1>3, <1>4, <2>4, <3>1, AddExact
        <4> QED
          BY <1>3, <1>4, <2>4, <2>5, <4>1
      <3>2. CASE pool.debt + amount > MaxBalance
        <4>1. q.debt = pool.debt + amount - (MaxBalance + 1)
          BY <1>3, <1>4, <2>4, <3>2, AddWrapped
        <4>2. ~ (pool.debt <= pool.supply)
          <5>1. pool.debt <= pool.supply => cash(pool) = pool.supply - pool.debt
            BY <1>3, SubExact DEF cash
          <5> QED
            BY <1>2, <1>3, <1>4, <3>2, <5>1 DEF Balance
        <4>3. balances[asset][account_id] + pool.debt - (MaxBalance + 1) >= pool.supply
          BY <1>3, <1>4, <2>2, <2>5, <3>2, <4>2 DEF totals_fit
        <4> QED
          BY <1>3, <1>4, <2>4, <4>1, <4>3
      <3> QED
        BY <1>3, <1>4, <3>1, <3>2
    <2>6. amount \in Int
      BY <1>4
    <2> QED
      BY <2>1, <2>2, <2>4, <2>5, <2>6, BackedAfter
  <1> QED
    BY <1>5, <1>6, <1>7

\* repay: what reaches the account is taken off the pool's debt, at most.
LEMMA RepayBacked ==
  ASSUME IInv, NEW a \in AssetIds, Backed(a), interest_fits(pools[a]),
         NEW who \in Signers, NEW asset \in AssetIds, NEW offered \in Amounts,
         repay(who, asset, offered)
  PROVE  Backed(a)'
  <1>1. PICK pool \in accrued_pool(asset) :
           \E entry \in defined(accrued(user_debts[asset][who], pool.total_debt_index)) :
               \/ repaid(who, asset, pool, entry, capped(offered, entry.amount))
               \/ debt_accrued(who, asset, entry)
    BY DEF repay
  <1>2. PICK entry \in defined(accrued(user_debts[asset][who], pool.total_debt_index)) :
           \/ repaid(who, asset, pool, entry, capped(offered, entry.amount))
           \/ debt_accrued(who, asset, entry)
    BY <1>1
  <1>3. /\ pool \in Pool /\ pool.supply \in Balance /\ pool.supply \in Nat /\ pool.debt \in Nat
        /\ pool.debt \in Balance /\ balances[asset][account_id] \in Nat
        /\ pool.total_debt_index \in Balance
    BY AccruedTotals DEF Pool
  <1>4. entry \in Entry
    <2>1. user_debts[asset][who] # None /\ user_debts[asset][who] \in Entry \cup {None}
      BY InvFacts DEF repay, Positions
    <2> QED
      BY <1>3, <2>1, AccruedEntry
  <1> DEFINE amount == capped(offered, entry.amount)
  <1>5. amount \in Balance /\ amount \in Nat /\ -amount \in Int
    BY <1>4, InvFacts DEF capped, Entry, Balance
  <1>6. CASE debt_accrued(who, asset, entry)
    <2>1. UNCHANGED <<balances, pools>>
      BY <1>6 DEF debt_accrued
    <2> QED
      BY <2>1, BackedStill, InvFacts, OutcomeIsInt DEF Backed
  <1>7. CASE repaid(who, asset, pool, entry, amount)
    <2> HIDE DEF amount
    <2> DEFINE q == [pool EXCEPT !.debt = wrapping_sub[@][amount]]
    <2>1. /\ transfer_ok(balances, who, asset, amount)
          /\ balances' = moved(balances, who, asset, account_id, amount)
          /\ pools' = [pools EXCEPT ![asset] = q]
      BY <1>7 DEF repaid
    <2>2. \A b \in AssetIds : balances'[b][account_id]
              = balances[b][account_id] - (IF b = asset THEN -amount ELSE 0)
      BY <1>5, <2>1, WalletsMoved
    <2>3. /\ wrapping_sub[pool.debt][amount] \in Balance
          /\ wrapping_sub[pool.debt][amount] >= pool.debt - amount
      BY <1>3, <1>5, WrapBounds
    <2>4. q \in Pool /\ q.debt = wrapping_sub[pool.debt][amount] /\ q.supply = pool.supply
      BY <1>3, <2>3 DEF Pool
    <2> HIDE DEF q
    <2>5. balances[asset][account_id] + pool.debt >= pool.supply =>
              balances[asset][account_id] - (-amount) + q.debt >= q.supply
      BY <1>3, <1>5, <2>3, <2>4 DEF Balance
    <2> QED
      BY <1>5, <2>1, <2>2, <2>4, <2>5, BackedAfter
  <1> QED
    BY <1>2, <1>6, <1>7

\* Direct calls of the assets pallet take nothing from the lending pallet's account.
LEMMA AssetsBacked ==
  ASSUME IInv, AssetsNext, UNCHANGED pools, NEW a \in AssetIds, Backed(a)
  PROVE  Backed(a)'
  <1>1. /\ balances \in Ledgers /\ Bounded(balances) /\ account_id \in Accounts
        /\ AssetSigners \subseteq Accounts /\ account_id \notin AssetSigners
        /\ Amounts \subseteq Balance /\ balances[a][account_id] \in Int
    BY InvFacts, AssetsAssumption, OutcomeIsInt DEF Ledgers
  <1>2. CASE \E who \in AssetSigners, total \in Amounts : issue(who, total)
    <2>1. balances'[a][account_id] = balances[a][account_id]
      BY <1>1, <1>2 DEF issue, issued, Ledgers
    <2> QED
      BY <1>1, <2>1, BackedStill
  <1>3. CASE \E who \in AssetSigners, id \in AssetIds : destroy(who, id)
    <2>1. balances'[a][account_id] = balances[a][account_id]
      BY <1>1, <1>3 DEF destroy, Ledgers
    <2> QED
      BY <1>1, <2>1, BackedStill
  <1>4. CASE \E who \in AssetSigners, id \in AssetIds, to \in Accounts, amount \in Amounts :
                 transfer_asset(who, id, to, amount)
    <2>1. PICK who \in AssetSigners, id \in AssetIds, to \in Accounts, amount \in Amounts :
             transfer_asset(who, id, to, amount)
      BY <1>4
    <2>2. who \in Accounts /\ amount \in Balance /\ amount \in Nat
      BY <1>1 DEF Balance
    <2>3. CASE transfer_ok(balances, who, id, amount)
      <3>1. balances' = moved(balances, who, id, to, amount)
        BY <2>1, <2>3 DEF transfer_asset, transfer
      <3>2. balances'[a][account_id] = IF a # id \/ who = to THEN balances[a][account_id]
                                       ELSE IF account_id = who THEN balances[a][account_id] - amount
                                       ELSE IF account_id = to THEN balances[a][account_id] + amount
                                       ELSE balances[a][account_id]
        BY <1>1, <2>2, <2>3, <3>1, MovedExactly
      <3>3. balances'[a][account_id] \in Int /\ balances'[a][account_id] >= balances[a][account_id]
        BY <1>1, <2>2, <3>2
      <3> QED
        BY <3>3, BackedStill
    <2>4. CASE ~ transfer_ok(balances, who, id, amount)
      <3>1. balances' = balances
        BY <2>1, <2>4 DEF transfer_asset, transfer
      <3> QED
        BY <1>1, <3>1, BackedStill
    <2> QED
      BY <2>3, <2>4
  <1>5. CASE UNCHANGED balances
    BY <1>1, <1>5, BackedStill
  <1> QED
    BY <1>2, <1>3, <1>4, <1>5 DEF AssetsNext, set_inherent_asset, set_price

\* A pool that is made anew claims no cash.
LEMMA InitPoolBacked ==
  ASSUME IInv, NEW asset \in InitPoolAssets, NEW c \in BOOLEAN, init_pool(asset, c),
         NEW a \in AssetIds, Backed(a)
  PROVE  Backed(a)'
  <1>1. /\ asset \in AssetIds /\ pools \in [AssetIds -> Pool \cup {None}] /\ None \notin Pool
        /\ balances[a][account_id] \in Nat
    BY InvFacts, LendingAssumption DEF Ledgers, Balance
  <1>2. new_pool(c) \in Pool /\ new_pool(c).supply = 0 /\ new_pool(c).debt = 0
    BY NewPool DEF IInv, LendingTypeOK, new_pool, new_pool_at
  <1>3. pools'[a] = (IF a = asset THEN new_pool(c) ELSE pools[a]) /\ UNCHANGED balances
    BY <1>1 DEF init_pool, assets_vars
  <1> QED
    BY <1>1, <1>2, <1>3 DEF Backed

\* Every step but a liquidation.
LEMMA NextBacked ==
  ASSUME IInv, CashIsSound, [Next]_vars, ~ LiquidateNext, NEW a \in GenesisPools, Backed(a)
  PROVE  Backed(a)'
  <1>1. a \in AssetIds /\ interest_fits(pools[a]) /\ totals_fit(a)
    BY LendingAssumption DEF CashIsSound
  <1>2. CASE UserNext
    BY <1>1, <1>2, SupplyBacked, WithdrawBacked, BorrowBacked, RepayBacked DEF UserNext
  <1>3. CASE next_block \/ UNCHANGED vars
    BY <1>3 DEF next_block, vars, lending_vars, assets_vars, Backed
  <1>4. CASE \E asset \in InitPoolAssets, c \in BOOLEAN : init_pool(asset, c)
    BY <1>1, <1>4, InitPoolBacked
  <1>5. CASE AssetsNext /\ UNCHANGED lending_vars
    BY <1>1, <1>5, AssetsBacked DEF lending_vars
  <1> QED
    BY <1>2, <1>3, <1>4, <1>5 DEF Next, EnvNext

\* In every configuration only a liquidation, or a number that does not fit, can leave the
\* pallet's account with less than the pools say is there.
THEOREM CashIsKept ==
    Spec => [][/\ CashIsSound /\ ~ LiquidateNext
               /\ \A asset \in GenesisPools : Backed(asset)
               => \A asset \in GenesisPools : Backed(asset)']_vars
  <1>1. IInv /\ [Next]_vars =>
            [/\ CashIsSound /\ ~ LiquidateNext
             /\ \A asset \in GenesisPools : Backed(asset)
             => \A asset \in GenesisPools : Backed(asset)']_vars
    BY NextBacked
  <1> QED
    BY <1>1, Invariance, PTL DEF Spec

\* Without liquidations, and as long as interest and totals fit and are not rounded up for the
\* suppliers, the pallet's account holds what the pools say is there to withdraw or borrow.
THEOREM CashIsBacked ==
    Liquidators = {} => (Spec /\ []CashIsSound => []CashBacked)
  <1> SUFFICES ASSUME Liquidators = {} PROVE Spec /\ []CashIsSound => []CashBacked
    OBVIOUS
  <1> DEFINE AllBacked == \A asset \in GenesisPools : Backed(asset)
  <1>1. Init => AllBacked
    <2> SUFFICES ASSUME Init, NEW a \in GenesisPools PROVE Backed(a)
      OBVIOUS
    <2>1. IInv /\ a \in AssetIds /\ None \notin Pool
      BY InitEstablishes, LendingAssumption
    <2>2. 0 \in 0..MaxBlock
      BY LendingAssumption
    <2>3. /\ pools[a] = new_pool_at(0, TRUE) /\ new_pool_at(0, TRUE) \in Pool
          /\ new_pool_at(0, TRUE).supply = 0 /\ new_pool_at(0, TRUE).debt = 0
      BY <2>1, <2>2, NewPool DEF Init, new_pool_at
    <2>4. balances[a][account_id] \in Nat
      BY <2>1, InvFacts DEF Ledgers, Balance
    <2>5. pools[a] # None /\ pools[a].supply = 0 /\ pools[a].debt = 0
      BY <2>1, <2>3
    <2> QED
      BY <2>4, <2>5 DEF Backed
  <1>2. IInv /\ CashIsSound /\ AllBacked /\ [Next]_vars => AllBacked'
    <2>1. ~ LiquidateNext
      BY DEF LiquidateNext
    <2> QED
      BY <2>1, NextBacked
  <1>3. AllBacked => CashBacked
    BY DEF Backed, CashBacked
  <1> HIDE DEF AllBacked
  <1> QED
    BY <1>1, <1>2, <1>3, Invariance, PTL DEF Spec

-----------------------------------------------------------------------------
(* Indices only grow. *)

\* A multiplier that does not wrap takes no index down.
LEMMA IndexAtLeast ==
  ASSUME NEW i \in Balance, NEW r \in Outcome, NEW n \in Nat,
         one + fixed_mul(r, saturating_from_integer(n)) <= MaxBalance,
         index_at(i, r, n) \in Balance
  PROVE  index_at(i, r, n) >= i
  <1> DEFINE f == saturating_from_integer(n)
             x == fixed_mul(r, f)
             m == fixed_add(one, x)
  <1>1. /\ f \in Balance /\ f \in Outcome /\ one \in Outcome /\ Panic \notin Balance
        /\ DIV \in Nat \ {0} /\ one = DIV /\ i \in Nat /\ i \in Outcome /\ MaxBalance \in Nat
    BY FromIntegerBounds, WidthAssumption DEF Outcome, one, Balance, Panic
  <1>2. x \in Outcome /\ index_at(i, r, n) = fixed_mul(i, m) /\ one + x <= MaxBalance
    BY <1>1, FixedType DEF index_at
  <1> HIDE DEF f, x
  <1>3. x \in Balance
    <2>1. x = Panic => m = Panic
      BY <1>1, PanicStays
    <2>2. m = Panic => fixed_mul(i, m) = Panic
      BY <1>1, PanicStays
    <2> QED
      BY <1>1, <1>2, <2>1, <2>2 DEF Outcome
  <1>4. x \in Nat
    BY <1>3 DEF Balance
  <1>5. m = DIV + x /\ m \in Balance /\ m \in Nat /\ DIV <= m
    <2>1. DIV + x <= MaxBalance /\ DIV \in Nat
      BY <1>1, <1>2
    <2>2. m = DIV + x
      BY <1>1, <1>4, <2>1, AddExact DEF fixed_add
    <2> QED
      BY <1>1, <1>4, <2>1, <2>2 DEF Balance
  <1> HIDE DEF m
  <1>6. fixed_mul(i, m) = multiply_by_rational[i][m][DIV]
    BY <1>1, <1>2, <1>5, FixedBounds
  <1>7. i * DIV <= i * m
    <2>1. DIV * i <= m * i
      BY <1>1, <1>5, ProductsOrdered
    <2> QED
      BY <1>1, <1>5, <2>1
  <1> QED
    <2>1. \A y \in Nat : y * DIV <= i * m => y <= multiply_by_rational[i][m][DIV]
      BY <1>1, <1>5, RationalBounds
    <2>2. i <= multiply_by_rational[i][m][DIV]
      BY <1>1, <1>7, <2>1
    <2>3. index_at(i, r, n) \in Nat
      BY WidthAssumption DEF Balance
    <2> QED
      BY <1>1, <1>2, <1>6, <2>2, <2>3

\* A user extrinsic stores the accrued pool with its indices, or no pool.
LEMMA UserRestores ==
  ASSUME IInv, UserNext, NEW a \in AssetIds
  PROVE  Restored(a)
  <1>1. PICK who \in Signers, asset \in AssetIds, amount \in Amounts :
           \/ supply(who, asset, amount)
           \/ withdraw(who, asset, amount)
           \/ borrow(who, asset, amount)
           \/ repay(who, asset, amount)
    BY DEF UserNext
  <1>2. /\ amount \in Balance
        /\ user_supplies[asset][who] \in Entry \cup {None}
        /\ user_debts[asset][who] \in Entry \cup {None}
    BY InvFacts DEF Positions
  <1>3. CASE UNCHANGED pools
    BY <1>3 DEF Restored
  <1>4. CASE supply(who, asset, amount)
    <2>1. PICK p \in accrued_pool(asset) :
             pools' = [pools EXCEPT ![asset] = [p EXCEPT !.supply = wrapping_add[@][amount]]]
      BY <1>4 DEF supply, supplied
    <2> QED
      BY <1>2, <2>1, RestoredTotal
  <1>5. CASE withdraw(who, asset, amount) /\ ~ UNCHANGED pools
    <2>1. PICK p \in accrued_pool(asset) :
             \E e \in defined(accrued(user_supplies[asset][who], p.total_supply_index)) :
                 pools' = [pools EXCEPT ![asset] =
                             [p EXCEPT !.supply = wrapping_sub[@][capped(amount, e.amount)]]]
      BY <1>5 DEF withdraw, withdraw_checked, withdrawn, supply_accrued
    <2>2. PICK e \in defined(accrued(user_supplies[asset][who], p.total_supply_index)) :
             pools' = [pools EXCEPT ![asset] =
                         [p EXCEPT !.supply = wrapping_sub[@][capped(amount, e.amount)]]]
      BY <2>1
    <2>3. e \in Entry
      BY <1>2, <1>5, AccruedEntry, AccruedTotals DEF withdraw
    <2>4. capped(amount, e.amount) \in Balance
      BY <1>2, <2>3 DEF capped, Entry
    <2> QED
      BY <2>2, <2>4, RestoredTotal
  <1>6. CASE borrow(who, asset, amount) /\ ~ UNCHANGED pools
    <2>1. PICK p \in accrued_pool(asset) :
             pools' = [pools EXCEPT ![asset] = [p EXCEPT !.debt = wrapping_add[@][amount]]]
      BY <1>6 DEF borrow, borrow_checked, borrowed_from, debt_accrued
    <2> QED
      BY <1>2, <2>1, RestoredTotal
  <1>7. CASE repay(who, asset, amount) /\ ~ UNCHANGED pools
    <2>1. PICK p \in accrued_pool(asset) :
             \E e \in defined(accrued(user_debts[asset][who], p.total_debt_index)) :
                 pools' = [pools EXCEPT ![asset] =
                             [p EXCEPT !.debt = wrapping_sub[@][capped(amount, e.amount)]]]
      BY <1>7 DEF repay, repaid, debt_accrued
    <2>2. PICK e \in defined(accrued(user_debts[asset][who], p.total_debt_index)) :
             pools' = [pools EXCEPT ![asset] =
                         [p EXCEPT !.debt = wrapping_sub[@][capped(amount, e.amount)]]]
      BY <2>1
    <2>3. e \in Entry
      <3>1. p.total_debt_index \in Balance
        BY AccruedTotals DEF Pool
      <3> QED
        BY <1>2, <1>7, <3>1, AccruedEntry DEF repay
    <2>4. capped(amount, e.amount) \in Balance
      BY <1>2, <2>3 DEF capped, Entry
    <2> QED
      BY <2>2, <2>4, RestoredTotal
  <1> QED
    BY <1>1, <1>3, <1>4, <1>5, <1>6, <1>7

\* A liquidation that goes through: `pay`, within the limit and the target's debt, is paid, and
\* `get` is what it buys at the discounted price.
Liquidates(who, target, pay_asset, get_asset, pay, get, pay_pool, get_pool, s_entry, d_entry) ==
    /\ s_entry # None /\ d_entry # None /\ pay <= d_entry.amount
    /\ pay_limit(s_entry, pay_asset, get_asset) \in Balance
    /\ pay <= pay_limit(s_entry, pay_asset, get_asset)
    /\ get = get_amount(pay, pay_asset, get_asset)
    /\ transfer_ok(balances, who, pay_asset, pay)
    /\ liquidated(who, target, pay_asset, get_asset, pay, get, pay_pool, get_pool, s_entry, d_entry,
                  moved(balances, who, pay_asset, account_id, pay))

\* The two ends of liquidate_checked: that, or an error with nothing stored but the accrued
\* entries and, after a payment, the wallets.
LEMMA LiquidateEnds ==
  ASSUME IInv, NEW who \in Signers, NEW target \in Signers,
         NEW pay_asset \in AssetIds, NEW get_asset \in AssetIds, NEW offered \in Amounts,
         NEW get_pool \in Pool, NEW pay_pool \in Pool,
         NEW s_entry \in Entry \cup {None}, NEW d_entry \in Entry \cup {None},
         liquidate_checked(who, target, pay_asset, get_asset, offered, pay_pool, get_pool,
                           s_entry, d_entry)
  PROVE  \/ \E pay \in Balance :
                \E bal \in {balances, transfer(balances, who, pay_asset, account_id, pay)} :
                    liquidate_fails(target, pay_asset, get_asset, s_entry, d_entry, bal)
         \/ \E pay, get \in Balance :
                Liquidates(who, target, pay_asset, get_asset, pay, get, pay_pool, get_pool,
                           s_entry, d_entry)
  <1>1. CASE liquidate_fails(target, pay_asset, get_asset, s_entry, d_entry, balances)
    <2>1. 0 \in Balance
      BY WidthAssumption DEF Balance
    <2> QED
      BY <1>1, <2>1
  <1>2. CASE ~ liquidate_fails(target, pay_asset, get_asset, s_entry, d_entry, balances)
    <2>1. /\ s_entry # None /\ d_entry # None
          /\ \E limit \in value(pay_limit(s_entry, pay_asset, get_asset)) :
                 settle(who, target, pay_asset, get_asset,
                        capped(capped(offered, limit), d_entry.amount),
                        pay_pool, get_pool, s_entry, d_entry)
      BY <1>2 DEF liquidate_checked, value
    <2>2. PICK limit \in value(pay_limit(s_entry, pay_asset, get_asset)) :
             settle(who, target, pay_asset, get_asset,
                    capped(capped(offered, limit), d_entry.amount),
                    pay_pool, get_pool, s_entry, d_entry)
      BY <2>1
    <2> DEFINE pay == capped(capped(offered, limit), d_entry.amount)
               paid == transfer(balances, who, pay_asset, account_id, pay)
    <2>3. s_entry \in Entry /\ d_entry \in Entry /\ offered \in Balance
      BY <2>1, InvFacts
    <2>4. limit \in Balance /\ limit = pay_limit(s_entry, pay_asset, get_asset)
      BY <2>3, LiquidateAmountsType DEF value, Outcome
    <2>5. pay \in Balance /\ pay <= d_entry.amount /\ pay <= limit
      BY <2>3, <2>4 DEF capped, Entry, Balance
    <2> HIDE DEF pay
    <2>6. PICK get \in value(get_amount(pay, pay_asset, get_asset)) :
             IF /\ transfer_ok(balances, who, pay_asset, pay)
                /\ transfer_ok(paid, account_id, get_asset, get)
             THEN liquidated(who, target, pay_asset, get_asset, pay, get, pay_pool, get_pool,
                             s_entry, d_entry, paid)
             ELSE liquidate_fails(target, pay_asset, get_asset, s_entry, d_entry, paid)
      BY <2>2 DEF settle, pay
    <2>7. get = get_amount(pay, pay_asset, get_asset) /\ get \in Balance
      BY <2>5, <2>6, LiquidateAmountsType DEF value, Outcome
    <2>8. CASE liquidate_fails(target, pay_asset, get_asset, s_entry, d_entry, paid)
      BY <2>5, <2>8
    <2>9. CASE /\ transfer_ok(balances, who, pay_asset, pay)
               /\ liquidated(who, target, pay_asset, get_asset, pay, get, pay_pool, get_pool,
                             s_entry, d_entry, paid)
      <3>1. paid = moved(balances, who, pay_asset, account_id, pay)
        BY <2>9 DEF transfer
      <3>2. Liquidates(who, target, pay_asset, get_asset, pay, get, pay_pool, get_pool,
                       s_entry, d_entry)
        BY <2>1, <2>4, <2>5, <2>7, <2>9, <3>1 DEF Liquidates
      <3> QED
        BY <2>5, <2>7, <3>2
    <2> QED
      BY <2>6, <2>8, <2>9
  <1> QED
    BY <1>1, <1>2

\* So does a liquidation, with two pools.
LEMMA LiquidateRestores ==
  ASSUME IInv, LiquidateNext, NEW a \in AssetIds
  PROVE  Restored(a)
  <1>1. PICK who \in Liquidators, target \in Signers, pay_asset \in AssetIds, get_asset \in AssetIds,
             offered \in Amounts : liquidate(who, target, pay_asset, get_asset, offered)
    BY DEF LiquidateNext
  <1>2. PICK get_pool \in accrued_pool(get_asset), pay_pool \in accrued_pool(pay_asset) :
           \E s_entry \in defined(accrued(user_supplies[get_asset][target], get_pool.total_supply_index)),
              d_entry \in defined(accrued(user_debts[pay_asset][target], pay_pool.total_debt_index)) :
               liquidate_checked(who, target, pay_asset, get_asset, offered, pay_pool, get_pool,
                                 s_entry, d_entry)
    BY <1>1 DEF liquidate
  <1>3. PICK s_entry \in defined(accrued(user_supplies[get_asset][target], get_pool.total_supply_index)),
             d_entry \in defined(accrued(user_debts[pay_asset][target], pay_pool.total_debt_index)) :
           liquidate_checked(who, target, pay_asset, get_asset, offered, pay_pool, get_pool,
                             s_entry, d_entry)
    BY <1>2
  <1>4. /\ get_pool \in Pool /\ get_pool.last_updated = block_number
        /\ pay_pool \in Pool /\ pay_pool.last_updated = block_number
        /\ pools \in [AssetIds -> Pool \cup {None}]
    BY AccruedPool, InvFacts DEF IInv
  <1>5. /\ who \in Signers /\ s_entry \in Entry \cup {None} /\ d_entry \in Entry \cup {None}
    <2>1. /\ user_supplies[get_asset][target] \in Entry \cup {None}
          /\ user_debts[pay_asset][target] \in Entry \cup {None}
          /\ get_pool.total_supply_index \in Balance /\ pay_pool.total_debt_index \in Balance
      BY <1>4, InvFacts DEF Positions, Pool
    <2> QED
      BY <2>1, AccruedEntry, LendingAssumption
  <1>6. \/ UNCHANGED pools
        \/ pools' = [[pools EXCEPT ![get_asset] = get_pool] EXCEPT ![pay_asset] = pay_pool]
    <2>1. \/ \E bal : liquidate_fails(target, pay_asset, get_asset, s_entry, d_entry, bal)
          \/ \E pay, get \in Balance :
                 Liquidates(who, target, pay_asset, get_asset, pay, get, pay_pool, get_pool,
                            s_entry, d_entry)
      BY <1>3, <1>4, <1>5, LiquidateEnds
    <2>2. (\E bal : liquidate_fails(target, pay_asset, get_asset, s_entry, d_entry, bal))
              => UNCHANGED pools
      BY DEF liquidate_fails
    <2>3. ASSUME NEW pay \in Balance, NEW get \in Balance,
                 Liquidates(who, target, pay_asset, get_asset, pay, get, pay_pool, get_pool,
                            s_entry, d_entry)
          PROVE  pools' = [[pools EXCEPT ![get_asset] = get_pool] EXCEPT ![pay_asset] = pay_pool]
      BY <2>3 DEF Liquidates, liquidated
    <2> QED
      BY <2>1, <2>2, <2>3
  <1>7. CASE UNCHANGED pools
    BY <1>7 DEF Restored
  <1>8. CASE pools' = [[pools EXCEPT ![get_asset] = get_pool] EXCEPT ![pay_asset] = pay_pool]
    <2>1. pools'[a] = IF a = pay_asset THEN pay_pool
                      ELSE IF a = get_asset THEN get_pool ELSE pools[a]
      BY <1>4, <1>8
    <2> QED
      BY <1>4, <2>1 DEF Restored
  <1> QED
    BY <1>6, <1>7, <1>8

\* The indices in Restored are the accrued ones.
LEMMA RestoredGrows ==
  ASSUME IInv, NEW a \in AssetIds, pools[a] # None, multipliers_fit(pools[a]), Restored(a)
  PROVE  /\ pools'[a].total_supply_index >= pools[a].total_supply_index
         /\ pools'[a].total_debt_index >= pools[a].total_debt_index
  <1>1. /\ pools[a] \in Pool /\ block_number \in 0..MaxBlock /\ MaxBlock \in Nat
        /\ pools[a].last_updated <= block_number
    BY InvFacts, LendingAssumption DEF IInv, LendingTypeOK
  <1> DEFINE n == block_number - pools[a].last_updated
             i == pools[a].total_supply_index
             j == pools[a].total_debt_index
             q == supply_rate_internal(pools[a])
             r == debt_rate_internal(pools[a])
  <1>2. /\ i \in Balance /\ j \in Balance /\ i \in Int /\ j \in Int /\ n \in Nat
        /\ q \in Outcome /\ r \in Outcome
        /\ one + fixed_mul(q, saturating_from_integer(n)) <= MaxBalance
        /\ one + fixed_mul(r, saturating_from_integer(n)) <= MaxBalance
    <2>1. i \in Balance /\ j \in Balance /\ n \in Nat
      BY <1>1 DEF Pool
    <2>2. q \in Outcome /\ r \in Outcome
      BY <1>1, RateType
    <2>3. /\ one + fixed_mul(q, saturating_from_integer(n)) <= MaxBalance
          /\ one + fixed_mul(r, saturating_from_integer(n)) <= MaxBalance
      BY DEF multipliers_fit
    <2> QED
      BY <2>1, <2>2, <2>3, OutcomeIsInt
  <1>3. CASE pools'[a] = pools[a]
    BY <1>2, <1>3
  <1>4. CASE pools'[a] # pools[a]
    <2>1. PICK p \in accrued_pool(a) : /\ pools'[a].total_supply_index = p.total_supply_index
                                       /\ pools'[a].total_debt_index = p.total_debt_index
      BY <1>4 DEF Restored
    <2>2. /\ p = accrue_interest(pools[a])
          /\ p.total_supply_index \in Balance /\ p.total_debt_index \in Balance
      BY AccruedTotals DEF accrued_pool, Pool
    <2>3. CASE pools[a].last_updated = block_number
      BY <1>2, <2>1, <2>2, <2>3 DEF accrue_interest
    <2>4. CASE pools[a].last_updated # block_number
      <3>1. /\ p.total_supply_index = supply_index_now(pools[a])
            /\ p.total_debt_index = debt_index_now(pools[a])
        BY <1>1, <2>2, <2>4 DEF accrue_interest, Pool
      <3>2. p.total_supply_index = index_at(i, q, n) /\ p.total_debt_index = index_at(j, r, n)
        BY <3>1, IndexNow
      <3> HIDE DEF i, j, q, r, n
      <3>3. index_at(i, q, n) >= i
        BY ONLY <1>2, <2>2, <3>2, IndexAtLeast
      <3>4. index_at(j, r, n) >= j
        BY ONLY <1>2, <2>2, <3>2, IndexAtLeast
      <3> QED
        BY <2>1, <3>2, <3>3, <3>4 DEF i, j
    <2> QED
      BY <2>3, <2>4
  <1> QED
    BY <1>3, <1>4

\* Unless pools are re-created, and as long as one + rate * blocks fits in a u128, no call of
\* anybody takes an index of a pool down: no position loses because time passed.
THEOREM IndicesGrow ==
    InitPoolAssets = {} =>
        (Spec /\ [](\A asset \in AssetIds : pools[asset] # None => multipliers_fit(pools[asset]))
            => IndexGrows)
  <1> SUFFICES ASSUME InitPoolAssets = {}
               PROVE  Spec /\ [](\A asset \in AssetIds :
                                     pools[asset] # None => multipliers_fit(pools[asset]))
                          => IndexGrows
    OBVIOUS
  <1>1. ASSUME IInv, [Next]_vars, NEW a \in AssetIds, pools[a] # None, multipliers_fit(pools[a])
        PROVE  /\ pools'[a].total_supply_index >= pools[a].total_supply_index
               /\ pools'[a].total_debt_index >= pools[a].total_debt_index
    <2>1. Restored(a)
      <3>1. CASE UserNext
        BY <1>1, <3>1, UserRestores
      <3>2. CASE LiquidateNext
        BY <1>1, <3>2, LiquidateRestores
      <3>3. CASE UNCHANGED pools
        BY <3>3 DEF Restored
      <3>4. EnvNext \/ UNCHANGED vars => UNCHANGED pools
        BY DEF EnvNext, next_block, lending_vars, vars
      <3> QED
        BY <1>1, <3>1, <3>2, <3>3, <3>4 DEF Next
    <2> QED
      BY <1>1, <2>1, RestoredGrows
  <1>2. /\ IInv /\ [Next]_vars
        /\ \A asset \in AssetIds : pools[asset] # None => multipliers_fit(pools[asset])
        => [\A asset \in AssetIds : pools[asset] # None =>
               /\ pools'[asset].total_supply_index >= pools[asset].total_supply_index
               /\ pools'[asset].total_debt_index >= pools[asset].total_debt_index]_vars
    BY <1>1
  <1> QED
    BY <1>2, Invariance, PTL DEF Spec, IndexGrows

-----------------------------------------------------------------------------
(* What a liquidation seizes is paid for. *)

\* A quotient of fixed point numbers that does not panic.
LEMMA QuotientBounds ==
  ASSUME NEW a \in Outcome, NEW b \in Outcome, fixed_div(a, b) # Panic
  PROVE  /\ a \in Balance /\ b \in Balance \ {0} /\ fixed_div(a, b) \in Balance
         /\ a \in Nat /\ b \in Nat \ {0} /\ fixed_div(a, b) \in Nat
         /\ (2 * MaxBalance) * (fixed_div(a, b) * b) <= (2 * MaxBalance + b) * (a * DIV)
  <1>1. a \in Int /\ b \in Int /\ DIV \in Int /\ DIV \in Nat \ {0} /\ Panic \in Int
    BY OutcomeIsInt, WidthAssumption
  <1>2. checked[Panic] = Panic
    BY DEF checked, Balance, Panic
  <1>3. a # Panic /\ b # Panic /\ b # 0
    <2>1. a = Panic \/ b = Panic \/ b = 0 => multiply_by_rational[a][DIV][b] = Panic
      BY <1>1 DEF multiply_by_rational
    <2> QED
      BY <1>2, <2>1 DEF fixed_div
  <1>4. a \in Balance /\ b \in Balance /\ a \in Nat /\ b \in Nat \ {0}
    BY <1>3 DEF Outcome, Balance
  <1>5. fixed_div(a, b) \in Balance /\ fixed_div(a, b) = multiply_by_rational[a][DIV][b]
    BY <1>3, <1>4, FixedBounds
  <1>6. fixed_div(a, b) \in Nat
    BY <1>5 DEF Balance
  <1>7. (2 * MaxBalance) * (multiply_by_rational[a][DIV][b] * b) <= (2 * MaxBalance + b) * (a * DIV)
    BY <1>1, <1>4, Overshoot
  <1> QED
    BY <1>3, <1>4, <1>5, <1>6, <1>7

\* Three quotients one after the other, each by a divisor that N is at least the double of.
LEMMA ChainedQuotients ==
  ASSUME NEW N \in Nat \ {0}, NEW a \in Nat,
         NEW b1 \in Nat, NEW c1 \in Nat, NEW q1 \in Nat, N * (q1 * c1) <= (N + c1) * (a * b1),
         NEW b2 \in Nat, NEW c2 \in Nat, NEW q2 \in Nat, N * (q2 * c2) <= (N + c2) * (q1 * b2),
         NEW b3 \in Nat, NEW c3 \in Nat, NEW q3 \in Nat, N * (q3 * c3) <= (N + c3) * (q2 * b3),
         c1 + 2 * c2 <= N
  PROVE  N * (c1 * c2 * c3 * q3) <= (N + (c1 + 2 * c2) + 2 * c3) * (a * b1 * b2 * b3)
  <1> DEFINE L1 == a * b1
             K2 == c1 * c2
             L2 == L1 * b2
             X2 == c1 + 2 * c2
  <1>1. L1 \in Nat /\ K2 \in Nat /\ L2 \in Nat /\ X2 \in Nat /\ X2 <= N /\ c1 <= N
    OBVIOUS
  <1>2. N * (c1 * q1) <= (N + c1) * L1
    BY c1 * q1 = q1 * c1
  <1> HIDE DEF L1
  <1>3. N * (c1 * c2 * q2) <= (N + c1 + 2 * c2) * (L1 * b2)
    BY ONLY <1>1, <1>2, OvershootAgain, N * (q2 * c2) <= (N + c2) * (q1 * b2), N \in Nat \ {0},
            c1 \in Nat, c2 \in Nat, q1 \in Nat, q2 \in Nat, b2 \in Nat
  <1>4. N + c1 + 2 * c2 = N + X2
    OBVIOUS
  <1>5. N * (K2 * q2) <= (N + X2) * L2
    BY <1>3, <1>4
  <1> HIDE DEF K2, L2, X2
  <1>6. N * (K2 * c3 * q3) <= (N + X2 + 2 * c3) * (L2 * b3)
    BY ONLY <1>1, <1>5, OvershootAgain, N * (q3 * c3) <= (N + c3) * (q2 * b3), N \in Nat \ {0},
            c3 \in Nat, q2 \in Nat, q3 \in Nat, b3 \in Nat
  <1> QED
    BY <1>6 DEF K2, L2, X2, L1

\* The discount is one or less.
LEMMA DiscountBounds == DiscountFactor \in Outcome /\ (DiscountFactor # Panic => DiscountFactor <= DIV)
  <1> DEFINE q == multiply_by_rational[95][DIV][100]
  <1>1. DIV \in Nat \ {0} /\ DIV \in Int /\ MaxBalance \in Nat /\ DIV <= MaxBalance
    BY WidthAssumption
  <1>2. q \in Nat /\ \A x \in Nat : 95 * DIV <= x * 100 => q <= x
    BY <1>1, RationalBounds
  <1>3. DiscountFactor = saturating[q]
    BY DEF DiscountFactor, saturating_from_rational
  <1> HIDE DEF q
  <1>4. q <= DIV
    BY <1>1, <1>2
  <1> QED
    BY <1>1, <1>2, <1>3, <1>4 DEF saturating, Outcome, Balance

\* What liquidate hands over for a payment is worth, discounted, no more than the payment but for
\* the rounding of three quotients.
LEMMA SeizedWorth ==
  ASSUME IInv, NEW pay_asset \in AssetIds, NEW get_asset \in AssetIds,
         NEW pay \in Balance, NEW get \in Balance, get = get_amount(pay, pay_asset, get_asset)
  PROVE  /\ price[get_asset] \in Nat \ {0} /\ DiscountFactor \in Nat \ {0} /\ DiscountFactor <= DIV
         /\ price[pay_asset] \in Nat
         /\ (2 * MaxBalance) * (price[get_asset] * get * DiscountFactor)
                <= (2 * MaxBalance + (price[get_asset] + 4 * DIV)) * (price[pay_asset] * pay * DIV)
  <1> DEFINE pp == price[pay_asset]
             pg == price[get_asset]
             f == DiscountFactor
             x == fixed_div(pp, pg)
             y == fixed_div(x, f)
             N == 2 * MaxBalance
             D == DIV
  <1>1. /\ pp \in Balance /\ pg \in Balance /\ pp \in Outcome /\ pg \in Outcome
        /\ pay \in Nat /\ get \in Nat /\ D \in Nat \ {0} /\ Panic \notin Balance /\ Panic \in Int
        /\ N \in Nat \ {0} /\ pg + 2 * D <= N
    BY WidthAssumption DEF IInv, LendingTypeOK, AssetsTypeOK, Balance, Outcome, Panic
  <1>2. f \in Outcome /\ (f # Panic => f <= D)
    BY DiscountBounds
  <1>3. get = saturating_mul_int(y, pay)
    BY DEF get_amount
  <1> SUFFICES /\ pg \in Nat \ {0} /\ f \in Nat \ {0} /\ f <= D /\ pp \in Nat
               /\ N * (pg * get * f) <= (N + (pg + 4 * D)) * (pp * pay * D)
    OBVIOUS
  <1> HIDE DEF pp, pg, f
  <1>4. x \in Outcome
    BY <1>1, FixedType
  <1> HIDE DEF x
  <1>5. y \in Outcome
    BY <1>2, <1>4, FixedType
  <1> HIDE DEF y
  <1>6. y # Panic
    <2>1. multiply_by_rational[Panic][pay][DIV] = Panic
      BY <1>1 DEF multiply_by_rational
    <2>2. saturating[Panic] = Panic
      BY <1>1 DEF saturating, Outcome
    <2> QED
      BY <1>1, <1>3, <2>1, <2>2 DEF saturating_mul_int
  <1>7. /\ x \in Balance /\ f \in Balance \ {0} /\ y \in Balance
        /\ x \in Nat /\ f \in Nat \ {0} /\ y \in Nat
        /\ N * (y * f) <= (N + f) * (x * D)
    BY <1>2, <1>4, <1>6, QuotientBounds DEF y
  <1>8. x # Panic /\ f # Panic
    BY <1>1, <1>7
  <1>9. pp \in Nat /\ pg \in Nat \ {0} /\ N * (x * pg) <= (N + pg) * (pp * D)
    BY <1>1, <1>8, QuotientBounds DEF x
  <1> DEFINE m == multiply_by_rational[y][pay][DIV]
  <1>10. get <= m
    BY <1>3, <1>7, FixedBounds
  <1>11. m \in Nat /\ N * (m * D) <= (N + D) * (y * pay)
    BY <1>1, <1>7, Overshoot
  <1> HIDE DEF m
  <1>12. f <= D /\ pg + 2 * f <= N
    BY <1>1, <1>2, <1>7, <1>8, <1>9
  <1> HIDE DEF N, D
  <1>13. N * (pg * f * D * m) <= (N + (pg + 2 * f) + 2 * D) * (pp * D * D * pay)
    BY ONLY <1>1, <1>7, <1>9, <1>11, <1>12, ChainedQuotients
  <1> DEFINE W == pg * get * f
             P == pp * pay * D
             V == pg * f * m
             Y == N + (pg + 2 * f) + 2 * D
             Z == N + (pg + 4 * D)
  <1>14. W \in Nat /\ P \in Nat /\ V \in Nat /\ Y \in Nat /\ Z \in Nat /\ Y <= Z
    BY <1>1, <1>7, <1>9, <1>11, <1>12
  <1>15. W <= V
    <2>1. get * (pg * f) <= m * (pg * f)
      BY <1>1, <1>7, <1>9, <1>10, <1>11, ProductsOrdered
    <2>2. W = get * (pg * f) /\ V = m * (pg * f)
      BY <1>1, <1>7, <1>9, <1>11
    <2> QED
      BY <2>1, <2>2
  <1>16. /\ N * (pg * f * D * m) = (V * N) * D
         /\ Y * (pp * D * D * pay) = (P * Y) * D
    BY <1>1, <1>7, <1>9, <1>11
  <1> HIDE DEF W, P, V, Y, Z
  <1>17. (V * N) * D <= (P * Y) * D
    BY <1>13, <1>16 DEF Y
  <1>18. V * N <= P * Y
    <2>1. V * N \in Nat /\ P * Y \in Nat
      BY <1>1, <1>14
    <2> QED
      BY ONLY <1>1, <1>17, <2>1, ProductsOrdered
  <1>19. W * N <= V * N /\ Y * P <= Z * P
    BY <1>1, <1>14, <1>15, ProductsOrdered
  <1>20. N * W <= Z * P
    <2>1. W * N = N * W /\ Y * P = P * Y /\ W * N \in Nat /\ V * N \in Nat /\ P * Y \in Nat /\ Z * P \in Nat
      BY <1>1, <1>14
    <2> QED
      BY <1>18, <1>19, <2>1
  <1> QED
    BY <1>7, <1>9, <1>12, <1>20 DEF W, P, Z

\* As a worth with a remainder: nothing, or the part of the payment that is left to the rounding.
LEMMA OvershootOfWorth ==
  ASSUME NEW N \in Nat \ {0}, NEW A \in Nat, NEW W \in Nat, NEW P \in Nat, N * W <= (N + A) * P
  PROVE  W <= P + (P * A) \div N
  <1> DEFINE R == P * A
             q == R \div N
  <1>1. R \in Nat /\ N * P \in Nat /\ N * W \in Nat /\ (N + A) * P = N * P + R
    OBVIOUS
  <1> HIDE DEF R
  <1>2. /\ q \in Nat /\ R % N \in Nat /\ q * N \in Nat /\ R = q * N + (R % N) /\ R % N < N
    BY <1>1, Remainder
  <1> HIDE DEF q
  <1>3. ~ (P + q + 1 <= W)
    <2>1. SUFFICES ASSUME P + q + 1 <= W PROVE FALSE
      OBVIOUS
    <2>2. P + q + 1 \in Nat /\ (P + q + 1) * N <= W * N
      BY <1>2, <2>1, ProductsOrdered
    <2>3. (P + q + 1) * N = N * P + q * N + N /\ W * N = N * W
      BY <1>2
    <2>4. N * W <= N * P + R
      BY <1>1
    <2> HIDE DEF R
    <2> QED
      BY ONLY <1>1, <1>2, <2>2, <2>3, <2>4, N \in Nat, P \in Nat, W \in Nat
  <1> QED
    BY <1>2, <1>3 DEF q, R

\* The limit on a payment, and then what it buys, of a supply that is small enough.
LEMMA LimitedQuotients ==
  ASSUME NEW M \in Nat \ {0}, NEW N \in Nat, N = 2 * M, NEW A \in Nat, NEW B \in Nat, NEW G \in Nat \ {0},
         NEW P \in Nat, NEW has \in Nat, NEW get \in Nat,
         N * (G * get) <= (N + A) * P, N * P <= (N + B) * (G * has), has * (A + B) <= M
  PROVE  get <= has
  <1> DEFINE U == N * (G * get)
             V == (N + A) * P
             X == N * P
             Y == (N + B) * (G * has)
             S == (N + A) * (N + B)
  <1>1. U \in Nat /\ V \in Nat /\ X \in Nat /\ Y \in Nat /\ N + A \in Nat /\ N + B \in Nat /\ S \in Nat
    OBVIOUS
  <1>2. U * N <= V * N /\ X * (N + A) <= Y * (N + A)
    BY <1>1, ProductsOrdered
  <1>3. /\ U * N = (N * N * get) * G /\ V * N = X * (N + A) /\ Y * (N + A) = (S * has) * G
    OBVIOUS
  <1>4. N * N * get \in Nat /\ S * has \in Nat /\ N * N \in Nat
    OBVIOUS
  <1>5. N * N * get <= S * has
    <2>1. U * N \in Nat /\ V * N \in Nat /\ Y * (N + A) \in Nat
      OBVIOUS
    <2>2. (N * N * get) * G <= (S * has) * G
      BY <1>2, <1>3, <2>1
    <2> HIDE DEF S
    <2> QED
      BY ONLY <1>4, <2>2, ProductsOrdered, G \in Nat \ {0}
  <1>6. CASE has = 0
    <2>1. S * has = 0
      BY <1>1, <1>6
    <2> DEFINE NN == N * N
    <2>2. NN \in Nat \ {0}
      OBVIOUS
    <2> HIDE DEF NN
    <2>3. NN * get \in Nat /\ (get >= 1 => NN * get >= 1)
      BY <2>2
    <2> QED
      BY <1>5, <1>6, <2>1, <2>3 DEF NN
  <1>7. CASE has >= 1
    <2> DEFINE T == has * (A + B)
               AB == has * A
               R == AB * B
    <2>1. /\ T \in Nat /\ AB \in Nat /\ R \in Nat /\ T = AB + has * B /\ has * B \in Nat
          /\ A + B \in Nat /\ T <= M
      OBVIOUS
    <2>2. A + B <= T
      <3>1. 1 * (A + B) <= has * (A + B)
        BY <1>7, <2>1, ProductsOrdered
      <3> QED
        BY <3>1
    <2>3. AB <= M /\ B <= M
      BY <2>1, <2>2
    <2>4. S * has = (N * N) * has + N * T + R
      OBVIOUS
    <2> HIDE DEF T, AB
    <2>5. R <= M * B /\ B * M <= M * M
      BY <2>1, <2>3, ProductsOrdered
    <2>6. T * N <= M * N
      BY <2>1, ProductsOrdered
    <2>7. /\ M * B \in Nat /\ B * M = M * B /\ M * M \in Nat /\ N * T = T * N /\ N * T \in Nat
          /\ M * N = 2 * (M * M) /\ N * N = 4 * (M * M) /\ (N * N) * has \in Nat /\ M * M >= 1
      BY <2>1
    <2> HIDE DEF R, S
    <2>8. S * has < (N * N) * has + N * N
      BY <2>1, <2>4, <2>5, <2>6, <2>7
    <2>9. ~ (has + 1 <= get)
      <3>1. SUFFICES ASSUME has + 1 <= get PROVE FALSE
        OBVIOUS
      <3>2. (has + 1) * (N * N) <= get * (N * N)
        BY <1>4, <3>1, ProductsOrdered
      <3>3. (has + 1) * (N * N) = (N * N) * has + N * N /\ get * (N * N) = N * N * get
        OBVIOUS
      <3> QED
        BY <1>4, <1>5, <2>7, <2>8, <3>2, <3>3
    <2> QED
      BY <2>9
  <1> QED
    BY <1>6, <1>7

\* What a payment within pay_limit buys is within the supply that the limit is a share of, if the
\* supply times the two prices fits in a u128.
LEMMA SeizedWithin ==
  ASSUME IInv, NEW pay_asset \in AssetIds, NEW get_asset \in AssetIds, NEW s_entry \in Entry,
         NEW pay \in Balance, pay_limit(s_entry, pay_asset, get_asset) \in Balance,
         pay <= pay_limit(s_entry, pay_asset, get_asset),
         NEW get \in Balance, get = get_amount(pay, pay_asset, get_asset),
         s_entry.amount * (price[get_asset] + price[pay_asset] + 8 * one) <= MaxBalance
  PROVE  get <= s_entry.amount
  <1> DEFINE pp == price[pay_asset]
             pg == price[get_asset]
             f == DiscountFactor
             v == fixed_div(pg, pp)
             w == fixed_mul(v, f)
             has == s_entry.amount
             limit == pay_limit(s_entry, pay_asset, get_asset)
             M == MaxBalance
             N == 2 * M
             D == DIV
  <1>1. /\ pp \in Balance /\ pp \in Outcome /\ pg \in Outcome /\ has \in Balance /\ has \in Nat
        /\ pay \in Nat /\ get \in Nat /\ limit \in Nat
        /\ D \in Nat \ {0} /\ Panic \notin Balance /\ Panic \in Int
        /\ M \in Nat \ {0} /\ N \in Nat \ {0} /\ N \in Nat /\ pp + 2 * D <= N
    BY WidthAssumption DEF IInv, LendingTypeOK, AssetsTypeOK, Balance, Outcome, Panic, Entry
  <1>2. /\ pg \in Nat \ {0} /\ f \in Nat \ {0} /\ pp \in Nat
        /\ N * (pg * get * f) <= (N + (pg + 4 * D)) * (pp * pay * D)
    BY SeizedWorth
  <1>3. f \in Outcome
    BY DiscountBounds
  <1>4. limit = saturating_mul_int(w, has)
    BY <1>1, FixedExact DEF pay_limit, CloseFactor
  <1>5. has * (pg + pp + 8 * D) <= M
    BY DEF one
  <1> SUFFICES get <= has
    OBVIOUS
  <1> HIDE DEF pp, pg, f, limit
  <1>6. v \in Outcome
    BY <1>1, FixedType
  <1> HIDE DEF v
  <1>7. w \in Outcome
    BY <1>3, <1>6, FixedType
  <1>8. w # Panic /\ v # Panic
    <2>1. w = Panic => multiply_by_rational[w][has][DIV] = Panic
      BY <1>1 DEF multiply_by_rational
    <2>2. saturating[Panic] = Panic
      BY <1>1 DEF saturating, Outcome
    <2>3. limit # Panic
      BY <1>1 DEF limit, Panic
    <2>4. w # Panic
      BY <1>4, <2>1, <2>2, <2>3 DEF saturating_mul_int
    <2>5. v = Panic => w = Panic
      BY <1>3, PanicStays
    <2> QED
      BY <2>4, <2>5
  <1>9. v \in Balance /\ v \in Nat /\ f \in Balance /\ w \in Balance /\ w \in Nat
    BY <1>2, <1>3, <1>6, <1>7, <1>8 DEF Outcome, Balance, Panic
  <1>10. N * (w * D) <= (N + D) * (v * f)
    <2>1. w = multiply_by_rational[v][f][DIV]
      BY <1>8, <1>9, FixedBounds
    <2>2. N * (multiply_by_rational[v][f][DIV] * D) <= (N + D) * (v * f)
      BY <1>1, <1>2, <1>9, Overshoot
    <2> QED
      BY <2>1, <2>2
  <1> HIDE DEF w
  <1>11. N * (v * pp) <= (N + pp) * (pg * D)
    BY <1>1, <1>8, QuotientBounds DEF v
  <1> DEFINE m == multiply_by_rational[w][has][DIV]
  <1>12. pay <= m /\ m \in Nat /\ N * (m * D) <= (N + D) * (w * has)
    <2>1. limit <= m
      BY <1>1, <1>4, <1>9, FixedBounds
    <2>2. m \in Nat /\ N * (m * D) <= (N + D) * (w * has)
      BY <1>1, <1>9, Overshoot
    <2> HIDE DEF m
    <2> QED
      BY <1>1, <2>1, <2>2 DEF limit
  <1> HIDE DEF m, has, M, D
  <1>13. N = 2 * M
    OBVIOUS
  <1> HIDE DEF N
  <1>14. N * (pp * D * D * m) <= (N + (pp + 2 * D) + 2 * D) * (pg * D * f * has)
    BY ONLY <1>1, <1>2, <1>9, <1>10, <1>11, <1>12, ChainedQuotients
  <1> DEFINE A == pg + 4 * D
             B == pp + 4 * D
             G == pg * f
             P == pp * pay * D
             Q == pp * D * m
  <1>15. /\ A \in Nat /\ B \in Nat /\ G \in Nat /\ G # 0 /\ P \in Nat /\ Q \in Nat
         /\ A + B = pg + pp + 8 * D /\ N + (pp + 2 * D) + 2 * D = N + B
    BY <1>1, <1>2, <1>12
  <1>16. P <= Q
    <2>1. pay * (pp * D) <= m * (pp * D)
      BY <1>1, <1>2, <1>12, ProductsOrdered
    <2>2. P = pay * (pp * D) /\ Q = m * (pp * D)
      BY <1>1, <1>2, <1>12
    <2> QED
      BY <2>1, <2>2
  <1>17. N * (G * get) <= (N + A) * P
    <2>1. pg * get * f = G * get
      BY <1>1, <1>2
    <2> QED
      BY <1>2, <2>1
  <1>18. /\ N * (pp * D * D * m) = (Q * N) * D
         /\ (N + B) * (pg * D * f * has) = ((N + B) * (G * has)) * D
    BY <1>1, <1>2, <1>12
  <1>19. has * (A + B) <= M
    BY <1>5, <1>15
  <1>20. (Q * N) * D <= ((N + B) * (G * has)) * D
    BY <1>14, <1>15, <1>18
  <1> HIDE DEF A, B, G, P, Q
  <1>21. N * P <= (N + B) * (G * has)
    <2>1. Q * N \in Nat /\ (N + B) * (G * has) \in Nat /\ P * N \in Nat /\ N * P = P * N
      BY <1>1, <1>15
    <2>2. Q * N <= (N + B) * (G * has)
      BY ONLY <1>1, <1>20, <2>1, ProductsOrdered
    <2>3. P * N <= Q * N
      BY <1>1, <1>15, <1>16, ProductsOrdered
    <2> QED
      BY <2>1, <2>2, <2>3
  <1> QED
    BY ONLY <1>1, <1>13, <1>15, <1>17, <1>19, <1>21, LimitedQuotients

\* A liquidation that went through, as a movement: the payment leaves the liquidator's wallet and
\* the target's debt, what it buys leaves the target's supply for the liquidator's wallet, to the
\* unit, and nothing else moves.  It is within the supply if that is small enough.
Settles(who, target, pay_asset, get_asset, pay, get) ==
    /\ \A a \in AssetIds, u \in Signers :
           /\ balances'[a][u] = balances[a][u] - (IF a = pay_asset /\ u = who THEN pay ELSE 0)
                                               + (IF a = get_asset /\ u = who THEN get ELSE 0)
           /\ supply_now(a, u)' = IF a = get_asset /\ u = target THEN wrapping_sub[supply_now(a, u)][get]
                                  ELSE supply_now(a, u)
           /\ debt_now(a, u)' = debt_now(a, u) - (IF a = pay_asset /\ u = target THEN pay ELSE 0)
    /\ supply_now(get_asset, target) \in Balance /\ get \in Balance
    /\ price[get_asset] * get * DiscountFactor \in Nat /\ price[pay_asset] * pay * DIV \in Nat
    /\ price[get_asset] \in Nat
    /\ (2 * MaxBalance) * (price[get_asset] * get * DiscountFactor)
           <= (2 * MaxBalance + (price[get_asset] + 4 * DIV)) * (price[pay_asset] * pay * DIV)
    /\ seizure_fits(get_asset, target) => get <= supply_now(get_asset, target)

\* One that failed: nothing but a payment, if any, has moved.
Fails(who, pay_asset, pay) ==
    \A a \in AssetIds, u \in Signers :
        /\ balances'[a][u] = balances[a][u] - (IF a = pay_asset /\ u = who THEN pay ELSE 0)
        /\ supply_now(a, u)' = supply_now(a, u) /\ debt_now(a, u)' = debt_now(a, u)

\* The payment of a liquidation, and what it buys, in the users' wallets.
LEMMA LiquidateWallets ==
  ASSUME IInv, NEW who \in Signers, NEW pay_asset \in AssetIds, NEW get_asset \in AssetIds,
         NEW pay \in Balance, NEW get \in Balance, transfer_ok(balances, who, pay_asset, pay)
  PROVE  LET paid == moved(balances, who, pay_asset, account_id, pay)
         IN  \A a \in AssetIds, u \in Signers :
                 /\ paid[a][u] = balances[a][u] - (IF a = pay_asset /\ u = who THEN pay ELSE 0)
                 /\ transfer_ok(paid, account_id, get_asset, get) =>
                        moved(paid, account_id, get_asset, who, get)[a][u]
                            = balances[a][u] - (IF a = pay_asset /\ u = who THEN pay ELSE 0)
                                             + (IF a = get_asset /\ u = who THEN get ELSE 0)
  <1> DEFINE paid == moved(balances, who, pay_asset, account_id, pay)
             after == moved(paid, account_id, get_asset, who, get)
  <1>1. /\ balances \in Ledgers /\ Bounded(balances) /\ who \in Accounts
        /\ account_id \in Accounts /\ account_id \notin Signers /\ Signers \subseteq Accounts
        /\ pay \in Nat /\ get \in Nat
    BY InvFacts, WidthAssumption DEF Balance
  <1>2. /\ paid \in Ledgers /\ \A i \in AssetIds : Total(paid[i]) = Total(balances[i])
        /\ \A i \in AssetIds, u \in Accounts :
               paid[i][u] = IF i # pay_asset \/ who = account_id THEN balances[i][u]
                            ELSE IF u = who THEN balances[i][u] - pay
                            ELSE IF u = account_id THEN balances[i][u] + pay
                            ELSE balances[i][u]
    BY <1>1, MovedExactly
  <1>3. Bounded(paid)
    BY <1>1, <1>2 DEF Bounded
  <1> HIDE DEF paid
  <1>4. transfer_ok(paid, account_id, get_asset, get) =>
            \A i \in AssetIds, u \in Accounts :
               after[i][u] = IF i # get_asset \/ account_id = who THEN paid[i][u]
                             ELSE IF u = account_id THEN paid[i][u] - get
                             ELSE IF u = who THEN paid[i][u] + get
                             ELSE paid[i][u]
    BY <1>1, <1>2, <1>3, MovedExactly
  <1> HIDE DEF after
  <1>5. \A a \in AssetIds, u \in Accounts : balances[a][u] \in Int /\ paid[a][u] \in Int
    BY <1>1, <1>2, WidthAssumption DEF Ledgers, Balance
  <1>6. \A a \in AssetIds, u \in Signers :
            paid[a][u] = balances[a][u] - (IF a = pay_asset /\ u = who THEN pay ELSE 0)
    BY <1>1, <1>2, <1>5
  <1>7. transfer_ok(paid, account_id, get_asset, get) =>
            \A a \in AssetIds, u \in Signers :
                after[a][u] = paid[a][u] + (IF a = get_asset /\ u = who THEN get ELSE 0)
    BY <1>1, <1>4, <1>5
  <1> QED
    BY <1>6, <1>7 DEF paid, after

\* These are the two outcomes of a liquidation.
LEMMA LiquidateSettles ==
  ASSUME IInv, computable, computable', LiquidateNext
  PROVE  \E who \in Liquidators, target \in Signers, pay_asset, get_asset \in AssetIds :
             \/ \E pay \in Nat : Fails(who, pay_asset, pay)
             \/ \E pay, get \in Nat : Settles(who, target, pay_asset, get_asset, pay, get)
  <1>1. PICK who \in Liquidators, target \in Signers, pay_asset \in AssetIds, get_asset \in AssetIds,
             offered \in Amounts : liquidate(who, target, pay_asset, get_asset, offered)
    BY DEF LiquidateNext
  <1>2. PICK get_pool \in accrued_pool(get_asset), pay_pool \in accrued_pool(pay_asset) :
           \E s_entry \in defined(accrued(user_supplies[get_asset][target], get_pool.total_supply_index)),
              d_entry \in defined(accrued(user_debts[pay_asset][target], pay_pool.total_debt_index)) :
               liquidate_checked(who, target, pay_asset, get_asset, offered, pay_pool, get_pool,
                                 s_entry, d_entry)
    BY <1>1 DEF liquidate
  <1>3. PICK s_entry \in defined(accrued(user_supplies[get_asset][target], get_pool.total_supply_index)),
             d_entry \in defined(accrued(user_debts[pay_asset][target], pay_pool.total_debt_index)) :
           liquidate_checked(who, target, pay_asset, get_asset, offered, pay_pool, get_pool,
                             s_entry, d_entry)
    BY <1>2
  <1>4. /\ get_pool \in Pool /\ pay_pool \in Pool /\ who \in Signers
        /\ target \in Accounts /\ UNCHANGED block_number /\ Signers \subseteq Accounts
        /\ user_supplies \in Positions /\ user_debts \in Positions
        /\ user_supplies[get_asset][target] \in Entry \cup {None}
        /\ user_debts[pay_asset][target] \in Entry \cup {None}
    BY <1>1, AccruedPool, InvFacts, LendingAssumption DEF IInv, Positions, liquidate
  <1>5. /\ pools[get_asset] # None /\ pools[pay_asset] # None
        /\ get_pool.total_supply_index = supply_index_now(pools[get_asset])
        /\ get_pool.total_supply_index \in Balance \ {0}
        /\ pay_pool.total_debt_index = debt_index_now(pools[pay_asset])
        /\ pay_pool.total_debt_index \in Balance \ {0}
    BY AccruedIndex
  <1> DEFINE gi == get_pool.total_supply_index
             pi == pay_pool.total_debt_index
  <1>6. \A b \in AssetIds : Restored(b)
    BY LiquidateRestores
  <1>7. \A a \in AssetIds, u \in Accounts :
            /\ supply_now(a, u) = IF pools[a] = None THEN 0
                                  ELSE worth(user_supplies[a][u], supply_index_now(pools[a]))
            /\ supply_now(a, u)' = IF pools[a] = None THEN 0
                                   ELSE worth(user_supplies'[a][u], supply_index_now(pools[a]))
            /\ debt_now(a, u) = IF pools[a] = None THEN 0
                                ELSE worth(user_debts[a][u], debt_index_now(pools[a]))
            /\ debt_now(a, u)' = IF pools[a] = None THEN 0
                                 ELSE worth(user_debts'[a][u], debt_index_now(pools[a]))
    BY <1>4, <1>6, PositionsNow
  <1>8. /\ worth(s_entry, gi) = supply_now(get_asset, target)
        /\ s_entry \in Entry \cup {None} /\ worth(s_entry, gi) \in Balance
        /\ s_entry # None => s_entry.amount = worth(s_entry, gi)
    <2>1. /\ s_entry \in Entry \cup {None}
          /\ worth(s_entry, gi) = worth(user_supplies[get_asset][target], gi)
          /\ worth(user_supplies[get_asset][target], gi) \in Balance
          /\ s_entry # None => s_entry.amount = worth(s_entry, gi)
      BY <1>3, <1>4, <1>5, AccruedEntry, AccruedWorth
    <2> QED
      BY <1>4, <1>5, <1>7, <2>1
  <1>9. /\ worth(d_entry, pi) = debt_now(pay_asset, target)
        /\ d_entry \in Entry \cup {None} /\ worth(d_entry, pi) \in Balance
        /\ d_entry # None => d_entry.amount = worth(d_entry, pi)
    <2>1. /\ d_entry \in Entry \cup {None}
          /\ worth(d_entry, pi) = worth(user_debts[pay_asset][target], pi)
          /\ worth(user_debts[pay_asset][target], pi) \in Balance
          /\ d_entry # None => d_entry.amount = worth(d_entry, pi)
      BY <1>3, <1>4, <1>5, AccruedEntry, AccruedWorth
    <2> QED
      BY <1>4, <1>5, <1>7, <2>1
  <1>10. \A a \in AssetIds, u \in Signers :
             /\ supply_now(a, u) \in Int /\ debt_now(a, u) \in Int /\ balances[a][u] \in Int
    BY <1>4, PositionType, InvFacts, OutcomeIsInt DEF Ledgers
  <1>11. ASSUME NEW pay \in Balance,
                NEW bal \in {balances, transfer(balances, who, pay_asset, account_id, pay)},
                liquidate_fails(target, pay_asset, get_asset, s_entry, d_entry, bal)
         PROVE  \E n \in Nat : Fails(who, pay_asset, n)
    <2>1. /\ user_supplies' = [user_supplies EXCEPT ![get_asset][target] = s_entry]
          /\ user_debts' = [user_debts EXCEPT ![pay_asset][target] = d_entry]
          /\ balances' = bal
      BY <1>11 DEF liquidate_fails
    <2>2. \A a \in AssetIds, u \in Signers :
              /\ user_supplies'[a][u] = IF a = get_asset /\ u = target THEN s_entry
                                        ELSE user_supplies[a][u]
              /\ user_debts'[a][u] = IF a = pay_asset /\ u = target THEN d_entry
                                     ELSE user_debts[a][u]
      BY <1>4, <2>1 DEF Positions
    <2>3. \A a \in AssetIds, u \in Signers :
              supply_now(a, u)' = supply_now(a, u) /\ debt_now(a, u)' = debt_now(a, u)
      BY <1>4, <1>5, <1>7, <1>8, <1>9, <2>2
    <2>4. \E n \in Nat : \A a \in AssetIds, u \in Signers :
              balances'[a][u] = balances[a][u] - (IF a = pay_asset /\ u = who THEN n ELSE 0)
      <3>1. CASE balances' = balances
        <4>1. \A a \in AssetIds, u \in Signers :
                  balances'[a][u] = balances[a][u] - (IF a = pay_asset /\ u = who THEN 0 ELSE 0)
          BY <1>10, <3>1
        <4> QED
          BY <4>1
      <3>2. CASE balances' # balances
        <4>1. /\ transfer_ok(balances, who, pay_asset, pay)
              /\ balances' = moved(balances, who, pay_asset, account_id, pay)
          BY <2>1, <3>2 DEF transfer
        <4>2. \A a \in AssetIds, u \in Signers :
                  balances'[a][u] = balances[a][u] - (IF a = pay_asset /\ u = who THEN pay ELSE 0)
          BY <1>4, <4>1, LiquidateWallets
        <4>3. pay \in Nat
          BY DEF Balance
        <4> QED
          BY <4>2, <4>3
      <3> QED
        BY <3>1, <3>2
    <2> QED
      BY <2>3, <2>4 DEF Fails
  <1>12. ASSUME NEW pay \in Balance, NEW get \in Balance,
                Liquidates(who, target, pay_asset, get_asset, pay, get, pay_pool, get_pool,
                           s_entry, d_entry)
         PROVE  Settles(who, target, pay_asset, get_asset, pay, get)
    <2>1. /\ s_entry \in Entry /\ s_entry # None /\ d_entry \in Entry /\ d_entry # None
          /\ pay <= worth(d_entry, pi) /\ get = get_amount(pay, pay_asset, get_asset)
          /\ pay_limit(s_entry, pay_asset, get_asset) \in Balance
          /\ pay <= pay_limit(s_entry, pay_asset, get_asset)
      BY <1>8, <1>9, <1>12 DEF Liquidates
    <2>2. PICK s_after \in defined(updated(s_entry, gi, get, FALSE)),
               d_after \in defined(updated(d_entry, pi, pay, FALSE)) :
              /\ user_supplies' = [user_supplies EXCEPT ![get_asset][target] = s_after]
              /\ user_debts' = [user_debts EXCEPT ![pay_asset][target] = d_after]
      BY <1>12 DEF Liquidates, liquidated
    <2>3. \A a \in AssetIds, u \in Signers :
              /\ user_supplies'[a][u] = IF a = get_asset /\ u = target THEN s_after
                                        ELSE user_supplies[a][u]
              /\ user_debts'[a][u] = IF a = pay_asset /\ u = target THEN d_after
                                     ELSE user_debts[a][u]
      BY <1>4, <2>2 DEF Positions
    <2>4. /\ debt_now(pay_asset, target) \in Nat /\ pay <= debt_now(pay_asset, target)
          /\ s_entry.amount = supply_now(get_asset, target) /\ pay \in Int /\ get \in Int
      BY <1>8, <1>9, <2>1 DEF Balance
    <2>5. /\ price[get_asset] \in Nat /\ DiscountFactor \in Nat /\ price[pay_asset] \in Nat
          /\ (2 * MaxBalance) * (price[get_asset] * get * DiscountFactor)
                 <= (2 * MaxBalance + (price[get_asset] + 4 * DIV)) * (price[pay_asset] * pay * DIV)
      BY <2>1, SeizedWorth
    <2>6. seizure_fits(get_asset, target) => get <= supply_now(get_asset, target)
      <3>1. user_debts[pay_asset][target] # None
        BY <1>3, <2>1 DEF defined, accrued
      <3> QED
        BY <2>1, <2>4, <3>1, SeizedWithin DEF seizure_fits
    <2>7. worth(s_after, gi) = wrapping_sub[worth(s_entry, gi)][get]
      BY <1>5, <2>1, <2>2, TakenWraps
    <2>8. worth(d_after, pi) = worth(d_entry, pi) - pay
      BY <1>5, <2>1, <2>2, TakenWorth
    <2>9. \A a \in AssetIds, u \in Signers :
              supply_now(a, u)' = IF a = get_asset /\ u = target THEN wrapping_sub[supply_now(a, u)][get]
                                  ELSE supply_now(a, u)
      BY <1>4, <1>5, <1>7, <1>8, <2>3, <2>7
    <2>10. \A a \in AssetIds, u \in Signers :
              debt_now(a, u)' = debt_now(a, u) - (IF a = pay_asset /\ u = target THEN pay ELSE 0)
      BY <1>4, <1>5, <1>7, <1>9, <1>10, <2>3, <2>4, <2>8
    <2>11. \A a \in AssetIds, u \in Signers :
              balances'[a][u] = balances[a][u] - (IF a = pay_asset /\ u = who THEN pay ELSE 0)
                                               + (IF a = get_asset /\ u = who THEN get ELSE 0)
      <3> DEFINE paid == moved(balances, who, pay_asset, account_id, pay)
      <3>1. /\ transfer_ok(balances, who, pay_asset, pay)
            /\ transfer_ok(paid, account_id, get_asset, get)
            /\ balances' = moved(paid, account_id, get_asset, who, get)
        BY <1>12 DEF Liquidates, liquidated
      <3> QED
        BY <1>4, <3>1, LiquidateWallets
    <2>12. price[get_asset] * get * DiscountFactor \in Nat /\ price[pay_asset] * pay * DIV \in Nat
      <3>1. get \in Nat /\ pay \in Nat /\ DIV \in Nat
        BY WidthAssumption DEF Balance
      <3> QED
        BY <2>5, <3>1
    <2>13. supply_now(get_asset, target) \in Balance
      BY <1>8
    <2> QED
      BY <2>5, <2>6, <2>9, <2>10, <2>11, <2>12, <2>13 DEF Settles
  <1>13. Balance \subseteq Nat
    BY DEF Balance
  <1>14. \/ \E pay \in Balance :
                \E bal \in {balances, transfer(balances, who, pay_asset, account_id, pay)} :
                    liquidate_fails(target, pay_asset, get_asset, s_entry, d_entry, bal)
         \/ \E pay, get \in Balance :
                Liquidates(who, target, pay_asset, get_asset, pay, get, pay_pool, get_pool,
                           s_entry, d_entry)
    BY <1>3, <1>4, <1>8, <1>9, LiquidateEnds
  <1>15. \/ \E pay \in Nat : Fails(who, pay_asset, pay)
         \/ \E pay, get \in Nat : Settles(who, target, pay_asset, get_asset, pay, get)
    BY <1>11, <1>12, <1>13, <1>14
  <1> QED
    BY <1>1, <1>15

\* A supply after it: less than before only by what was bought, and not more if it is small enough.
LEMMA SettledSupply ==
  ASSUME IInv, NEW who, NEW target \in Signers, NEW pay_asset \in AssetIds, NEW get_asset \in AssetIds,
         NEW pay \in Nat, NEW get \in Nat, Settles(who, target, pay_asset, get_asset, pay, get),
         NEW a \in AssetIds, NEW u \in Signers, supply_now(a, u) \in Int
  PROVE  /\ supply_now(a, u)' < supply_now(a, u) =>
                a = get_asset /\ u = target /\ supply_now(a, u)' = supply_now(a, u) - get
         /\ seizure_fits(a, u) =>
                supply_now(a, u)' = supply_now(a, u) - (IF a = get_asset /\ u = target THEN get ELSE 0)
  <1> DEFINE has == supply_now(a, u)
             left == supply_now(a, u)'
  <1>1. left = IF a = get_asset /\ u = target THEN wrapping_sub[has][get] ELSE has
    BY DEF Settles
  <1>2. CASE a # get_asset \/ u # target
    BY <1>1, <1>2
  <1>3. CASE a = get_asset /\ u = target
    <2>1. has \in Balance /\ get \in Balance /\ (seizure_fits(a, u) => get <= has)
      BY <1>3 DEF Settles
    <2>2. left = wrapping_sub[has][get]
      BY <1>1, <1>3
    <2> SUFFICES /\ left < has => left = has - get
                 /\ seizure_fits(a, u) => left = has - get
      BY <1>3
    <2> HIDE DEF has, left
    <2>3. CASE get <= has
      BY <2>1, <2>2, <2>3, SubExact
    <2>4. CASE has < get
      <3>1. wrapping_sub[has][get] = has - get + (MaxBalance + 1)
        BY <2>1, <2>4, SubWrapped
      <3>2. has \in Nat /\ get <= MaxBalance /\ MaxBalance \in Nat
        BY <2>1, WidthAssumption DEF Balance
      <3> QED
        BY <2>1, <2>2, <2>4, <3>1, <3>2
    <2> QED
      BY <2>1, <2>3, <2>4 DEF Balance
  <1> QED
    BY <1>2, <1>3

\* A liquidation that takes supply from a user takes off their debt what it is worth.
LEMMA LiquidatePays ==
  ASSUME IInv, computable, computable', LiquidateNext,
         NEW user \in Signers, NEW get \in AssetIds,
         supply_now(get, user) - supply_now(get, user)' > 0
  PROVE  \E pay \in AssetIds :
             \A paid \in {price[pay] * (debt_now(pay, user) - debt_now(pay, user)') * DIV} :
                 price[get] * (supply_now(get, user) - supply_now(get, user)') * DiscountFactor
                     <= paid + (paid * (price[get] + 4 * one)) \div (2 * MaxBalance)
  <1>1. PICK who \in Liquidators, target \in Signers, pay_asset, get_asset \in AssetIds :
           \/ \E n \in Nat : Fails(who, pay_asset, n)
           \/ \E n, g \in Nat : Settles(who, target, pay_asset, get_asset, n, g)
    BY LiquidateSettles
  <1>2. \A a \in AssetIds : supply_now(a, user) \in Int /\ debt_now(a, user) \in Int
    BY PositionType, InvFacts
  <1>3. supply_now(get, user)' # supply_now(get, user)
    BY <1>2
  <1>4. PICK n \in Nat, g \in Nat : Settles(who, target, pay_asset, get_asset, n, g)
    BY <1>1, <1>3 DEF Fails
  <1>5. supply_now(get, user)' < supply_now(get, user)
    <2>1. /\ supply_now(get, user)' = IF get = get_asset /\ user = target
                                      THEN wrapping_sub[supply_now(get, user)][g]
                                      ELSE supply_now(get, user)
          /\ supply_now(get_asset, target) \in Balance /\ g \in Balance
      BY <1>4 DEF Settles
    <2>2. supply_now(get, user)' \in Int
      BY <1>2, <2>1, WrapStaysInWidth, OutcomeIsInt
    <2> QED
      BY <1>2, <2>2
  <1>6. get = get_asset /\ user = target /\ supply_now(get, user)' = supply_now(get, user) - g
    BY <1>2, <1>4, <1>5, SettledSupply
  <1>7. debt_now(pay_asset, user)' = debt_now(pay_asset, user) - n
    BY <1>4, <1>6 DEF Settles
  <1>8. /\ supply_now(get, user) - supply_now(get, user)' = g
        /\ debt_now(pay_asset, user) - debt_now(pay_asset, user)' = n
    BY <1>2, <1>6, <1>7
  <1> DEFINE N == 2 * MaxBalance
             A == price[get] + 4 * DIV
             W == price[get] * g * DiscountFactor
             P == price[pay_asset] * n * DIV
  <1>9. N \in Nat \ {0} /\ A \in Nat /\ W \in Nat /\ P \in Nat /\ N * W <= (N + A) * P
    <2>1. /\ price[get] \in Nat /\ W \in Nat /\ P \in Nat /\ N * W <= (N + A) * P
      BY <1>4, <1>6 DEF Settles
    <2> QED
      BY <2>1, WidthAssumption
  <1> HIDE DEF N, A, W, P
  <1>10. W <= P + (P * A) \div N
    BY ONLY <1>9, OvershootOfWorth
  <1>11. \A paid \in {price[pay_asset] * (debt_now(pay_asset, user) - debt_now(pay_asset, user)') * DIV} :
             price[get] * (supply_now(get, user) - supply_now(get, user)') * DiscountFactor
                 <= paid + (paid * (price[get] + 4 * one)) \div (2 * MaxBalance)
    BY <1>8, <1>10 DEF N, A, W, P, one
  <1> QED
    BY <1>11

\* Unless pools are re-created, and as long as positions are within a u128, at whatever prices:
\* supply leaves a user for their own wallet or against a debt that falls by its worth at the
\* discounted price, up to the rounding of the exchange rate.  No call, and no liquidation of any
\* pair of assets, takes more.
THEOREM SeizuresArePaidFor == InitPoolAssets = {} => (Spec => SeizureIsPaidFor)
  <1> SUFFICES ASSUME InitPoolAssets = {} PROVE Spec => SeizureIsPaidFor
    OBVIOUS
  <1>1. ASSUME IInv, [Next]_vars, block_number' = block_number, intact, computable',
               NEW user \in Signers, NEW get \in AssetIds,
               NEW lost \in {supply_now(get, user) - supply_now(get, user)'},
               lost > 0, balances'[get][user] - balances[get][user] # lost
        PROVE  \E pay \in AssetIds :
                   \A paid \in {price[pay] * (debt_now(pay, user) - debt_now(pay, user)') * DIV} :
                       price[get] * lost * DiscountFactor
                           <= paid + (paid * (price[get] + 4 * one)) \div (2 * MaxBalance)
    <2>1. /\ supply_now(get, user) \in Int /\ balances[get][user] \in Int
          /\ user \in Accounts /\ computable /\ IInv'
      BY <1>1, PositionType, InvFacts, NextKeeps, OutcomeIsInt DEF intact, Ledgers
    <2>2. supply_now(get, user) - supply_now(get, user)' > 0
      BY <1>1
    <2>3. supply_now(get, user)' # supply_now(get, user)
      BY <2>1, <2>2
    <2>4. ~ UserNext
      <3>1. SUFFICES ASSUME UserNext PROVE FALSE
        OBVIOUS
      <3>2. PICK who \in Signers, a \in AssetIds, n \in Nat : UserMove(who, a, n)
        BY <1>1, <3>1, UserNextMoves
      <3>3. PICK w \in {n, -n}, s \in {n, -n, 0}, d \in {n, -n, 0} :
               (s = 0 \/ w = -s) /\ Moves(who, a, w, s, d)
        BY <3>2 DEF UserMove
      <3>4. a = get /\ who = user
        BY <2>3, <3>3 DEF Moves
      <3>5. /\ supply_now(get, user)' = supply_now(get, user) + s
            /\ balances'[get][user] = balances[get][user] + w
        BY <3>3, <3>4 DEF Moves
      <3> QED
        BY <1>1, <2>1, <2>3, <3>3, <3>5
    <2>5. LiquidateNext
      <3>1. ~ UNCHANGED <<pools, user_supplies, user_debts>>
        BY <1>1, <2>1, <2>3, NothingMoves
      <3>2. ~ EnvNext
        BY <1>1, <3>1 DEF EnvNext, next_block, lending_vars, user_vars, IInv, LendingTypeOK
      <3> QED
        BY <1>1, <2>4, <3>1, <3>2 DEF Next, vars, lending_vars, user_vars
    <2>6. \E pay \in AssetIds :
              \A paid \in {price[pay] * (debt_now(pay, user) - debt_now(pay, user)') * DIV} :
                  price[get] * (supply_now(get, user) - supply_now(get, user)') * DiscountFactor
                      <= paid + (paid * (price[get] + 4 * one)) \div (2 * MaxBalance)
      BY <1>1, <2>1, <2>2, <2>5, LiquidatePays
    <2> QED
      BY <1>1, <2>6
  <1>2. IInv /\ [Next]_vars =>
            [block_number' = block_number /\ intact /\ computable' =>
                \A user \in Signers, get \in AssetIds :
                    \A lost \in {supply_now(get, user) - supply_now(get, user)'} :
                        lost > 0 /\ balances'[get][user] - balances[get][user] # lost =>
                            \E pay \in AssetIds :
                                \A paid \in {price[pay] * (debt_now(pay, user) - debt_now(pay, user)')
                                                 * DIV} :
                                    price[get] * lost * DiscountFactor
                                        <= paid + (paid * (price[get] + 4 * one))
                                                      \div (2 * MaxBalance)]_vars
    BY <1>1
  <1> QED
    BY <1>2, Invariance, PTL DEF Spec, SeizureIsPaidFor

\* Whatever pair of assets, prices and amounts: a liquidation raises no debt and touches nobody
\* but the liquidator and the target; and in every asset that the target's supply of is small
\* enough for its price, it raises no supply either (none goes below zero and wraps) and what
\* the two have together does not grow.
THEOREM LiquidationsCreateNothing ==
    Spec =>
        [][LiquidateNext /\ computable /\ computable' =>
              \E who \in Liquidators, target \in Signers : \A asset \in AssetIds :
                  /\ \A user \in Signers : debt_now(asset, user)' <= debt_now(asset, user)
                  /\ \A user \in Signers \ {who, target} : net(asset, user)' = net(asset, user)
                  /\ seizure_fits(asset, target) =>
                         /\ \A user \in Signers : supply_now(asset, user)' <= supply_now(asset, user)
                         /\ net(asset, who)' + (IF who = target THEN 0 ELSE net(asset, target)')
                                <= net(asset, who) + (IF who = target THEN 0 ELSE net(asset, target))]_vars
  <1>1. ASSUME IInv, LiquidateNext, computable, computable'
        PROVE  \E who \in Liquidators, target \in Signers : \A asset \in AssetIds :
                  /\ \A user \in Signers : debt_now(asset, user)' <= debt_now(asset, user)
                  /\ \A user \in Signers \ {who, target} : net(asset, user)' = net(asset, user)
                  /\ seizure_fits(asset, target) =>
                         /\ \A user \in Signers : supply_now(asset, user)' <= supply_now(asset, user)
                         /\ net(asset, who)' + (IF who = target THEN 0 ELSE net(asset, target)')
                                <= net(asset, who) + (IF who = target THEN 0 ELSE net(asset, target))
    <2>1. PICK who \in Liquidators, target \in Signers, pay_asset, get_asset \in AssetIds :
             \/ \E n \in Nat : Fails(who, pay_asset, n)
             \/ \E n, g \in Nat : Settles(who, target, pay_asset, get_asset, n, g)
      BY <1>1, LiquidateSettles
    <2>2. \A a \in AssetIds, u \in Signers :
              /\ supply_now(a, u) \in Int /\ debt_now(a, u) \in Int /\ balances[a][u] \in Int
              /\ net(a, u) = balances[a][u] + supply_now(a, u) - debt_now(a, u)
              /\ net(a, u)' = balances'[a][u] + supply_now(a, u)' - debt_now(a, u)'
      BY <1>1, PositionType, InvFacts, OutcomeIsInt DEF Ledgers, net
    <2>3. who \in Signers
      BY LendingAssumption
    <2>4. ASSUME NEW n \in Nat, Fails(who, pay_asset, n), NEW asset \in AssetIds
          PROVE  /\ \A user \in Signers : debt_now(asset, user)' <= debt_now(asset, user)
                 /\ \A user \in Signers \ {who, target} : net(asset, user)' = net(asset, user)
                 /\ seizure_fits(asset, target) =>
                        /\ \A user \in Signers : supply_now(asset, user)' <= supply_now(asset, user)
                        /\ net(asset, who)' + (IF who = target THEN 0 ELSE net(asset, target)')
                               <= net(asset, who) + (IF who = target THEN 0 ELSE net(asset, target))
      <3>1. \A user \in Signers :
                net(asset, user)' = net(asset, user) - (IF asset = pay_asset /\ user = who THEN n ELSE 0)
        BY <2>2, <2>4 DEF Fails
      <3>2. \A user \in Signers : net(asset, user) \in Int
        BY <2>2
      <3>3. \A user \in Signers : /\ supply_now(asset, user)' <= supply_now(asset, user)
                                  /\ debt_now(asset, user)' <= debt_now(asset, user)
        BY <2>2, <2>4 DEF Fails
      <3> QED
        BY <2>3, <3>1, <3>2, <3>3
    <2>5. ASSUME NEW n \in Nat, NEW g \in Nat, Settles(who, target, pay_asset, get_asset, n, g),
                 NEW asset \in AssetIds
          PROVE  /\ \A user \in Signers : debt_now(asset, user)' <= debt_now(asset, user)
                 /\ \A user \in Signers \ {who, target} : net(asset, user)' = net(asset, user)
                 /\ seizure_fits(asset, target) =>
                        /\ \A user \in Signers : supply_now(asset, user)' <= supply_now(asset, user)
                        /\ net(asset, who)' + (IF who = target THEN 0 ELSE net(asset, target)')
                               <= net(asset, who) + (IF who = target THEN 0 ELSE net(asset, target))
      <3> DEFINE paid == IF asset = pay_asset THEN n ELSE 0
                 got  == IF asset = get_asset THEN g ELSE 0
      <3>1. paid \in Nat /\ got \in Nat
        OBVIOUS
      <3>2. \A user \in Signers :
                /\ balances'[asset][user] = balances[asset][user] - (IF user = who THEN paid ELSE 0)
                                                                  + (IF user = who THEN got ELSE 0)
                /\ user # target => supply_now(asset, user)' = supply_now(asset, user)
                /\ debt_now(asset, user)' = debt_now(asset, user) - (IF user = target THEN paid ELSE 0)
        BY <2>5 DEF Settles
      <3>3. seizure_fits(asset, target) =>
                \A user \in Signers :
                    supply_now(asset, user)' = supply_now(asset, user) - (IF user = target THEN got ELSE 0)
        <4>1. seizure_fits(asset, target) =>
                  supply_now(asset, target)'
                      = supply_now(asset, target) - (IF asset = get_asset THEN g ELSE 0)
          <5>1. \A user \in Signers : seizure_fits(asset, user) =>
                    supply_now(asset, user)' = supply_now(asset, user)
                                    - (IF asset = get_asset /\ user = target THEN g ELSE 0)
            BY <1>1, <2>2, <2>5, SettledSupply
          <5> QED
            BY <5>1
        <4> QED
          BY <2>2, <3>2, <4>1
      <3> HIDE DEF paid, got
      <3>4. \A user \in Signers : debt_now(asset, user)' <= debt_now(asset, user)
        BY <2>2, <3>1, <3>2
      <3>5. \A user \in Signers \ {who, target} : net(asset, user)' = net(asset, user)
        BY <2>2, <3>1, <3>2
      <3>6. ASSUME seizure_fits(asset, target)
            PROVE  /\ \A user \in Signers : supply_now(asset, user)' <= supply_now(asset, user)
                   /\ \A user \in Signers :
                          /\ net(asset, user) \in Int
                          /\ net(asset, user)' = net(asset, user) + (IF user = who THEN got - paid ELSE 0)
                                                                  - (IF user = target THEN got - paid ELSE 0)
        <4>1. \A user \in Signers :
                  supply_now(asset, user)' = supply_now(asset, user) - (IF user = target THEN got ELSE 0)
          BY <3>3, <3>6
        <4>2. \A user \in Signers : supply_now(asset, user)' <= supply_now(asset, user)
          BY <2>2, <3>1, <4>1
        <4>3. \A user \in Signers :
                  /\ net(asset, user) \in Int
                  /\ net(asset, user)' = net(asset, user) + (IF user = who THEN got - paid ELSE 0)
                                                          - (IF user = target THEN got - paid ELSE 0)
          <5> TAKE user \in Signers
          <5> DEFINE p == IF user = who THEN paid ELSE 0
                     g1 == IF user = who THEN got ELSE 0
                     q == IF user = target THEN paid ELSE 0
                     g2 == IF user = target THEN got ELSE 0
          <5>1. p \in Int /\ g1 \in Int /\ q \in Int /\ g2 \in Int
            BY <3>1
          <5>2. /\ balances'[asset][user] = balances[asset][user] - p + g1
                /\ supply_now(asset, user)' = supply_now(asset, user) - g2
                /\ debt_now(asset, user)' = debt_now(asset, user) - q
            BY <3>2, <4>1
          <5>3. /\ (IF user = who THEN got - paid ELSE 0) = g1 - p
                /\ (IF user = target THEN got - paid ELSE 0) = g2 - q
            BY <3>1
          <5> HIDE DEF p, g1, q, g2
          <5>4. /\ supply_now(asset, user) \in Int /\ debt_now(asset, user) \in Int
                /\ balances[asset][user] \in Int
                /\ net(asset, user) = balances[asset][user] + supply_now(asset, user)
                                           - debt_now(asset, user)
                /\ net(asset, user)' = balances'[asset][user] + supply_now(asset, user)'
                                            - debt_now(asset, user)'
            BY <2>2
          <5> QED
            BY ONLY <5>1, <5>2, <5>3, <5>4
        <4> QED
          BY <4>2, <4>3
      <3> QED
        BY <2>3, <3>1, <3>4, <3>5, <3>6
    <2> QED
      BY <2>1, <2>4, <2>5
  <1>2. IInv /\ [Next]_vars /\ computable /\ computable' =>
        [LiquidateNext =>
              \E who \in Liquidators, target \in Signers : \A asset \in AssetIds :
                  /\ \A user \in Signers : debt_now(asset, user)' <= debt_now(asset, user)
                  /\ \A user \in Signers \ {who, target} : net(asset, user)' = net(asset, user)
                  /\ seizure_fits(asset, target) =>
                         /\ \A user \in Signers : supply_now(asset, user)' <= supply_now(asset, user)
                         /\ net(asset, who)' + (IF who = target THEN 0 ELSE net(asset, target)')
                                <= net(asset, who) + (IF who = target THEN 0 ELSE net(asset, target))]_vars
    BY <1>1
  <1> QED
    BY <1>2, Invariance, PTL DEF Spec

\* Unless pools are re-created, and as long as positions are within a u128, a supply that is small
\* enough for its price grows by what its owner's wallet lost and by nothing else: in particular
\* no liquidation takes more than there is and wraps it.
THEOREM SuppliesArePaidIn == InitPoolAssets = {} => (Spec => SupplyIsPaidIn)
  <1> SUFFICES ASSUME InitPoolAssets = {} PROVE Spec => SupplyIsPaidIn
    OBVIOUS
  <1>1. ASSUME IInv, [Next]_vars, block_number' = block_number, intact, computable',
               NEW user \in Signers, NEW asset \in AssetIds,
               supply_now(asset, user)' > supply_now(asset, user), seizure_fits(asset, user)
        PROVE  balances[asset][user] - balances'[asset][user]
                   = supply_now(asset, user)' - supply_now(asset, user)
    <2>1. /\ supply_now(asset, user) \in Int /\ balances[asset][user] \in Int
          /\ user \in Accounts /\ computable
      BY <1>1, PositionType, InvFacts, OutcomeIsInt DEF intact, Ledgers
    <2>2. supply_now(asset, user)' # supply_now(asset, user)
      BY <1>1, <2>1
    <2>3. CASE UserNext
      <3>1. PICK who \in Signers, a \in AssetIds, n \in Nat : UserMove(who, a, n)
        BY <1>1, <2>3, UserNextMoves
      <3>2. PICK w \in {n, -n}, s \in {n, -n, 0}, d \in {n, -n, 0} :
               (s = 0 \/ w = -s) /\ Moves(who, a, w, s, d)
        BY <3>1 DEF UserMove
      <3>3. a = asset /\ who = user
        BY <2>2, <3>2 DEF Moves
      <3>4. /\ supply_now(asset, user)' = supply_now(asset, user) + s
            /\ balances'[asset][user] = balances[asset][user] + w
        BY <3>2, <3>3 DEF Moves
      <3> QED
        BY <2>1, <2>2, <3>2, <3>4
    <2>4. ~ LiquidateNext
      <3>1. SUFFICES ASSUME LiquidateNext PROVE FALSE
        OBVIOUS
      <3>2. PICK who \in Liquidators, target \in Signers, pay_asset, get_asset \in AssetIds :
               \/ \E n \in Nat : Fails(who, pay_asset, n)
               \/ \E n, g \in Nat : Settles(who, target, pay_asset, get_asset, n, g)
        BY <1>1, <2>1, <3>1, LiquidateSettles
      <3>3. PICK n \in Nat, g \in Nat : Settles(who, target, pay_asset, get_asset, n, g)
        BY <2>2, <3>2 DEF Fails
      <3>4. supply_now(asset, user)'
                = supply_now(asset, user) - (IF asset = get_asset /\ user = target THEN g ELSE 0)
        BY <1>1, <2>1, <3>3, SettledSupply
      <3> QED
        BY <1>1, <2>1, <3>4
    <2>5. UserNext
      <3>1. ~ UNCHANGED <<pools, user_supplies, user_debts>>
        BY <1>1, <2>1, <2>2, NothingMoves
      <3>2. ~ EnvNext
        BY <1>1, <3>1 DEF EnvNext, next_block, lending_vars, user_vars, IInv, LendingTypeOK
      <3> QED
        BY <1>1, <2>4, <3>1, <3>2 DEF Next, vars, lending_vars, user_vars
    <2> QED
      BY <2>3, <2>5
  <1>2. IInv /\ [Next]_vars =>
            [block_number' = block_number /\ intact /\ computable' =>
                \A user \in Signers, asset \in AssetIds :
                    supply_now(asset, user)' > supply_now(asset, user) /\ seizure_fits(asset, user) =>
                        balances[asset][user] - balances'[asset][user]
                            = supply_now(asset, user)' - supply_now(asset, user)]_vars
    BY <1>1
  <1> QED
    BY <1>2, Invariance, PTL DEF Spec, SupplyIsPaidIn

-----------------------------------------------------------------------------
(* get_user_info adds up: its fold over the listed assets is the sum over all positions. *)

\* The terms of a sum that are of a set.
only(t, s) == [a \in AssetIds |-> IF a \in s THEN t[a] ELSE 0]

\* Their sum, from that without one of them.
LEMMA OnlySum ==
  ASSUME NEW t \in [AssetIds -> Balance]
  PROVE  /\ SumOver(AssetIds, only(t, {})) = 0
         /\ \A s : SumOver(AssetIds, only(t, s)) \in Nat
         /\ \A s : \A a \in AssetIds : a \in s =>
                SumOver(AssetIds, only(t, s)) = t[a] + SumOver(AssetIds, only(t, s \ {a}))
  <1>1. IsFiniteSet(AssetIds)
    BY FS_Interval, AssetsAssumption DEF AssetIds
  <1>2. ASSUME NEW s PROVE only(t, s) \in [AssetIds -> Nat] /\ only(t, s) \in [AssetIds -> Int]
    BY WidthAssumption DEF only, Balance
  <1>3. SumOver(AssetIds, only(t, {})) = 0
    <2>1. \A a \in AssetIds : only(t, {})[a] = 0
      BY DEF only
    <2> QED
      BY <1>1, <1>2, <2>1, SumType
  <1>4. ASSUME NEW s PROVE SumOver(AssetIds, only(t, s)) \in Nat
    BY <1>1, <1>2, SumType
  <1>5. ASSUME NEW s, NEW a \in AssetIds, a \in s
        PROVE  SumOver(AssetIds, only(t, s)) = t[a] + SumOver(AssetIds, only(t, s \ {a}))
    <2> DEFINE f == only(t, s \ {a})
               g == only(t, s)
    <2>1. f \in [AssetIds -> Int] /\ g \in [AssetIds -> Int]
      BY <1>2
    <2>2. g = [f EXCEPT ![a] = g[a]] /\ g[a] = t[a] /\ f[a] = 0
      BY <1>5 DEF only
    <2>3. SumOver(AssetIds, f) \in Nat /\ t[a] \in Nat
      BY <1>4, WidthAssumption DEF Balance
    <2> HIDE DEF f, g
    <2>4. SumOver(AssetIds, g) = SumOver(AssetIds, f) + g[a] - f[a]
      BY <1>1, <2>1, <2>2, SumChanged
    <2>5. SumOver(AssetIds, g) = t[a] + SumOver(AssetIds, f)
      BY <2>2, <2>3, <2>4
    <2> QED
      BY <2>5 DEF f, g
  <1> QED
    BY <1>3, <1>4, <1>5

\* The fold of get_user_info over the assets a user lists, as a recursion.
Listed(list) == {a \in AssetIds : list[a] > 0}
ListStep(list, v, sum, s) ==
    IF s = {} THEN 0
    ELSE wrapping_add[IF v[pick(s)] = Panic THEN Panic
                      ELSE (list[pick(s)] * v[pick(s)]) % (MaxBalance + 1)]
                     [sum[s \ {pick(s)}]]
ListSums(list, v, sum) == sum = [s \in SUBSET Listed(list) |-> ListStep(list, v, sum, s)]

\* Its steps, where an asset is listed once: the wrapped sum goes on.
LEMMA ListStepAdds ==
  ASSUME NEW list \in [AssetIds -> Nat], NEW v \in [AssetIds -> Int], NEW t \in [AssetIds -> Balance],
         \A a \in AssetIds : list[a] # 0 => list[a] = 1 /\ v[a] = t[a],
         NEW s \in SUBSET Listed(list), NEW sum,
         s # {} => sum[s \ {pick(s)}]
                       = SumOver(AssetIds, only(t, s \ {pick(s)})) % (MaxBalance + 1)
  PROVE  ListStep(list, v, sum, s) = SumOver(AssetIds, only(t, s)) % (MaxBalance + 1)
  <1>1. MaxBalance \in Nat /\ MaxBalance + 1 \in Nat \ {0} /\ 0 % (MaxBalance + 1) = 0
    BY WidthAssumption
  <1>2. CASE s = {}
    BY <1>1, <1>2, OnlySum DEF ListStep
  <1>3. CASE s # {}
    <2> DEFINE p == pick(s)
               r == SumOver(AssetIds, only(t, s \ {p}))
    <2>1. p \in s /\ p \in AssetIds /\ list[p] = 1 /\ v[p] = t[p]
      BY <1>3 DEF pick, Listed
    <2>2. t[p] \in Balance /\ t[p] \in Nat /\ t[p] # Panic /\ 1 * t[p] = t[p]
      BY <2>1, WidthAssumption DEF Balance, Panic
    <2>3. t[p] % (MaxBalance + 1) = t[p]
      BY <1>1, <2>2 DEF Balance
    <2>4. r \in Nat /\ SumOver(AssetIds, only(t, s)) = t[p] + r
      BY <2>1, OnlySum
    <2>5. ListStep(list, v, sum, s) = wrapping_add[t[p]][sum[s \ {p}]]
      BY <1>3, <2>1, <2>2, <2>3 DEF ListStep
    <2>6. sum[s \ {p}] = r % (MaxBalance + 1)
      BY <1>3
    <2> HIDE DEF p, r
    <2>7. r % (MaxBalance + 1) \in Nat /\ r % (MaxBalance + 1) # Panic
      BY <1>1, <2>4 DEF Panic
    <2>8. wrapping_add[t[p]][r % (MaxBalance + 1)]
              = (t[p] + (r % (MaxBalance + 1))) % (MaxBalance + 1)
      BY <2>2, <2>7 DEF wrapping_add
    <2>9. (t[p] + (r % (MaxBalance + 1))) % (MaxBalance + 1) = (t[p] + r) % (MaxBalance + 1)
      BY <1>1, <2>2, <2>4, WrapOnce
    <2> QED
      BY <2>4, <2>5, <2>6, <2>8, <2>9
  <1> QED
    BY <1>2, <1>3

\* get_user_info's sums are sums: every asset's term once, as long as the sum fits.
LEMMA ListedSum ==
  ASSUME NEW list \in [AssetIds -> Nat], NEW v \in [AssetIds -> Int], NEW t \in [AssetIds -> Balance],
         \A a \in AssetIds : list[a] # 0 => list[a] = 1 /\ v[a] = t[a],
         \A a \in AssetIds : list[a] = 0 => t[a] = 0,
         SumOver(AssetIds, t) <= MaxBalance
  PROVE  listed_sum(list, v) = SumOver(AssetIds, t)
  <1> DEFINE L == Listed(list)
             m == MaxBalance + 1
             sum == CHOOSE g : ListSums(list, v, g)
             h == [s \in SUBSET L |-> SumOver(AssetIds, only(t, s)) % m]
  <1>1. listed_sum(list, v) = sum[L]
    BY DEF listed_sum, MapThenFoldSet, ListSums, ListStep, Listed, pick
  <1>2. IsFiniteSet(L)
    <2>1. IsFiniteSet(AssetIds) /\ L \subseteq AssetIds
      BY FS_Interval, AssetsAssumption DEF AssetIds, Listed
    <2> QED
      BY <2>1, FS_Subset
  <1>3. ListSums(list, v, h)
    <2>1. ASSUME NEW s \in SUBSET L PROVE ListStep(list, v, h, s) = SumOver(AssetIds, only(t, s)) % m
      <3>1. s # {} => h[s \ {pick(s)}] = SumOver(AssetIds, only(t, s \ {pick(s)})) % m
        OBVIOUS
      <3> HIDE DEF h
      <3> QED
        BY <2>1, <3>1, ListStepAdds
    <2> QED
      BY <2>1 DEF ListSums
  <1>4. ListSums(list, v, sum)
    BY <1>3
  <1> HIDE DEF sum
  <1>5. \A s \in SUBSET L : sum[s] = ListStep(list, v, sum, s)
    BY <1>4 DEF ListSums
  <1>6. sum[L] = SumOver(AssetIds, only(t, L)) % m
    <2> DEFINE T == {s \in SUBSET L : sum[s] # SumOver(AssetIds, only(t, s)) % m}
    <2> SUFFICES T = {}
      OBVIOUS
    <2> SUFFICES ASSUME T # {} PROVE FALSE
      OBVIOUS
    <2> HIDE DEF L
    <2>1. PICK s \in T : s # {} => s \ {pick(s)} \notin T
      BY <1>2, SmallestSet
    <2>2. s # {} => sum[s \ {pick(s)}] = SumOver(AssetIds, only(t, s \ {pick(s)})) % m
      BY <2>1
    <2>3. s \in SUBSET Listed(list)
      BY <2>1 DEF L
    <2>4. ListStep(list, v, sum, s) = SumOver(AssetIds, only(t, s)) % m
      BY <2>2, <2>3, ListStepAdds
    <2> QED
      BY <1>5, <2>1, <2>4
  <1>7. only(t, L) = t
    BY WidthAssumption DEF only, Listed
  <1>8. SumOver(AssetIds, t) \in Nat
    BY <1>7, OnlySum
  <1>9. SumOver(AssetIds, t) % m = SumOver(AssetIds, t)
    <2> DEFINE x == SumOver(AssetIds, t)
    <2>1. x \in Nat /\ x <= MaxBalance /\ MaxBalance \in Nat
      BY <1>8, WidthAssumption
    <2> HIDE DEF x
    <2>2. x % (MaxBalance + 1) = x
      BY <2>1
    <2> QED
      BY <2>2 DEF x
  <1> QED
    BY <1>1, <1>6, <1>7, <1>9

-----------------------------------------------------------------------------
(* Health: a covered user stays covered, but for a unit. *)

\* A price times the safe factor is a fixed point number, and nothing is worth nothing.
LEMMA FactorFits ==
  ASSUME NEW p \in Balance
  PROVE  /\ fixed_mul(p, SafeFactor) \in Balance
         /\ saturating_mul_int(fixed_mul(p, SafeFactor), 0) = 0 /\ saturating_mul_int(p, 0) = 0
  <1>1. p \in Nat /\ DIV \in Nat \ {0} /\ DIV <= MaxBalance /\ MaxBalance \in Nat /\ 0 \in Balance
    BY WidthAssumption DEF Balance
  <1>2. SafeFactor \in Nat /\ SafeFactor <= DIV
    <2> DEFINE q == multiply_by_rational[7][DIV][10]
    <2>1. 7 * DIV <= DIV * 10
      BY <1>1
    <2>2. q \in Nat /\ q <= DIV
      BY <1>1, <2>1, RationalBounds
    <2> HIDE DEF q
    <2>3. saturating[q] = q
      BY <1>1, <2>2 DEF saturating, Outcome, Balance
    <2> QED
      BY <2>2, <2>3 DEF SafeFactor, saturating_from_rational, q
  <1>3. fixed_mul(p, SafeFactor) \in Balance
    <2> DEFINE q == multiply_by_rational[p][SafeFactor][DIV]
    <2>1. p * SafeFactor <= p * DIV
      BY <1>1, <1>2
    <2>2. q \in Nat /\ q <= p
      BY <1>1, <1>2, <2>1, RationalBounds
    <2> HIDE DEF q
    <2>3. checked[q] = q /\ q \in Balance
      BY <1>1, <2>2 DEF checked, Balance
    <2> QED
      BY <2>3 DEF fixed_mul, q
  <1>4. ASSUME NEW f \in Balance PROVE saturating_mul_int(f, 0) = 0
    <2>1. f \in Nat /\ f * 0 <= 0 * DIV
      BY <1>1 DEF Balance
    <2>2. multiply_by_rational[f][0][DIV] \in Nat /\ multiply_by_rational[f][0][DIV] <= 0
      BY <1>1, <2>1, RationalBounds
    <2>3. /\ saturating_mul_int(f, 0) \in Balance
          /\ saturating_mul_int(f, 0) <= multiply_by_rational[f][0][DIV]
      BY <1>1, FixedBounds
    <2> QED
      BY <2>2, <2>3 DEF Balance
  <1> QED
    BY <1>3, <1>4

\* The two sums of get_user_info, of all positions and without a width.
collaterals(user) == [a \in AssetIds |-> collateral_value(a, supply_now(a, user))]
dues(user)        == [a \in AssetIds |-> debt_value(a, debt_now(a, user))]
borrowing_power(user) == SumOver(AssetIds, collaterals(user))
owed(user)            == SumOver(AssetIds, dues(user))

\* Every position can be computed, its value is rounded down, and the sums are within a u128.
powers_fit ==
    \A user \in Signers :
        /\ \A a \in AssetIds :
               /\ Panic \notin {supply_now(a, user), debt_now(a, user)}
               /\ rounds_down(fixed_mul(price[a], SafeFactor), supply_now(a, user), DIV)
               /\ rounds_down(price[a], debt_now(a, user), DIV)
        /\ borrowing_power(user) < MaxBalance /\ owed(user) < MaxBalance

\* The values the sums are of.
LEMMA ValuesType ==
  ASSUME IInv, computable, powers_fit, NEW user \in Signers
  PROVE  /\ user \in Accounts /\ IsFiniteSet(AssetIds)
         /\ \A a \in AssetIds :
                /\ price[a] \in Balance /\ fixed_mul(price[a], SafeFactor) \in Balance
                /\ supply_now(a, user) \in Balance /\ debt_now(a, user) \in Balance
         /\ collaterals(user) \in [AssetIds -> Balance] /\ collaterals(user) \in [AssetIds -> Nat]
         /\ dues(user) \in [AssetIds -> Balance] /\ dues(user) \in [AssetIds -> Nat]
         /\ borrowing_power(user) \in Nat /\ owed(user) \in Nat
         /\ \A a \in AssetIds : /\ collaterals(user)[a] <= borrowing_power(user)
                                /\ dues(user)[a] <= owed(user)
  <1>1. user \in Accounts /\ IsFiniteSet(AssetIds)
    BY InvFacts, FS_Interval, AssetsAssumption DEF AssetIds
  <1>2. ASSUME NEW a \in AssetIds
        PROVE  /\ price[a] \in Balance /\ fixed_mul(price[a], SafeFactor) \in Balance
               /\ supply_now(a, user) \in Balance /\ debt_now(a, user) \in Balance
    <2>1. price[a] \in Balance
      BY DEF IInv, LendingTypeOK, AssetsTypeOK
    <2>2. supply_now(a, user) \in Outcome /\ debt_now(a, user) \in Outcome
      BY <1>1, PositionType
    <2>3. supply_now(a, user) # Panic /\ debt_now(a, user) # Panic
      BY DEF powers_fit
    <2> QED
      BY <2>1, <2>2, <2>3, FactorFits DEF Outcome
  <1>3. ASSUME NEW a \in AssetIds
        PROVE  /\ collateral_value(a, supply_now(a, user)) \in Balance
               /\ debt_value(a, debt_now(a, user)) \in Balance
    BY <1>2, FixedBounds DEF collateral_value, debt_value
  <1>4. /\ collaterals(user) \in [AssetIds -> Balance] /\ dues(user) \in [AssetIds -> Balance]
    BY <1>3 DEF collaterals, dues
  <1>5. collaterals(user) \in [AssetIds -> Nat] /\ dues(user) \in [AssetIds -> Nat]
    BY <1>4, WidthAssumption DEF Balance
  <1>6. borrowing_power(user) \in Nat /\ owed(user) \in Nat
    BY <1>1, <1>5, SumType DEF borrowing_power, owed
  <1>7. ASSUME NEW a \in AssetIds
        PROVE  collaterals(user)[a] <= borrowing_power(user) /\ dues(user)[a] <= owed(user)
    BY <1>1, <1>5, SumBounds DEF borrowing_power, owed
  <1> QED
    BY <1>1, <1>2, <1>4, <1>5, <1>6, <1>7

\* get_user_info computes these sums: every position is listed once, and what is not listed is
\* worth nothing.
LEMMA InfoIsSum ==
  ASSUME IInv, computable, powers_fit, NEW user \in Signers
  PROVE  /\ supply_converted(user_supplies, user) = borrowing_power(user)
         /\ debt_balance(user_debts, user) = owed(user)
  <1> DEFINE sl == user_supply_set[user]
             dl == user_debt_set[user]
             sv == [a \in AssetIds |->
                       IF pools[a] = None THEN Panic
                       ELSE collateral_value(a, get_user_supply_with_interest(user_supplies, a, user))]
             dv == [a \in AssetIds |->
                       debt_value(a, get_user_debt_with_interest(user_debts, a, user))]
             st == collaterals(user)
             dt == dues(user)
  <1>1. /\ user \in Accounts /\ st \in [AssetIds -> Balance] /\ dt \in [AssetIds -> Balance]
        /\ \A a \in AssetIds : price[a] \in Balance
        /\ Balance \subseteq Int /\ Panic \in Int
    BY ValuesType, OutcomeIsInt, WidthAssumption DEF Outcome
  <1>2. sl \in [AssetIds -> Nat] /\ dl \in [AssetIds -> Nat]
    BY <1>1 DEF IInv, LendingTypeOK
  <1>3. ASSUME NEW a \in AssetIds
        PROVE  /\ sl[a] <= 1 /\ dl[a] <= 1
               /\ user_supplies[a][user] # None => sl[a] = 1
               /\ user_debts[a][user] # None => dl[a] = 1
               /\ sl[a] > 0 => pools[a] # None
    BY <1>1 DEF IInv, PositionsListed, ListedHasPool
  <1>4. sv \in [AssetIds -> Int] /\ dv \in [AssetIds -> Int]
    <2>1. ASSUME NEW a \in AssetIds PROVE sv[a] = Panic \/ sv[a] = st[a]
      BY DEF collaterals, supply_now
    <2>2. dv = dt
      BY DEF dues, debt_now
    <2>3. \A a \in AssetIds : sv[a] \in Int
      BY <1>1, <2>1
    <2> QED
      BY <1>1, <2>2, <2>3
  <1>5. ASSUME NEW a \in AssetIds
        PROVE  /\ sl[a] # 0 => sl[a] = 1 /\ sv[a] = st[a]
               /\ dl[a] # 0 => dl[a] = 1 /\ dv[a] = dt[a]
    <2>1. sl[a] # 0 => sl[a] = 1 /\ pools[a] # None
      BY <1>2, <1>3
    <2>2. dl[a] # 0 => dl[a] = 1
      <3>1. dl[a] \in Nat /\ dl[a] <= 1
        BY <1>2, <1>3
      <3> QED
        BY <3>1
    <2>3. pools[a] # None => sv[a] = st[a]
      BY DEF collaterals, supply_now
    <2>4. dv[a] = dt[a]
      BY DEF dues, debt_now
    <2> QED
      BY <2>1, <2>2, <2>3, <2>4
  <1>6. ASSUME NEW a \in AssetIds
        PROVE  (sl[a] = 0 => st[a] = 0) /\ (dl[a] = 0 => dt[a] = 0)
    <2>1. sl[a] = 0 => supply_now(a, user) = 0
      BY <1>3 DEF supply_now, get_user_supply_with_interest
    <2>2. dl[a] = 0 => debt_now(a, user) = 0
      BY <1>3 DEF debt_now, get_user_debt_with_interest
    <2>3. collateral_value(a, 0) = 0 /\ debt_value(a, 0) = 0
      BY <1>1, FactorFits DEF collateral_value, debt_value
    <2>4. st[a] = collateral_value(a, supply_now(a, user)) /\ dt[a] = debt_value(a, debt_now(a, user))
      BY DEF collaterals, dues
    <2> QED
      BY <2>1, <2>2, <2>3, <2>4
  <1>7. SumOver(AssetIds, st) <= MaxBalance /\ SumOver(AssetIds, dt) <= MaxBalance
    <2>1. borrowing_power(user) < MaxBalance /\ owed(user) < MaxBalance
      BY DEF powers_fit
    <2>2. borrowing_power(user) \in Nat /\ owed(user) \in Nat
      BY ValuesType
    <2> QED
      BY <2>1, <2>2, WidthAssumption DEF borrowing_power, owed
  <1>8. supply_converted(user_supplies, user) = listed_sum(sl, sv)
    BY DEF supply_converted
  <1>9. debt_balance(user_debts, user) = listed_sum(dl, dv)
    BY DEF debt_balance
  <1> HIDE DEF sl, dl, sv, dv, st, dt
  <1>10. listed_sum(sl, sv) = SumOver(AssetIds, st)
    BY <1>1, <1>2, <1>4, <1>5, <1>6, <1>7, ListedSum
  <1>11. listed_sum(dl, dv) = SumOver(AssetIds, dt)
    BY <1>1, <1>2, <1>4, <1>5, <1>6, <1>7, ListedSum
  <1> QED
    BY <1>8, <1>9, <1>10, <1>11 DEF st, dt, borrowing_power, owed

\* The health check compares the two sums, of values that are within them.
CheckCompares ==
    \A user \in Signers :
        /\ supply_converted(user_supplies, user) = borrowing_power(user)
        /\ debt_balance(user_debts, user) = owed(user)
        /\ borrowing_power(user) \in Nat /\ owed(user) \in Nat
        /\ healthy(user) <=> owed(user) <= borrowing_power(user)
        /\ healthyBut(user, 1) <=> owed(user) <= borrowing_power(user) + 1
        /\ collaterals(user) \in [AssetIds -> Nat] /\ dues(user) \in [AssetIds -> Nat]
        /\ \A a \in AssetIds :
               /\ price[a] \in Balance /\ fixed_mul(price[a], SafeFactor) \in Balance
               /\ supply_now(a, user) \in Balance /\ debt_now(a, user) \in Balance
               /\ collateral_value(a, supply_now(a, user)) <= borrowing_power(user)
               /\ debt_value(a, debt_now(a, user)) <= owed(user)

\* It does so where the sums fit.
LEMMA ChecksCompare ==
  ASSUME IInv, computable, powers_fit
  PROVE  CheckCompares
  <1>1. ASSUME NEW user \in Signers
        PROVE  /\ supply_converted(user_supplies, user) = borrowing_power(user)
               /\ debt_balance(user_debts, user) = owed(user)
               /\ borrowing_power(user) \in Nat /\ owed(user) \in Nat
               /\ healthy(user) <=> owed(user) <= borrowing_power(user)
               /\ healthyBut(user, 1) <=> owed(user) <= borrowing_power(user) + 1
    <2>1. /\ supply_converted(user_supplies, user) = borrowing_power(user)
          /\ debt_balance(user_debts, user) = owed(user)
      BY InfoIsSum
    <2>2. borrowing_power(user) \in Nat /\ owed(user) \in Nat /\ owed(user) < MaxBalance
      BY ValuesType DEF powers_fit
    <2>3. saturating_mul_int(one, owed(user)) = owed(user)
      <3>1. owed(user) \in Balance
        BY <2>2, WidthAssumption DEF Balance
      <3> QED
        BY <3>1, FixedExact
    <2> QED
      BY <2>1, <2>2, <2>3 DEF healthy, healthyBut, covered, LiquidationThreshold
  <1>2. ASSUME NEW user \in Signers
        PROVE  /\ collaterals(user) \in [AssetIds -> Nat] /\ dues(user) \in [AssetIds -> Nat]
               /\ \A a \in AssetIds :
                      /\ price[a] \in Balance /\ fixed_mul(price[a], SafeFactor) \in Balance
                      /\ supply_now(a, user) \in Balance /\ debt_now(a, user) \in Balance
                      /\ collateral_value(a, supply_now(a, user)) <= borrowing_power(user)
                      /\ debt_value(a, debt_now(a, user)) <= owed(user)
    <2>1. \A a \in AssetIds : /\ collaterals(user)[a] = collateral_value(a, supply_now(a, user))
                              /\ dues(user)[a] = debt_value(a, debt_now(a, user))
      BY DEF collaterals, dues
    <2> QED
      BY <2>1, ValuesType
  <1> QED
    BY <1>1, <1>2 DEF CheckCompares

\* A call that changes one position of a user changes the user's sums by that position's values.
LEMMA SumsAfter ==
  ASSUME CheckCompares, CheckCompares', UNCHANGED price, NEW user \in Signers, NEW asset \in AssetIds,
         \A a \in AssetIds : a # asset => /\ supply_now(a, user)' = supply_now(a, user)
                                          /\ debt_now(a, user)' = debt_now(a, user)
  PROVE  /\ borrowing_power(user)' = borrowing_power(user)
                + collateral_value(asset, supply_now(asset, user)')
                - collateral_value(asset, supply_now(asset, user))
         /\ owed(user)' = owed(user) + debt_value(asset, debt_now(asset, user)')
                                     - debt_value(asset, debt_now(asset, user))
  <1> DEFINE f == collaterals(user)
             g == collaterals(user)'
             i == dues(user)
             j == dues(user)'
  <1>1. /\ f \in [AssetIds -> Int] /\ g \in [AssetIds -> Int]
        /\ i \in [AssetIds -> Int] /\ j \in [AssetIds -> Int]
    BY DEF CheckCompares
  <1>2. /\ f = [a \in AssetIds |-> collateral_value(a, supply_now(a, user))]
        /\ g = [a \in AssetIds |-> collateral_value(a, supply_now(a, user)')]
        /\ i = [a \in AssetIds |-> debt_value(a, debt_now(a, user))]
        /\ j = [a \in AssetIds |-> debt_value(a, debt_now(a, user)')]
    BY DEF collaterals, dues, collateral_value, debt_value
  <1>3. borrowing_power(user) = SumOver(AssetIds, f) /\ borrowing_power(user)' = SumOver(AssetIds, g)
    BY DEF borrowing_power
  <1>4. owed(user) = SumOver(AssetIds, i) /\ owed(user)' = SumOver(AssetIds, j)
    BY DEF owed
  <1>5. IsFiniteSet(AssetIds)
    BY FS_Interval, AssetsAssumption DEF AssetIds
  <1> HIDE DEF f, g, i, j
  <1>6. g = [f EXCEPT ![asset] = g[asset]] /\ j = [i EXCEPT ![asset] = j[asset]]
    BY <1>2
  <1>7. SumOver(AssetIds, g) = SumOver(AssetIds, f) + g[asset] - f[asset]
    BY <1>1, <1>5, <1>6, SumChanged
  <1>8. SumOver(AssetIds, j) = SumOver(AssetIds, i) + j[asset] - i[asset]
    BY <1>1, <1>5, <1>6, SumChanged
  <1> QED
    BY <1>2, <1>3, <1>4, <1>7, <1>8

\* A position's values before a call and after it are rounded down and below the width.
LEMMA ValuesAround ==
  ASSUME CheckCompares, CheckCompares', powers_fit, powers_fit', UNCHANGED price,
         NEW user \in Signers, NEW asset \in AssetIds
  PROVE  /\ price[asset] \in Balance /\ fixed_mul(price[asset], SafeFactor) \in Balance
         /\ supply_now(asset, user) \in Balance /\ supply_now(asset, user)' \in Balance
         /\ debt_now(asset, user) \in Balance /\ debt_now(asset, user)' \in Balance
         /\ borrowing_power(user) \in Nat /\ borrowing_power(user)' \in Nat
         /\ owed(user) \in Nat /\ owed(user)' \in Nat /\ owed(user)' < MaxBalance
         /\ \A x \in {supply_now(asset, user), supply_now(asset, user)'} :
                /\ rounds_down(fixed_mul(price[asset], SafeFactor), x, DIV)
                /\ collateral_value(asset, x) < MaxBalance
         /\ \A x \in {debt_now(asset, user), debt_now(asset, user)'} :
                rounds_down(price[asset], x, DIV) /\ debt_value(asset, x) < MaxBalance
         /\ collateral_value(asset, supply_now(asset, user)) <= borrowing_power(user)
         /\ borrowing_power(user) < MaxBalance
  <1>1. /\ borrowing_power(user) \in Nat /\ borrowing_power(user)' \in Nat
        /\ owed(user) \in Nat /\ owed(user)' \in Nat
        /\ price[asset] \in Balance /\ fixed_mul(price[asset], SafeFactor) \in Balance
        /\ supply_now(asset, user) \in Balance /\ supply_now(asset, user)' \in Balance
        /\ debt_now(asset, user) \in Balance /\ debt_now(asset, user)' \in Balance
    BY DEF CheckCompares
  <1>2. /\ borrowing_power(user) < MaxBalance /\ borrowing_power(user)' < MaxBalance
        /\ owed(user) < MaxBalance /\ owed(user)' < MaxBalance
    BY DEF powers_fit
  <1>3. /\ rounds_down(fixed_mul(price[asset], SafeFactor), supply_now(asset, user), DIV)
        /\ rounds_down(fixed_mul(price[asset], SafeFactor), supply_now(asset, user)', DIV)
        /\ rounds_down(price[asset], debt_now(asset, user), DIV)
        /\ rounds_down(price[asset], debt_now(asset, user)', DIV)
    BY DEF powers_fit
  <1>4. /\ collateral_value(asset, supply_now(asset, user)) <= borrowing_power(user)
        /\ collateral_value(asset, supply_now(asset, user)') <= borrowing_power(user)'
        /\ debt_value(asset, debt_now(asset, user)) <= owed(user)
        /\ debt_value(asset, debt_now(asset, user)') <= owed(user)'
    BY DEF CheckCompares, collateral_value, debt_value
  <1>5. ASSUME NEW x \in Balance
        PROVE  collateral_value(asset, x) \in Balance /\ debt_value(asset, x) \in Balance
    BY <1>1, FixedBounds DEF collateral_value, debt_value
  <1>6. /\ collateral_value(asset, supply_now(asset, user)) < MaxBalance
        /\ collateral_value(asset, supply_now(asset, user)') < MaxBalance
    BY <1>1, <1>2, <1>4, <1>5, WidthAssumption DEF Balance
  <1>7. /\ debt_value(asset, debt_now(asset, user)) < MaxBalance
        /\ debt_value(asset, debt_now(asset, user)') < MaxBalance
    BY <1>1, <1>2, <1>4, <1>5, WidthAssumption DEF Balance
  <1> QED
    BY <1>1, <1>2, <1>3, <1>4, <1>6, <1>7

\* A user extrinsic leaves a covered user covered, or one unit short.
LEMMA MoveKeepsHealth ==
  ASSUME CheckCompares, CheckCompares', powers_fit, powers_fit', UNCHANGED price,
         NEW who \in Signers, NEW asset \in AssetIds, NEW n \in Nat, UserMove(who, asset, n),
         NEW user \in Signers, owed(user) <= borrowing_power(user)
  PROVE  owed(user)' <= borrowing_power(user)' + 1
  <1> DEFINE F == fixed_mul(price[asset], SafeFactor)
             P == price[asset]
             s == supply_now(asset, user)
             t == supply_now(asset, user)'
             d == debt_now(asset, user)
             e == debt_now(asset, user)'
             cv(x) == collateral_value(asset, x)
             dv(x) == debt_value(asset, x)
             B == borrowing_power(user)
             C == borrowing_power(user)'
             O == owed(user)
             Q == owed(user)'
  <1>1. /\ P \in Balance /\ F \in Balance /\ s \in Balance /\ t \in Balance
        /\ d \in Balance /\ e \in Balance /\ B \in Nat /\ C \in Nat /\ O \in Nat /\ Q \in Nat
        /\ Q < MaxBalance /\ cv(s) <= B /\ B < MaxBalance
    BY ValuesAround
  <1>2. /\ \A x \in {s, t} : rounds_down(F, x, DIV) /\ cv(x) < MaxBalance
        /\ \A x \in {d, e} : rounds_down(P, x, DIV) /\ dv(x) < MaxBalance
    BY ValuesAround
  <1>3. \A x : cv(x) = saturating_mul_int(F, x) /\ dv(x) = saturating_mul_int(P, x)
    BY DEF collateral_value, debt_value
  <1>4. \A a \in AssetIds : a # asset => /\ supply_now(a, user)' = supply_now(a, user)
                                         /\ debt_now(a, user)' = debt_now(a, user)
    BY DEF UserMove, Moves
  <1>5. C = B + cv(t) - cv(s) /\ Q = O + dv(e) - dv(d)
    BY <1>4, SumsAfter
  <1>6. user # who => t = s /\ e = d
    BY DEF UserMove, Moves
  <1>7. user = who =>
            \/ t = s + n /\ e = d + 0
            \/ t = s + (-n) /\ e = d + 0 /\ MayWithdraw(user, asset, n)
            \/ t = s + 0 /\ e = d + n /\ MayBorrow(user, asset, n)
            \/ t = s + 0 /\ e = d + (-n)
    BY DEF UserMove, Moves
  <1>8. /\ supply_converted(user_supplies, user) = B
        /\ debt_balance(user_debts, user) = O
    BY DEF CheckCompares
  <1>9. MayWithdraw(user, asset, n) <=> covered(O, wrapping_sub[B][cv(n)])
    BY <1>8 DEF MayWithdraw
  <1>10. MayBorrow(user, asset, n) <=> covered(wrapping_add[O][dv(n)], B)
    BY <1>8 DEF MayBorrow
  <1>11. O <= B /\ MaxBalance \in Nat
    BY WidthAssumption
  <1> SUFFICES Q <= C + 1
    OBVIOUS
  <1> HIDE DEF F, P, s, t, d, e, cv, dv, B, C, O, Q
  <1>12. /\ s \in Nat /\ t \in Nat /\ d \in Nat /\ e \in Nat
         /\ s <= MaxBalance /\ t <= MaxBalance /\ d <= MaxBalance /\ e <= MaxBalance
    BY <1>1, <1>11 DEF Balance
  <1>13. ASSUME NEW x \in Balance
         PROVE  cv(x) \in Balance /\ cv(x) \in Nat /\ dv(x) \in Balance /\ dv(x) \in Nat
    <2>1. saturating_mul_int(F, x) \in Balance /\ saturating_mul_int(P, x) \in Balance
      BY <1>1, <1>13, FixedBounds
    <2> QED
      BY <1>3, <1>11, <2>1 DEF Balance
  <1>14. cv(s) \in Nat /\ cv(t) \in Nat /\ dv(d) \in Nat /\ dv(e) \in Nat
    BY <1>1, <1>13
  <1>15. CASE t = s /\ e = d
    BY <1>1, <1>5, <1>11, <1>14, <1>15
  <1>16. CASE t = s + n /\ e = d
    <2>1. n \in Balance /\ s + n \in Balance
      BY <1>1, <1>11, <1>12, <1>16 DEF Balance
    <2>2. rounds_down(F, s + n, DIV) /\ saturating_mul_int(F, s + n) < MaxBalance
      BY <1>2, <1>3, <1>16
    <2>3. /\ saturating_mul_int(F, n) \in Nat
          /\ saturating_mul_int(F, s) + saturating_mul_int(F, n) <= saturating_mul_int(F, s + n)
      BY <1>1, <2>1, <2>2, ValueSplits
    <2>4. cv(t) >= cv(s)
      BY <1>3, <1>14, <1>16, <2>3
    <2> QED
      BY <1>1, <1>5, <1>11, <1>14, <1>16, <2>4
  <1>17. CASE t = s + (-n) /\ e = d /\ MayWithdraw(user, asset, n)
    <2>1. n \in Balance /\ t + n = s /\ t + n \in Balance
      BY <1>1, <1>11, <1>12, <1>17 DEF Balance
    <2>2. rounds_down(F, t + n, DIV) /\ saturating_mul_int(F, t + n) < MaxBalance
      BY <1>2, <1>3, <2>1
    <2>3. /\ saturating_mul_int(F, t) + saturating_mul_int(F, n) <= saturating_mul_int(F, t + n)
          /\ saturating_mul_int(F, t + n) <= saturating_mul_int(F, t) + saturating_mul_int(F, n) + 1
      BY <1>1, <2>1, <2>2, ValueSplits
    <2>4. cv(t) + cv(n) <= cv(s) /\ cv(s) <= cv(t) + cv(n) + 1
      BY <1>3, <2>1, <2>3
    <2>5. cv(n) \in Nat /\ cv(n) <= B /\ cv(n) \in Balance /\ B \in Balance
      BY <1>1, <1>11, <1>13, <1>14, <2>1, <2>4 DEF Balance
    <2>6. wrapping_sub[B][cv(n)] = B - cv(n)
      BY <2>5, SubExact
    <2>7. saturating_mul_int(one, O) = O
      <3>1. O \in Balance
        BY <1>1, <1>11 DEF Balance
      <3> QED
        BY <3>1, FixedExact
    <2>8. O <= B - cv(n)
      BY <1>9, <1>17, <2>6, <2>7 DEF covered, LiquidationThreshold
    <2> QED
      BY <1>1, <1>5, <1>14, <1>17, <2>4, <2>5, <2>8
  <1>18. CASE t = s /\ e = d + n /\ MayBorrow(user, asset, n)
    <2>1. n \in Balance /\ d + n \in Balance
      BY <1>1, <1>11, <1>12, <1>18 DEF Balance
    <2>2. rounds_down(P, d + n, DIV) /\ saturating_mul_int(P, d + n) < MaxBalance
      BY <1>2, <1>3, <1>18
    <2>3. /\ saturating_mul_int(P, d) + saturating_mul_int(P, n) <= saturating_mul_int(P, d + n)
          /\ saturating_mul_int(P, d + n) <= saturating_mul_int(P, d) + saturating_mul_int(P, n) + 1
      BY <1>1, <2>1, <2>2, ValueSplits
    <2>4. dv(d) + dv(n) <= dv(e) /\ dv(e) <= dv(d) + dv(n) + 1
      BY <1>3, <1>18, <2>3
    <2>5. dv(n) \in Nat /\ dv(n) \in Balance
      BY <1>13, <2>1
    <2>6. O + dv(n) <= Q /\ O + dv(n) <= MaxBalance
      BY <1>1, <1>5, <1>11, <1>14, <2>4, <2>5
    <2>7. O \in Balance
      BY <1>1, <1>11 DEF Balance
    <2>8. wrapping_add[O][dv(n)] = O + dv(n) /\ O + dv(n) \in Balance
      BY <1>1, <1>11, <2>5, <2>6, <2>7, AddExact DEF Balance
    <2>9. saturating_mul_int(one, O + dv(n)) = O + dv(n)
      BY <2>8, FixedExact
    <2>10. O + dv(n) <= B
      BY <1>10, <1>18, <2>8, <2>9 DEF covered, LiquidationThreshold
    <2> QED
      BY <1>1, <1>5, <1>14, <1>18, <2>4, <2>5, <2>10
  <1>19. CASE t = s /\ e = d + (-n)
    <2>1. n \in Balance /\ e + n = d /\ e + n \in Balance
      BY <1>1, <1>11, <1>12, <1>19 DEF Balance
    <2>2. rounds_down(P, e + n, DIV) /\ saturating_mul_int(P, e + n) < MaxBalance
      BY <1>2, <1>3, <2>1
    <2>3. /\ saturating_mul_int(P, n) \in Nat
          /\ saturating_mul_int(P, e) + saturating_mul_int(P, n) <= saturating_mul_int(P, e + n)
      BY <1>1, <2>1, <2>2, ValueSplits
    <2>4. dv(e) <= dv(d)
      BY <1>3, <1>14, <2>1, <2>3
    <2> QED
      BY <1>1, <1>5, <1>11, <1>14, <1>19, <2>4
  <1>20. s + 0 = s /\ d + 0 = d
    BY <1>12
  <1> QED
    BY <1>6, <1>7, <1>15, <1>16, <1>17, <1>18, <1>19, <1>20

\* A user none of whose positions changes is as covered as before.
LEMMA SameHealth ==
  ASSUME CheckCompares, CheckCompares', UNCHANGED price, NEW user \in Signers,
         \A a \in AssetIds : /\ supply_now(a, user)' = supply_now(a, user)
                             /\ debt_now(a, user)' = debt_now(a, user)
  PROVE  borrowing_power(user)' = borrowing_power(user) /\ owed(user)' = owed(user)
  <1>1. 0 \in AssetIds
    BY AssetsAssumption DEF AssetIds
  <1>2. /\ supply_now(0, user)' = supply_now(0, user) /\ debt_now(0, user)' = debt_now(0, user)
        /\ supply_now(0, user) \in Balance /\ debt_now(0, user) \in Balance
        /\ price[0] \in Balance /\ fixed_mul(price[0], SafeFactor) \in Balance
        /\ borrowing_power(user) \in Nat /\ owed(user) \in Nat
    BY <1>1 DEF CheckCompares
  <1>3. collateral_value(0, supply_now(0, user)) \in Int /\ debt_value(0, debt_now(0, user)) \in Int
    BY <1>2, FixedBounds, OutcomeIsInt DEF collateral_value, debt_value
  <1>4. /\ borrowing_power(user)' = borrowing_power(user)
               + collateral_value(0, supply_now(0, user)') - collateral_value(0, supply_now(0, user))
        /\ owed(user)' = owed(user) + debt_value(0, debt_now(0, user)') - debt_value(0, debt_now(0, user))
    BY <1>1, SumsAfter
  <1> QED
    BY <1>2, <1>3, <1>4

\* Unless pools are re-created, and as long as positions and their values are within a u128 and
\* rounded down: at constant prices, in one block, no call of anybody takes a covered user to more
\* than one unit below the threshold, however many assets the check of get_user_info adds up.
THEOREM HealthIsKept ==
    InitPoolAssets = {} => (Spec /\ [](computable => intact /\ powers_fit) => HealthKept)
  <1> SUFFICES ASSUME InitPoolAssets = {}
               PROVE  Spec /\ [](computable => intact /\ powers_fit) => HealthKept
    OBVIOUS
  <1>1. IInv /\ computable /\ powers_fit => CheckCompares
    BY ChecksCompare
  <1>2. ASSUME IInv, [Next]_vars, block_number' = block_number, price' = price,
               intact, intact', powers_fit, powers_fit', CheckCompares, CheckCompares',
               NEW user \in Signers, healthy(user)
        PROVE  healthyBut(user, 1)'
    <2>1. computable /\ computable' /\ user \in Accounts /\ UNCHANGED price /\ UNCHANGED block_number
      BY <1>2, InvFacts DEF intact
    <2>2. /\ owed(user) <= borrowing_power(user)
          /\ borrowing_power(user) \in Nat /\ owed(user) \in Nat
      BY <1>2 DEF CheckCompares
    <2> SUFFICES owed(user)' <= borrowing_power(user)' + 1
      BY <1>2 DEF CheckCompares
    <2>3. CASE UserNext
      <3>1. PICK who \in Signers, asset \in AssetIds, n \in Nat : UserMove(who, asset, n)
        BY <1>2, <2>1, <2>3, UserNextMoves
      <3> QED
        BY <1>2, <2>1, <2>2, <3>1, MoveKeepsHealth
    <2>4. CASE \A a \in AssetIds : /\ supply_now(a, user)' = supply_now(a, user)
                                   /\ debt_now(a, user)' = debt_now(a, user)
      <3>1. borrowing_power(user)' = borrowing_power(user) /\ owed(user)' = owed(user)
        BY <1>2, <2>1, <2>4, SameHealth
      <3> QED
        BY <2>2, <3>1
    <2>5. CASE LiquidateNext
      BY <1>2, <2>4, <2>5, LiquidateSeizes
    <2>6. CASE UNCHANGED <<pools, user_supplies, user_debts>>
      BY <1>2, <2>1, <2>4, <2>6, NothingMoves
    <2>7. CASE EnvNext
      <3>1. ~ next_block
        BY <1>2 DEF next_block, IInv, LendingTypeOK
      <3>2. UNCHANGED <<pools, user_supplies, user_debts>>
        BY <1>2, <2>7, <3>1 DEF EnvNext, lending_vars, user_vars
      <3> QED
        BY <2>6, <3>2
    <2> QED
      BY <1>2, <2>3, <2>5, <2>6, <2>7 DEF Next, vars, lending_vars, user_vars
  <1> DEFINE Fit == IInv /\ (computable => intact /\ powers_fit /\ CheckCompares)
  <1>3. Fit /\ Fit' /\ [Next]_vars =>
            [block_number' = block_number /\ price' = price /\ computable /\ computable' =>
                \A user \in Signers : healthy(user) => healthyBut(user, 1)']_vars
    BY <1>2
  <1>4. Spec /\ [](computable => intact /\ powers_fit) => []Fit
    BY <1>1, Invariance, PTL
  <1> HIDE DEF Fit
  <1>5. Spec /\ [](computable => intact /\ powers_fit) =>
            [][block_number' = block_number /\ price' = price /\ computable /\ computable' =>
                  \A user \in Signers : healthy(user) => healthyBut(user, 1)']_vars
    BY <1>3, <1>4, PTL DEF Spec
  <1> QED
    BY <1>5, PTL DEF HealthKept
=============================================================================
