----------------------------- MODULE SwapProofs -----------------------------
(***************************************************************************)
(* For every width, every set of accounts and assets, and every sequence   *)
(* of calls: the exchange keeps its storage well formed, makes and loses   *)
(* no units, takes them from no holder but its caller, gives away no value *)
(* by rounding or overflow in a trade with an exact input, pays what it    *)
(* quoted, and does not dilute its providers.                              *)
(***************************************************************************)
EXTENDS Swap, AssetsProofs

-----------------------------------------------------------------------------
(* What a transfer does to the reserves, which are on accounts nobody has a key of. *)

Reserves == Accounts \ Signers

\* Somebody pays a pool.
LEMMA PaidIn ==
  ASSUME NEW bal \in Ledgers, Bounded(bal), NEW who \in Signers, NEW id \in AssetIds,
         NEW pool \in Reserves, NEW amount \in Balance
  PROVE  LET ok == transfer_ok(bal, who, id, amount)
             after == transfer(bal, who, id, pool, amount)
         IN  /\ Handed(bal, after, who) /\ after \in Ledgers /\ Bounded(after)
             /\ ok => bal[id][pool] + amount <= MaxBalance
             /\ \A i \in AssetIds, x \in Reserves :
                    after[i][x] = IF i = id /\ x = pool /\ ok THEN bal[i][x] + amount ELSE bal[i][x]
  <1> DEFINE after == transfer(bal, who, id, pool, amount)
  <1>1. who \in Accounts /\ pool \in Accounts /\ who # pool
    BY AssetsAssumption DEF Reserves
  <1>2. Handed(bal, after, who)
    BY <1>1, TransferHands
  <1>3. after \in Ledgers /\ Bounded(after)
    BY <1>2, HandedBounded
  <1>4. CASE transfer_ok(bal, who, id, amount)
    <2>1. \A i \in AssetIds, a \in Accounts :
              after[i][a] = IF i # id THEN bal[i][a]
                            ELSE IF a = who THEN bal[i][a] - amount
                            ELSE IF a = pool THEN bal[i][a] + amount
                            ELSE bal[i][a]
      BY <1>1, <1>4, MovedExactly DEF transfer
    <2> HIDE DEF after
    <2>2. \A i \in AssetIds, x \in Reserves :
              after[i][x] = IF i = id /\ x = pool THEN bal[i][x] + amount ELSE bal[i][x]
      BY <2>1 DEF Reserves
    <2>3. after[id][pool] = bal[id][pool] + amount /\ after[id][pool] \in Balance
      BY <1>1, <1>3, <2>2 DEF Ledgers
    <2>4. bal[id][pool] + amount <= MaxBalance
      BY <2>3, WidthAssumption DEF Balance
    <2> QED
      BY <1>2, <1>3, <1>4, <2>2, <2>4 DEF after
  <1>5. CASE ~ transfer_ok(bal, who, id, amount)
    <2>1. after = bal
      BY <1>5 DEF transfer
    <2> QED
      BY <1>2, <1>3, <1>5, <2>1
  <1> QED
    BY <1>4, <1>5

\* A pool pays somebody.
LEMMA PaidOut ==
  ASSUME NEW bal \in Ledgers, Bounded(bal), NEW who \in Signers, NEW to \in Signers, NEW id \in AssetIds,
         NEW pool \in Reserves, NEW amount \in Balance
  PROVE  LET ok == transfer_ok(bal, pool, id, amount)
             after == transfer(bal, pool, id, to, amount)
         IN  /\ Handed(bal, after, who) /\ after \in Ledgers /\ Bounded(after)
             /\ \A i \in AssetIds, x \in Reserves :
                    after[i][x] = IF i = id /\ x = pool /\ ok THEN bal[i][x] - amount ELSE bal[i][x]
  <1> DEFINE after == transfer(bal, pool, id, to, amount)
  <1>1. to \in Accounts /\ pool \in Accounts /\ to # pool /\ pool \notin Signers
    BY AssetsAssumption DEF Reserves
  <1>2. Handed(bal, after, who)
    BY <1>1, TransferHands
  <1>3. after \in Ledgers /\ Bounded(after)
    BY <1>2, HandedBounded
  <1>4. CASE transfer_ok(bal, pool, id, amount)
    <2>1. \A i \in AssetIds, a \in Accounts :
              after[i][a] = IF i # id THEN bal[i][a]
                            ELSE IF a = pool THEN bal[i][a] - amount
                            ELSE IF a = to THEN bal[i][a] + amount
                            ELSE bal[i][a]
      BY <1>1, <1>4, MovedExactly DEF transfer
    <2> HIDE DEF after
    <2>2. \A i \in AssetIds, x \in Reserves :
              after[i][x] = IF i = id /\ x = pool THEN bal[i][x] - amount ELSE bal[i][x]
      BY <2>1 DEF Reserves
    <2> QED
      BY <1>2, <1>3, <1>4, <2>2 DEF after
  <1>5. CASE ~ transfer_ok(bal, pool, id, amount)
    <2>1. after = bal
      BY <1>5 DEF transfer
    <2> QED
      BY <1>2, <1>3, <1>5, <2>1
  <1> QED
    BY <1>4, <1>5

\* A pool pays another, or itself.
LEMMA PaidAcross ==
  ASSUME NEW bal \in Ledgers, Bounded(bal), NEW who \in Signers,
         NEW to \in Reserves, NEW id \in AssetIds,
         NEW pool \in Reserves, NEW amount \in Balance
  PROVE  LET ok == transfer_ok(bal, pool, id, amount) /\ to # pool
             after == transfer(bal, pool, id, to, amount)
         IN  /\ Handed(bal, after, who) /\ after \in Ledgers /\ Bounded(after)
             /\ ok => bal[id][to] + amount <= MaxBalance
             /\ \A i \in AssetIds, x \in Reserves :
                    after[i][x] = IF i = id /\ x = pool /\ ok THEN bal[i][x] - amount
                                  ELSE IF i = id /\ x = to /\ ok THEN bal[i][x] + amount
                                  ELSE bal[i][x]
  <1> DEFINE after == transfer(bal, pool, id, to, amount)
  <1>1. to \in Accounts /\ pool \in Accounts /\ pool \notin Signers
    BY AssetsAssumption DEF Reserves
  <1>2. Handed(bal, after, who)
    BY <1>1, TransferHands
  <1>3. after \in Ledgers /\ Bounded(after)
    BY <1>2, HandedBounded
  <1>4. CASE transfer_ok(bal, pool, id, amount)
    <2>1. \A i \in AssetIds, a \in Accounts :
              after[i][a] = IF i # id \/ pool = to THEN bal[i][a]
                            ELSE IF a = pool THEN bal[i][a] - amount
                            ELSE IF a = to THEN bal[i][a] + amount
                            ELSE bal[i][a]
      BY <1>1, <1>4, MovedExactly DEF transfer
    <2> HIDE DEF after
    <2>2. \A i \in AssetIds, x \in Reserves :
              after[i][x] = IF i = id /\ x = pool /\ to # pool THEN bal[i][x] - amount
                            ELSE IF i = id /\ x = to /\ to # pool THEN bal[i][x] + amount
                            ELSE bal[i][x]
      BY <2>1 DEF Reserves
    <2>3. to # pool => after[id][to] = bal[id][to] + amount /\ after[id][to] \in Balance
      BY <1>1, <1>3, <2>2 DEF Ledgers
    <2>4. to # pool => bal[id][to] + amount <= MaxBalance
      BY <2>3, WidthAssumption DEF Balance
    <2> QED
      BY <1>2, <1>3, <1>4, <2>2, <2>4 DEF after
  <1>5. CASE ~ transfer_ok(bal, pool, id, amount)
    <2>1. after = bal
      BY <1>5 DEF transfer
    <2> QED
      BY <1>2, <1>3, <1>5, <2>1
  <1> QED
    BY <1>4, <1>5
-----------------------------------------------------------------------------
(* The invariant, and the amounts computed from it. *)

SwapInv == SwapTypeOK /\ LedgerInv

\* The state in the vocabulary of the lemmas: a pool's account is nobody's.
LEMMA SwapFacts ==
  ASSUME SwapInv
  PROVE  /\ balances \in Ledgers /\ Bounded(balances)
         /\ inherent_asset_id \in AssetIds
         /\ \A id \in AssetIds : /\ get_exchange_address(id) \in Reserves
                                 /\ inherent_reserve(id) \in Balance
                                 /\ paired_reserve(id) \in Balance
                                 /\ total_liquidity[id] \in Balance
         /\ \A id \in AssetIds, a \in Accounts : account_liquidity[id][a] \in Balance
         /\ Signers \subseteq Accounts
  <1>1. /\ balances \in Ledgers /\ Bounded(balances) /\ inherent_asset_id \in AssetIds
        /\ total_liquidity \in [AssetIds -> Balance]
        /\ account_liquidity \in [AssetIds -> [Accounts -> Balance]]
    BY LedgerFacts DEF SwapInv, SwapTypeOK, AssetsTypeOK
  <1>2. Signers \subseteq Accounts
    BY AssetsAssumption
  <1>3. \A id \in AssetIds : get_exchange_address(id) \in Reserves
    BY <1>1, SwapAssumption DEF get_exchange_address, Reserves
  <1>4. \A id \in AssetIds : inherent_reserve(id) \in Balance /\ paired_reserve(id) \in Balance
    BY <1>1, <1>3 DEF inherent_reserve, paired_reserve, Reserves, Ledgers
  <1> QED
    BY <1>1, <1>2, <1>3, <1>4

\* calc_output_at_known_input yields a u128 or panics.
LEMMA OutputType ==
  ASSUME NEW amount \in Outcome, NEW in \in Outcome, NEW out \in Outcome
  PROVE  calc_output_at_known_input(amount, in, out) \in Outcome
  BY WrappingAddType, MulDivFacts DEF calc_output_at_known_input

\* ... and so does calc_input_at_known_output.
LEMMA InputType ==
  ASSUME NEW amount \in Outcome, NEW in \in Outcome, NEW out \in Outcome
  PROVE  calc_input_at_known_output(amount, in, out) \in Outcome
  BY WidthAssumption DEF calc_input_at_known_output, Outcome, Balance

\* Every amount a swap computes is a u128 or a panic.
LEMMA SwapAmounts ==
  ASSUME SwapInv, NEW id \in AssetIds, NEW amount \in Outcome
  PROVE  /\ calc_paired_asset_output_amount(id, amount) \in Outcome
         /\ calc_inherent_asset_output_amount(id, amount) \in Outcome
         /\ calc_inherent_asset_input_amount(id, amount) \in Outcome
         /\ calc_paired_asset_input_amount(id, amount) \in Outcome
  <1>1. inherent_reserve(id) \in Outcome /\ paired_reserve(id) \in Outcome
    BY SwapFacts DEF Outcome
  <1> QED
    BY <1>1, OutputType, InputType
    DEF calc_paired_asset_output_amount, calc_inherent_asset_output_amount,
        calc_inherent_asset_input_amount, calc_paired_asset_input_amount

-----------------------------------------------------------------------------
(* Swaps: what they do to the ledger, and to the reserves. *)

\* What a route through one pool and one through two do to the reserves of every pool: the
\* transfers that do not go through move 0.
OnePoolMoves(id_in, amount_in, pool, id_out, amount_out) ==
    \E got \in {0, amount_in}, gave \in {0, amount_out} :
        /\ balances[id_in][pool] + got <= MaxBalance
        /\ \A i \in AssetIds, x \in Reserves :
               balances'[i][x] = balances[i][x]
                                 + (IF i = id_in /\ x = pool THEN got ELSE 0)
                                 - (IF i = id_out /\ x = pool THEN gave ELSE 0)

TwoPoolsMove(a, amount_a, pool_a, q, b, amount_b, pool_b) ==
    \E got \in {0, amount_a}, passed \in {0, q}, gave \in {0, amount_b} :
        /\ balances[a][pool_a] + got <= MaxBalance
        /\ balances[inherent_asset_id][pool_b] + passed <= MaxBalance
        /\ pool_a = pool_b => passed = 0
        /\ \A i \in AssetIds, x \in Reserves :
               balances'[i][x] = balances[i][x]
                   + (IF i = a /\ x = pool_a THEN got ELSE 0)
                   - (IF i = inherent_asset_id /\ x = pool_a THEN passed ELSE 0)
                   + (IF i = inherent_asset_id /\ x = pool_b THEN passed ELSE 0)
                   - (IF i = b /\ x = pool_b THEN gave ELSE 0)

\* What one pool does: it is paid, or not, and it pays, or not.
LEMMA ThroughPool ==
  ASSUME SwapInv, NEW who \in Signers, NEW to \in Signers,
         NEW id_in \in AssetIds, NEW id_out \in AssetIds, NEW pool \in Reserves,
         NEW amount_in \in Outcome, NEW amount_out \in Outcome,
         through(who, id_in, amount_in, pool, id_out, amount_out, to)
  PROVE  /\ Handed(balances, balances', who)
         /\ amount_in \in Balance /\ amount_out \in Balance
         /\ OnePoolMoves(id_in, amount_in, pool, id_out, amount_out)
  <1> DEFINE mid  == transfer(balances, who, id_in, pool, amount_in)
             paid_in  == transfer_ok(balances, who, id_in, amount_in)
             paid_out == transfer_ok(mid, pool, id_out, amount_out)
             got  == IF paid_in THEN amount_in ELSE 0
             gave == IF paid_out THEN amount_out ELSE 0
  <1>1. amount_in \in Balance /\ amount_out \in Balance
    BY DEF through, Outcome
  <1>2. balances' = transfer(mid, pool, id_out, to, amount_out)
    BY DEF through
  <1>3. /\ Handed(balances, mid, who) /\ mid \in Ledgers /\ Bounded(mid)
        /\ paid_in => balances[id_in][pool] + amount_in <= MaxBalance
        /\ \A i \in AssetIds, x \in Reserves :
               mid[i][x] = IF i = id_in /\ x = pool /\ paid_in THEN balances[i][x] + amount_in
                           ELSE balances[i][x]
    <2>1. balances \in Ledgers /\ Bounded(balances)
      BY SwapFacts
    <2> QED
      BY ONLY <1>1, <2>1, PaidIn, who \in Signers, pool \in Reserves, id_in \in AssetIds
  <1> HIDE DEF mid, paid_in
  <1>4. /\ Handed(mid, balances', who)
        /\ \A i \in AssetIds, x \in Reserves :
               balances'[i][x] = IF i = id_out /\ x = pool /\ paid_out THEN mid[i][x] - amount_out
                                 ELSE mid[i][x]
    <2>1. mid \in Ledgers /\ Bounded(mid)
      BY <1>3
    <2> QED
      BY ONLY <1>1, <1>2, <2>1, PaidOut,
              who \in Signers, to \in Signers, pool \in Reserves, id_out \in AssetIds
  <1> HIDE DEF paid_out
  <1>5. Handed(balances, balances', who)
    BY <1>3, <1>4, SwapFacts, HandedOn
  <1>6. ASSUME NEW i \in AssetIds, NEW x \in Reserves
        PROVE  balances'[i][x] = balances[i][x]
                                 + (IF i = id_in /\ x = pool THEN got ELSE 0)
                                 - (IF i = id_out /\ x = pool THEN gave ELSE 0)
    <2>1. balances[i][x] \in Int /\ amount_in \in Int /\ amount_out \in Int
      BY <1>1, SwapFacts, OutcomeIsInt DEF Ledgers, Reserves
    <2> QED
      BY <1>3, <1>4, <2>1
  <1>7. /\ got \in {0, amount_in} /\ gave \in {0, amount_out}
        /\ balances[id_in][pool] + got <= MaxBalance
    <2>1. balances[id_in][pool] \in Balance
      BY SwapFacts DEF Ledgers, Reserves
    <2> QED
      BY <1>1, <1>3, <2>1, WidthAssumption DEF Balance
  <1> HIDE DEF got, gave
  <1> QED
    BY <1>1, <1>5, <1>6, <1>7 DEF OnePoolMoves

\* What two pools do: the first is paid, it pays the second, and that one pays.
LEMMA ThroughPools ==
  ASSUME SwapInv, NEW who \in Signers, NEW to \in Signers, NEW a \in AssetIds, NEW b \in AssetIds,
         NEW amount_a \in Outcome, NEW q \in Outcome, NEW amount_b \in Outcome,
         a # inherent_asset_id,
         through_both(who, a, amount_a, q, b, amount_b, to)
  PROVE  LET pool_a == get_exchange_address(a)
             pool_b == get_exchange_address(b)
         IN  /\ Handed(balances, balances', who)
             /\ amount_a \in Balance /\ q \in Balance /\ amount_b \in Balance
             /\ TwoPoolsMove(a, amount_a, pool_a, q, b, amount_b, pool_b)
  <1> DEFINE pool_a == get_exchange_address(a)
             pool_b == get_exchange_address(b)
             h      == inherent_asset_id
             first  == transfer(balances, who, a, pool_a, amount_a)
             second == transfer(first, pool_a, h, pool_b, q)
             paid_in  == transfer_ok(balances, who, a, amount_a)
             across   == transfer_ok(first, pool_a, h, q) /\ pool_b # pool_a
             paid_out == transfer_ok(second, pool_b, b, amount_b)
             got    == IF paid_in THEN amount_a ELSE 0
             passed == IF across THEN q ELSE 0
             gave   == IF paid_out THEN amount_b ELSE 0
  <1>1. amount_a \in Balance /\ q \in Balance /\ amount_b \in Balance
    BY DEF through_both, Outcome
  <1>2. balances' = transfer(second, pool_b, b, to, amount_b)
    BY DEF through_both
  <1>3. pool_a \in Reserves /\ pool_b \in Reserves /\ h \in AssetIds /\ h # a
    BY SwapFacts
  <1> HIDE DEF pool_a, pool_b, h
  <1>4. /\ Handed(balances, first, who) /\ first \in Ledgers /\ Bounded(first)
        /\ paid_in => balances[a][pool_a] + amount_a <= MaxBalance
        /\ \A i \in AssetIds, x \in Reserves :
               first[i][x] = IF i = a /\ x = pool_a /\ paid_in THEN balances[i][x] + amount_a
                             ELSE balances[i][x]
    <2>1. balances \in Ledgers /\ Bounded(balances)
      BY SwapFacts
    <2> QED
      BY ONLY <1>1, <1>3, <2>1, PaidIn, who \in Signers, a \in AssetIds
  <1> HIDE DEF first, paid_in
  <1>5. /\ Handed(first, second, who) /\ second \in Ledgers /\ Bounded(second)
        /\ across => first[h][pool_b] + q <= MaxBalance
        /\ \A i \in AssetIds, x \in Reserves :
               second[i][x] = IF i = h /\ x = pool_a /\ across THEN first[i][x] - q
                              ELSE IF i = h /\ x = pool_b /\ across THEN first[i][x] + q
                              ELSE first[i][x]
    <2>1. first \in Ledgers /\ Bounded(first)
      BY <1>4
    <2> QED
      BY ONLY <1>1, <1>3, <2>1, PaidAcross, who \in Signers
  <1>6. across => pool_a # pool_b
    OBVIOUS
  <1> HIDE DEF second, across
  <1>8. /\ Handed(second, balances', who)
        /\ \A i \in AssetIds, x \in Reserves :
               balances'[i][x] = IF i = b /\ x = pool_b /\ paid_out THEN second[i][x] - amount_b
                                 ELSE second[i][x]
    <2>1. second \in Ledgers /\ Bounded(second)
      BY <1>5
    <2> QED
      BY ONLY <1>1, <1>2, <1>3, <2>1, PaidOut, who \in Signers, to \in Signers, b \in AssetIds
  <1> HIDE DEF paid_out
  <1>10. Handed(balances, balances', who)
    BY <1>4, <1>5, <1>8, SwapFacts, HandedOn
  <1>11. /\ got \in {0, amount_a} /\ passed \in {0, q} /\ gave \in {0, amount_b}
         /\ balances[a][pool_a] + got <= MaxBalance
         /\ balances[h][pool_b] + passed <= MaxBalance
         /\ pool_a = pool_b => passed = 0
    <2>1. balances[a][pool_a] \in Balance /\ balances[h][pool_b] \in Balance
      BY <1>3, SwapFacts DEF Ledgers, Reserves
    <2>2. first[h][pool_b] = balances[h][pool_b]
      BY <1>3, <1>4
    <2> QED
      BY <1>1, <1>4, <1>5, <1>6, <2>1, <2>2, WidthAssumption DEF Balance
  <1>12. ASSUME NEW i \in AssetIds, NEW x \in Reserves
        PROVE  balances'[i][x] = balances[i][x]
                   + (IF i = a /\ x = pool_a THEN got ELSE 0)
                   - (IF i = h /\ x = pool_a THEN passed ELSE 0)
                   + (IF i = h /\ x = pool_b THEN passed ELSE 0)
                   - (IF i = b /\ x = pool_b THEN gave ELSE 0)
    <2>1. balances[i][x] \in Int /\ amount_a \in Int /\ q \in Int /\ amount_b \in Int
      BY <1>1, SwapFacts, OutcomeIsInt DEF Ledgers, Reserves
    <2> QED
      BY <1>4, <1>5, <1>6, <1>8, <2>1
  <1> HIDE DEF got, passed, gave
  <1>13. TwoPoolsMove(a, amount_a, pool_a, q, b, amount_b, pool_b)
    BY <1>11, <1>12 DEF TwoPoolsMove, h
  <1> QED
    BY <1>1, <1>10, <1>13 DEF pool_a, pool_b

\* A trade at the pool's price: the reserve `in` gets the amount, and the reserve `out` pays
\* what calc_output_at_known_input says of the two reserves before.
Sold(amount, in, out, in_after, out_after) ==
    /\ amount \in Balance /\ in + amount <= MaxBalance /\ in_after = in + amount
    /\ calc_output_at_known_input(amount, in, out) \in Balance
    /\ out_after = out - calc_output_at_known_input(amount, in, out)

PaidAtPrice(id) ==
    \E amount \in Balance :
        \/ Sold(amount, inherent_reserve(id), paired_reserve(id),
                        inherent_reserve(id)', paired_reserve(id)')
        \/ Sold(amount, paired_reserve(id), inherent_reserve(id),
                        paired_reserve(id)', inherent_reserve(id)')

\* A pool whose reserves moved in opposite directions, before and after.
LEMMA TradedReserves ==
  ASSUME SwapInv, NEW id \in AssetIds, traded(id), paid(id),
         \A i \in AssetIds, x \in Reserves : balances'[i][x] \in Int
  PROVE  LET h == inherent_asset_id
             x == get_exchange_address(id)
         IN  /\ h \in AssetIds /\ x \in Reserves /\ id # h
             /\ inherent_reserve(id) = balances[h][x] /\ inherent_reserve(id)' = balances'[h][x]
             /\ paired_reserve(id) = balances[id][x] /\ paired_reserve(id)' = balances'[id][x]
             /\ balances[h][x] \in Balance /\ balances[id][x] \in Balance
             /\ \/ balances'[h][x] > balances[h][x] /\ balances'[id][x] < balances[id][x]
                \/ balances'[h][x] < balances[h][x] /\ balances'[id][x] > balances[id][x]
  <1> DEFINE h == inherent_asset_id
             x == get_exchange_address(id)
  <1>1. /\ h \in AssetIds /\ x \in Reserves
        /\ balances[h][x] \in Balance /\ balances[id][x] \in Balance
    BY SwapFacts DEF inherent_reserve, paired_reserve
  <1>2. /\ inherent_reserve(id) = balances[h][x] /\ inherent_reserve(id)' = balances'[h][x]
        /\ paired_reserve(id) = balances[id][x] /\ paired_reserve(id)' = balances'[id][x]
    BY DEF traded, inherent_reserve, paired_reserve, get_exchange_address
  <1> HIDE DEF h, x
  <1>3. /\ balances[h][x] \in Int /\ balances[id][x] \in Int
        /\ balances'[h][x] \in Int /\ balances'[id][x] \in Int
    BY <1>1, OutcomeIsInt
  <1>4. \/ balances'[h][x] > balances[h][x] /\ balances'[id][x] < balances[id][x]
        \/ balances'[h][x] < balances[h][x] /\ balances'[id][x] > balances[id][x]
    BY <1>2, <1>3 DEF traded, paid
  <1>5. id # h
    BY <1>3, <1>4
  <1> QED
    BY <1>1, <1>2, <1>4, <1>5 DEF h, x

\* A swap with an exact input hands units over, and a pool it trades with gets its price for
\* what it pays: sold for or bought with the inherent asset, and both in one on the way from
\* an asset to another.
LEMMA ExactInputTrade ==
  ASSUME SwapInv, NEW who \in Swappers, NEW to \in Signers,
         NEW input \in AssetIds, NEW output \in AssetIds, NEW amount \in Inputs,
         swap_assets_with_exact_input(who, to, input, output, amount)
  PROVE  /\ Handed(balances, balances', who)
         /\ \A id \in AssetIds : traded(id) /\ paid(id) => PaidAtPrice(id) /\ tradable(id)
  <1> DEFINE h == inherent_asset_id
  <1>1. who \in Signers /\ amount \in Balance /\ amount \in Outcome
    BY SwapAssumption DEF Outcome
  <1>2. /\ \A i \in AssetIds : get_exchange_address(i) \in Reserves
        /\ h \in AssetIds
    BY SwapFacts
  <1>3. ASSUME Handed(balances, balances', who), NEW i \in AssetIds, NEW x \in Reserves
        PROVE  balances[i][x] \in Int /\ balances'[i][x] \in Int
    BY <1>3, SwapFacts, OutcomeIsInt DEF Handed, Ledgers, Reserves
  <1>4. CASE /\ input = h
             /\ inherent_asset_to_paired_asset_with_exact_input(who, to, output, amount)
    <2> DEFINE pool == get_exchange_address(output)
               out  == calc_paired_asset_output_amount(output, amount)
    <2>1. through(who, h, amount, pool, output, out, to) /\ tradable(output)
      BY <1>4 DEF inherent_asset_to_paired_asset_with_exact_input
    <2>2. out \in Outcome /\ pool \in Reserves
      BY <1>1, <1>2, SwapAmounts
    <2>3. out = calc_output_at_known_input(amount, inherent_reserve(output), paired_reserve(output))
      BY DEF calc_paired_asset_output_amount
    <2> HIDE DEF pool, out
    <2>4. /\ Handed(balances, balances', who) /\ out \in Balance
          /\ OnePoolMoves(h, amount, pool, output, out)
      BY <1>1, <1>2, <2>1, <2>2, ThroughPool
    <2>5. PICK got \in {0, amount}, gave \in {0, out} :
             /\ balances[h][pool] + got <= MaxBalance
             /\ \A i \in AssetIds, x \in Reserves :
                    balances'[i][x] = balances[i][x]
                                      + (IF i = h /\ x = pool THEN got ELSE 0)
                                      - (IF i = output /\ x = pool THEN gave ELSE 0)
      BY <2>4 DEF OnePoolMoves
    <2>6. ASSUME NEW id \in AssetIds, traded(id), paid(id)
          PROVE  PaidAtPrice(id) /\ tradable(id)
      <3> DEFINE x == get_exchange_address(id)
                 R == balances[h][x]
                 P == balances[id][x]
                 R2 == balances'[h][x]
                 P2 == balances'[id][x]
      <3>1. /\ h \in AssetIds /\ x \in Reserves /\ id # h
            /\ inherent_reserve(id) = R /\ inherent_reserve(id)' = R2
            /\ paired_reserve(id) = P /\ paired_reserve(id)' = P2
            /\ (R2 > R /\ P2 < P) \/ (R2 < R /\ P2 > P)
        <4>1. \A i \in AssetIds, y \in Reserves : balances'[i][y] \in Int
          BY <1>3, <2>4
        <4> QED
          BY ONLY SwapInv, id \in AssetIds, <2>6, <4>1, TradedReserves
      <3>2. /\ R \in Int /\ P \in Int /\ amount \in Nat /\ out \in Nat
            /\ got \in {0, amount} /\ gave \in {0, out}
        BY <1>1, <1>3, <2>4, <3>1, WidthAssumption DEF Balance
      <3>3. /\ R2 = R + (IF x = pool THEN got ELSE 0)
                      - (IF h = output /\ x = pool THEN gave ELSE 0)
            /\ P2 = P - (IF id = output /\ x = pool THEN gave ELSE 0)
        <4>1. P2 = P + 0 - (IF id = output /\ x = pool THEN gave ELSE 0)
          BY <2>5, <3>1
        <4> QED
          BY <2>5, <3>1, <3>2, <4>1
      <3> HIDE DEF R, P, R2, P2, x
      <3>4. gave = out /\ id = output /\ x = pool /\ got = amount /\ R2 = R + amount /\ P2 = P - out
        BY <3>1, <3>2, <3>3
      <3>5. R + amount <= MaxBalance
        BY <2>5, <3>4 DEF R
      <3>6. Sold(amount, inherent_reserve(id), paired_reserve(id),
                         inherent_reserve(id)', paired_reserve(id)')
        BY <1>1, <2>3, <2>4, <3>1, <3>4, <3>5 DEF Sold
      <3> QED
        BY <1>1, <2>1, <3>4, <3>6 DEF PaidAtPrice
    <2> QED
      BY <2>4, <2>6
  <1>5. CASE /\ input # h /\ output = h
             /\ paired_asset_to_inherent_asset_with_exact_input(who, to, input, amount)
    <2> DEFINE pool == get_exchange_address(input)
               out  == calc_inherent_asset_output_amount(input, amount)
    <2>1. through(who, input, amount, pool, h, out, to) /\ tradable(input)
      BY <1>5 DEF paired_asset_to_inherent_asset_with_exact_input
    <2>2. out \in Outcome /\ pool \in Reserves
      BY <1>1, <1>2, SwapAmounts
    <2>3. out = calc_output_at_known_input(amount, paired_reserve(input), inherent_reserve(input))
      BY DEF calc_inherent_asset_output_amount
    <2> HIDE DEF pool, out
    <2>4. /\ Handed(balances, balances', who) /\ out \in Balance
          /\ OnePoolMoves(input, amount, pool, h, out)
      BY <1>1, <1>2, <2>1, <2>2, ThroughPool
    <2>5. PICK got \in {0, amount}, gave \in {0, out} :
             /\ balances[input][pool] + got <= MaxBalance
             /\ \A i \in AssetIds, x \in Reserves :
                    balances'[i][x] = balances[i][x]
                                      + (IF i = input /\ x = pool THEN got ELSE 0)
                                      - (IF i = h /\ x = pool THEN gave ELSE 0)
      BY <2>4 DEF OnePoolMoves
    <2>6. ASSUME NEW id \in AssetIds, traded(id), paid(id)
          PROVE  PaidAtPrice(id) /\ tradable(id)
      <3> DEFINE x == get_exchange_address(id)
                 R == balances[h][x]
                 P == balances[id][x]
                 R2 == balances'[h][x]
                 P2 == balances'[id][x]
      <3>1. /\ h \in AssetIds /\ x \in Reserves /\ id # h
            /\ inherent_reserve(id) = R /\ inherent_reserve(id)' = R2
            /\ paired_reserve(id) = P /\ paired_reserve(id)' = P2
            /\ (R2 > R /\ P2 < P) \/ (R2 < R /\ P2 > P)
        <4>1. \A i \in AssetIds, y \in Reserves : balances'[i][y] \in Int
          BY <1>3, <2>4
        <4> QED
          BY ONLY SwapInv, id \in AssetIds, <2>6, <4>1, TradedReserves
      <3>2. /\ R \in Int /\ P \in Int /\ amount \in Nat /\ out \in Nat
            /\ got \in {0, amount} /\ gave \in {0, out}
        BY <1>1, <1>3, <2>4, <3>1, WidthAssumption DEF Balance
      <3>3. /\ R2 = R - (IF x = pool THEN gave ELSE 0)
            /\ P2 = P + (IF id = input /\ x = pool THEN got ELSE 0)
        <4>1. R2 = R + 0 - (IF x = pool THEN gave ELSE 0)
          BY <1>5, <2>5, <3>1
        <4>2. P2 = P + (IF id = input /\ x = pool THEN got ELSE 0) - 0
          BY <2>5, <3>1
        <4> QED
          BY <3>2, <4>1, <4>2
      <3> HIDE DEF R, P, R2, P2, x
      <3>4. gave = out /\ id = input /\ x = pool /\ got = amount /\ R2 = R - out /\ P2 = P + amount
        BY <3>1, <3>2, <3>3
      <3>5. P + amount <= MaxBalance
        BY <2>5, <3>4 DEF P
      <3>6. Sold(amount, paired_reserve(id), inherent_reserve(id),
                         paired_reserve(id)', inherent_reserve(id)')
        BY <1>1, <2>3, <2>4, <3>1, <3>4, <3>5 DEF Sold
      <3> QED
        BY <1>1, <2>1, <3>4, <3>6 DEF PaidAtPrice
    <2> QED
      BY <2>4, <2>6
  <1>6. CASE /\ h \notin {input, output}
             /\ asset_a_to_asset_b_with_exact_input(who, to, input, output, amount)
    <2> DEFINE pool_a == get_exchange_address(input)
               pool_b == get_exchange_address(output)
               q      == calc_inherent_asset_output_amount(input, amount)
               out    == calc_paired_asset_output_amount(output, q)
    <2>1. /\ through_both(who, input, amount, q, output, out, to)
          /\ tradable(input) /\ tradable(output)
      BY <1>6 DEF asset_a_to_asset_b_with_exact_input
    <2>2. q \in Outcome /\ pool_a \in Reserves /\ pool_b \in Reserves
      BY <1>1, <1>2, SwapAmounts
    <2>3. /\ q = calc_output_at_known_input(amount, paired_reserve(input), inherent_reserve(input))
          /\ out = calc_output_at_known_input(q, inherent_reserve(output), paired_reserve(output))
      BY DEF calc_inherent_asset_output_amount, calc_paired_asset_output_amount
    <2> HIDE DEF q
    <2>4. out \in Outcome
      BY <2>2, SwapAmounts
    <2> HIDE DEF out
    <2>5. /\ Handed(balances, balances', who) /\ q \in Balance /\ out \in Balance
          /\ TwoPoolsMove(input, amount, pool_a, q, output, out, pool_b)
      BY <1>1, <1>6, <2>1, <2>2, <2>4, ThroughPools
    <2>6. PICK got \in {0, amount}, passed \in {0, q}, gave \in {0, out} :
             /\ balances[input][pool_a] + got <= MaxBalance
             /\ balances[h][pool_b] + passed <= MaxBalance
             /\ pool_a = pool_b => passed = 0
             /\ \A i \in AssetIds, x \in Reserves :
                    balances'[i][x] = balances[i][x]
                        + (IF i = input /\ x = pool_a THEN got ELSE 0)
                        - (IF i = h /\ x = pool_a THEN passed ELSE 0)
                        + (IF i = h /\ x = pool_b THEN passed ELSE 0)
                        - (IF i = output /\ x = pool_b THEN gave ELSE 0)
      BY <2>5 DEF TwoPoolsMove
    <2> HIDE DEF pool_a, pool_b
    <2>7. ASSUME NEW id \in AssetIds, traded(id), paid(id)
          PROVE  PaidAtPrice(id) /\ tradable(id)
      <3> DEFINE x == get_exchange_address(id)
                 R == balances[h][x]
                 P == balances[id][x]
                 R2 == balances'[h][x]
                 P2 == balances'[id][x]
      <3>1. /\ h \in AssetIds /\ x \in Reserves /\ id # h
            /\ inherent_reserve(id) = R /\ inherent_reserve(id)' = R2
            /\ paired_reserve(id) = P /\ paired_reserve(id)' = P2
            /\ (R2 > R /\ P2 < P) \/ (R2 < R /\ P2 > P)
        <4>1. \A i \in AssetIds, y \in Reserves : balances'[i][y] \in Int
          BY <1>3, <2>5
        <4> QED
          BY ONLY SwapInv, id \in AssetIds, <2>7, <4>1, TradedReserves
      <3>2. /\ R \in Int /\ P \in Int
            /\ amount \in Nat /\ out \in Nat /\ q \in Nat
            /\ got \in {0, amount} /\ passed \in {0, q} /\ gave \in {0, out}
        BY <1>1, <1>3, <2>5, <3>1, WidthAssumption DEF Balance
      <3>3. /\ R2 = R - (IF x = pool_a THEN passed ELSE 0)
                      + (IF x = pool_b THEN passed ELSE 0)
            /\ P2 = P + (IF id = input /\ x = pool_a THEN got ELSE 0)
                      - (IF id = output /\ x = pool_b THEN gave ELSE 0)
        <4>1. R2 = R + 0 - (IF x = pool_a THEN passed ELSE 0)
                         + (IF x = pool_b THEN passed ELSE 0) - 0
          BY <1>6, <2>6, <3>1
        <4>2. P2 = P + (IF id = input /\ x = pool_a THEN got ELSE 0) - 0 + 0
                     - (IF id = output /\ x = pool_b THEN gave ELSE 0)
          BY <2>6, <3>1
        <4> QED
          BY <3>2, <4>1, <4>2
      <3>4. pool_a = pool_b => passed = 0
        BY <2>6
      <3> HIDE DEF R, P, R2, P2, x
      <3>5. \/ passed = q /\ x = pool_a /\ got = amount /\ id = input /\ R2 = R - q /\ P2 = P + amount
            \/ passed = q /\ x = pool_b /\ gave = out /\ id = output /\ R2 = R + q /\ P2 = P - out
        BY <3>1, <3>2, <3>3, <3>4
      <3>6. CASE passed = q /\ x = pool_a /\ got = amount /\ id = input /\ R2 = R - q /\ P2 = P + amount
        <4>1. P + amount <= MaxBalance
          BY <2>6, <3>6 DEF P
        <4>2. Sold(amount, paired_reserve(id), inherent_reserve(id),
                           paired_reserve(id)', inherent_reserve(id)')
          BY <1>1, <2>3, <2>5, <3>1, <3>6, <4>1 DEF Sold
        <4> QED
          BY <1>1, <2>1, <3>6, <4>2 DEF PaidAtPrice
      <3>7. CASE passed = q /\ x = pool_b /\ gave = out /\ id = output /\ R2 = R + q /\ P2 = P - out
        <4>1. R + q <= MaxBalance
          BY <2>6, <3>7 DEF R
        <4>2. Sold(q, inherent_reserve(id), paired_reserve(id),
                      inherent_reserve(id)', paired_reserve(id)')
          BY <2>3, <2>5, <3>1, <3>7, <4>1 DEF Sold
        <4> QED
          BY <2>1, <2>5, <3>7, <4>2 DEF PaidAtPrice
      <3> QED
        BY <3>5, <3>6, <3>7
    <2> QED
      BY <2>5, <2>7
  <1> QED
    BY <1>4, <1>5, <1>6 DEF swap_assets_with_exact_input

\* A swap with an exact output hands units over too; whether it pays the price is another
\* matter.
LEMMA ExactOutputHands ==
  ASSUME SwapInv, NEW who \in Swappers, NEW to \in Signers,
         NEW input \in AssetIds, NEW output \in AssetIds, NEW amount \in Outputs,
         swap_assets_with_exact_output(who, to, input, output, amount)
  PROVE  Handed(balances, balances', who)
  <1> DEFINE h == inherent_asset_id
  <1>1. who \in Signers /\ amount \in Outcome
    BY SwapAssumption DEF Outcome
  <1>2. /\ \A i \in AssetIds : get_exchange_address(i) \in Reserves
        /\ h \in AssetIds
    BY SwapFacts
  <1>3. CASE /\ input = h
             /\ inherent_asset_to_paired_asset_with_exact_output(who, to, output, amount)
    <2> DEFINE in == calc_inherent_asset_input_amount(output, amount)
    <2>1. through(who, h, in, get_exchange_address(output), output, amount, to)
      BY <1>3 DEF inherent_asset_to_paired_asset_with_exact_output
    <2>2. in \in Outcome
      BY <1>1, SwapAmounts
    <2> HIDE DEF in
    <2> QED
      BY <1>1, <1>2, <2>1, <2>2, ThroughPool
  <1>4. CASE /\ input # h /\ output = h
             /\ paired_asset_to_inherent_asset_with_exact_output(who, to, input, amount)
    <2> DEFINE in == calc_paired_asset_input_amount(input, amount)
    <2>1. through(who, input, in, get_exchange_address(input), h, amount, to)
      BY <1>4 DEF paired_asset_to_inherent_asset_with_exact_output
    <2>2. in \in Outcome
      BY <1>1, SwapAmounts
    <2> HIDE DEF in
    <2> QED
      BY <1>1, <1>2, <2>1, <2>2, ThroughPool
  <1>5. CASE /\ h \notin {input, output}
             /\ asset_a_to_asset_b_with_exact_output(who, to, input, output, amount)
    <2> DEFINE q  == calc_inherent_asset_input_amount(output, amount)
               in == calc_paired_asset_input_amount(input, q)
    <2>1. through_both(who, input, in, q, output, amount, to)
      BY <1>5 DEF asset_a_to_asset_b_with_exact_output
    <2>2. q \in Outcome
      BY <1>1, SwapAmounts
    <2> HIDE DEF q
    <2>3. in \in Outcome
      BY <2>2, SwapAmounts
    <2> HIDE DEF in
    <2> QED
      BY <1>1, <1>5, <2>1, <2>2, <2>3, ThroughPools
  <1> QED
    BY <1>3, <1>4, <1>5 DEF swap_assets_with_exact_output

-----------------------------------------------------------------------------
(* Liquidity. *)

\* add_liquidity: the pool gets the deposits that go through, and the liquidity stored is a
\* u128.
LEMMA Added ==
  ASSUME SwapInv, NEW who \in Signers, NEW id \in AssetIds,
         NEW amount \in Balance, NEW asset_amount \in Balance,
         add_liquidity(who, id, amount, asset_amount)
  PROVE  /\ Handed(balances, balances', who)
         /\ liquidity_after(who, id, amount) \in Balance /\ total_after(id, amount) \in Balance
         /\ \A i \in AssetIds, x \in Reserves : balances'[i][x] >= balances[i][x]
         /\ id # inherent_asset_id =>
                balances'[inherent_asset_id][get_exchange_address(id)]
                    \in {inherent_reserve(id), inherent_reserve(id) + amount}
  <1> DEFINE h    == inherent_asset_id
             pool == get_exchange_address(id)
             mid  == transfer(balances, who, h, pool, amount)
             in   == transfer_ok(balances, who, h, amount)
             in2  == transfer_ok(mid, who, id, asset_amount)
  <1>1. /\ balances \in Ledgers /\ Bounded(balances) /\ h \in AssetIds /\ pool \in Reserves
        /\ inherent_reserve(id) = balances[h][pool]
    BY SwapFacts DEF inherent_reserve
  <1>2. balances' = transfer(mid, who, id, pool, asset_amount)
    BY DEF add_liquidity
  <1> HIDE DEF h, pool
  <1>3. /\ Handed(balances, mid, who) /\ mid \in Ledgers /\ Bounded(mid)
        /\ \A i \in AssetIds, x \in Reserves :
               mid[i][x] = IF i = h /\ x = pool /\ in THEN balances[i][x] + amount ELSE balances[i][x]
    BY ONLY <1>1, PaidIn, who \in Signers, amount \in Balance
  <1> HIDE DEF mid, in
  <1>4. /\ Handed(mid, balances', who) /\ balances' \in Ledgers
        /\ \A i \in AssetIds, x \in Reserves :
               balances'[i][x] = IF i = id /\ x = pool /\ in2 THEN mid[i][x] + asset_amount
                                 ELSE mid[i][x]
    <2>1. mid \in Ledgers /\ Bounded(mid)
      BY <1>3
    <2> QED
      BY ONLY <1>1, <1>2, <2>1, PaidIn, who \in Signers, id \in AssetIds, asset_amount \in Balance
  <1> HIDE DEF in2
  <1>5. Handed(balances, balances', who)
    BY <1>1, <1>3, <1>4, HandedOn
  <1>6. ASSUME NEW i \in AssetIds, NEW x \in Reserves PROVE balances'[i][x] >= balances[i][x]
    <2>1. balances[i][x] \in Int /\ amount \in Nat /\ asset_amount \in Nat
      BY <1>1, OutcomeIsInt, WidthAssumption DEF Ledgers, Reserves, Balance
    <2> QED
      BY <1>3, <1>4, <2>1
  <1>7. id # h => balances'[h][pool] \in {inherent_reserve(id), inherent_reserve(id) + amount}
    BY <1>1, <1>3, <1>4
  <1>8. liquidity_after(who, id, amount) \in Balance /\ total_after(id, amount) \in Balance
    <2>1. /\ total_liquidity[id] \in Balance /\ account_liquidity[id][who] \in Balance
          /\ inherent_reserve(id) \in Balance
      BY SwapFacts, AssetsAssumption
    <2>2. minted(id, amount) \in Outcome
      BY <2>1, MulDivFacts DEF minted, Outcome
    <2>3. total_after(id, amount) # Panic
      BY DEF add_liquidity
    <2>4. CASE total_liquidity[id] = 0
      BY <2>4 DEF liquidity_after, total_after
    <2>5. CASE total_liquidity[id] # 0
      <3>1. minted(id, amount) # Panic
        <4> SUFFICES ASSUME minted(id, amount) = Panic PROVE FALSE
          OBVIOUS
        <4>1. wrapping_add[total_liquidity[id]][Panic] = Panic
          BY <2>1, OutcomeIsInt DEF wrapping_add, Panic
        <4> QED
          BY <2>3, <2>5, <4>1 DEF total_after
      <3>2. minted(id, amount) \in Balance
        BY <2>2, <3>1 DEF Outcome
      <3> QED
        BY <2>1, <2>5, <3>2, WrapStaysInWidth DEF liquidity_after, total_after
    <2> QED
      BY <2>4, <2>5
  <1> QED
    BY <1>5, <1>6, <1>7, <1>8 DEF h, pool

\* remove_liquidity: the pool pays the shares that go through.
LEMMA Removed ==
  ASSUME SwapInv, NEW who \in Signers, NEW id \in AssetIds, NEW liquidity \in Balance,
         remove_liquidity(who, id, liquidity)
  PROVE  LET amount == share(inherent_reserve(id), liquidity, total_liquidity[id])
         IN  /\ Handed(balances, balances', who) /\ amount \in Balance
             /\ \A i \in AssetIds, x \in Reserves : balances'[i][x] <= balances[i][x]
             /\ id # inherent_asset_id =>
                    balances'[inherent_asset_id][get_exchange_address(id)]
                        \in {inherent_reserve(id), inherent_reserve(id) - amount}
  <1> DEFINE h    == inherent_asset_id
             pool == get_exchange_address(id)
             amount == share(inherent_reserve(id), liquidity, total_liquidity[id])
             asset_amount == share(paired_reserve(id), liquidity, total_liquidity[id])
             mid  == transfer(balances, pool, h, who, amount)
             out  == transfer_ok(balances, pool, h, amount)
             out2 == transfer_ok(mid, pool, id, asset_amount)
  <1>1. /\ balances \in Ledgers /\ Bounded(balances) /\ h \in AssetIds /\ pool \in Reserves
        /\ inherent_reserve(id) = balances[h][pool]
    BY SwapFacts DEF inherent_reserve
  <1>2. amount \in Balance /\ asset_amount \in Balance
    <2>1. /\ total_liquidity[id] \in Outcome /\ liquidity \in Outcome
          /\ inherent_reserve(id) \in Outcome /\ paired_reserve(id) \in Outcome
      BY SwapFacts DEF Outcome
    <2>2. amount \in Outcome /\ asset_amount \in Outcome
      BY <2>1, MulDivFacts DEF share
    <2>3. amount # Panic /\ asset_amount # Panic
      BY DEF remove_liquidity
    <2> QED
      BY <2>2, <2>3 DEF Outcome
  <1>3. balances' = transfer(mid, pool, id, who, asset_amount)
    BY DEF remove_liquidity
  <1> HIDE DEF h, pool, amount, asset_amount
  <1>4. /\ Handed(balances, mid, who) /\ mid \in Ledgers /\ Bounded(mid)
        /\ \A i \in AssetIds, x \in Reserves :
               mid[i][x] = IF i = h /\ x = pool /\ out THEN balances[i][x] - amount ELSE balances[i][x]
    BY ONLY <1>1, <1>2, PaidOut, who \in Signers
  <1> HIDE DEF mid, out
  <1>5. /\ Handed(mid, balances', who)
        /\ \A i \in AssetIds, x \in Reserves :
               balances'[i][x] = IF i = id /\ x = pool /\ out2 THEN mid[i][x] - asset_amount
                                 ELSE mid[i][x]
    <2>1. mid \in Ledgers /\ Bounded(mid)
      BY <1>4
    <2> QED
      BY ONLY <1>1, <1>2, <1>3, <2>1, PaidOut, who \in Signers, id \in AssetIds
  <1> HIDE DEF out2
  <1>6. Handed(balances, balances', who)
    BY <1>1, <1>4, <1>5, HandedOn
  <1>7. ASSUME NEW i \in AssetIds, NEW x \in Reserves PROVE balances'[i][x] <= balances[i][x]
    <2>1. balances[i][x] \in Int /\ amount \in Nat /\ asset_amount \in Nat
      BY <1>1, <1>2, OutcomeIsInt, WidthAssumption DEF Ledgers, Reserves, Balance
    <2> QED
      BY <1>4, <1>5, <2>1
  <1>8. id # h => balances'[h][pool] \in {inherent_reserve(id), inherent_reserve(id) - amount}
    BY <1>1, <1>4, <1>5
  <1> QED
    BY <1>2, <1>6, <1>7, <1>8 DEF h, pool, amount

-----------------------------------------------------------------------------
(* The steps. *)

\* The assets pallet's extrinsics take nothing out of a pool: nobody has a key of its account.
LEMMA ReservesSafe ==
  ASSUME SwapInv, AssetsNext
  PROVE  \A i \in AssetIds, x \in Reserves : balances'[i][x] >= balances[i][x]
  <1>1. /\ AssetSigners \subseteq Signers /\ Signers \subseteq Accounts /\ Amounts \subseteq Balance
        /\ balances \in Ledgers /\ Bounded(balances) /\ balances \in [AssetIds -> [Accounts -> Balance]]
        /\ next_asset_id \in Nat
    BY SwapFacts, AssetsAssumption DEF Ledgers, SwapInv, SwapTypeOK, AssetsTypeOK
  <1>2. \A i \in AssetIds, x \in Reserves : balances[i][x] \in Int
    BY <1>1, OutcomeIsInt DEF Reserves
  <1>3. ASSUME UNCHANGED balances
        PROVE  \A i \in AssetIds, x \in Reserves : balances'[i][x] >= balances[i][x]
    BY <1>2, <1>3
  <1>4. ASSUME NEW who \in AssetSigners, NEW n \in AssetIds, NEW v,
               balances' = [balances EXCEPT ![n][who] = v]
        PROVE  \A i \in AssetIds, x \in Reserves : balances'[i][x] >= balances[i][x]
    <2> TAKE i \in AssetIds, x \in Reserves
    <2>1. who # x
      BY <1>1 DEF Reserves
    <2>2. balances'[i][x] = balances[i][x]
      BY <1>1, <1>4, <2>1 DEF Reserves
    <2> QED
      BY <1>2, <2>2
  <1>5. ASSUME NEW who \in AssetSigners, NEW total \in Amounts, issue(who, total)
        PROVE  \A i \in AssetIds, x \in Reserves : balances'[i][x] >= balances[i][x]
    <2>1. next_asset_id \in AssetIds
      BY <1>1, <1>5, AssetsAssumption DEF issue, AssetIds
    <2> QED
      BY <1>4, <1>5, <2>1 DEF issue, issued
  <1>6. ASSUME NEW who \in AssetSigners, NEW id \in AssetIds, NEW to \in Accounts,
               NEW amount \in Amounts, transfer_asset(who, id, to, amount)
        PROVE  \A i \in AssetIds, x \in Reserves : balances'[i][x] >= balances[i][x]
    <2>1. balances' = transfer(balances, who, id, to, amount) /\ amount \in Balance /\ who \in Accounts
      BY <1>1, <1>6 DEF transfer_asset
    <2>2. CASE transfer_ok(balances, who, id, amount)
      <3>1. \A i \in AssetIds, a \in Accounts :
                balances'[i][a] = IF i # id \/ who = to THEN balances[i][a]
                                  ELSE IF a = who THEN balances[i][a] - amount
                                  ELSE IF a = to THEN balances[i][a] + amount
                                  ELSE balances[i][a]
        BY <1>1, <2>1, <2>2, MovedExactly DEF transfer
      <3> TAKE i \in AssetIds, x \in Reserves
      <3>2. x # who /\ x \in Accounts /\ amount \in Nat
        BY <1>1, <2>1, WidthAssumption DEF Reserves, Balance
      <3> QED
        BY <1>2, <3>1, <3>2
    <2>3. CASE ~ transfer_ok(balances, who, id, amount)
      BY <1>3, <2>1, <2>3 DEF transfer
    <2> QED
      BY <2>2, <2>3
  <1>7. ASSUME NEW who \in AssetSigners, NEW id \in AssetIds, destroy(who, id)
        PROVE  \A i \in AssetIds, x \in Reserves : balances'[i][x] >= balances[i][x]
    BY <1>4, <1>7 DEF destroy
  <1> QED
    BY <1>3, <1>5, <1>6, <1>7 DEF AssetsNext, set_inherent_asset, set_price

\* Reserves that all fall or stay, or all rise or stay, were not traded.
LEMMA NoTrade ==
  ASSUME SwapInv, NEW id \in AssetIds,
         \/ \A i \in AssetIds, x \in Reserves : balances'[i][x] >= balances[i][x]
         \/ \A i \in AssetIds, x \in Reserves : balances'[i][x] <= balances[i][x],
         \A i \in AssetIds, x \in Reserves : balances'[i][x] \in Int
  PROVE  ~ (traded(id) /\ paid(id))
  <1> DEFINE h == inherent_asset_id
             x == get_exchange_address(id)
  <1>1. h \in AssetIds /\ x \in Reserves /\ balances[h][x] \in Int /\ balances[id][x] \in Int
    BY SwapFacts, OutcomeIsInt DEF inherent_reserve, paired_reserve
  <1>2. ASSUME traded(id)
        PROVE  /\ inherent_reserve(id) = balances[h][x] /\ inherent_reserve(id)' = balances'[h][x]
               /\ paired_reserve(id) = balances[id][x] /\ paired_reserve(id)' = balances'[id][x]
    BY <1>2 DEF traded, inherent_reserve, paired_reserve, get_exchange_address
  <1> HIDE DEF h, x
  <1>3. balances'[h][x] \in Int /\ balances'[id][x] \in Int
    BY <1>1
  <1> QED
    BY <1>1, <1>2, <1>3 DEF traded, paid

\* Every step keeps the invariant and the ledger's promise, and if it is no swap with an
\* exact output the pools it trades with get their price.
LEMMA SwapStep ==
  ASSUME SwapInv, [Next]_vars
  PROVE  /\ SwapInv' /\ LedgerStep
         /\ \/ ByExactOutput
            \/ \A id \in AssetIds : traded(id) /\ paid(id) => PaidAtPrice(id) /\ tradable(id)
  <1>0. LedgerInv
    BY DEF SwapInv
  <1>1. /\ Swappers \subseteq Signers /\ Providers \subseteq Signers /\ PairedIds \subseteq AssetIds
        /\ Removals \subseteq Balance /\ Deposits \subseteq Balance \X Balance
    BY SwapAssumption
  <1>2. ASSUME LedgerStep, UNCHANGED swap_vars PROVE SwapInv'
    BY <1>2 DEF SwapInv, SwapTypeOK, LedgerStep, LedgerInv, swap_vars
  <1>3. ASSUME LedgerStep PROVE \A i \in AssetIds, x \in Reserves : balances'[i][x] \in Int
    <2>1. balances' \in Ledgers
      BY <1>3 DEF LedgerStep, LedgerInv, AssetsTypeOK, Ledgers
    <2> QED
      BY <2>1, OutcomeIsInt DEF Ledgers, Reserves
  <1>4. CASE AssetsNext /\ UNCHANGED swap_vars
    <2>1. LedgerStep
      BY <1>0, <1>4, LedgerNextKeeps
    <2> QED
      BY <1>2, <1>3, <1>4, <2>1, ReservesSafe, NoTrade
  <1>5. ASSUME NEW who \in Swappers, NEW to \in Signers, NEW i \in AssetIds, NEW o \in AssetIds,
               NEW amount \in Inputs, swap_assets_with_exact_input(who, to, i, o, amount)
        PROVE  /\ SwapInv' /\ LedgerStep
               /\ \A id \in AssetIds : traded(id) /\ paid(id) => PaidAtPrice(id) /\ tradable(id)
    <2>1. /\ Handed(balances, balances', who)
          /\ \A id \in AssetIds : traded(id) /\ paid(id) => PaidAtPrice(id) /\ tradable(id)
      BY <1>5, ExactInputTrade
    <2>2. UNCHANGED <<swap_vars, total_supply, next_asset_id, inherent_asset_id, price>>
      BY <1>5 DEF swap_assets_with_exact_input
    <2>3. LedgerStep
      BY <1>0, <1>1, <2>1, <2>2, HandedKeeps
    <2> QED
      BY <1>2, <2>1, <2>2, <2>3
  <1>6. ASSUME NEW who \in Swappers, NEW to \in Signers, NEW i \in AssetIds, NEW o \in AssetIds,
               NEW amount \in Outputs, swap_assets_with_exact_output(who, to, i, o, amount)
        PROVE  SwapInv' /\ LedgerStep /\ ByExactOutput
    <2>1. Handed(balances, balances', who)
      BY <1>6, ExactOutputHands
    <2>2. UNCHANGED <<swap_vars, total_supply, next_asset_id, inherent_asset_id, price>>
      BY <1>6 DEF swap_assets_with_exact_output
    <2>3. LedgerStep
      BY <1>0, <1>1, <2>1, <2>2, HandedKeeps
    <2> QED
      BY <1>2, <1>6, <2>2, <2>3 DEF ByExactOutput
  <1>7. ASSUME NEW who \in Providers, NEW id0 \in PairedIds, NEW d \in Deposits,
               add_liquidity(who, id0, d[1], d[2])
        PROVE  /\ SwapInv' /\ LedgerStep
               /\ \A id \in AssetIds : ~ (traded(id) /\ paid(id))
    <2>1. d[1] \in Balance /\ d[2] \in Balance /\ who \in Signers /\ who \in Accounts /\ id0 \in AssetIds
      BY <1>1, AssetsAssumption
    <2>2. /\ Handed(balances, balances', who)
          /\ liquidity_after(who, id0, d[1]) \in Balance /\ total_after(id0, d[1]) \in Balance
          /\ \A i \in AssetIds, x \in Reserves : balances'[i][x] >= balances[i][x]
      BY <1>7, <2>1, Added
    <2>3. UNCHANGED <<fee_rate, total_supply, next_asset_id, inherent_asset_id, price>>
      BY <1>7 DEF add_liquidity
    <2>4. LedgerStep
      BY <1>0, <2>1, <2>2, <2>3, HandedKeeps
    <2>5. /\ total_liquidity' \in [AssetIds -> Balance]
          /\ account_liquidity' \in [AssetIds -> [Accounts -> Balance]]
      BY <1>7, <2>1, <2>2 DEF add_liquidity, SwapInv, SwapTypeOK
    <2>6. \E ids \in SUBSET AssetIds : exchange_account' \in [ids -> Accounts]
      <3> DEFINE pool == get_exchange_address(id0)
      <3>1. PICK ids \in SUBSET AssetIds : exchange_account \in [ids -> Accounts]
        BY DEF SwapInv, SwapTypeOK
      <3>2. pool \in Accounts
        BY <2>1, SwapFacts DEF Reserves
      <3>3. exchange_account' = [a \in DOMAIN exchange_account \cup {id0} |->
                                    IF a = id0 THEN pool ELSE exchange_account[a]]
        BY <1>7 DEF add_liquidity
      <3> HIDE DEF pool
      <3>4. ids \cup {id0} \in SUBSET AssetIds /\ exchange_account' \in [ids \cup {id0} -> Accounts]
        BY <2>1, <3>1, <3>2, <3>3
      <3> QED
        BY <3>4
    <2>7. SwapInv'
      BY <2>3, <2>4, <2>5, <2>6 DEF SwapInv, SwapTypeOK, LedgerStep, LedgerInv
    <2> QED
      BY <1>3, <2>2, <2>4, <2>7, NoTrade
  <1>8. ASSUME NEW who \in Providers, NEW id0 \in PairedIds, NEW liquidity \in Removals,
               remove_liquidity(who, id0, liquidity)
        PROVE  /\ SwapInv' /\ LedgerStep
               /\ \A id \in AssetIds : ~ (traded(id) /\ paid(id))
    <2>1. liquidity \in Balance /\ who \in Signers /\ who \in Accounts /\ id0 \in AssetIds
      BY <1>1, AssetsAssumption
    <2>2. /\ Handed(balances, balances', who)
          /\ \A i \in AssetIds, x \in Reserves : balances'[i][x] <= balances[i][x]
      BY <1>8, <2>1, Removed
    <2>3. UNCHANGED <<fee_rate, exchange_account, total_supply, next_asset_id, inherent_asset_id, price>>
      BY <1>8 DEF remove_liquidity
    <2>4. LedgerStep
      BY <1>0, <2>1, <2>2, <2>3, HandedKeeps
    <2>5. /\ wrapping_sub[total_liquidity[id0]][liquidity] \in Balance
          /\ wrapping_sub[account_liquidity[id0][who]][liquidity] \in Balance
      BY <2>1, SwapFacts, WrapStaysInWidth
    <2>6. /\ total_liquidity' \in [AssetIds -> Balance]
          /\ account_liquidity' \in [AssetIds -> [Accounts -> Balance]]
      BY <1>8, <2>1, <2>5 DEF remove_liquidity, SwapInv, SwapTypeOK
    <2>7. SwapInv'
      BY <2>3, <2>4, <2>6 DEF SwapInv, SwapTypeOK, LedgerStep, LedgerInv
    <2> QED
      BY <1>3, <2>2, <2>4, <2>7, NoTrade
  <1>9. ASSUME UNCHANGED assets_vars
        PROVE  LedgerStep /\ \A id \in AssetIds : ~ (traded(id) /\ paid(id))
    <2>1. LedgerStep
      BY <1>0, <1>9, LedgerUntouched DEF LedgerInv, AssetsTypeOK, assets_vars
    <2>2. \A i \in AssetIds, x \in Reserves : balances'[i][x] >= balances[i][x]
      BY <1>3, <1>9, <2>1 DEF assets_vars
    <2> QED
      BY <1>3, <2>1, <2>2, NoTrade
  <1>10. ASSUME NEW who \in Swappers, NEW rate \in FeeRates, set_fee_rate(who, rate)
         PROVE  /\ SwapInv' /\ LedgerStep
                /\ \A id \in AssetIds : ~ (traded(id) /\ paid(id))
    <2>1. LedgerStep /\ \A id \in AssetIds : ~ (traded(id) /\ paid(id))
      BY <1>9, <1>10 DEF set_fee_rate
    <2> QED
      BY <1>10, <2>1 DEF SwapInv, SwapTypeOK, LedgerStep, LedgerInv, set_fee_rate
  <1>11. CASE UNCHANGED vars
    BY <1>2, <1>9, <1>11 DEF vars
  <1> QED
    BY <1>4, <1>5, <1>6, <1>7, <1>8, <1>10, <1>11 DEF Next

-----------------------------------------------------------------------------
(* What a trade at the pool's price and a change of liquidity do to the reserves. *)

\* Selling at the price calc_output_at_known_input computes never lowers the product.
LEMMA SoldKeepsProduct ==
  ASSUME NEW amount \in Balance, NEW in \in Balance, NEW out \in Balance,
         NEW in_after, NEW out_after, Sold(amount, in, out, in_after, out_after)
  PROVE  in_after * out_after >= in * out
  <1> DEFINE q == calc_output_at_known_input(amount, in, out)
             n == amount + in
  <1>1. amount \in Nat /\ in \in Nat /\ out \in Nat /\ n <= MaxBalance
    BY WidthAssumption DEF Balance, Sold
  <1>2. q \in Balance /\ in_after = in + amount /\ out_after = out - q
    BY DEF Sold
  <1>3. q = wrapping_mul_div[out][amount][n]
    BY <1>1, AddExact DEF calc_output_at_known_input
  <1>4. n \in Outcome /\ out \in Outcome /\ amount \in Outcome /\ q # Panic /\ q \in Nat
    BY <1>1, <1>2, WidthAssumption DEF Outcome, Balance, Panic
  <1> HIDE DEF q, n
  <1>5. q * n <= out * amount
    BY <1>3, <1>4, MulDivFacts
  <1>6. in_after = n /\ n = in + amount /\ n \in Nat
    BY <1>1, <1>2 DEF n
  <1>7. n * (out - q) = n * out - q * n /\ n * out = in * out + out * amount
    BY <1>1, <1>4, <1>6
  <1>8. q * n \in Int /\ out * amount \in Int /\ in * out \in Int /\ n * out \in Int
    BY <1>1, <1>4, <1>6
  <1> QED
    BY <1>2, <1>5, <1>6, <1>7, <1>8

\* A deposit mints no more than its share of what was there.
LEMMA DepositDilutesNobody ==
  ASSUME NEW T \in Balance, NEW R \in Balance, NEW amount \in Balance, NEW m \in Balance,
         m * R <= T * amount, wrapping_add[T][m] > T
  PROVE  (R + amount) * T >= R * wrapping_add[T][m]
  <1>1. T \in Nat /\ R \in Nat /\ amount \in Nat /\ m \in Nat /\ MaxBalance \in Nat
        /\ T <= MaxBalance /\ m <= MaxBalance
    BY WidthAssumption DEF Balance
  <1>2. wrapping_add[T][m] = T + m
    <2>1. CASE T + m <= MaxBalance
      BY <1>1, <2>1, AddExact
    <2>2. CASE ~ (T + m <= MaxBalance)
      <3>1. Panic \notin {T, m} /\ T \in Int /\ m \in Int
        BY <1>1 DEF Panic
      <3>2. wrapping_add[T][m] = (T + m) % (MaxBalance + 1)
        BY <3>1 DEF wrapping_add
      <3>3. (T + m) % (MaxBalance + 1) = T + m - (MaxBalance + 1)
        <4> DEFINE d == T + m - (MaxBalance + 1)
        <4>1. d \in 0..MaxBalance /\ T + m = d + (MaxBalance + 1)
          BY <1>1, <2>2
        <4> HIDE DEF d
        <4>2. (d + (MaxBalance + 1)) % (MaxBalance + 1) = d
          BY <1>1, <4>1
        <4> QED
          BY <4>1, <4>2 DEF d
      <3> QED
        BY <1>1, <3>2, <3>3
    <2> QED
      BY <2>1, <2>2
  <1>3. (R + amount) * T = R * T + T * amount /\ R * (T + m) = R * T + m * R
    BY <1>1
  <1>4. R * T \in Int /\ T * amount \in Int /\ m * R \in Int
    BY <1>1
  <1> QED
    BY <1>2, <1>3, <1>4

\* A removal that lowers the total pays no more than the share of what it took off it.
LEMMA RemovalDilutesNobody ==
  ASSUME NEW T \in Balance, NEW R \in Balance, NEW l \in Balance, NEW amount \in Balance,
         amount * T <= R * l, wrapping_sub[T][l] < T
  PROVE  (R - amount) * T >= R * wrapping_sub[T][l]
  <1>1. T \in Nat /\ R \in Nat /\ l \in Nat /\ amount \in Nat /\ MaxBalance \in Nat
        /\ T <= MaxBalance /\ l <= MaxBalance
    BY WidthAssumption DEF Balance
  <1>2. l <= T
    <2> SUFFICES ASSUME ~ (l <= T) PROVE FALSE
      OBVIOUS
    <2>1. Panic \notin {T, l} /\ T \in Int /\ l \in Int
      BY <1>1 DEF Panic
    <2>2. wrapping_sub[T][l] = (T - l) % (MaxBalance + 1)
      BY <2>1 DEF wrapping_sub
    <2>3. (T - l) % (MaxBalance + 1) = T - l + (MaxBalance + 1)
      <3> DEFINE d == T - l + (MaxBalance + 1)
      <3>1. d \in 0..MaxBalance /\ T - l = d - (MaxBalance + 1)
        BY <1>1
      <3> HIDE DEF d
      <3>2. (d - (MaxBalance + 1)) % (MaxBalance + 1) = d
        BY <1>1, <3>1
      <3> QED
        BY <3>1, <3>2 DEF d
    <2> QED
      BY <1>1, <2>2, <2>3
  <1>3. wrapping_sub[T][l] = T - l
    BY <1>1, <1>2, SubExact
  <1>4. (R - amount) * T = R * T - amount * T /\ R * (T - l) = R * T - R * l
    BY <1>1
  <1>5. R * T \in Int /\ amount * T \in Int /\ R * l \in Int
    BY <1>1
  <1> QED
    BY <1>3, <1>4, <1>5

\* If the reserve does not fall and the liquidity does not rise, each unit keeps its backing.
LEMMA ProductMonotone ==
  ASSUME NEW R \in Nat, NEW R2 \in Nat, NEW T \in Nat, NEW T2 \in Nat, R <= R2, T2 <= T
  PROVE  R2 * T >= R * T2
  <1>1. R2 * T >= R * T
    OBVIOUS
  <1>2. R * T >= R * T2
    OBVIOUS
  <1>3. R2 * T \in Int /\ R * T \in Int /\ R * T2 \in Int
    OBVIOUS
  <1> QED
    BY <1>1, <1>2, <1>3

\* The liquidity of a pair and the backing of its units, before and after a step.
Diluted(id) ==
    /\ id # inherent_asset_id /\ total_liquidity[id] # 0
    /\ \/ total_liquidity'[id] < total_liquidity[id]
       \/ /\ total_liquidity'[id] > total_liquidity[id]
          /\ inherent_reserve(id)' > inherent_reserve(id)
    /\ ~ (inherent_reserve(id)' * total_liquidity[id]
            >= inherent_reserve(id) * total_liquidity'[id])

\* add_liquidity dilutes no pool, whether its transfers go through or not.
LEMMA AddKeepsShares ==
  ASSUME SwapInv, NEW who \in Signers, NEW id \in AssetIds,
         NEW amount \in Balance, NEW asset_amount \in Balance,
         add_liquidity(who, id, amount, asset_amount), id # inherent_asset_id,
         total_liquidity[id] # 0
  PROVE  ~ Diluted(id)
  <1> DEFINE T  == total_liquidity[id]
             T2 == total_liquidity'[id]
             R  == inherent_reserve(id)
             R2 == inherent_reserve(id)'
             m  == minted(id, amount)
  <1>1. /\ T \in Balance /\ R \in Balance /\ T2 = total_after(id, amount) /\ T2 \in Balance
        /\ total_liquidity \in [AssetIds -> Balance]
    <2>1. T \in Balance /\ R \in Balance /\ total_liquidity \in [AssetIds -> Balance]
      BY SwapFacts DEF SwapInv, SwapTypeOK
    <2>2. T2 = total_after(id, amount)
      BY <2>1 DEF add_liquidity
    <2>3. total_after(id, amount) \in Balance
      BY Added
    <2> QED
      BY <2>1, <2>2, <2>3
  <1>2. inherent_asset_id' = inherent_asset_id
    BY DEF add_liquidity
  <1>3. R2 \in {R, R + amount} /\ R2 >= R
    <2>1. R2 = balances'[inherent_asset_id][get_exchange_address(id)]
      BY <1>2 DEF inherent_reserve, get_exchange_address
    <2>2. balances'[inherent_asset_id][get_exchange_address(id)] \in {R, R + amount}
      BY Added
    <2>3. R \in Int /\ amount \in Nat
      BY <1>1, WidthAssumption DEF Balance
    <2> HIDE DEF R2, R
    <2> QED
      BY <2>1, <2>2, <2>3
  <1>4. T2 = wrapping_add[T][m] /\ m \in Balance /\ m * R <= T * amount
    <2>1. T2 = wrapping_add[T][m]
      BY <1>1 DEF total_after
    <2>2. T \in Outcome /\ R \in Outcome /\ amount \in Outcome
      BY <1>1 DEF Outcome
    <2>3. m = wrapping_mul_div[T][amount][R]
      BY DEF minted
    <2> HIDE DEF m, T, R, T2
    <2>4. m \in Outcome /\ (m # Panic => m * R <= T * amount)
      BY <2>2, <2>3, MulDivFacts
    <2>5. m # Panic
      <3> SUFFICES ASSUME m = Panic PROVE FALSE
        OBVIOUS
      <3>1. wrapping_add[T][Panic] = Panic
        BY <1>1, OutcomeIsInt DEF wrapping_add, Panic
      <3> QED
        BY <1>1, <2>1, <3>1, WidthAssumption DEF Balance, Panic
    <2> QED
      BY <2>1, <2>4, <2>5 DEF Outcome
  <1>5. T \in Nat /\ T2 \in Nat /\ R \in Nat /\ R2 \in Nat /\ amount \in Nat
    BY <1>1, <1>3, WidthAssumption DEF Balance
  <1>6. T2 > T /\ R2 > R => R2 * T >= R * T2
    <2> HIDE DEF R, R2, T, T2, m
    <2> SUFFICES ASSUME T2 > T, R2 > R PROVE R2 * T >= R * T2
      OBVIOUS
    <2>1. R2 = R + amount
      BY <1>3, <1>5
    <2>2. (R + amount) * T >= R * T2
      BY <1>1, <1>4, DepositDilutesNobody
    <2> QED
      BY <2>1, <2>2
  <1>7. T2 < T => R2 * T >= R * T2
    <2> HIDE DEF R, R2, T, T2, m
    <2> QED
      BY <1>3, <1>5, ProductMonotone
  <1> QED
    BY <1>6, <1>7 DEF Diluted

\* remove_liquidity dilutes no pool: who removes more than there is raises the total by the
\* wrapped difference, and no reserve rises.
LEMMA RemoveKeepsShares ==
  ASSUME SwapInv, NEW who \in Signers, NEW id \in AssetIds, NEW liquidity \in Balance,
         remove_liquidity(who, id, liquidity), id # inherent_asset_id
  PROVE  ~ Diluted(id)
  <1> DEFINE T  == total_liquidity[id]
             T2 == total_liquidity'[id]
             R  == inherent_reserve(id)
             R2 == inherent_reserve(id)'
             amount == share(R, liquidity, T)
  <1>1. T \in Balance /\ R \in Balance /\ T2 = wrapping_sub[T][liquidity] /\ T2 \in Balance
    <2>1. T \in Balance /\ R \in Balance /\ total_liquidity \in [AssetIds -> Balance]
      BY SwapFacts DEF SwapInv, SwapTypeOK
    <2>2. T2 = wrapping_sub[T][liquidity]
      BY <2>1 DEF remove_liquidity
    <2> QED
      BY <2>1, <2>2, WrapStaysInWidth
  <1>2. /\ inherent_asset_id' = inherent_asset_id
        /\ inherent_asset_id \in AssetIds /\ get_exchange_address(id) \in Reserves
    BY SwapFacts DEF remove_liquidity
  <1>3. amount \in Balance /\ R2 \in {R, R - amount}
    <2>1. R2 = balances'[inherent_asset_id][get_exchange_address(id)]
      BY <1>2 DEF inherent_reserve, get_exchange_address
    <2>2. amount \in Balance
          /\ balances'[inherent_asset_id][get_exchange_address(id)] \in {R, R - amount}
      BY Removed
    <2> QED
      BY <2>1, <2>2
  <1>4. amount * T <= R * liquidity
    <2>1. T \in Outcome /\ R \in Outcome /\ liquidity \in Outcome
      BY <1>1 DEF Outcome
    <2>2. amount = wrapping_mul_div[R][liquidity][T]
      BY DEF share
    <2>3. amount # Panic
      BY <1>3, WidthAssumption DEF Balance, Panic
    <2> HIDE DEF amount, T, R
    <2> QED
      BY <2>1, <2>2, <2>3, MulDivFacts
  <1>5. T \in Nat /\ T2 \in Nat /\ R \in Nat /\ R2 \in Int /\ amount \in Nat
    BY <1>1, <1>3, WidthAssumption DEF Balance
  <1> HIDE DEF R, R2, T, T2, amount
  <1>6. ~ (R2 > R)
    BY <1>3, <1>5
  <1>7. T2 < T => R2 * T >= R * T2
    <2> SUFFICES ASSUME T2 < T PROVE R2 * T >= R * T2
      OBVIOUS
    <2>1. (R - amount) * T >= R * T2
      BY <1>1, <1>3, <1>4, RemovalDilutesNobody
    <2>2. R * T >= R * T2
      BY <1>5, ProductMonotone
    <2> QED
      BY <1>3, <2>1, <2>2
  <1> QED
    BY <1>6, <1>7 DEF Diluted, R, R2, T, T2

\* No step dilutes a pair: trades and the ledger's own calls leave liquidity alone.
LEMMA NobodyDiluted ==
  ASSUME SwapInv, [Next]_vars, NEW id \in PairedIds
  PROVE  ~ Diluted(id)
  <1>1. /\ Providers \subseteq Signers /\ PairedIds \subseteq AssetIds
        /\ Removals \subseteq Balance /\ Deposits \subseteq Balance \X Balance
    BY SwapAssumption
  <1>2. total_liquidity \in [AssetIds -> Balance] /\ total_liquidity[id] \in Int
    BY <1>1, OutcomeIsInt DEF SwapInv, SwapTypeOK
  <1>3. ASSUME total_liquidity'[id] = total_liquidity[id] PROVE ~ Diluted(id)
    BY <1>2, <1>3 DEF Diluted
  <1>4. ASSUME NEW who \in Providers, NEW id0 \in PairedIds, NEW d \in Deposits,
               add_liquidity(who, id0, d[1], d[2])
        PROVE  ~ Diluted(id)
    <2>1. d[1] \in Balance /\ d[2] \in Balance /\ who \in Signers /\ id0 \in AssetIds
      BY <1>1
    <2>2. CASE id = id0
      BY <1>4, <2>1, <2>2, AddKeepsShares DEF Diluted
    <2>3. CASE id # id0
      BY <1>2, <1>3, <1>4, <2>3 DEF add_liquidity
    <2> QED
      BY <2>2, <2>3
  <1>5. ASSUME NEW who \in Providers, NEW id0 \in PairedIds, NEW liquidity \in Removals,
               remove_liquidity(who, id0, liquidity)
        PROVE  ~ Diluted(id)
    <2>1. liquidity \in Balance /\ who \in Signers /\ id0 \in AssetIds
      BY <1>1
    <2>2. CASE id = id0
      BY <1>5, <2>1, <2>2, RemoveKeepsShares DEF Diluted
    <2>3. CASE id # id0
      BY <1>2, <1>3, <1>5, <2>3 DEF remove_liquidity
    <2> QED
      BY <2>2, <2>3
  <1> QED
    BY <1>3, <1>4, <1>5 DEF Next, vars, swap_vars, swap_assets_with_exact_input,
                            swap_assets_with_exact_output, set_fee_rate

-----------------------------------------------------------------------------
(* The theorems. *)

\* The genesis state satisfies the invariant.
LEMMA SwapInitEstablishes ==
  ASSUME Init PROVE SwapInv
  <1>1. LedgerInv /\ AssetsTypeOK
    BY GenesisLedger DEF Init, LedgerInv
  <1>2. nobody \in [Accounts -> Balance] /\ 0 \in Balance
    BY WidthAssumption DEF nobody, Balance
  <1>3. exchange_account \in [{} -> Accounts] /\ {} \in SUBSET AssetIds
    BY DEF Init
  <1> QED
    BY <1>1, <1>2, <1>3, SwapAssumption DEF Init, SwapInv, SwapTypeOK

\* The invariant is inductive: it holds in the genesis state and every step keeps it.
THEOREM SwapInvariance == Spec => []SwapInv
  <1>1. Init => SwapInv
    BY SwapInitEstablishes
  <1>2. SwapInv /\ [Next]_vars => SwapInv'
    BY SwapStep
  <1> QED
    BY <1>1, <1>2, PTL DEF Spec

\* No swap or change of liquidity stores a panic value or a number wider than a u128.
THEOREM SwapTypeCorrect == Spec => []SwapTypeOK
  <1>1. SwapInv => SwapTypeOK
    BY DEF SwapInv
  <1> QED
    BY <1>1, SwapInvariance, PTL

\* Through trades in one hop and in two, and transfers that silently fail, the units of an
\* asset the accounts hold add up to its TotalSupply.
THEOREM SwapConservesUnits == Spec => []Conservation
  <1>1. SwapInv => Conservation
    BY DEF SwapInv, LedgerInv
  <1> QED
    BY <1>1, SwapInvariance, PTL

\* No trade raises an asset's supply.
THEOREM SwapSupplyNeverGrows == Spec => SupplyOnlyShrinks
  <1>1. SwapInv /\ [Next]_vars =>
            [\A id \in AssetIds : id < next_asset_id =>
                total_supply'[id] <= total_supply[id]]_assets_vars
    BY SwapStep DEF LedgerStep
  <1> QED
    BY <1>1, SwapInvariance, PTL DEF Spec, SupplyOnlyShrinks

\* The exchange on the assets pallet implements the abstract ledger: a swap or a change of
\* liquidity takes units from the caller and the pools, and from no other holder.
THEOREM ExchangeKeepsCustody == Spec => KeepsCustody
  <1>1. Init => Ledger!Init
    BY GenesisLedger DEF Init
  <1>2. SwapInv /\ [Next]_vars => [Ledger!Next]_(Ledger!ledger)
    BY SwapStep DEF LedgerStep
  <1> QED
    BY <1>1, <1>2, SwapInvariance, PTL DEF Spec, KeepsCustody, Ledger!Spec

\* No removal, and no deposit whose inherent asset arrived, dilutes the liquidity of a pair, by
\* rounding or by overflow.
THEOREM SharesAreKept == Spec => SharesKept
  <1>1. SwapInv /\ [Next]_vars =>
            [\A id \in PairedIds :
              /\ id # inherent_asset_id /\ total_liquidity[id] # 0
              /\ \/ total_liquidity'[id] < total_liquidity[id]
                 \/ total_liquidity'[id] > total_liquidity[id]
                      /\ inherent_reserve(id)' > inherent_reserve(id)
              => inherent_reserve(id)' * total_liquidity[id]
                   >= inherent_reserve(id) * total_liquidity'[id]]_vars
    BY NobodyDiluted DEF Diluted
  <1> QED
    BY <1>1, SwapInvariance, PTL DEF Spec, SharesKept

\* A pool that was traded with at its price keeps its product, and one the inherent asset
\* was paid into pays what calculate_output quoted.
LEMMA PricedTrade ==
  ASSUME SwapInv, NEW id \in AssetIds, traded(id), PaidAtPrice(id), tradable(id)
  PROVE  /\ product(id)' >= product(id)
         /\ inherent_reserve(id)' - inherent_reserve(id) > 0 =>
                paired_reserve(id) - paired_reserve(id)'
                  = calculate_output(inherent_asset_id, id,
                                     inherent_reserve(id)' - inherent_reserve(id))
  <1> DEFINE R  == inherent_reserve(id)
             P  == paired_reserve(id)
             R2 == inherent_reserve(id)'
             P2 == paired_reserve(id)'
  <1>1. R \in Balance /\ P \in Balance /\ R \in Nat /\ P \in Nat
    BY SwapFacts, WidthAssumption DEF Balance
  <1>2. product(id) = R * P /\ product(id)' = R2 * P2
    BY DEF product
  <1>3. PICK amount \in Balance : Sold(amount, R, P, R2, P2) \/ Sold(amount, P, R, P2, R2)
    BY DEF PaidAtPrice
  <1>4. \A a : calculate_output(inherent_asset_id, id, a) = calc_output_at_known_input(a, R, P)
    BY DEF calculate_output, calc_paired_asset_output_amount
  <1> HIDE DEF R, P, R2, P2
  <1>5. amount \in Nat
    BY WidthAssumption DEF Balance
  <1>6. CASE Sold(amount, R, P, R2, P2)
    <2> DEFINE q == calc_output_at_known_input(amount, R, P)
    <2>1. R2 * P2 >= R * P
      BY <1>1, <1>6, SoldKeepsProduct
    <2>2. R2 = R + amount /\ P2 = P - q /\ q \in Balance
      BY <1>6 DEF Sold
    <2> HIDE DEF q
    <2>3. q \in Nat
      BY <2>2, WidthAssumption DEF Balance
    <2>4. R2 - R = amount /\ P - P2 = q
      BY <1>1, <1>5, <2>2, <2>3
    <2> QED
      BY <1>2, <1>4, <2>1, <2>4 DEF q, R, P, R2, P2
  <1>7. CASE Sold(amount, P, R, P2, R2)
    <2> DEFINE q == calc_output_at_known_input(amount, P, R)
    <2>1. P2 * R2 >= P * R
      BY <1>1, <1>7, SoldKeepsProduct
    <2>2. P2 = P + amount /\ R2 = R - q /\ q \in Balance
      BY <1>7 DEF Sold
    <2> HIDE DEF q
    <2>3. q \in Nat
      BY <2>2, WidthAssumption DEF Balance
    <2>4. ~ (R2 - R > 0) /\ P2 * R2 = R2 * P2 /\ P * R = R * P
      BY <1>1, <1>5, <2>2, <2>3
    <2> QED
      BY <1>2, <2>1, <2>4 DEF R, R2
  <1> QED
    BY <1>3, <1>6, <1>7

\* Whatever a step is, the product of a pool it was paid to trade with falls only if the
\* step is a swap with an exact output.
THEOREM ProductIsKept == Spec => ProductKept
  <1>1. SwapInv /\ [Next]_vars =>
            [\A id \in PairedIds :
               traded(id) /\ paid(id) /\ ~ ByExactOutput => product(id)' >= product(id)]_vars
    BY SwapStep, PricedTrade, SwapAssumption
  <1> QED
    BY <1>1, SwapInvariance, PTL DEF Spec, ProductKept

\* By any other trade, whoever pays the inherent asset into a pool gets what calculate_output
\* quotes.
THEOREM TradesPayTheQuote == Spec => QuotesStand
  <1>1. ASSUME SwapInv, [Next]_vars, ~ ByExactOutput, NEW id \in PairedIds, traded(id),
               inherent_reserve(id)' - inherent_reserve(id) > 0
        PROVE  paired_reserve(id) - paired_reserve(id)'
                 = calculate_output(inherent_asset_id, id,
                                    inherent_reserve(id)' - inherent_reserve(id))
    <2>1. id \in AssetIds /\ SwapInv'
      BY <1>1, SwapStep, SwapAssumption
    <2>2. inherent_reserve(id) \in Int /\ inherent_reserve(id)' \in Int
      <3>1. inherent_reserve(id) \in Balance
        BY <1>1, <2>1, SwapFacts
      <3>2. balances' \in Ledgers
        BY <2>1 DEF SwapInv, LedgerInv, AssetsTypeOK, Ledgers
      <3>3. inherent_reserve(id)' = balances'[inherent_asset_id][get_exchange_address(id)]
        BY <1>1 DEF traded, inherent_reserve, get_exchange_address
      <3>4. inherent_reserve(id)' \in Balance
        BY <1>1, <2>1, <3>2, <3>3, SwapFacts DEF Ledgers, Reserves
      <3> QED
        BY <3>1, <3>4, OutcomeIsInt
    <2>3. paid(id)
      BY <1>1, <2>2 DEF paid
    <2>4. PaidAtPrice(id) /\ tradable(id)
      BY <1>1, <2>1, <2>3, SwapStep
    <2> QED
      BY <1>1, <2>1, <2>4, PricedTrade
  <1>2. SwapInv /\ [Next]_vars =>
            [\A id \in PairedIds :
               LET payment == inherent_reserve(id)' - inherent_reserve(id)
               IN  traded(id) /\ payment > 0 /\ ~ ByExactOutput =>
                     paired_reserve(id) - paired_reserve(id)'
                       = calculate_output(inherent_asset_id, id, payment)]_vars
    BY <1>1
  <1> QED
    BY <1>2, SwapInvariance, PTL DEF Spec, QuotesStand
=============================================================================
