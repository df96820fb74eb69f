---------------------------- MODULE AssetsProofs ----------------------------
(***************************************************************************)
(* For every width, every finite set of accounts and every sequence of     *)
(* transfers, by whatever pallet: units of an asset are neither made nor   *)
(* lost, no credit wraps, and only the caller's wallet is debited.  The    *)
(* proofs about lending and about swap build on this module.               *)
(***************************************************************************)
EXTENDS Assets, FixedU128Proofs, FiniteSetTheorems

-----------------------------------------------------------------------------
(* Sums over a finite set C, of accounts or of assets.  A sum is a recursion over the sets   *)
(* in C; what holds of it for every set is shown by a smallest set of which it does not hold. *)

SumOver(C, f) == MapThenSumSet(LAMBDA a : f[a], C)

pick(s) == CHOOSE a \in s : TRUE

\* The sum over a set, from that over the set without the element picked first; the sums over
\* all sets; what is known of them.
Step(f, sum, s) == IF s = {} THEN 0 ELSE f[pick(s)] + sum[s \ {pick(s)}]
Sums(C, f, sum) == sum = [s \in SUBSET C |-> Step(f, sum, s)]
AddsUp(C, f, sum) ==
    sum \in [SUBSET C -> Int] /\ \A s \in SUBSET C : sum[s] = Step(f, sum, s)

\* The set without the element that is picked first has one element less.
LEMMA OneLess ==
  ASSUME NEW C, IsFiniteSet(C), NEW s \in SUBSET C, s # {}
  PROVE  /\ pick(s) \in s /\ s \ {pick(s)} \in SUBSET C
         /\ Cardinality(s) \in Nat /\ Cardinality(s \ {pick(s)}) = Cardinality(s) - 1
  <1>1. IsFiniteSet(s)
    BY FS_Subset
  <1>2. pick(s) \in s
    BY DEF pick
  <1> QED
    BY <1>1, <1>2, FS_CardinalityType, FS_RemoveElement

\* What fails for some set fails for one that is rid of it with one element less.
LEMMA SmallestSet ==
  ASSUME NEW C, IsFiniteSet(C), NEW T \in SUBSET SUBSET C, T # {}
  PROVE  \E s \in T : s # {} => s \ {pick(s)} \notin T
  <1> DEFINE sizes == {Cardinality(s) : s \in T}
  <1>1. \A s \in T : IsFiniteSet(s) /\ Cardinality(s) \in Nat
    BY FS_Subset, FS_CardinalityType
  <1>2. sizes \in SUBSET Nat /\ sizes # {}
    BY <1>1
  <1>3. PICK n \in sizes : \A m \in sizes : n <= m
    BY <1>2, LeastNumber
  <1>4. PICK s \in T : Cardinality(s) = n
    BY <1>3
  <1>5. ASSUME s # {}, s \ {pick(s)} \in T PROVE FALSE
    <2>1. Cardinality(s \ {pick(s)}) = Cardinality(s) - 1
      BY <1>5, OneLess
    <2>2. n <= Cardinality(s \ {pick(s)})
      BY <1>3, <1>5
    <2> QED
      BY <1>1, <1>4, <2>1, <2>2
  <1> QED
    BY <1>4, <1>5

\* The recursion has a solution over a finite set.
LEMMA SumsExist ==
  ASSUME NEW C, IsFiniteSet(C), NEW f \in [C -> Int]
  PROVE  \E sum \in [SUBSET C -> Int] : Sums(C, f, sum)
  <1> DEFINE Upto(n) == {g \in [SUBSET C -> Int] :
                            \A s \in SUBSET C : Cardinality(s) <= n => g[s] = Step(f, g, s)}
             T == {n \in Nat : Upto(n) = {}}
  <1>1. ASSUME NEW s \in SUBSET C PROVE IsFiniteSet(s) /\ Cardinality(s) \in Nat
    BY FS_Subset, FS_CardinalityType
  <1>2. 0 \notin T
    <2> DEFINE z == [s \in SUBSET C |-> 0]
    <2>1. ASSUME NEW s \in SUBSET C, Cardinality(s) <= 0 PROVE z[s] = Step(f, z, s)
      <3>1. s = {}
        BY <1>1, <2>1, FS_EmptySet
      <3> QED
        BY <3>1 DEF Step
    <2>2. z \in Upto(0)
      BY <2>1
    <2> QED
      BY <2>2
  <1>3. ASSUME NEW n \in Nat, n \notin T PROVE n + 1 \notin T
    <2>1. PICK g \in Upto(n) : TRUE
      BY <1>3
    <2> DEFINE h == [s \in SUBSET C |-> Step(f, g, s)]
    <2>2. /\ g \in [SUBSET C -> Int]
          /\ \A s \in SUBSET C : Cardinality(s) <= n => g[s] = Step(f, g, s)
      BY <2>1
    <2> HIDE DEF Upto
    <2>3. ASSUME NEW s \in SUBSET C PROVE Step(f, g, s) \in Int
      <3>1. CASE s = {}
        BY <3>1 DEF Step
      <3>2. CASE s # {}
        <4>1. pick(s) \in C /\ s \ {pick(s)} \in SUBSET C
          BY <3>2, OneLess
        <4> DEFINE r == s \ {pick(s)}
        <4>2. f[pick(s)] \in Int /\ g[r] \in Int
          BY <2>2, <4>1
        <4> QED
          BY <3>2, <4>2 DEF Step
      <3> QED
        BY <3>1, <3>2
    <2>4. h \in [SUBSET C -> Int]
      BY <2>3
    <2>5. ASSUME NEW s \in SUBSET C, Cardinality(s) <= n + 1 PROVE h[s] = Step(f, h, s)
      <3>1. CASE s = {}
        BY <3>1 DEF Step
      <3>2. CASE s # {}
        <4> DEFINE r == s \ {pick(s)}
        <4>1. r \in SUBSET C /\ Cardinality(r) <= n
          BY <2>5, <3>2, OneLess
        <4>2. g[r] = h[r]
          BY <2>2, <4>1
        <4> QED
          BY <3>2, <4>2 DEF Step
      <3> QED
        BY <3>1, <3>2
    <2>6. h \in Upto(n + 1)
      <3> HIDE DEF h
      <3> QED
        BY <2>4, <2>5 DEF Upto
    <2> QED
      BY <2>6
  <1>4. T = {}
    <2> SUFFICES ASSUME T # {} PROVE FALSE
      OBVIOUS
    <2>1. T \in SUBSET Nat
      OBVIOUS
    <2> HIDE DEF T
    <2>2. PICK n \in T : \A m \in T : n <= m
      BY <2>1, LeastNumber
    <2>3. n - 1 \in Nat /\ n - 1 \notin T
      BY <1>2, <2>1, <2>2
    <2> QED
      BY <1>3, <2>3, <2>2, <2>1
  <1>5. Cardinality(C) \in Nat
    BY <1>1
  <1>6. PICK g \in Upto(Cardinality(C)) : TRUE
    BY <1>4, <1>5
  <1>7. ASSUME NEW s \in SUBSET C PROVE g[s] = Step(f, g, s)
    <2>1. Cardinality(s) <= Cardinality(C)
      BY FS_Subset
    <2> QED
      BY <1>6, <2>1
  <1>8. g \in [SUBSET C -> Int]
    BY <1>6
  <1>9. Sums(C, f, g)
    BY <1>7, <1>8 DEF Sums
  <1> QED
    BY <1>8, <1>9

\* A sum is the solution's value for the whole set, and the solution's values are integers.
LEMMA SumIsSolution ==
  ASSUME NEW C, IsFiniteSet(C), NEW f \in [C -> Int]
  PROVE  \E sum : AddsUp(C, f, sum) /\ SumOver(C, f) = sum[C]
  <1> DEFINE sum == CHOOSE g : Sums(C, f, g)
  <1>1. SumOver(C, f) = sum[C]
    BY DEF SumOver, MapThenSumSet, MapThenFoldSet, Sums, Step, pick
  <1>2. Sums(C, f, sum)
    BY SumsExist
  <1> HIDE DEF sum
  <1>3. \A s \in SUBSET C : sum[s] = Step(f, sum, s)
    BY <1>2 DEF Sums
  <1>4. DOMAIN sum = SUBSET C /\ sum = [s \in SUBSET C |-> sum[s]]
    BY <1>2 DEF Sums
  <1>5. \A s \in SUBSET C : sum[s] \in Int
    <2> DEFINE T == {s \in SUBSET C : sum[s] \notin Int}
    <2> SUFFICES ASSUME T # {} PROVE FALSE
      OBVIOUS
    <2>1. PICK s \in T : s # {} => s \ {pick(s)} \notin T
      BY SmallestSet
    <2>2. s # {} => sum[s \ {pick(s)}] \in Int /\ pick(s) \in C
      BY <2>1, OneLess
    <2>3. sum[s] = Step(f, sum, s)
      BY <1>3
    <2> QED
      BY <2>2, <2>1, <2>3 DEF Step
  <1>6. sum \in [SUBSET C -> Int]
    BY <1>4, <1>5
  <1> QED
    BY <1>1, <1>3, <1>6 DEF AddsUp

\* Changing one term changes the sum by as much.
LEMMA SumChanged ==
  ASSUME NEW C, IsFiniteSet(C), NEW f \in [C -> Int], NEW g \in [C -> Int], NEW a \in C,
         g = [f EXCEPT ![a] = g[a]]
  PROVE  SumOver(C, g) = SumOver(C, f) + g[a] - f[a]
  <1> DEFINE v == g[a]
  <1>1. v \in Int /\ \A b \in C : g[b] = IF b = a THEN v ELSE f[b]
    OBVIOUS
  <1> HIDE DEF v
  <1>2. PICK i : AddsUp(C, f, i) /\ SumOver(C, f) = i[C]
    BY SumIsSolution
  <1>3. PICK j : AddsUp(C, g, j) /\ SumOver(C, g) = j[C]
    BY <1>1, SumIsSolution
  <1> DEFINE more(s) == IF a \in s THEN v - f[a] ELSE 0
             T == {s \in SUBSET C : j[s] # i[s] + more(s)}
  <1>4. T = {}
    <2> SUFFICES ASSUME T # {} PROVE FALSE
      OBVIOUS
    <2>1. PICK s \in T : s # {} => s \ {pick(s)} \notin T
      BY SmallestSet
    <2>2. s \in SUBSET C /\ j[s] # i[s] + more(s)
      BY <2>1
    <2>3. i[s] = Step(f, i, s) /\ j[s] = Step(g, j, s)
      BY <1>2, <1>3, <2>2 DEF AddsUp
    <2>4. CASE s = {}
      BY <2>2, <2>3, <2>4 DEF Step
    <2>5. CASE s # {}
      <3> DEFINE p == pick(s)
                 r == s \ {p}
      <3>1. p \in s /\ p \in C /\ r \in SUBSET C
        BY <2>2, <2>5, OneLess
      <3>2. j[r] = i[r] + more(r)
        BY <2>1, <2>5, <3>1
      <3>3. i[s] = f[p] + i[r] /\ j[s] = g[p] + j[r]
        BY <2>3, <2>5 DEF Step
      <3>4. a \in r <=> a \in s /\ a # p
        BY <3>1
      <3>5. /\ f[p] \in Int /\ g[p] \in Int /\ f[a] \in Int
            /\ i[r] \in Int /\ i[s] \in Int /\ j[r] \in Int /\ j[s] \in Int
        BY <1>1, <1>2, <1>3, <2>2, <3>1 DEF AddsUp
      <3> HIDE DEF p, r
      <3>6. CASE a = p
        <4>1. a \in s /\ a \notin r /\ g[p] = v /\ f[p] = f[a]
          BY <1>1, <3>1, <3>4, <3>6
        <4> QED
          BY <2>2, <3>2, <3>3, <3>5, <4>1
      <3>7. CASE a # p
        <4>1. g[p] = f[p] /\ more(r) = more(s) /\ more(r) \in Int
          BY <1>1, <3>1, <3>4, <3>5, <3>7
        <4> HIDE DEF more
        <4> QED
          BY <2>2, <3>2, <3>3, <3>5, <4>1
      <3> QED
        BY <3>6, <3>7
    <2> QED
      BY <2>4, <2>5
  <1>5. j[C] = i[C] + v - f[a]
    <2>1. C \notin T
      BY <1>4
    <2> QED
      BY <2>1
  <1> QED
    BY <1>2, <1>3, <1>5 DEF v

\* A sum of amounts is an amount, and zero if all of them are.
LEMMA SumType ==
  ASSUME NEW C, IsFiniteSet(C), NEW f \in [C -> Nat]
  PROVE  SumOver(C, f) \in Nat /\ ((\A a \in C : f[a] = 0) => SumOver(C, f) = 0)
  <1>1. PICK i : AddsUp(C, f, i) /\ SumOver(C, f) = i[C]
    <2>1. f \in [C -> Int]
      OBVIOUS
    <2> QED
      BY <2>1, SumIsSolution
  <1> DEFINE fine(s) == i[s] >= 0 /\ ((\A a \in C : f[a] = 0) => i[s] = 0)
             T == {s \in SUBSET C : ~ fine(s)}
  <1>2. T = {}
    <2> SUFFICES ASSUME T # {} PROVE FALSE
      OBVIOUS
    <2>1. PICK s \in T : s # {} => s \ {pick(s)} \notin T
      BY SmallestSet
    <2>2. s \in SUBSET C /\ ~ fine(s) /\ i[s] = Step(f, i, s)
      BY <1>1, <2>1 DEF AddsUp
    <2>3. CASE s = {}
      BY <2>2, <2>3 DEF Step
    <2>4. CASE s # {}
      <3> DEFINE p == pick(s)
                 r == s \ {p}
      <3>1. p \in C /\ r \in SUBSET C
        BY <2>2, <2>4, OneLess
      <3>2. fine(r)
        BY <2>1, <2>4, <3>1
      <3>3. i[s] = f[p] + i[r]
        BY <2>2, <2>4 DEF Step
      <3> HIDE DEF p, r
      <3>4. f[p] \in Nat /\ i[r] \in Int
        BY <1>1, <3>1 DEF AddsUp
      <3> QED
        BY <2>2, <3>1, <3>2, <3>3, <3>4
    <2> QED
      BY <2>3, <2>4
  <1>3. fine(C) /\ i[C] \in Int
    BY <1>1, <1>2 DEF AddsUp
  <1> QED
    BY <1>1, <1>3

\* No amount exceeds the sum it is part of, and neither do two of them together.
LEMMA SumBounds ==
  ASSUME NEW C, IsFiniteSet(C), NEW f \in [C -> Nat], NEW a \in C, NEW b \in C
  PROVE  /\ f[a] <= SumOver(C, f)
         /\ a # b => f[a] + f[b] <= SumOver(C, f)
  <1> DEFINE g == [f EXCEPT ![a] = 0]
             h == [g EXCEPT ![b] = 0]
  <1>1. g \in [C -> Nat] /\ h \in [C -> Nat] /\ (a # b => g[b] = f[b])
    OBVIOUS
  <1>2. f \in [C -> Int] /\ g \in [C -> Int] /\ f[a] \in Nat /\ f[b] \in Nat
    OBVIOUS
  <1>3. SumOver(C, g) = SumOver(C, f) + 0 - f[a]
    <2>1. g = [f EXCEPT ![a] = g[a]] /\ g[a] = 0
      OBVIOUS
    <2> HIDE DEF g
    <2> QED
      BY <1>2, <2>1, SumChanged
  <1>4. SumOver(C, h) = SumOver(C, g) + 0 - g[b]
    <2>1. h = [g EXCEPT ![b] = h[b]] /\ h[b] = 0 /\ h \in [C -> Int]
      BY <1>1
    <2> HIDE DEF g, h
    <2> QED
      BY <1>2, <2>1, SumChanged
  <1> HIDE DEF g, h
  <1>5. SumOver(C, f) \in Nat /\ SumOver(C, g) \in Nat /\ SumOver(C, h) \in Nat
    BY <1>1, SumType
  <1> QED
    BY <1>1, <1>2, <1>3, <1>4, <1>5

\* What the accounts hold, added up.
Total(f) == SumOver(Accounts, f)

\* Changing what one account holds changes the total by as much: what transfer's put and
\* destroy's remove do to Balances.
LEMMA TotalChanged ==
  ASSUME NEW f \in [Accounts -> Int], NEW a \in Accounts, NEW v \in Int
  PROVE  Total([f EXCEPT ![a] = v]) = Total(f) + v - f[a]
  <1> DEFINE g == [f EXCEPT ![a] = v]
  <1>1. g \in [Accounts -> Int] /\ g = [f EXCEPT ![a] = g[a]] /\ g[a] = v
    OBVIOUS
  <1> HIDE DEF g
  <1>2. Total(g) = Total(f) + v - f[a]
    <2>1. IsFiniteSet(Accounts)
      BY AssetsAssumption
    <2> QED
      BY ONLY <1>1, <2>1, f \in [Accounts -> Int], a \in Accounts, SumChanged DEF Total
  <1> QED
    BY <1>2 DEF g

\* A total of amounts is an amount, and none if all of them are.
LEMMA TotalType ==
  ASSUME NEW f \in [Accounts -> Nat]
  PROVE  Total(f) \in Nat /\ ((\A a \in Accounts : f[a] = 0) => Total(f) = 0)
  BY AssetsAssumption, SumType DEF Total

\* Nobody holds more than the total, and neither do two accounts together: why no credit
\* of a transfer wraps.
LEMMA TotalBounds ==
  ASSUME NEW f \in [Accounts -> Nat], NEW a \in Accounts, NEW b \in Accounts
  PROVE  /\ f[a] <= Total(f)
         /\ a # b => f[a] + f[b] <= Total(f)
  BY AssetsAssumption, SumBounds DEF Total

-----------------------------------------------------------------------------
(* Transfers. *)

Ledgers == [AssetIds -> [Accounts -> Balance]]

\* A transfer with enough balance leaves a u128 in every account, the sender's own included.
LEMMA MovedType ==
  ASSUME NEW bal \in [AssetIds -> [Accounts -> Balance]],
         NEW from \in Accounts, NEW id \in AssetIds, NEW to \in Accounts, NEW amount \in Balance,
         transfer_ok(bal, from, id, amount)
  PROVE  moved(bal, from, id, to, amount) \in [AssetIds -> [Accounts -> Balance]]
  <1> DEFINE debited == [bal EXCEPT ![id][from] = @ - amount]
  <1>1. debited \in [AssetIds -> [Accounts -> Balance]]
    BY WidthAssumption DEF transfer_ok, Balance
  <1>2. moved(bal, from, id, to, amount) = [debited EXCEPT ![id][to] = wrapping_add[@][amount]]
    BY DEF moved
  <1> HIDE DEF debited
  <1>3. \A b \in Balance : wrapping_add[b][amount] \in Balance
    BY WrapStaysInWidth
  <1>4. debited[id][to] \in Balance
    BY <1>1
  <1>5. wrapping_add[debited[id][to]][amount] \in Balance
    BY <1>3, <1>4
  <1>6. moved(bal, from, id, to, amount)
            = [debited EXCEPT ![id] = [debited[id] EXCEPT ![to] = wrapping_add[debited[id][to]][amount]]]
    BY <1>2
  <1> QED
    BY <1>1, <1>5, <1>6

\* T::MultiAsset::transfer leaves a u128 in every account, whether or not it succeeds.
LEMMA TransferType ==
  ASSUME NEW bal \in [AssetIds -> [Accounts -> Balance]],
         NEW from \in Accounts, NEW id \in AssetIds, NEW to \in Accounts, NEW amount \in Balance
  PROVE  transfer(bal, from, id, to, amount) \in [AssetIds -> [Accounts -> Balance]]
  BY MovedType DEF transfer

-----------------------------------------------------------------------------
(* What a transfer does to a ledger whose totals fit in 128 bits. *)

Bounded(bal) == \A id \in AssetIds : Total(bal[id]) <= MaxBalance

\* A transfer that has the balance moves the amount, exactly: the debit does not go below
\* zero, the credit does not wrap, and to oneself nothing moves.
LEMMA MovedExactly ==
  ASSUME NEW bal \in Ledgers, Bounded(bal),
         NEW from \in Accounts, NEW id \in AssetIds, NEW to \in Accounts, NEW amount \in Balance,
         transfer_ok(bal, from, id, amount)
  PROVE  LET after == moved(bal, from, id, to, amount)
         IN  /\ after \in Ledgers
             /\ \A i \in AssetIds : Total(after[i]) = Total(bal[i])
             /\ \A i \in AssetIds, a \in Accounts :
                    after[i][a] = IF i # id \/ from = to THEN bal[i][a]
                                  ELSE IF a = from THEN bal[i][a] - amount
                                  ELSE IF a = to THEN bal[i][a] + amount
                                  ELSE bal[i][a]
  <1> DEFINE f       == bal[id]
             g       == [f EXCEPT ![from] = f[from] - amount]
             h       == [g EXCEPT ![to] = g[to] + amount]
             debited == [bal EXCEPT ![id][from] = @ - amount]
             after   == moved(bal, from, id, to, amount)
  <1>1. /\ amount \in Nat /\ f[from] \in Nat /\ f[from] >= amount /\ f[from] - amount \in Nat
        /\ f \in [Accounts -> Nat] /\ f \in [Accounts -> Int]
        /\ \A a \in Accounts : f[a] <= MaxBalance
        /\ MaxBalance \in Nat
    BY WidthAssumption DEF Ledgers, Balance, transfer_ok
  <1>2. /\ g \in [Accounts -> Nat] /\ g \in [Accounts -> Int] /\ g[to] + amount \in Nat
        /\ g[to] = IF to = from THEN f[from] - amount ELSE f[to]
    BY <1>1
  <1>3. Total(g) = Total(f) + (f[from] - amount) - f[from]
    <2>1. f[from] - amount \in Int
      BY <1>1
    <2> HIDE DEF f
    <2> QED
      BY <1>1, <2>1, TotalChanged
  <1>4. Total(h) = Total(g) + (g[to] + amount) - g[to]
    <2>1. g[to] + amount \in Int
      BY <1>2
    <2> HIDE DEF g
    <2> QED
      BY <1>2, <2>1, TotalChanged
  <1>5. Total(f) \in Nat /\ Total(f) <= MaxBalance /\ Total(g) \in Nat
    BY <1>1, <1>2, TotalType DEF Bounded
  <1>6. Total(h) = Total(f)
    <2> HIDE DEF f, g, h
    <2> QED
      BY <1>1, <1>2, <1>3, <1>4, <1>5
  <1>7. g[to] + amount <= MaxBalance
    <2>1. from # to => f[from] + f[to] <= Total(f)
      BY <1>1, TotalBounds
    <2> HIDE DEF g
    <2> QED
      BY <1>1, <1>2, <1>5, <2>1
  <1>8. wrapping_add[g[to]][amount] = g[to] + amount
    <2> HIDE DEF g
    <2>1. g[to] \in Nat
      BY <1>2
    <2> QED
      BY <1>1, <1>7, <2>1, AddExact
  <1>9. /\ debited = [bal EXCEPT ![id] = g] /\ debited[id] = g /\ DOMAIN debited = AssetIds
        /\ DOMAIN g = Accounts
    <2>1. debited = [bal EXCEPT ![id] = g]
      OBVIOUS
    <2> HIDE DEF debited, g
    <2> QED
      BY <1>2, <2>1 DEF Ledgers
  <1>10. after = [debited EXCEPT ![id][to] = wrapping_add[@][amount]]
    BY DEF moved
  <1>11. after = [bal EXCEPT ![id] = h]
    <2> HIDE DEF debited, g
    <2> QED
      BY <1>8, <1>9, <1>10 DEF Ledgers
  <1>12. after \in Ledgers
    BY MovedType DEF Ledgers
  <1>13. \A i \in AssetIds : after[i] = IF i = id THEN h ELSE bal[i]
    <2> HIDE DEF h, after
    <2> QED
      BY <1>11 DEF Ledgers
  <1>14. \A i \in AssetIds : Total(after[i]) = Total(bal[i])
    <2> HIDE DEF h, after
    <2> QED
      BY <1>6, <1>13
  <1>15. ASSUME NEW a \in Accounts
         PROVE  h[a] = IF from = to THEN f[a]
                       ELSE IF a = from THEN f[a] - amount
                       ELSE IF a = to THEN f[a] + amount
                       ELSE f[a]
    <2> HIDE DEF f
    <2> QED
      BY <1>1
  <1> HIDE DEF h, after
  <1> QED
    BY <1>12, <1>13, <1>14, <1>15 DEF after

\* What a call of `who` may do to the wallets: no unit is made or lost, and of the accounts
\* somebody has a key of only the caller's is debited.
Handed(before, after, who) ==
    /\ after \in Ledgers
    /\ \A id \in AssetIds : Total(after[id]) = Total(before[id])
    /\ \A id \in AssetIds, holder \in Signers \ {who} : after[id][holder] >= before[id][holder]

\* A pallet that transfers from its caller, or from an account of its own, does no more, and
\* whether or not the transfer goes through.
LEMMA TransferHands ==
  ASSUME NEW bal \in Ledgers, Bounded(bal), NEW who,
         NEW from \in Accounts, NEW id \in AssetIds, NEW to \in Accounts, NEW amount \in Balance,
         from = who \/ from \notin Signers
  PROVE  Handed(bal, transfer(bal, from, id, to, amount), who)
  <1>1. \A i \in AssetIds, a \in Accounts : bal[i][a] \in Nat
    BY WidthAssumption DEF Ledgers, Balance
  <1>2. Signers \subseteq Accounts /\ amount \in Nat
    BY AssetsAssumption, WidthAssumption DEF Balance
  <1>3. CASE transfer_ok(bal, from, id, amount)
    <2> DEFINE after == moved(bal, from, id, to, amount)
    <2>1. /\ after \in Ledgers
          /\ \A i \in AssetIds : Total(after[i]) = Total(bal[i])
          /\ \A i \in AssetIds, a \in Accounts :
                 after[i][a] = IF i # id \/ from = to THEN bal[i][a]
                               ELSE IF a = from THEN bal[i][a] - amount
                               ELSE IF a = to THEN bal[i][a] + amount
                               ELSE bal[i][a]
      BY <1>3, MovedExactly
    <2> HIDE DEF after
    <2>2. ASSUME NEW i \in AssetIds, NEW holder \in Signers \ {who}
          PROVE  after[i][holder] >= bal[i][holder]
      BY <1>1, <1>2, <2>1
    <2> QED
      BY <1>3, <2>1, <2>2 DEF Handed, transfer, after
  <1>4. CASE ~ transfer_ok(bal, from, id, amount)
    BY <1>1, <1>2, <1>4 DEF Handed, transfer
  <1> QED
    BY <1>3, <1>4

\* A transfer known to have the balance, which lending checks first.
LEMMA MovedHands ==
  ASSUME NEW bal \in Ledgers, Bounded(bal), NEW who,
         NEW from \in Accounts, NEW id \in AssetIds, NEW to \in Accounts, NEW amount \in Balance,
         from = who \/ from \notin Signers,
         transfer_ok(bal, from, id, amount)
  PROVE  Handed(bal, moved(bal, from, id, to, amount), who)
  BY TransferHands DEF transfer

\* One transfer after the other in the same call.
LEMMA HandedOn ==
  ASSUME NEW bal \in Ledgers, NEW mid, NEW after, NEW who, Handed(bal, mid, who), Handed(mid, after, who)
  PROVE  Handed(bal, after, who)
  <1>1. \A i \in AssetIds, a \in Accounts :
            bal[i][a] \in Int /\ mid[i][a] \in Int /\ after[i][a] \in Int
    BY WidthAssumption DEF Handed, Ledgers, Balance
  <1>2. Signers \subseteq Accounts
    BY AssetsAssumption
  <1> QED
    BY <1>1, <1>2 DEF Handed

\* What is handed over fits where it was.
LEMMA HandedBounded ==
  ASSUME NEW bal, NEW after, NEW who, Bounded(bal), Handed(bal, after, who)
  PROVE  after \in Ledgers /\ Bounded(after)
  BY DEF Handed, Bounded

\* A call that touches no balance.
LEMMA NothingHanded ==
  ASSUME NEW bal \in Ledgers, NEW who
  PROVE  Handed(bal, bal, who)
  <1>1. \A i \in AssetIds, a \in Accounts : bal[i][a] \in Int
    BY WidthAssumption DEF Ledgers, Balance
  <1> QED
    BY <1>1, AssetsAssumption DEF Handed

-----------------------------------------------------------------------------
(* The extrinsics and the genesis build. *)

\* Every extrinsic of the assets pallet leaves its storage well formed.
LEMMA AssetsNextType ==
  ASSUME AssetsTypeOK, AssetsNext
  PROVE  AssetsTypeOK'
  <1>1. /\ AssetSigners \subseteq Accounts /\ Amounts \subseteq Balance
        /\ PriceFeed \subseteq AssetIds \X Balance
        /\ MaxAssetId \in Nat
    BY AssetsAssumption
  <1>2. ASSUME NEW who \in AssetSigners, NEW total \in Amounts, issue(who, total)
        PROVE  AssetsTypeOK'
    <2>1. next_asset_id \in AssetIds /\ next_asset_id' \in 0..(MaxAssetId + 1)
      BY <1>1, <1>2 DEF AssetsTypeOK, issue, AssetIds
    <2>2. balances' \in [AssetIds -> [Accounts -> Balance]]
      BY <1>1, <1>2, <2>1 DEF AssetsTypeOK, issue, issued
    <2>3. total_supply' \in [AssetIds -> Balance]
      BY <1>1, <1>2, <2>1 DEF AssetsTypeOK, issue
    <2> QED
      BY <1>2, <2>1, <2>2, <2>3 DEF AssetsTypeOK, issue
  <1>3. ASSUME NEW who \in AssetSigners, NEW id \in AssetIds, destroy(who, id)
        PROVE  AssetsTypeOK'
    <2>1. 0 \in Balance
      BY WidthAssumption DEF Balance
    <2>2. balances' \in [AssetIds -> [Accounts -> Balance]]
      BY <1>1, <1>3, <2>1 DEF AssetsTypeOK, destroy
    <2>3. wrapping_sub[total_supply[id]][balances[id][who]] \in Balance
      BY <1>1, WrapStaysInWidth DEF AssetsTypeOK
    <2>4. total_supply' \in [AssetIds -> Balance]
      BY <1>3, <2>3 DEF AssetsTypeOK, destroy
    <2> QED
      BY <1>3, <2>2, <2>4 DEF AssetsTypeOK, destroy
  <1>4. ASSUME NEW who \in AssetSigners, NEW id \in AssetIds, set_inherent_asset(who, id)
        PROVE  AssetsTypeOK'
    BY <1>4 DEF AssetsTypeOK, set_inherent_asset
  <1>5. ASSUME NEW who \in AssetSigners, NEW id \in AssetIds, NEW to \in Accounts,
               NEW amount \in Amounts, transfer_asset(who, id, to, amount)
        PROVE  AssetsTypeOK'
    <2>1. balances' \in [AssetIds -> [Accounts -> Balance]]
      BY <1>1, <1>5, TransferType DEF AssetsTypeOK, transfer_asset
    <2> QED
      BY <1>5, <2>1 DEF AssetsTypeOK, transfer_asset
  <1>6. ASSUME NEW feed \in PriceFeed, set_price(feed[1], feed[2])
        PROVE  AssetsTypeOK'
    <2>1. feed[1] \in AssetIds /\ feed[2] \in Balance
      BY <1>1
    <2>2. price' \in [AssetIds -> Balance]
      BY <1>6, <2>1 DEF AssetsTypeOK, set_price
    <2> QED
      BY <1>6, <2>2 DEF AssetsTypeOK, set_price
  <1> QED
    BY <1>2, <1>3, <1>4, <1>5, <1>6 DEF AssetsNext

\* A configured asset is an account, an amount and a price.
LEMMA GenesisEntry ==
  ASSUME NEW id \in AssetIds, id < Len(Genesis)
  PROVE  /\ Genesis[id + 1].account \in Accounts
         /\ Genesis[id + 1].amount \in Balance
         /\ Genesis[id + 1].price \in Nat
  <1> DEFINE Asset == [account : Accounts, amount : Balance, price : Nat]
  <1>1. Genesis \in Seq(Asset) /\ Len(Genesis) \in Nat /\ MaxAssetId \in Nat
    BY AssetsAssumption
  <1>2. id + 1 \in 1..Len(Genesis)
    BY <1>1 DEF AssetIds
  <1> HIDE DEF Asset
  <1>3. Genesis[id + 1] \in Asset
    BY <1>1, <1>2
  <1> QED
    BY <1>3 DEF Asset

\* The genesis build of the assets pallet makes a well-formed ledger.
LEMMA GenesisType ==
  ASSUME AssetsInit PROVE AssetsTypeOK
  <1>1. /\ 0 \in Balance /\ MaxAssetId \in Nat /\ Owner \in Accounts /\ GenesisGrant \in Balance
        /\ 0 \in AssetIds
    BY WidthAssumption, AssetsAssumption DEF Balance, AssetIds
  <1>2. /\ Len(Genesis) \in 0..(MaxAssetId + 1)
        /\ \A id \in AssetIds : id < Len(Genesis) =>
               /\ Genesis[id + 1].account \in Accounts
               /\ Genesis[id + 1].amount \in Balance
               /\ Genesis[id + 1].price \in Nat
    BY AssetsAssumption, GenesisEntry
  <1>3. nobody \in [Accounts -> Balance]
    BY <1>1 DEF nobody
  <1> DEFINE empty == [id \in AssetIds |-> nobody]
             grant(id) == LET g == Genesis[id + 1]
                          IN  transfer(issued(empty, id, g.account, g.amount),
                                       g.account, id, Owner, GenesisGrant)
  <1>4. ASSUME NEW id \in AssetIds, id < Len(Genesis)
        PROVE  grant(id)[id] \in [Accounts -> Balance]
    <2>1. issued(empty, id, Genesis[id + 1].account, Genesis[id + 1].amount)
              \in [AssetIds -> [Accounts -> Balance]]
      BY <1>2, <1>3, <1>4 DEF issued
    <2> HIDE DEF empty
    <2>2. grant(id) \in [AssetIds -> [Accounts -> Balance]]
      BY <1>1, <1>2, <1>4, <2>1, TransferType
    <2> QED
      BY <2>2
  <1>5. balances \in [AssetIds -> [Accounts -> Balance]]
    <2>1. balances = [id \in AssetIds |-> IF id < Len(Genesis) THEN grant(id)[id] ELSE nobody]
      BY DEF AssetsInit, Init_balances
    <2> HIDE DEF grant
    <2> QED
      BY <1>3, <1>4, <2>1
  <1>6. total_supply \in [AssetIds -> Balance]
    BY <1>1, <1>2 DEF AssetsInit
  <1>7. price \in [AssetIds -> Balance]
    <2>1. ASSUME NEW n \in Nat PROVE saturating_from_integer(n) \in Balance
      <3>1. n * DIV \in Nat
        BY WidthAssumption
      <3> QED
        BY <3>1, WidthAssumption DEF saturating_from_integer, saturating, Outcome, Balance, Panic
    <2>2. \A id \in AssetIds : id < Len(Genesis) =>
              saturating_from_integer(Genesis[id + 1].price) \in Balance
      BY <1>2, <2>1
    <2> QED
      BY <1>1, <2>2 DEF AssetsInit
  <1> QED
    BY <1>1, <1>2, <1>5, <1>6, <1>7 DEF AssetsInit, AssetsTypeOK

-----------------------------------------------------------------------------
(* The ledger's invariant: conservation, and nothing held under an id not yet issued. *)

Unissued == \A id \in AssetIds : id >= next_asset_id => total_supply[id] = 0

LedgerInv == AssetsTypeOK /\ Conservation /\ Unissued

\* Conservation in the vocabulary of the lemmas: every total is a supply, so it fits.
LEMMA LedgerFacts ==
  ASSUME LedgerInv
  PROVE  /\ balances \in Ledgers /\ Bounded(balances)
         /\ \A id \in AssetIds : Total(balances[id]) = total_supply[id]
         /\ \A id \in AssetIds : balances[id] \in [Accounts -> Nat]
         /\ \A id \in AssetIds : total_supply[id] \in Balance
  <1>1. balances \in Ledgers /\ \A id \in AssetIds : total_supply[id] \in Balance
    BY DEF LedgerInv, AssetsTypeOK, Ledgers
  <1>2. \A id \in AssetIds : Total(balances[id]) = total_supply[id]
    BY DEF LedgerInv, Conservation, Total, SumOver
  <1>3. Bounded(balances)
    BY <1>1, <1>2, WidthAssumption DEF Bounded, Balance
  <1>4. \A id \in AssetIds : balances[id] \in [Accounts -> Nat]
    BY <1>1, WidthAssumption DEF Ledgers, Balance
  <1> QED
    BY <1>1, <1>2, <1>3, <1>4

\* Conservation, after a step, and the units the abstract ledger counts, as totals.
LEMMA TotalsAfter ==
  /\ Conservation' <=> \A id \in AssetIds : Total(balances'[id]) = total_supply'[id]
  /\ \A id \in AssetIds : Ledger!units(id) = Total(balances[id])
  /\ \A id \in AssetIds : Ledger!units(id)' = Total(balances'[id])
  <1>1. Conservation' <=> \A id \in AssetIds : Total(balances'[id]) = total_supply'[id]
    BY DEF Conservation, Total, SumOver, MapThenSumSet, MapThenFoldSet
  <1>2. \A id \in AssetIds : Ledger!units(id) = Total(balances[id])
    BY DEF Ledger!units, Total, SumOver, MapThenSumSet, MapThenFoldSet, Ledger!MapThenSumSet,
           Ledger!MapThenFoldSet
  <1>3. \A id \in AssetIds : Ledger!units(id)' = Total(balances'[id])
    BY DEF Ledger!units, Total, SumOver, MapThenSumSet, MapThenFoldSet, Ledger!MapThenSumSet,
           Ledger!MapThenFoldSet
  <1> QED
    BY <1>1, <1>2, <1>3

\* What is asked of every step, of whatever pallet: it keeps the invariant, it is a step of
\* the abstract ledger or none, and it raises no supply that was issued.
LedgerStep ==
    /\ LedgerInv'
    /\ Ledger!Next \/ UNCHANGED Ledger!ledger
    /\ \A id \in AssetIds : id < next_asset_id => total_supply'[id] <= total_supply[id]

\* A step of something else.
LEMMA LedgerUntouched ==
  ASSUME LedgerInv, UNCHANGED <<balances, total_supply, next_asset_id>>, AssetsTypeOK'
  PROVE  LedgerStep
  <1>1. \A id \in AssetIds : total_supply[id] \in Int
    BY LedgerFacts, OutcomeIsInt
  <1>2. Unissued'
    BY DEF LedgerInv, Unissued
  <1>3. \A id \in AssetIds : Total(balances'[id]) = total_supply'[id]
    BY LedgerFacts
  <1>4. LedgerInv'
    BY <1>2, <1>3, TotalsAfter DEF LedgerInv
  <1> QED
    BY <1>1, <1>4 DEF LedgerStep, Ledger!ledger

\* Whatever a pallet does to balances for its caller, as far as it only hands units over.
LEMMA HandedKeeps ==
  ASSUME LedgerInv, NEW who \in Signers, Handed(balances, balances', who),
         UNCHANGED <<total_supply, next_asset_id, inherent_asset_id, price>>
  PROVE  LedgerStep
  <1>1. AssetsTypeOK'
    BY DEF LedgerInv, AssetsTypeOK, Handed, Ledgers
  <1>2. \A id \in AssetIds : Total(balances'[id]) = total_supply'[id]
    BY LedgerFacts DEF Handed
  <1>3. Unissued'
    BY DEF LedgerInv, Unissued
  <1>4. LedgerInv'
    BY <1>1, <1>2, <1>3, TotalsAfter DEF LedgerInv
  <1>5. Ledger!Move(who)
    BY TotalsAfter DEF Handed, Ledger!Move
  <1>6. \A id \in AssetIds : total_supply[id] \in Int
    BY LedgerFacts, OutcomeIsInt
  <1> QED
    BY <1>4, <1>5, <1>6 DEF LedgerStep, Ledger!Next

\* An account under an id that was not issued holds nothing.
LEMMA NobodyHoldsUnissued ==
  ASSUME LedgerInv, NEW id \in AssetIds, id >= next_asset_id, NEW a \in Accounts
  PROVE  balances[id][a] = 0
  <1>1. Total(balances[id]) = 0
    BY LedgerFacts DEF LedgerInv, Unissued
  <1>2. balances[id] \in [Accounts -> Nat]
    BY LedgerFacts
  <1>3. balances[id][a] <= Total(balances[id])
    BY <1>2, TotalBounds
  <1> QED
    BY <1>1, <1>2, <1>3

\* issue lands on an id nobody holds anything of, and its supply is what the caller gets.
LEMMA IssueKeeps ==
  ASSUME LedgerInv, NEW who \in Signers, NEW total \in Amounts, issue(who, total)
  PROVE  /\ LedgerInv' /\ Ledger!Issue(who)
         /\ \A id \in AssetIds : id < next_asset_id => total_supply'[id] <= total_supply[id]
  <1> DEFINE n == next_asset_id
  <1>1. /\ n \in AssetIds /\ who \in Accounts /\ total \in Balance /\ total \in Int
        /\ balances' = [balances EXCEPT ![n][who] = total]
        /\ total_supply' = [total_supply EXCEPT ![n] = total]
        /\ next_asset_id' = n + 1
    BY AssetsAssumption, WidthAssumption
    DEF issue, issued, LedgerInv, AssetsTypeOK, AssetIds, Balance
  <1>2. AssetsTypeOK'
    <2>1. balances' \in [AssetIds -> [Accounts -> Balance]] /\ total_supply' \in [AssetIds -> Balance]
      BY <1>1 DEF LedgerInv, AssetsTypeOK
    <2>2. next_asset_id' \in 0..(MaxAssetId + 1)
      BY <1>1, AssetsAssumption DEF AssetIds
    <2> QED
      BY <2>1, <2>2 DEF issue, LedgerInv, AssetsTypeOK
  <1> DEFINE f == balances[n]
  <1>3. /\ f \in [Accounts -> Int] /\ f[who] = 0 /\ Total(f) = 0
        /\ balances' = [balances EXCEPT ![n] = [f EXCEPT ![who] = total]]
    <2>1. n >= n
      BY <1>1, AssetsAssumption DEF AssetIds
    <2>2. total_supply[n] = 0
      BY <1>1, <2>1 DEF LedgerInv, Unissued
    <2>3. f \in [Accounts -> Nat] /\ Total(f) = 0
      BY <1>1, <2>2, LedgerFacts
    <2>4. f[who] = 0
      BY <1>1, <2>1, NobodyHoldsUnissued
    <2> QED
      BY <1>1, <2>3, <2>4
  <1>4. Total([f EXCEPT ![who] = total]) = total
    <2>1. Total([f EXCEPT ![who] = total]) = Total(f) + total - f[who]
      <3> HIDE DEF f
      <3> QED
        BY <1>1, <1>3, TotalChanged
    <2> QED
      BY <1>1, <1>3, <2>1
  <1>5. \A id \in AssetIds : Total(balances'[id]) = total_supply'[id]
    <2> TAKE id \in AssetIds
    <2> HIDE DEF f
    <2>1. CASE id = n
      <3>1. balances'[n] = [f EXCEPT ![who] = total] /\ total_supply'[n] = total
        BY <1>1, <1>3 DEF LedgerInv, AssetsTypeOK
      <3> QED
        BY <1>4, <2>1, <3>1
    <2>2. CASE id # n
      <3>1. balances'[id] = balances[id] /\ total_supply'[id] = total_supply[id]
        BY <1>1, <1>3, <2>2 DEF LedgerInv, AssetsTypeOK
      <3> QED
        BY <3>1, LedgerFacts
    <2> QED
      BY <2>1, <2>2
  <1>6. Unissued'
    <2> SUFFICES ASSUME NEW id \in AssetIds, id >= n + 1 PROVE total_supply'[id] = 0
      BY <1>1 DEF Unissued
    <2>1. id # n /\ id >= n
      BY <1>1, AssetsAssumption DEF AssetIds
    <2> QED
      BY <1>1, <2>1 DEF LedgerInv, AssetsTypeOK, Unissued
  <1>7. LedgerInv'
    BY <1>2, <1>5, <1>6, TotalsAfter DEF LedgerInv
  <1>8. Ledger!Issue(who)
    <2>1. balances'[n][who] = total
      BY <1>1 DEF LedgerInv, AssetsTypeOK
    <2> QED
      BY <1>1, <2>1 DEF Ledger!Issue
  <1>9. \A id \in AssetIds : id < n => total_supply'[id] <= total_supply[id]
    <2> SUFFICES ASSUME NEW id \in AssetIds, id < n PROVE total_supply'[id] <= total_supply[id]
      OBVIOUS
    <2>1. id # n /\ total_supply[id] \in Int
      BY <1>1, AssetsAssumption, WidthAssumption, LedgerFacts DEF AssetIds, Balance
    <2> QED
      BY <1>1, <2>1 DEF LedgerInv, AssetsTypeOK
  <1> QED
    BY <1>7, <1>8, <1>9

\* destroy lowers the supply by what the account held: it never wraps.
LEMMA DestroyKeeps ==
  ASSUME LedgerInv, NEW who \in Signers, NEW id \in AssetIds, destroy(who, id)
  PROVE  /\ LedgerInv' /\ Ledger!Burn(who)
         /\ \A i \in AssetIds : total_supply'[i] <= total_supply[i]
  <1> DEFINE f == balances[id]
             g == [f EXCEPT ![who] = 0]
  <1>1. /\ who \in Accounts
        /\ f \in [Accounts -> Nat] /\ f \in [Accounts -> Int] /\ f[who] \in Nat
        /\ Total(f) = total_supply[id] /\ total_supply[id] \in Balance
        /\ f[who] <= total_supply[id]
    <2>1. who \in Accounts
      BY AssetsAssumption
    <2>2. f \in [Accounts -> Nat] /\ Total(f) = total_supply[id] /\ total_supply[id] \in Balance
      BY LedgerFacts
    <2> QED
      BY <2>1, <2>2, TotalBounds
  <1>2. Total(g) = total_supply[id] - f[who]
    <2>1. Total(g) = Total(f) + 0 - f[who]
      <3>1. f \in [Accounts -> Int] /\ who \in Accounts /\ 0 \in Int
        BY <1>1
      <3> HIDE DEF f
      <3> QED
        BY ONLY <3>1, TotalChanged
    <2>2. total_supply[id] \in Int
      BY <1>1, OutcomeIsInt
    <2> QED
      BY <1>1, <2>1, <2>2
  <1>3. /\ balances' = [balances EXCEPT ![id] = g]
        /\ total_supply' = [total_supply EXCEPT ![id] = total_supply[id] - f[who]]
    <2>1. wrapping_sub[total_supply[id]][f[who]] = total_supply[id] - f[who]
      BY <1>1, SubExact
    <2> QED
      BY <2>1 DEF destroy
  <1>4. AssetsTypeOK'
    <2>1. total_supply[id] - f[who] \in Balance /\ 0 \in Balance
      BY <1>1, WidthAssumption DEF Balance
    <2>2. g \in [Accounts -> Balance]
      BY <1>1, <2>1 DEF LedgerInv, AssetsTypeOK
    <2>3. total_supply' \in [AssetIds -> Balance]
      <3> DEFINE rest == total_supply[id] - f[who]
      <3>1. total_supply' = [total_supply EXCEPT ![id] = rest] /\ rest \in Balance
        BY <1>3, <2>1
      <3> HIDE DEF rest
      <3> QED
        BY <3>1 DEF LedgerInv, AssetsTypeOK
    <2> HIDE DEF g, f
    <2>4. balances' \in [AssetIds -> [Accounts -> Balance]]
      BY <1>3, <2>2 DEF LedgerInv, AssetsTypeOK
    <2> QED
      BY <2>3, <2>4 DEF LedgerInv, AssetsTypeOK, destroy
  <1>5. ASSUME NEW i \in AssetIds
        PROVE  /\ Total(balances'[i]) = total_supply'[i]
               /\ total_supply'[i] <= total_supply[i]
               /\ total_supply[i] = 0 => total_supply'[i] = 0
    <2> HIDE DEF f, g
    <2>1. total_supply[i] \in Nat /\ total_supply[id] \in Nat
      BY LedgerFacts, WidthAssumption DEF Balance
    <2>2. CASE i = id
      <3>1. balances'[id] = g /\ total_supply'[id] = total_supply[id] - f[who]
        BY <1>3 DEF LedgerInv, AssetsTypeOK
      <3> QED
        BY <1>1, <1>2, <2>1, <2>2, <3>1
    <2>3. CASE i # id
      <3>1. balances'[i] = balances[i] /\ total_supply'[i] = total_supply[i]
        BY <1>3, <2>3 DEF LedgerInv, AssetsTypeOK
      <3> QED
        BY <2>1, <3>1, LedgerFacts
    <2> QED
      BY <2>2, <2>3
  <1>6. Unissued'
    BY <1>5 DEF LedgerInv, Unissued, destroy
  <1>7. LedgerInv'
    BY <1>4, <1>5, <1>6, TotalsAfter DEF LedgerInv
  <1>8. Ledger!Burn(who)
    BY DEF destroy, Ledger!Burn
  <1> QED
    BY <1>5, <1>7, <1>8

\* Every extrinsic of the assets pallet keeps the ledger's invariant and its promise.
LEMMA LedgerNextKeeps ==
  ASSUME LedgerInv, AssetsNext
  PROVE  LedgerStep
  <1>2. AssetSigners \subseteq Signers /\ Signers \subseteq Accounts /\ Amounts \subseteq Balance
    BY AssetsAssumption
  <1>3. ASSUME UNCHANGED <<balances, total_supply, next_asset_id>> PROVE LedgerStep
    BY <1>3, AssetsNextType, LedgerUntouched DEF LedgerInv
  <1>4. ASSUME NEW who \in AssetSigners, NEW total \in Amounts, issue(who, total)
        PROVE  LedgerStep
    BY <1>2, <1>4, IssueKeeps DEF LedgerStep, Ledger!Next
  <1>5. ASSUME NEW who \in AssetSigners, NEW id \in AssetIds, destroy(who, id)
        PROVE  LedgerStep
    BY <1>2, <1>5, DestroyKeeps DEF LedgerStep, Ledger!Next
  <1>6. ASSUME NEW who \in AssetSigners, NEW id \in AssetIds, NEW to \in Accounts,
               NEW amount \in Amounts, transfer_asset(who, id, to, amount)
        PROVE  LedgerStep
    <2>1. Handed(balances, balances', who)
      BY <1>2, <1>6, LedgerFacts, TransferHands DEF transfer_asset
    <2> QED
      BY <1>2, <1>6, <2>1, HandedKeeps DEF transfer_asset
  <1> QED
    BY <1>3, <1>4, <1>5, <1>6 DEF AssetsNext, set_inherent_asset, set_price

\* The genesis build issues each asset once and grants out of what it issued: the ledger it
\* makes is conserved, and holds nothing of an id that is not issued.
LEMMA GenesisLedger ==
  ASSUME AssetsInit PROVE LedgerInv /\ Ledger!Init
  <1>1. /\ AssetsTypeOK /\ balances \in Ledgers /\ total_supply \in [AssetIds -> Balance]
        /\ 0 \in Balance /\ GenesisGrant \in Balance /\ Owner \in Accounts
        /\ Balance \subseteq Int /\ Balance \subseteq Nat /\ AssetIds \subseteq Nat
        /\ \A b \in Balance : b <= MaxBalance
    <2>1. AssetsTypeOK /\ balances \in Ledgers /\ total_supply \in [AssetIds -> Balance]
      BY GenesisType DEF AssetsTypeOK, Ledgers
    <2>2. /\ 0 \in Balance /\ Balance \subseteq Int /\ Balance \subseteq Nat
          /\ \A b \in Balance : b <= MaxBalance
      BY WidthAssumption DEF Balance
    <2>3. AssetIds \subseteq Nat
      BY AssetsAssumption DEF AssetIds
    <2> QED
      BY <2>1, <2>2, <2>3, AssetsAssumption
  <1> DEFINE empty == [id \in AssetIds |-> nobody]
             grant(id) == LET g == Genesis[id + 1]
                          IN  transfer(issued(empty, id, g.account, g.amount),
                                       g.account, id, Owner, GenesisGrant)
  <1>2. /\ nobody \in [Accounts -> Nat] /\ nobody \in [Accounts -> Int]
        /\ nobody \in [Accounts -> Balance] /\ Total(nobody) = 0
    <2>1. /\ nobody \in [Accounts -> Nat] /\ nobody \in [Accounts -> Int]
          /\ nobody \in [Accounts -> Balance] /\ \A a \in Accounts : nobody[a] = 0
      BY <1>1 DEF nobody
    <2> QED
      BY <2>1, TotalType
  <1>3. ASSUME NEW id \in AssetIds, id < Len(Genesis)
        PROVE  Total(grant(id)[id]) = Genesis[id + 1].amount
    <2> DEFINE who    == Genesis[id + 1].account
               amount == Genesis[id + 1].amount
               first  == issued(empty, id, who, amount)
    <2>1. who \in Accounts /\ amount \in Balance
      BY <1>3, GenesisEntry
    <2> HIDE DEF who, amount
    <2>2. first = [empty EXCEPT ![id] = [nobody EXCEPT ![who] = amount]]
      BY DEF issued
    <2>3. [nobody EXCEPT ![who] = amount] \in [Accounts -> Balance]
      BY <1>2, <2>1
    <2>4. first \in Ledgers /\ \A i \in AssetIds :
              first[i] = IF i = id THEN [nobody EXCEPT ![who] = amount] ELSE nobody
      BY <1>2, <2>2, <2>3 DEF Ledgers
    <2>5. Total([nobody EXCEPT ![who] = amount]) = amount
      <3>1. Total([nobody EXCEPT ![who] = amount]) = Total(nobody) + amount - nobody[who]
        BY <1>1, <1>2, <2>1, TotalChanged
      <3>2. nobody[who] = 0 /\ amount \in Int
        BY <1>1, <2>1 DEF nobody
      <3> QED
        BY <1>2, <3>1, <3>2
    <2> HIDE DEF first, empty
    <2>6. Bounded(first) /\ Total(first[id]) = amount
      BY <1>1, <1>2, <2>1, <2>4, <2>5 DEF Bounded
    <2>7. Handed(first, transfer(first, who, id, Owner, GenesisGrant), who)
      BY <1>1, <2>1, <2>4, <2>6, TransferHands
    <2>8. grant(id) = transfer(first, who, id, Owner, GenesisGrant)
      BY DEF first, who, amount
    <2> QED
      BY <2>6, <2>7, <2>8 DEF Handed, amount
  <1>4. ASSUME NEW id \in AssetIds PROVE Total(balances[id]) = total_supply[id]
    <2>1. balances = [i \in AssetIds |-> IF i < Len(Genesis) THEN grant(i)[i] ELSE nobody]
      BY DEF AssetsInit, Init_balances
    <2>2. total_supply = [i \in AssetIds |-> IF i < Len(Genesis) THEN Genesis[i + 1].amount ELSE 0]
      BY DEF AssetsInit
    <2> HIDE DEF grant
    <2> QED
      BY <1>2, <1>3, <2>1, <2>2
  <1>5. Unissued
    <2> SUFFICES ASSUME NEW id \in AssetIds, id >= Len(Genesis) PROVE total_supply[id] = 0
      BY DEF AssetsInit, Unissued
    <2>1. ~ (id < Len(Genesis))
      BY <1>1, AssetsAssumption
    <2> QED
      BY <2>1 DEF AssetsInit
  <1>6. LedgerInv
    BY <1>1, <1>4, <1>5 DEF LedgerInv, Conservation, Total, SumOver
  <1>7. Ledger!Init
    <2>1. balances \in [AssetIds -> [Accounts -> Nat]]
      BY <1>1 DEF Ledgers
    <2>2. \A id \in AssetIds : id >= next_asset_id => Ledger!units(id) = 0
      BY <1>4, <1>5, TotalsAfter DEF Unissued
    <2> QED
      BY <2>1, <2>2 DEF Ledger!Init
  <1> QED
    BY <1>6, <1>7
=============================================================================
