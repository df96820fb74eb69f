----------------------- MODULE OffchainWorkerProofs -----------------------
(***************************************************************************)
(* For any number of nodes, quotes and blocks and any interval: prices are *)
(* taken spaced and in order, whoever submits them, and a worker reads the *)
(* cents of every answer but one with a single decimal.                    *)
(***************************************************************************)
EXTENDS OffchainWorker, FixedU128Proofs

\* The numbers that validity compares, and the window the last price set.
Numbers ==
    /\ block_number \in Nat /\ next_unsigned_at \in Nat
    /\ accepted.at \in Int /\ accepted.at >= -1

Pools ==
    /\ \A w \in workers : w.block \in Nat
    /\ DOMAIN pool = Nodes
    /\ \A n \in Nodes : \A tx \in pool[n] : tx.block \in Nat

WindowSet == accepted.at # -1 => next_unsigned_at = accepted.at + UnsignedInterval

WInv == Numbers /\ Pools /\ WindowSet

\* A pool that takes a transaction for a block still holds transactions for blocks only.
LEMMA EnterKeeps ==
  ASSUME Pools, NEW m, NEW t, t.block \in Nat
  PROVE  /\ DOMAIN enter(m, t) = Nodes
         /\ \A n \in Nodes : \A tx \in enter(m, t)[n] : tx.block \in Nat
  <1>1. pooled(t).block = t.block
    BY DEF pooled
  <1> QED
    BY <1>1 DEF enter, Pools

\* Every step keeps the window where the last price put it, and only takes a price at or
\* after it.
LEMMA StepKeepsWindow ==
  ASSUME WInv, [Next]_vars
  PROVE  WInv'
  <1> USE WorkerAssumption
  <1>1. CASE import_block
    <2>1. \A w \in workers' : w.block \in Nat
      BY <1>1 DEF import_block, started, WInv, Numbers, Pools
    <2> QED
      BY <1>1, <2>1 DEF import_block, WInv, Numbers, Pools, WindowSet
  <1>2. CASE Fetch
    <2>1. PICK w \in workers, q \in Quotes : fetch_price(w, q)
      BY <1>2 DEF Fetch
    <2> QED
      BY <2>1 DEF fetch_price, WInv, Numbers, Pools, WindowSet
  <1>3. CASE \E w \in workers : fetch_fails(w)
    BY <1>3 DEF fetch_fails, WInv, Numbers, Pools, WindowSet
  <1>4. CASE Submit
    <2>1. PICK w \in workers : submit_unsigned_transaction(w)
      BY <1>4 DEF Submit
    <2>2. Pools'
      BY <2>1, EnterKeeps DEF submit_unsigned_transaction, WInv, Pools
    <2> QED
      BY <2>1, <2>2 DEF submit_unsigned_transaction, WInv, Numbers, WindowSet
  <1>5. CASE Gossip
    <2>1. PICK n \in Nodes, m \in Nodes : \E tx \in pool[n] : propagate(n, m, tx)
      BY <1>5 DEF Gossip
    <2>2. PICK tx \in pool[n] : propagate(n, m, tx)
      BY <2>1
    <2>3. Pools'
      BY <2>2, EnterKeeps DEF propagate, WInv, Pools
    <2> QED
      BY <2>2, <2>3 DEF propagate, WInv, Numbers, WindowSet
  <1>6. CASE \E n \in Nodes : \E tx \in pool[n] : revalidate(n, tx)
    BY <1>6 DEF revalidate, WInv, Numbers, Pools, WindowSet
  <1>7. CASE Author
    <2>1. PICK n \in Authors : \E tx \in pool[n] : submit_price_unsigned(n, tx)
      BY <1>7 DEF Author
    <2>2. PICK tx \in pool[n] : submit_price_unsigned(n, tx)
      BY <2>1
    <2> QED
      BY <2>2 DEF submit_price_unsigned, WInv, Numbers, Pools, WindowSet
  <1>8. CASE \E n \in Nodes : restart(n)
    BY <1>8 DEF restart, WInv, Numbers, Pools, WindowSet
  <1>9. CASE Others
    <2>1. PICK n \in Nodes, b \in 0..MaxBlock, p \in OtherPrices : submitted_by_others(n, b, p)
      BY <1>9 DEF Others
    <2>2. Pools'
      BY <2>1, EnterKeeps DEF submitted_by_others, WInv, Pools
    <2> QED
      BY <2>1, <2>2 DEF submitted_by_others, WInv, Numbers, WindowSet
  <1>10. CASE UNCHANGED vars
    BY <1>10 DEF vars, WInv, Numbers, Pools, WindowSet
  <1> QED
    BY <1>1, <1>2, <1>3, <1>4, <1>5, <1>6, <1>7, <1>8, <1>9, <1>10 DEF Next

\* Only an author's submit_price_unsigned accepts a price, at or after NextUnsignedAt.
LEMMA AcceptedAfterWindow ==
  ASSUME WInv, [Next]_vars, accepted' # accepted
  PROVE  /\ next_unsigned_at <= accepted'.block
         /\ accepted'.block <= accepted'.at
         /\ accepted'.block \in Nat /\ accepted'.at \in Nat
  <1>1. Author
    BY DEF Next, vars, import_block, Fetch, fetch_price, fetch_fails, Submit,
           submit_unsigned_transaction, Others, submitted_by_others, Gossip, propagate,
           revalidate, restart
  <1>2. PICK n \in Authors : \E tx \in pool[n] : submit_price_unsigned(n, tx)
    BY <1>1 DEF Author
  <1>3. PICK tx \in pool[n] : submit_price_unsigned(n, tx)
    BY <1>2
  <1> QED
    BY <1>3, WorkerAssumption DEF submit_price_unsigned, validate_transaction_parameters,
       WInv, Numbers, Pools

\* The window holds in every behaviour.
LEMMA WindowInvariance == Spec => []WInv
  <1>1. Init => WInv
    BY DEF Init, WInv, Numbers, Pools, WindowSet
  <1> QED
    BY <1>1, StepKeepsWindow, PTL DEF Spec

\* submit_price_unsigned takes prices at least T::UnsignedInterval blocks apart, whoever
\* submits them and however many nodes gossip and author.
THEOREM PricesSpaced == Spec => PricesAreSpaced
  <1>1. ASSUME WInv, [Next]_vars
        PROVE  [accepted' # accepted /\ accepted.at # -1
                  => accepted'.at >= accepted.at + UnsignedInterval]_vars
    BY <1>1, AcceptedAfterWindow, WorkerAssumption DEF WInv, Numbers, WindowSet
  <1> QED
    BY <1>1, WindowInvariance, PTL DEF Spec, PricesAreSpaced

\* A price that was asked for before the last price was taken is never taken after it.
THEOREM PricesOrdered == Spec => PricesInOrder
  <1>1. ASSUME WInv, [Next]_vars
        PROVE  [accepted' # accepted => accepted'.block > accepted.at]_vars
    BY <1>1, AcceptedAfterWindow, WorkerAssumption DEF WInv, Numbers, WindowSet
  <1> QED
    BY <1>1, WindowInvariance, PTL DEF Spec, PricesInOrder

-----------------------------------------------------------------------------
(* Powers of ten. *)

\* A table of the powers up to the n-th.
Powers(n, h) ==
    /\ h \in [0..n -> Nat \ {0}] /\ h[0] = 1
    /\ \A k \in 0..n : k # 0 => h[k] = 10 * h[k - 1]

\* Every table can be extended by one power, so there is one of any length.
LEMMA PowersExist ==
  \A n \in Nat : \E h : Powers(n, h)
  <1> DEFINE Bad == {n \in Nat : ~ \E h : Powers(n, h)}
  <1> SUFFICES ASSUME Bad # {} PROVE FALSE
    OBVIOUS
  <1>1. PICK n \in Bad : \A m \in Bad : n <= m
    <2>1. Bad \in SUBSET Nat
      OBVIOUS
    <2> HIDE DEF Bad
    <2> QED
      BY <2>1, LeastNumber
  <1>2. n \in Nat /\ ~ \E h : Powers(n, h)
    OBVIOUS
  <1>3. CASE n = 0
    <2>1. Powers(0, [k \in 0..0 |-> 1])
      BY DEF Powers
    <2> QED
      BY <1>2, <1>3, <2>1
  <1>4. CASE n # 0
    <2>1. n - 1 \in Nat /\ n - 1 \notin Bad
      BY <1>1, <1>2, <1>4
    <2>2. PICK h : Powers(n - 1, h)
      BY <2>1
    <2> DEFINE g == [k \in 0..n |-> IF k = n THEN 10 * h[n - 1] ELSE h[k]]
    <2>3. h \in [0..(n - 1) -> Nat \ {0}] /\ h[0] = 1
          /\ \A k \in 0..(n - 1) : k # 0 => h[k] = 10 * h[k - 1]
      BY <2>2 DEF Powers
    <2>4. h[n - 1] \in Nat \ {0}
      BY <1>2, <1>4, <2>3
    <2>5. ASSUME NEW k \in 0..n PROVE g[k] \in Nat \ {0} /\ (k # 0 => g[k] = 10 * g[k - 1])
      <3>1. CASE k = n
        <4>1. g[k] = 10 * h[n - 1] /\ g[k - 1] = h[n - 1]
          BY <1>2, <1>4, <3>1
        <4> QED
          BY <2>4, <4>1
      <3>2. CASE k # n
        <4>1. k \in 0..(n - 1) /\ g[k] = h[k]
          BY <1>2, <3>2
        <4>2. k # 0 => k - 1 \in 0..n /\ k - 1 # n /\ g[k - 1] = h[k - 1]
          BY <1>2, <4>1
        <4> QED
          BY <2>3, <4>1, <4>2
      <3> QED
        BY <3>1, <3>2
    <2>6. g[0] = 1 /\ g \in [0..n -> Nat \ {0}]
      BY <1>2, <1>4, <2>3, <2>5
    <2> HIDE DEF g
    <2>7. Powers(n, g)
      BY <2>5, <2>6 DEF Powers
    <2> QED
      BY <1>2, <2>7
  <1> QED
    BY <1>3, <1>4

\* Two tables agree as far as both go.
LEMMA PowersAgree ==
  ASSUME NEW m \in Nat, NEW n \in Nat, NEW g, NEW h, Powers(m, g), Powers(n, h),
         NEW k \in 0..m, k <= n
  PROVE  g[k] = h[k]
  <1> DEFINE Bad == {j \in Nat : j <= m /\ j <= n /\ g[j] # h[j]}
  <1> SUFFICES ASSUME Bad # {} PROVE FALSE
    OBVIOUS
  <1>1. PICK j \in Bad : \A i \in Bad : j <= i
    <2>1. Bad \in SUBSET Nat
      OBVIOUS
    <2> HIDE DEF Bad
    <2> QED
      BY <2>1, LeastNumber
  <1>2. j \in Nat /\ j <= m /\ j <= n /\ g[j] # h[j]
    OBVIOUS
  <1>3. j # 0
    BY <1>2 DEF Powers
  <1>4. j - 1 \in Nat /\ g[j - 1] = h[j - 1]
    BY <1>1, <1>2, <1>3
  <1>5. g[j] = 10 * g[j - 1] /\ h[j] = 10 * h[j - 1]
    BY <1>2, <1>3 DEF Powers
  <1> QED
    BY <1>2, <1>4, <1>5

\* pow10 is the function its recursion says, and its values are positive.
LEMMA Pow10 ==
  /\ pow10[0] = 1
  /\ \A n \in Nat : pow10[n] \in Nat \ {0} /\ (n # 0 => pow10[n] = 10 * pow10[n - 1])
  <1> DEFINE table(n) == CHOOSE h : Powers(n, h)
             f == [n \in Nat |-> table(n)[n]]
  <1>1. \A n \in Nat : Powers(n, table(n))
    BY PowersExist
  <1> HIDE DEF table
  <1>2. ASSUME NEW n \in Nat PROVE f[n] \in Nat \ {0} /\ f[n] = IF n = 0 THEN 1 ELSE 10 * f[n - 1]
    <2>1. Powers(n, table(n)) /\ n \in 0..n /\ f[n] = table(n)[n]
      BY <1>1
    <2>2. CASE n = 0
      BY <2>1, <2>2 DEF Powers
    <2>3. CASE n # 0
      <3>1. n - 1 \in Nat /\ n - 1 \in 0..(n - 1) /\ n - 1 <= n
        BY <2>3
      <3>2. Powers(n - 1, table(n - 1)) /\ f[n - 1] = table(n - 1)[n - 1]
        BY <1>1, <3>1
      <3>3. table(n - 1)[n - 1] = table(n)[n - 1]
        BY <2>1, <3>1, <3>2, PowersAgree
      <3> QED
        BY <2>1, <2>3, <3>2, <3>3 DEF Powers
    <2> QED
      BY <2>2, <2>3
  <1>3. f = [n \in Nat |-> IF n = 0 THEN 1 ELSE 10 * f[n - 1]]
    <2>1. f = [n \in Nat |-> f[n]]
      OBVIOUS
    <2> HIDE DEF f
    <2> QED
      BY <1>2, <2>1
  <1> HIDE DEF f
  <1>4. pow10 = [n \in Nat |-> IF n = 0 THEN 1 ELSE 10 * pow10[n - 1]]
    BY <1>3 DEF pow10
  <1>5. \A n \in Nat : pow10[n] = IF n = 0 THEN 1 ELSE 10 * pow10[n - 1]
    BY <1>4
  <1> DEFINE Bad == {n \in Nat : pow10[n] \notin Nat \ {0}}
  <1>6. Bad = {}
    <2> SUFFICES ASSUME Bad # {} PROVE FALSE
      OBVIOUS
    <2>1. PICK j \in Bad : \A i \in Bad : j <= i
      <3>1. Bad \in SUBSET Nat
        OBVIOUS
      <3> HIDE DEF Bad
      <3> QED
        BY <3>1, LeastNumber
    <2>2. j \in Nat /\ pow10[j] \notin Nat \ {0}
      OBVIOUS
    <2>3. j # 0
      BY <1>5, <2>2
    <2>4. pow10[j - 1] \in Nat \ {0}
      BY <2>1, <2>2, <2>3
    <2>5. pow10[j] = 10 * pow10[j - 1]
      BY <1>5, <2>2, <2>3
    <2> QED
      BY <2>2, <2>4, <2>5
  <1> QED
    BY <1>5, <1>6
-----------------------------------------------------------------------------
(* Types. *)

\* parse_price yields a u32, whatever the exchange answers.
LEMMA ParsePriceType ==
  ASSUME NEW quote \in Number PROVE parse_price(quote) \in 0..(U32 - 1)
  <1> DEFINE exp  == IF quote.fraction_length < 2 THEN 0 ELSE quote.fraction_length - 2
             low  == (quote.fraction \div pow10[exp]) % U32
             high == (quote.integer % U32) * 100
  <1>1. /\ quote.integer \in Nat /\ quote.fraction \in Nat /\ exp \in Nat
        /\ U32 \in Nat \ {0} /\ pow10[exp] \in Nat \ {0}
    BY WorkerAssumption, Pow10 DEF Number
  <1> HIDE DEF exp
  <1>2. low \in Int
    BY <1>1
  <1>3. high \in Int
    BY <1>1
  <1>4. parse_price(quote) = (high + low) % U32
    BY DEF parse_price, exp
  <1> HIDE DEF low, high
  <1> QED
    BY <1>1, <1>2, <1>3, <1>4

\* What submit_price_unsigned stores for a u32 of cents is a fixed point number.
LEMMA StoredPriceType ==
  ASSUME NEW n \in Nat PROVE saturating_from_rational(n, 100) \in Outcome
  <1>1. multiply_by_rational[n][DIV][100] \in Int
    BY WidthAssumption, RationalType
  <1> QED
    BY <1>1, CheckedType DEF saturating_from_rational

\* A pool that takes a transaction holds transactions.
LEMMA EnterType ==
  ASSUME WorkerTypeOK, NEW m \in Nodes, NEW t, t.block \in 0..MaxBlock, t.price \in 0..(U32 - 1)
  PROVE  enter(m, t) \in [Nodes -> SUBSET Tx]
  <1>1. (block_number - 1) + longevity \in Nat
    BY WorkerAssumption DEF WorkerTypeOK
  <1>2. pooled(t) \in Tx
    BY <1>1 DEF pooled, Tx, WorkerTypeOK
  <1> QED
    BY <1>2 DEF enter, WorkerTypeOK

\* Every step keeps the types.
LEMMA StepKeepsTypes ==
  ASSUME WorkerTypeOK, [Next]_vars
  PROVE  WorkerTypeOK'
  <1> DEFINE Running == [node : Nodes, block : 0..MaxBlock, price : 0..(U32 - 1) \cup {None}]
  <1>1. /\ block_number \in Nat /\ block_number <= MaxBlock /\ MaxBlock \in Nat
        /\ UnsignedInterval \in Nat /\ workers \subseteq Running
        /\ pool \in [Nodes -> SUBSET Tx] /\ Authors \subseteq Nodes /\ Feeders \subseteq Nodes
        /\ Quotes \subseteq Number
    BY WorkerAssumption DEF WorkerTypeOK
  <1>2. CASE import_block
    <2>1. started(block_number) \subseteq Running
      BY <1>1 DEF started
    <2>2. workers' \subseteq Running /\ pool' \in [Nodes -> SUBSET Tx]
      BY <1>1, <1>2, <2>1 DEF import_block
    <2>3. block_number' \in 0..MaxBlock
      BY <1>1, <1>2 DEF import_block
    <2> QED
      BY <1>2, <2>2, <2>3 DEF import_block, WorkerTypeOK
  <1>3. CASE Fetch
    <2>1. PICK w \in workers, q \in Quotes : fetch_price(w, q)
      BY <1>3 DEF Fetch
    <2>2. [node |-> w.node, block |-> w.block, price |-> parse_price(q)] \in Running
      BY <1>1, ParsePriceType
    <2>3. workers' \subseteq Running
      BY <1>1, <2>1, <2>2 DEF fetch_price
    <2> QED
      BY <2>1, <2>3 DEF fetch_price, WorkerTypeOK
  <1>4. CASE \E w \in workers : fetch_fails(w)
    BY <1>4 DEF fetch_fails, WorkerTypeOK
  <1>5. CASE Submit
    <2>1. PICK w \in workers : submit_unsigned_transaction(w)
      BY <1>5 DEF Submit
    <2>2. w.node \in Nodes /\ w.block \in 0..MaxBlock /\ w.price \in 0..(U32 - 1)
      BY <1>1, <2>1 DEF submit_unsigned_transaction
    <2>3. pool' \in [Nodes -> SUBSET Tx]
      BY <2>1, <2>2, EnterType DEF submit_unsigned_transaction
    <2> QED
      BY <2>1, <2>3 DEF submit_unsigned_transaction, WorkerTypeOK
  <1>6. CASE Gossip
    <2>1. PICK n \in Nodes, m \in Nodes : \E tx \in pool[n] : propagate(n, m, tx)
      BY <1>6 DEF Gossip
    <2>2. PICK tx \in pool[n] : propagate(n, m, tx)
      BY <2>1
    <2>3. tx.block \in 0..MaxBlock /\ tx.price \in 0..(U32 - 1)
      BY <1>1 DEF Tx
    <2>4. pool' \in [Nodes -> SUBSET Tx]
      BY <2>2, <2>3, EnterType DEF propagate
    <2> QED
      BY <2>2, <2>4 DEF propagate, WorkerTypeOK
  <1>7. CASE \E n \in Nodes : \E tx \in pool[n] : revalidate(n, tx)
    BY <1>7 DEF revalidate, WorkerTypeOK
  <1>8. CASE Author
    <2>1. PICK n \in Authors : \E tx \in pool[n] : submit_price_unsigned(n, tx)
      BY <1>8 DEF Author
    <2>2. PICK tx \in pool[n] : submit_price_unsigned(n, tx)
      BY <2>1
    <2>3. n \in Nodes /\ tx.block \in 0..MaxBlock /\ tx.price \in Nat
      <3>1. n \in Nodes /\ tx \in Tx
        BY <1>1
      <3> QED
        BY <3>1, WorkerAssumption DEF Tx
    <2>4. price' \in Outcome
      BY <2>2, <2>3, StoredPriceType DEF submit_price_unsigned
    <2>5. pool' \in [Nodes -> SUBSET Tx]
      BY <1>1, <2>2, <2>3 DEF submit_price_unsigned
    <2>6. accepted' \in [block : -1..MaxBlock, at : -1..MaxBlock]
      BY <1>1, <2>2, <2>3 DEF submit_price_unsigned
    <2>7. next_unsigned_at' \in Nat
      BY <1>1, <2>2 DEF submit_price_unsigned
    <2> QED
      BY <2>2, <2>4, <2>5, <2>6, <2>7 DEF submit_price_unsigned, WorkerTypeOK
  <1>9. CASE \E n \in Nodes : restart(n)
    BY <1>9 DEF restart, WorkerTypeOK
  <1>10. CASE Others
    <2>1. PICK n \in Nodes, b \in 0..MaxBlock, p \in OtherPrices : submitted_by_others(n, b, p)
      BY <1>10 DEF Others
    <2>2. p \in 0..(U32 - 1)
      BY WorkerAssumption
    <2>3. pool' \in [Nodes -> SUBSET Tx]
      BY <2>1, <2>2, EnterType DEF submitted_by_others
    <2> QED
      BY <2>1, <2>3 DEF submitted_by_others, WorkerTypeOK
  <1>11. CASE UNCHANGED vars
    BY <1>11 DEF vars, WorkerTypeOK
  <1> QED
    BY <1>2, <1>3, <1>4, <1>5, <1>6, <1>7, <1>8, <1>9, <1>10, <1>11 DEF Next

\* Every price on its way is a u32, and what is stored a fixed point number.
THEOREM WorkerTypesCorrect == Spec => []WorkerTypeOK
  <1>1. Init => WorkerTypeOK
    BY WorkerAssumption DEF Init, WorkerTypeOK, Outcome
  <1> QED
    BY <1>1, StepKeepsTypes, PTL DEF Spec

-----------------------------------------------------------------------------
(* Prices. *)

\* An answer whose cents fit a u32 and whose fraction has no more digits than it says.
Fits(quote) ==
    /\ quote.integer * 100 + 99 < U32
    /\ quote.fraction < pow10[quote.fraction_length]

\* parse_price reads such an answer as it should, up to a single decimal: dividing the fraction
\* by all but two of its digits is the same as scaling it to hundredths.
LEMMA ParsedCents ==
  ASSUME NEW quote \in Number, Fits(quote)
  PROVE  parse_price(quote) = reading(quote) /\ reading(quote) \in 0..(U32 - 1)
  <1> DEFINE i   == quote.integer
             f   == quote.fraction
             len == quote.fraction_length
             exp == IF len < 2 THEN 0 ELSE len - 2
             d   == pow10[exp]
             t   == pow10[len]
             c   == f \div d
             e   == (f * 100) \div t
  <1>1. /\ i \in Nat /\ f \in Nat /\ len \in Nat /\ exp \in Nat /\ U32 \in Nat \ {0}
        /\ i * 100 + 99 < U32 /\ f < t
    BY WorkerAssumption DEF Number, Fits
  <1>2. parse_price(quote) = (((i % U32) * 100) + (c % U32)) % U32
    BY DEF parse_price
  <1>3. reading(quote) = IF len = 1 THEN i * 100 + f ELSE i * 100 + e
    BY DEF reading, cents
  <1>4. c \in 0..99 /\ reading(quote) = i * 100 + c
    <2>1. CASE len = 0
      <3>1. d = 1 /\ t = 1 /\ f = 0
        BY <1>1, <2>1, Pow10
      <3> QED
        BY <1>1, <1>3, <2>1, <3>1
    <2>2. CASE len = 1
      <3>1. pow10[1] = 10 * pow10[0] /\ pow10[0] = 1
        BY Pow10
      <3>2. d = 1 /\ t = 10
        BY <2>2, <3>1
      <3>3. c = f /\ f \in 0..99
        BY <1>1, <3>2
      <3> QED
        BY <1>3, <2>2, <3>3
    <2>3. CASE len >= 2
      <3>1. len - 1 \in Nat /\ len - 2 \in Nat /\ len - 1 # 0 /\ (len - 1) - 1 = len - 2 /\ exp = len - 2
        BY <1>1, <2>3
      <3>2. /\ pow10[len] = 10 * pow10[len - 1] /\ pow10[len - 1] = 10 * pow10[len - 2]
            /\ pow10[len - 2] \in Nat \ {0}
        BY <1>1, <2>3, <3>1, Pow10
      <3>3. d \in Nat \ {0} /\ t = 100 * d
        BY <3>1, <3>2
      <3> HIDE DEF i, f, len, exp, d, t
      <3>4. c \in Nat /\ c * d <= f /\ f < (c + 1) * d
        BY <1>1, <3>3
      <3> HIDE DEF c
      <3>5. c < 100
        <4>1. c * d < 100 * d
          BY <1>1, <3>3, <3>4
        <4> QED
          BY <3>3, <3>4, <4>1
      <3>6. e = c
        <4>1. f * 100 \in Nat /\ t \in Nat \ {0}
          BY <1>1, <3>3
        <4>2. e \in Nat /\ e * t <= f * 100 /\ f * 100 < (e + 1) * t
          BY <4>1
        <4> HIDE DEF e
        <4>3. e * t = (e * d) * 100 /\ (e + 1) * t = ((e + 1) * d) * 100
          BY <3>3, <4>2
        <4>4. e * d \in Nat /\ (e + 1) * d \in Nat /\ c * d \in Nat /\ (c + 1) * d \in Nat
          BY <3>3, <3>4, <4>2
        <4>5. e * d <= f /\ f < (e + 1) * d
          BY <1>1, <4>2, <4>3, <4>4
        <4>6. e * d < (c + 1) * d /\ c * d < (e + 1) * d
          BY <1>1, <3>4, <4>4, <4>5
        <4>7. e < c + 1 /\ c < e + 1
          BY <3>3, <3>4, <4>2, <4>6
        <4> QED
          BY <3>4, <4>2, <4>7
      <3> QED
        BY <1>1, <1>3, <2>3, <3>4, <3>5, <3>6
    <2> QED
      BY <1>1, <2>1, <2>2, <2>3
  <1> HIDE DEF i, f, len, exp, d, t, c, e
  <1>5. i % U32 = i /\ c % U32 = c
    BY <1>1, <1>4
  <1> QED
    BY <1>1, <1>2, <1>4, <1>5

\* What submit_price_unsigned stores is that many hundredths, rounded down: nothing is rounded
\* up, for 100 fits in one limb, and nothing saturates.
LEMMA StoredCents ==
  ASSUME NEW n \in Nat, n < U32
  PROVE  saturating_from_rational(n, 100) = (n * DIV) \div 100
  <1> DEFINE p == n * DIV
             q == p \div 100
  <1>1. /\ DIV \in Nat \ {0} /\ MaxBalance \in Nat /\ U32 \in Nat /\ 100 < LIMB
        /\ (U32 * DIV) \div 100 <= MaxBalance /\ U32 * DIV \in Nat
    BY WidthAssumption, WorkerAssumption
  <1>2. multiply_by_rational[n][DIV][100] = q
    <2>1. n \in Int /\ DIV \in Int /\ 100 \in Int /\ Panic \notin {n, DIV, 100}
      BY <1>1 DEF Panic
    <2> QED
      BY <1>1, <2>1 DEF multiply_by_rational
  <1>3. p \in Nat /\ p <= U32 * DIV
    BY <1>1
  <1> HIDE DEF p
  <1>4. q \in Nat /\ q <= MaxBalance
    BY <1>1, <1>3
  <1> HIDE DEF q
  <1>5. saturating_from_rational(n, 100) = q
    BY <1>1, <1>2, <1>4 DEF saturating_from_rational, saturating, Outcome, Balance
  <1> QED
    BY <1>5 DEF p, q

\* A worker's price is the answer to its request; a price in a pool, and the price on the chain
\* if the feed put it there, is such an answer or was submitted by somebody else.
Answers == {parse_price(q) : q \in Quotes}
Submitted == Answers \cup OtherPrices

Answered ==
    /\ \A w \in workers : w.price \in Answers \cup {None}
    /\ \A n \in Nodes : \A tx \in pool[n] : tx.price \in Submitted
    /\ accepted.at # -1 => \E a \in Submitted : price = saturating_from_rational(a, 100)

FInv == WorkerTypeOK /\ Answered

\* Every step keeps track of where prices come from.
LEMMA StepKeepsAnswers ==
  ASSUME FInv, [Next]_vars
  PROVE  FInv'
  <1>1. WorkerTypeOK'
    BY StepKeepsTypes DEF FInv
  <1>2. pool \in [Nodes -> SUBSET Tx] /\ Authors \subseteq Nodes
    BY WorkerAssumption DEF FInv, WorkerTypeOK
  <1>3. ASSUME NEW m, NEW t, t.price \in Submitted
        PROVE  \A n \in Nodes : \A tx \in enter(m, t)[n] : tx.price \in Submitted
    <2>1. pooled(t).price \in Submitted
      BY <1>3 DEF pooled
    <2> QED
      BY <1>2, <2>1 DEF enter, FInv, Answered
  <1>4. CASE import_block
    BY <1>1, <1>2, <1>4 DEF import_block, started, FInv, Answered
  <1>5. CASE Fetch
    <2>1. PICK w \in workers, q \in Quotes : fetch_price(w, q)
      BY <1>5 DEF Fetch
    <2>2. parse_price(q) \in Answers
      BY DEF Answers
    <2> QED
      BY <1>1, <2>1, <2>2 DEF fetch_price, FInv, Answered
  <1>6. CASE \E w \in workers : fetch_fails(w)
    BY <1>1, <1>6 DEF fetch_fails, FInv, Answered
  <1>7. CASE Submit
    <2>1. PICK w \in workers : submit_unsigned_transaction(w)
      BY <1>7 DEF Submit
    <2>2. w.price \in Submitted
      BY <2>1 DEF submit_unsigned_transaction, FInv, Answered, Submitted
    <2> QED
      BY <1>1, <1>3, <2>1, <2>2 DEF submit_unsigned_transaction, FInv, Answered
  <1>8. CASE Gossip
    <2>1. PICK n \in Nodes, m \in Nodes : \E tx \in pool[n] : propagate(n, m, tx)
      BY <1>8 DEF Gossip
    <2>2. PICK tx \in pool[n] : propagate(n, m, tx)
      BY <2>1
    <2>3. tx.price \in Submitted
      BY <2>2 DEF FInv, Answered
    <2> QED
      BY <1>1, <1>3, <2>2, <2>3 DEF propagate, FInv, Answered
  <1>9. CASE \E n \in Nodes : \E tx \in pool[n] : revalidate(n, tx)
    BY <1>1, <1>2, <1>9 DEF revalidate, FInv, Answered
  <1>10. CASE Author
    <2>1. PICK n \in Authors : \E tx \in pool[n] : submit_price_unsigned(n, tx)
      BY <1>10 DEF Author
    <2>2. PICK tx \in pool[n] : submit_price_unsigned(n, tx)
      BY <2>1
    <2>3. tx.price \in Submitted /\ price' = saturating_from_rational(tx.price, 100)
      BY <1>2, <2>2 DEF submit_price_unsigned, FInv, Answered
    <2>4. \A m \in Nodes : \A t \in pool'[m] : t.price \in Submitted
      BY <1>2, <2>2 DEF submit_price_unsigned, FInv, Answered
    <2> QED
      BY <1>1, <2>2, <2>3, <2>4 DEF submit_price_unsigned, FInv, Answered
  <1>11. CASE \E n \in Nodes : restart(n)
    BY <1>1, <1>2, <1>11 DEF restart, FInv, Answered
  <1>12. CASE Others
    <2>1. PICK n \in Nodes, b \in 0..MaxBlock, p \in OtherPrices : submitted_by_others(n, b, p)
      BY <1>12 DEF Others
    <2>2. p \in Submitted
      BY DEF Submitted
    <2> QED
      BY <1>1, <1>3, <2>1, <2>2 DEF submitted_by_others, FInv, Answered
  <1>13. CASE UNCHANGED vars
    BY <1>1, <1>13 DEF vars, FInv, Answered
  <1> QED
    BY <1>4, <1>5, <1>6, <1>7, <1>8, <1>9, <1>10, <1>11, <1>12, <1>13 DEF Next

\* What the feed puts on the chain is what it makes of an answer of the exchange, or of what
\* somebody else submitted.
LEMMA AnswersInvariance == Spec => []FInv
  <1>1. Init => FInv
    BY WorkerAssumption DEF Init, FInv, Answered, WorkerTypeOK, Outcome
  <1> QED
    BY <1>1, StepKeepsAnswers, PTL DEF Spec

\* If the cents of every answer fit a u32, every price a worker sends, and every price on the
\* chain that nobody else submitted, is the cents of a quote, misread only if it has a single
\* decimal, in whatever order workers, pools and authors act.
THEOREM CentsAreRead == (\A q \in Quotes : Fits(q)) => (Spec => []CentsRead)
  <1> SUFFICES ASSUME \A q \in Quotes : Fits(q) PROVE Spec => []CentsRead
    OBVIOUS
  <1> DEFINE read == {reading(quote) : quote \in Quotes}
  <1>1. Answers = read
    <2>1. \A q \in Quotes : parse_price(q) = reading(q)
      BY WorkerAssumption, ParsedCents
    <2> QED
      BY <2>1 DEF Answers
  <1>2. Submitted \subseteq 0..(U32 - 1) /\ U32 \in Nat
    BY WorkerAssumption, ParsePriceType DEF Submitted, Answers
  <1>3. FInv => CentsRead
    <2> SUFFICES ASSUME FInv PROVE CentsRead
      OBVIOUS
    <2>1. read \cup OtherPrices = Submitted
      BY <1>1 DEF Submitted
    <2>2. \A w \in workers : w.price \in read \cup {None}
      BY <1>1 DEF FInv, Answered
    <2>3. \A n \in Nodes : \A tx \in pool[n] : tx.price \in read \cup OtherPrices
      BY <2>1 DEF FInv, Answered
    <2>4. accepted.at # -1 => \E c \in read \cup OtherPrices : price = (c * DIV) \div 100
      <3> SUFFICES ASSUME accepted.at # -1 PROVE \E c \in Submitted : price = (c * DIV) \div 100
        BY <2>1
      <3>1. PICK c \in Submitted : price = saturating_from_rational(c, 100)
        BY DEF FInv, Answered
      <3>2. c \in Nat /\ c < U32
        BY <1>2
      <3> QED
        BY <3>1, <3>2, StoredCents
    <2> HIDE DEF read
    <2> QED
      BY <2>2, <2>3, <2>4 DEF CentsRead, read
  <1> QED
    BY <1>3, AnswersInvariance, PTL
=============================================================================
