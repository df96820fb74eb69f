--------------------------- MODULE OffchainWorker ---------------------------
(***************************************************************************)
(* The price feed of src/pallets/offchain-worker/src/lib.rs on the nodes   *)
(* of src/node/src/service.rs.  After every block each feeder runs a       *)
(* worker that asks an exchange for a price and hands an unsigned          *)
(* transaction to its node's pool; pools gossip; a block author includes   *)
(* what the pallet still accepts.  The pallet keeps one number,            *)
(* NextUnsignedAt, to space the prices out, and does not ask where a       *)
(* transaction comes from: any peer or client of a node may submit one.    *)
(* A node that restarts loses its pool and its workers.                    *)
(*                                                                         *)
(* The pools and the exchange are external: a pool remembers, with a       *)
(* transaction, the tag it provides and how long it stays.                 *)
(***************************************************************************)
EXTENDS FixedU128

CONSTANTS Nodes,
          Feeders,           \* the nodes started with config.offchain_worker.enabled
          Authors,           \* the nodes whose role is_authority
          None,              \* no answer, no transaction yet
          Quotes,            \* the prices the exchange answers with, as parsed JSON numbers
          OtherPrices,       \* the prices that others than the workers submit, in cents
          UnsignedInterval,  \* T::UnsignedInterval
          longevity,         \* of a valid transaction, in blocks; 5 in the code
          U32,               \* 2^32
          GenesisPrice,      \* the genesis price of the asset, fixed point
          MaxBlock           \* bound: the last block of the model

Number == [integer : Nat, fraction : Nat, fraction_length : Nat]    \* lite_json's

ASSUME WorkerAssumption ==
    /\ Feeders \subseteq Nodes /\ Authors \subseteq Nodes
    /\ UnsignedInterval \in Nat \ {0}
    /\ longevity \in Nat \ {0}
    /\ U32 \in Nat \ {0} /\ U32 <= MaxBalance + 1
    /\ (U32 * DIV) \div 100 <= MaxBalance /\ 100 < LIMB    \* every u32 of cents is a price
    /\ MaxBlock \in Nat \ {0}
    /\ GenesisPrice \in Balance
    /\ Quotes \subseteq Number
    /\ OtherPrices \subseteq 0..(U32 - 1)
    /\ None \notin 0..(U32 - 1)

VARIABLES block_number,      \* the block being built
          next_unsigned_at,  \* NextUnsignedAt
          price,             \* assets' Price of asset 4
          workers,           \* running workers: the node, the block they run for, their answer
          pool,              \* node -> transactions
          accepted           \* history: the last price taken, for which block, and when

vars == <<block_number, next_unsigned_at, price, workers, pool, accepted>>

-----------------------------------------------------------------------------
(* The exchange's answer, in cents. *)

\* 10_u64.pow: a fraction held in a u64 has at most 19 digits, for which the power fits too.
pow10[n \in Nat] == IF n = 0 THEN 1 ELSE 10 * pow10[n - 1]

\* Mutants of parse_price: the decimals are scaled the wrong way, or not at all.
parse_price_upscaled(number) ==
    LET exp == IF number.fraction_length < 2 THEN 0 ELSE number.fraction_length - 2
    IN  (number.integer * 100) + (number.fraction * pow10[exp])
parse_price_unscaled(number) == ((number.integer * 100) + number.fraction) % U32

parse_price(number) ==
    LET exp == IF number.fraction_length < 2 THEN 0 ELSE number.fraction_length - 2
    IN  (((number.integer % U32) * 100) + ((number.fraction \div pow10[exp]) % U32)) % U32

\* What it is worth in cents, rounded down.
cents(number) ==
    number.integer * 100 + (number.fraction * 100) \div pow10[number.fraction_length]

-----------------------------------------------------------------------------
(* Validity, when a pool takes a transaction and again when a block does. *)

\* Mutants of validate_transaction_parameters: stale transactions pass; the window is
\* compared with the current block; only the window's first block passes.
validate_not_stale(b)  == b <= block_number
validate_window_now(b) == next_unsigned_at <= block_number /\ b <= block_number
validate_exact(b)      == next_unsigned_at = b /\ b <= block_number

validate_transaction_parameters(b) ==
    /\ next_unsigned_at <= b      \* or it is Stale
    /\ b <= block_number          \* or it is from the Future

pooled(tx) == [block |-> tx.block, price |-> tx.price,
               provides |-> next_unsigned_at, until |-> (block_number - 1) + longevity]

\* Two transactions that provide the same tag, at the same priority: the first one stays.
enter(n, tx) ==
    IF /\ validate_transaction_parameters(tx.block)
       /\ \A t \in pool[n] : t.provides # next_unsigned_at
    THEN [pool EXCEPT ![n] = @ \cup {pooled(tx)}]
    ELSE pool

-----------------------------------------------------------------------------
Init ==
    /\ block_number = 1
    /\ next_unsigned_at = 0
    /\ price = GenesisPrice
    /\ workers = {}
    /\ pool = [n \in Nodes |-> {}]
    /\ accepted = [block |-> -1, at |-> -1]

\* build_offchain_workers: on the nodes that are configured to run them.
started(b) == [node : Feeders, block : {b}, price : {None}]

\* A block is complete and imported: every feeder starts offchain_worker(block_number), which
\* gives up at once if it is too early, and every pool drops what has expired.
import_block ==
    /\ block_number < MaxBlock
    /\ block_number' = block_number + 1
    /\ workers' = IF next_unsigned_at > block_number THEN workers
                  ELSE workers \cup started(block_number)
    /\ pool' = [n \in Nodes |-> {t \in pool[n] : t.until > block_number}]
    /\ UNCHANGED <<next_unsigned_at, price, accepted>>

\* fetch_price: an answer, or none before the deadline, a bad status or an unreadable body.
fetch_price(w, quote) ==
    /\ w.price = None
    /\ workers' = (workers \ {w})
         \cup {[node |-> w.node, block |-> w.block, price |-> parse_price(quote)]}
    /\ UNCHANGED <<block_number, next_unsigned_at, price, pool, accepted>>

fetch_fails(w) ==
    /\ w.price = None
    /\ w.block < MaxBlock - 1      \* bound: the exchange is not down for ever
    /\ workers' = workers \ {w}
    /\ UNCHANGED <<block_number, next_unsigned_at, price, pool, accepted>>

submit_unsigned_transaction(w) ==
    /\ w.price # None
    /\ workers' = workers \ {w}
    /\ pool' = enter(w.node, w)
    /\ UNCHANGED <<block_number, next_unsigned_at, price, accepted>>

\* validate_unsigned ignores the source: a peer, or a client of the node n, submits a price
\* of its own for a block of its choice.
submitted_by_others(n, b, cents_given) ==
    /\ pool' = enter(n, [block |-> b, price |-> cents_given])
    /\ UNCHANGED <<block_number, next_unsigned_at, price, workers, accepted>>

\* Gossip, and a pool dropping what it finds to be stale.
propagate(n, m, tx) ==
    /\ pool' = enter(m, tx)
    /\ UNCHANGED <<block_number, next_unsigned_at, price, workers, accepted>>

revalidate(n, tx) ==
    /\ ~ validate_transaction_parameters(tx.block)
    /\ pool' = [pool EXCEPT ![n] = @ \ {tx}]
    /\ UNCHANGED <<block_number, next_unsigned_at, price, workers, accepted>>

\* The author n of this block includes a transaction, which is validated once more.
submit_price_unsigned(n, tx) ==
    /\ validate_transaction_parameters(tx.block)
    /\ price' = saturating_from_rational(tx.price, 100)
    /\ next_unsigned_at' = block_number + UnsignedInterval
    /\ accepted' = [block |-> tx.block, at |-> block_number]
    /\ pool' = [pool EXCEPT ![n] = @ \ {tx}]
    /\ UNCHANGED <<block_number, workers>>

\* A node goes down and comes back: its pool is in memory, and so are its workers.
restart(n) ==
    /\ block_number < MaxBlock     \* bound: the workers of the last block survive
    /\ pool' = [pool EXCEPT ![n] = {}]
    /\ workers' = {w \in workers : w.node # n}
    /\ UNCHANGED <<block_number, next_unsigned_at, price, accepted>>

Fetch  == \E w \in workers, q \in Quotes : fetch_price(w, q)
Submit == \E w \in workers : submit_unsigned_transaction(w)
Others == \E n \in Nodes, b \in 0..MaxBlock, p \in OtherPrices : submitted_by_others(n, b, p)
Gossip == \E n, m \in Nodes : \E tx \in pool[n] : propagate(n, m, tx)
Author == \E n \in Authors : \E tx \in pool[n] : submit_price_unsigned(n, tx)

Next ==
    \/ import_block
    \/ Fetch
    \/ \E w \in workers : fetch_fails(w)
    \/ Submit
    \/ Others
    \/ Gossip
    \/ \E n \in Nodes : \E tx \in pool[n] : revalidate(n, tx)
    \/ Author
    \/ \E n \in Nodes : restart(n)

Spec == Init /\ [][Next]_vars

\* The chain goes on, a running worker gets an answer or fails at its deadline, a worker
\* with an answer submits it, pools are connected, and authors include what they may.
Fairness ==
    /\ WF_vars(import_block) /\ WF_vars(Fetch) /\ WF_vars(Submit)
    /\ WF_vars(Gossip) /\ WF_vars(Author)

FairSpec == Spec /\ Fairness

-----------------------------------------------------------------------------
(* Properties. *)

Tx == [block : 0..MaxBlock, price : 0..(U32 - 1),
       provides : Nat, until : Nat]

\* Every variable has its type; in particular a price on its way is a u32.
WorkerTypeOK ==
    /\ block_number \in 0..MaxBlock
    /\ next_unsigned_at \in Nat
    /\ price \in Outcome
    /\ workers \subseteq [node : Nodes, block : 0..MaxBlock, price : 0..(U32 - 1) \cup {None}]
    /\ pool \in [Nodes -> SUBSET Tx]
    /\ accepted \in [block : -1..MaxBlock, at : -1..MaxBlock]

\* However many nodes and others submit and gossip, prices are taken at least UnsignedInterval
\* blocks apart: a price moves NextUnsignedAt past every transaction made for an earlier block.
PricesAreSpaced ==
    [][accepted' # accepted /\ accepted.at # -1
         => accepted'.at >= accepted.at + UnsignedInterval]_vars

\* Prices are taken in order: the block that a transaction is for is later than the one that
\* took the price before it, so a worker's late answer never replaces a newer price.
PricesInOrder ==
    [][accepted' # accepted => accepted'.block > accepted.at]_vars

\* Once its window is open a price is taken, however many fetches failed and nodes restarted
\* before: a pooled transaction with the same tag, a stale one or an expired one does not
\* starve it, and a node that runs workers need not be an author.
PriceArrives ==
    \A b \in 0..(MaxBlock - 1) : next_unsigned_at = b ~> next_unsigned_at # b

\* The cents that parse_price should return, and returns, except for a price with a single
\* decimal: 1.5 is read as 1 dollar and 5 cents.
reading(quote) ==
    IF quote.fraction_length = 1 THEN quote.integer * 100 + quote.fraction ELSE cents(quote)

\* From a worker's answer through the pools to the ledger, a price is what some quote reads in
\* cents, whatever the number of its decimals, or what somebody else submitted: parse_price
\* scales the fraction to cents, and submit_price_unsigned divides by 100 again.
CentsRead ==
    LET read == {reading(quote) : quote \in Quotes}
    IN  /\ \A w \in workers : w.price \in read \cup {None}
        /\ \A n \in Nodes : \A tx \in pool[n] : tx.price \in read \cup OtherPrices
        /\ accepted.at # -1 => \E c \in read \cup OtherPrices : price = (c * DIV) \div 100
=============================================================================
