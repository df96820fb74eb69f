--------------------------- MODULE RuntimeProofs ---------------------------
(***************************************************************************)
(* The chain that runs the money market and the price feed implements the  *)
(* specification of each, so that what is proved of one alone holds on the *)
(* chain.  That the feed's writes are price changes the market allows for  *)
(* rests on the feed's own invariant: a price is a worker's answer or was  *)
(* submitted by somebody else.                                             *)
(***************************************************************************)
EXTENDS Runtime, LendingSolvencyProofs

Feed == INSTANCE OffchainWorkerProofs
        WITH price <- price[FeedId], pool <- tx_pool,
             GenesisPrice <- saturating_from_integer(Genesis[FeedId + 1].price)

\* The feed's assumptions hold on the chain: its genesis price is that of its asset.
LEMMA FeedAssumption ==
  /\ Feeders \subseteq Nodes /\ Authors \subseteq Nodes
  /\ UnsignedInterval \in Nat \ {0} /\ longevity \in Nat \ {0}
  /\ U32 \in Nat \ {0} /\ U32 <= MaxBalance + 1
  /\ (U32 * DIV) \div 100 <= MaxBalance /\ 100 < LIMB
  /\ MaxBlock \in Nat \ {0}
  /\ saturating_from_integer(Genesis[FeedId + 1].price) \in Feed!Balance
  /\ Quotes \subseteq Feed!Number
  /\ OtherPrices \subseteq 0..(U32 - 1)
  /\ None \notin 0..(U32 - 1)
  <1>1. Genesis[FeedId + 1].price \in Nat
    BY RuntimeAssumption, GenesisEntry
  <1> DEFINE n == Genesis[FeedId + 1].price
  <1>2. n * DIV \in Nat
    BY <1>1, WidthAssumption
  <1>3. saturating_from_integer(n) \in Balance
    <2> DEFINE v == n * DIV
    <2>1. saturating_from_integer(n) = saturating[v]
      BY DEF saturating_from_integer
    <2> HIDE DEF v, n
    <2> QED
      BY <1>2, <2>1, WidthAssumption DEF saturating, Outcome, Balance, Panic, v
  <1>4. Quotes \subseteq Feed!Number
    BY RuntimeAssumption DEF Worker!Number, Feed!Number
  <1> QED
    BY <1>3, <1>4, RuntimeAssumption, LendingAssumption DEF Balance, Feed!Balance

\* The two instances of the feed are one specification.
LEMMA SameActions ==
  /\ Worker!Init <=> Feed!Init
  /\ Worker!import_block <=> Feed!import_block
  /\ \A q : Worker!parse_price(q) = Feed!parse_price(q)
  /\ \A n, d : Feed!saturating_from_rational(n, d) = saturating_from_rational(n, d)
  /\ \A w, q : Worker!fetch_price(w, q) <=> Feed!fetch_price(w, q)
  /\ \A w : Worker!fetch_fails(w) <=> Feed!fetch_fails(w)
  /\ Worker!Submit <=> Feed!Submit
  /\ Worker!Others <=> Feed!Others
  /\ Worker!Gossip <=> Feed!Gossip
  /\ \A n, tx : Worker!revalidate(n, tx) <=> Feed!revalidate(n, tx)
  /\ \A n, tx : Worker!submit_price_unsigned(n, tx) <=> Feed!submit_price_unsigned(n, tx)
  /\ \A n : Worker!restart(n) <=> Feed!restart(n)
  <1>1. Worker!Init <=> Feed!Init
    BY DEF Worker!Init, Feed!Init
  <1>2. Worker!import_block <=> Feed!import_block
    BY DEF Worker!import_block, Feed!import_block, Worker!started, Feed!started
  <1>3. /\ \A q : Worker!parse_price(q) = Feed!parse_price(q)
        /\ \A w, q : Worker!fetch_price(w, q) <=> Feed!fetch_price(w, q)
    <2>1. Worker!pow10 = Feed!pow10
      BY DEF Worker!pow10, Feed!pow10
    <2>2. \A q : Worker!parse_price(q) = Feed!parse_price(q)
      BY <2>1 DEF Worker!parse_price, Feed!parse_price
    <2> QED
      BY <2>2 DEF Worker!fetch_price, Feed!fetch_price
  <1>4. \A w : Worker!fetch_fails(w) <=> Feed!fetch_fails(w)
    BY DEF Worker!fetch_fails, Feed!fetch_fails
  <1>5. \A b : Worker!validate_transaction_parameters(b) <=> Feed!validate_transaction_parameters(b)
    BY DEF Worker!validate_transaction_parameters, Feed!validate_transaction_parameters
  <1>6. \A n, tx : Worker!enter(n, tx) = Feed!enter(n, tx)
    BY <1>5 DEF Worker!enter, Feed!enter, Worker!pooled, Feed!pooled
  <1>7. Worker!Submit <=> Feed!Submit
    BY <1>6 DEF Worker!Submit, Feed!Submit,
                Worker!submit_unsigned_transaction, Feed!submit_unsigned_transaction
  <1>8. Worker!Gossip <=> Feed!Gossip
    BY <1>6 DEF Worker!Gossip, Feed!Gossip, Worker!propagate, Feed!propagate
  <1>9. \A n, tx : Worker!revalidate(n, tx) <=> Feed!revalidate(n, tx)
    BY <1>5 DEF Worker!revalidate, Feed!revalidate
  <1>10. \A n : Worker!restart(n) <=> Feed!restart(n)
    BY DEF Worker!restart, Feed!restart
  <1>11. \A n, d : /\ Feed!saturating_from_rational(n, d) = saturating_from_rational(n, d)
                   /\ Worker!saturating_from_rational(n, d) = saturating_from_rational(n, d)
    BY DEF saturating_from_rational, Worker!saturating_from_rational, Feed!saturating_from_rational,
           saturating, Worker!saturating, Feed!saturating, Outcome, Worker!Outcome, Feed!Outcome,
           Balance, Worker!Balance, Feed!Balance, Panic, Worker!Panic, Feed!Panic,
           multiply_by_rational, Worker!multiply_by_rational, Feed!multiply_by_rational
  <1>12. \A n, tx : Worker!submit_price_unsigned(n, tx) <=> Feed!submit_price_unsigned(n, tx)
    BY <1>5, <1>11 DEF Worker!submit_price_unsigned, Feed!submit_price_unsigned
  <1>13. Worker!Others <=> Feed!Others
    BY <1>6 DEF Worker!Others, Feed!Others, Worker!submitted_by_others, Feed!submitted_by_others
  <1> QED
    BY <1>1, <1>2, <1>3, <1>4, <1>7, <1>8, <1>9, <1>10, <1>11, <1>12, <1>13

\* Every step of the chain is one of the feed, or leaves it alone: a call of a user touches
\* neither the price nor the number of the block.
LEMMA FeedStep ==
  ASSUME market \in Quotes, [RuntimeNext]_all_vars
  PROVE  [Feed!Next]_(Feed!vars) /\ market' \in Quotes
  <1>1. ASSUME UNCHANGED <<vars, feed_vars>> PROVE UNCHANGED Feed!vars
    BY <1>1 DEF vars, assets_vars, lending_vars, feed_vars, Feed!vars
  <1>2. CASE new_block
    BY <1>2, SameActions DEF new_block, Feed!Next
  <1>3. CASE signed_call
    <2>1. UNCHANGED <<price, block_number, feed_vars, market>>
      BY <1>3 DEF signed_call, UserNext, LiquidateNext, supply, withdraw, borrow, repay, liquidate
    <2> QED
      BY <2>1 DEF feed_vars, Feed!vars
  <1>4. CASE FeedPrice
    BY <1>4, SameActions DEF FeedPrice, feed_price, Feed!Next, Feed!Author
  <1>5. CASE \E quote \in Quotes : market_moves(quote)
    BY <1>1, <1>5 DEF market_moves
  <1>6. CASE FetchMarket /\ market \in Quotes
    BY <1>6, SameActions DEF FetchMarket, Feed!Next, Feed!Fetch
  <1>7. CASE Submit \/ Others \/ Gossip \/ NodeFaults
    BY <1>7, SameActions DEF Submit, Others, Gossip, NodeFaults, Feed!Next
  <1>8. CASE UNCHANGED all_vars
    BY <1>1, <1>8 DEF all_vars
  <1> QED
    BY <1>2, <1>3, <1>4, <1>5, <1>6, <1>7, <1>8 DEF RuntimeNext

-----------------------------------------------------------------------------
(* The invariant: the market has a price, and the feed's prices come from somewhere. *)

RInv == market \in Quotes /\ Feed!FInv

\* The feed's own proof, on the chain.
LEMMA FeedKeeps ==
  ASSUME RInv, [RuntimeNext]_all_vars PROVE RInv'
  <1>1. [Feed!Next]_(Feed!vars) /\ market' \in Quotes
    BY FeedStep DEF RInv
  <1>2. Feed!FInv'
    BY <1>1, WidthAssumption, FeedAssumption, Feed!StepKeepsAnswers DEF RInv
  <1> QED
    BY <1>1, <1>2 DEF RInv

\* Every step of the chain is one of the money market, or leaves it alone.
LEMMA MarketStep ==
  ASSUME RInv, [RuntimeNext]_all_vars
  PROVE  [Next]_vars
  <1>1. CASE new_block \/ signed_call
    BY <1>1 DEF new_block, signed_call, Next, EnvNext
  <1>2. CASE FeedPrice
    <2>1. PICK n \in Authors : \E tx \in tx_pool[n] : feed_price(n, tx)
      BY <1>2 DEF FeedPrice
    <2>2. PICK tx \in tx_pool[n] : feed_price(n, tx)
      BY <2>1
    <2>3. tx.price \in Feed!Submitted
      BY RuntimeAssumption DEF RInv, Feed!FInv, Feed!Answered
    <2>4. <<FeedId, stored(tx.price)>> \in PriceFeed
      <3>1. CASE tx.price \in OtherPrices
        BY <3>1, RuntimeAssumption
      <3>2. CASE tx.price \in Feed!Answers
        <4>1. PICK q \in Quotes : tx.price = Feed!parse_price(q)
          BY <3>2 DEF Feed!Answers
        <4>2. on_chain(q) = stored(tx.price)
          BY <4>1, SameActions DEF on_chain
        <4> QED
          BY <4>2, RuntimeAssumption
      <3> QED
        BY <2>3, <3>1, <3>2 DEF Feed!Submitted
    <2>5. set_price(FeedId, stored(tx.price)) /\ UNCHANGED lending_vars
      BY <2>2 DEF feed_price
    <2>6. AssetsNext
      BY <2>4, <2>5 DEF AssetsNext
    <2> QED
      BY <2>5, <2>6 DEF Next, EnvNext
  <1>3. CASE \E quote \in Quotes : market_moves(quote)
    BY <1>3 DEF market_moves
  <1>4. CASE FetchMarket \/ Submit \/ Others \/ Gossip \/ NodeFaults
    BY <1>4 DEF FetchMarket, Submit, Others, Gossip, NodeFaults
  <1>5. CASE UNCHANGED all_vars
    BY <1>5 DEF all_vars
  <1> QED
    BY <1>1, <1>2, <1>3, <1>4, <1>5 DEF RuntimeNext

\* The chain's genesis is that of the feed, and of the money market.
LEMMA RuntimeStarts ==
  ASSUME RuntimeInit PROVE RInv /\ Init /\ Worker!Init
  <1>1. market \in Quotes /\ Init /\ Worker!Init /\ Feed!Init
    BY SameActions DEF RuntimeInit
  <1>2. Feed!FInv
    BY <1>1, FeedAssumption, WidthAssumption
    DEF Feed!Init, Feed!FInv, Feed!Answered, Feed!WorkerTypeOK, Feed!Outcome, Feed!Balance, Balance
  <1> QED
    BY <1>1, <1>2 DEF RInv

\* Every price on its way is a worker's answer or somebody else's submission, on every behaviour
\* of the chain.
THEOREM RuntimeInvariance == RuntimeSpec => []RInv
  <1>1. RuntimeInit => RInv
    BY RuntimeStarts
  <1>2. RInv /\ [RuntimeNext]_all_vars => RInv'
    BY FeedKeeps
  <1> QED
    BY <1>1, <1>2, PTL DEF RuntimeSpec

\* The chain implements the money market's specification: the feed's writes to the ledger
\* are price changes that it allows for.
THEOREM ChainKeepsMarket == RuntimeSpec => MarketRefined
  <1>1. RuntimeInit => Init
    BY DEF RuntimeInit
  <1>2. RInv /\ [RuntimeNext]_all_vars => [Next]_vars
    BY MarketStep
  <1> QED
    BY <1>1, <1>2, RuntimeInvariance, PTL DEF RuntimeSpec, MarketRefined, Spec

\* The chain implements the feed's specification: no call of a user changes when workers
\* run, what is valid or which price is stored.
THEOREM ChainKeepsFeed == RuntimeSpec => FeedRefined
  <1>1. RuntimeInit => Worker!Init
    BY DEF RuntimeInit
  <1>2. [Feed!Next]_(Feed!vars) => [Worker!Next]_(Worker!vars)
    BY SameActions DEF Feed!Next, Worker!Next, Feed!vars, Worker!vars, Feed!Fetch, Worker!Fetch,
                       Feed!Author, Worker!Author
  <1>3. RInv /\ [RuntimeNext]_all_vars => [Worker!Next]_(Worker!vars)
    BY <1>2, FeedStep DEF RInv
  <1> QED
    BY <1>1, <1>3, RuntimeInvariance, PTL DEF RuntimeSpec, FeedRefined, Worker!Spec

\* The units of every asset add up on the chain too, and the positions stay listed, while
\* prices arrive between any two calls.
THEOREM ChainConservesUnits == RuntimeSpec => [](Conservation /\ PositionsListed)
  <1>1. IInv => Conservation /\ PositionsListed
    BY DEF IInv, LedgerInv
  <1> QED
    BY <1>1, ChainKeepsMarket, Invariance, PTL DEF MarketRefined

\* Nor can anybody liquidate a user whom the last price the feed stored still covers, however
\* the feed's writes fall between the calls of a block.
THEOREM ChainSparesTheHealthy == InitPoolAssets = {} => (RuntimeSpec => OnlyUnhealthyAreSeized)
  <1> SUFFICES ASSUME InitPoolAssets = {} PROVE RuntimeSpec => OnlyUnhealthyAreSeized
    OBVIOUS
  <1>1. Spec => OnlyUnhealthyAreSeized
    BY HealthyAreSafe
  <1> QED
    BY <1>1, ChainKeepsMarket, PTL DEF MarketRefined

\* And what is seized at a price of the feed, whatever it is, is paid for at that price, and never
\* wraps a supply that is small enough for it.
THEOREM ChainSeizesFairly ==
    InitPoolAssets = {} => (RuntimeSpec => SeizureIsPaidFor /\ SupplyIsPaidIn)
  <1> SUFFICES ASSUME InitPoolAssets = {} PROVE RuntimeSpec => SeizureIsPaidFor /\ SupplyIsPaidIn
    OBVIOUS
  <1>1. Spec => SeizureIsPaidFor
    BY SeizuresArePaidFor
  <1>2. Spec => SupplyIsPaidIn
    BY SuppliesArePaidIn
  <1> QED
    BY <1>1, <1>2, ChainKeepsMarket, PTL DEF MarketRefined

\* And whatever the feed stores between the calls, no call itself takes a user whose debt is
\* covered to one whose debt is not, by more than the unit that rounding hides.
THEOREM ChainKeepsHealth ==
    InitPoolAssets = {} =>
        (RuntimeSpec /\ [](computable => intact /\ powers_fit) => HealthKept)
  <1> SUFFICES ASSUME InitPoolAssets = {}
               PROVE  RuntimeSpec /\ [](computable => intact /\ powers_fit) => HealthKept
    OBVIOUS
  <1>1. Spec /\ [](computable => intact /\ powers_fit) => HealthKept
    BY HealthIsKept
  <1> QED
    BY <1>1, ChainKeepsMarket, PTL DEF MarketRefined

\* If the cents of every answer fit a u32, every price that the health checks read and the
\* workers sent is the cents of a quote, misread only if it has a single decimal.
THEOREM ChainReadsCents == (\A q \in Quotes : Feed!Fits(q)) => (RuntimeSpec => []CentsRead)
  <1> SUFFICES ASSUME \A q \in Quotes : Feed!Fits(q) PROVE RuntimeSpec => []CentsRead
    OBVIOUS
  <1>1. Feed!Spec => []Feed!CentsRead
    BY FeedAssumption, WidthAssumption, Feed!CentsAreRead
  <1>2. Feed!CentsRead => CentsRead
    <2>1. Worker!pow10 = Feed!pow10
      BY DEF Worker!pow10, Feed!pow10
    <2>2. \A q : Worker!reading(q) = Feed!reading(q)
      BY <2>1 DEF Worker!cents, Feed!cents, Worker!reading, Feed!reading
    <2> QED
      BY <2>2 DEF CentsRead, Worker!CentsRead, Feed!CentsRead
  <1>3. Worker!Init => Feed!Init
    BY SameActions
  <1>4. [Worker!Next]_(Worker!vars) => [Feed!Next]_(Feed!vars)
    BY SameActions DEF Feed!Next, Worker!Next, Feed!vars, Worker!vars, Feed!Fetch, Worker!Fetch,
                       Feed!Author, Worker!Author
  <1> QED
    BY <1>1, <1>2, <1>3, <1>4, ChainKeepsFeed, PTL DEF FeedRefined, Worker!Spec, Feed!Spec
=============================================================================
