------------------------------ MODULE Runtime ------------------------------
(***************************************************************************)
(* The chain that src/runtime/src/lib.rs composes: the money market reads  *)
(* the price of one asset from the ledger, where the price feed puts it,   *)
(* and both count the same blocks.  The exchange the workers ask has a     *)
(* price of its own, which moves while they fetch, submit and wait.        *)
(*                                                                         *)
(* Calls of root and of the exchange pallet are left out: neither changes  *)
(* a position, and a price set by root is not the feed's.                  *)
(***************************************************************************)
EXTENDS Lending

CONSTANTS Nodes, Feeders, Authors, Quotes, OtherPrices, UnsignedInterval, longevity, U32,
          FeedId,        \* the asset of the feed, 4 in the code
          LastCall,      \* bound: the last block in which users make calls
          LastMove       \* bound: the last block in which the market moves

VARIABLES next_unsigned_at, workers, tx_pool, accepted,
          market         \* the quote the exchange would answer with now

feed_vars == <<next_unsigned_at, workers, tx_pool, accepted>>
all_vars  == <<vars, feed_vars, market>>

Worker == INSTANCE OffchainWorker
          WITH price <- price[FeedId], pool <- tx_pool,
               GenesisPrice <- saturating_from_integer(Genesis[FeedId + 1].price)

\* What the feed makes of a number of cents, and of a quote.
stored(price_in_cents) == saturating_from_rational(price_in_cents, 100)
on_chain(quote) == stored(Worker!parse_price(quote))

ASSUME RuntimeAssumption ==
    /\ Feeders \subseteq Nodes /\ Authors \subseteq Nodes
    /\ UnsignedInterval \in Nat \ {0} /\ longevity \in Nat \ {0}
    /\ U32 \in Nat \ {0} /\ U32 <= MaxBalance + 1
    /\ (U32 * DIV) \div 100 <= MaxBalance /\ 100 < LIMB
    /\ Quotes \subseteq Worker!Number /\ None \notin 0..(U32 - 1)
    /\ OtherPrices \subseteq 0..(U32 - 1)
    /\ FeedId \in AssetIds /\ FeedId < Len(Genesis)
    /\ LastCall \in Nat /\ LastMove \in Nat
    /\ \A quote \in Quotes : <<FeedId, on_chain(quote)>> \in PriceFeed
    /\ \A p \in OtherPrices : <<FeedId, stored(p)>> \in PriceFeed

-----------------------------------------------------------------------------
RuntimeInit ==
    /\ Init
    /\ Worker!Init
    /\ market \in Quotes

\* Mutant of new_block: offchain_worker is not called after the block.
new_block_without_workers ==
    /\ next_block
    /\ UNCHANGED <<feed_vars, market>>

\* execute_block and, on the nodes, offchain_worker for the block before.
new_block ==
    /\ next_block
    /\ Worker!import_block
    /\ UNCHANGED market

\* apply_extrinsic of a signed call.
signed_call ==
    /\ block_number <= LastCall
    /\ UserNext \/ LiquidateNext
    /\ UNCHANGED <<feed_vars, market>>

\* Mutant of feed_price: the cents are stored as they are.
feed_price_in_cents(n, tx) ==
    /\ Worker!validate_transaction_parameters(tx.block)
    /\ set_price(FeedId, saturating_from_integer(tx.price))
    /\ tx_pool' = [tx_pool EXCEPT ![n] = @ \ {tx}]
    /\ next_unsigned_at' = block_number + UnsignedInterval
    /\ accepted' = [block |-> tx.block, at |-> block_number]
    /\ UNCHANGED <<lending_vars, workers, market>>

\* apply_extrinsic of the feed's unsigned call, which stores the price in the ledger.
feed_price(n, tx) ==
    /\ set_price(FeedId, stored(tx.price))
    /\ Worker!submit_price_unsigned(n, tx)
    /\ UNCHANGED <<lending_vars, market>>

market_moves(quote) ==
    /\ block_number <= LastMove
    /\ market' = quote
    /\ UNCHANGED <<vars, feed_vars>>

\* A worker is answered with the price the market has when it asks.
FetchMarket ==
    /\ UNCHANGED <<vars, market>>
    /\ \E w \in workers : Worker!fetch_price(w, market)

Submit ==
    /\ UNCHANGED <<vars, market>>
    /\ Worker!Submit

\* The pallet takes a price from anybody.
Others ==
    /\ block_number < LastMove     \* bound: before the market rests, others have stopped
    /\ UNCHANGED <<vars, market>>
    /\ Worker!Others

Gossip ==
    /\ UNCHANGED <<vars, market>>
    /\ Worker!Gossip

FeedPrice == \E n \in Authors : \E tx \in tx_pool[n] : feed_price(n, tx)

\* What the nodes do that nothing waits for.
NodeFaults ==
    /\ UNCHANGED <<vars, market>>
    /\ \/ \E w \in workers : Worker!fetch_fails(w)
       \/ \E n \in Nodes : \E tx \in tx_pool[n] : Worker!revalidate(n, tx)
       \/ \E n \in Nodes : Worker!restart(n)

RuntimeNext ==
    \/ new_block
    \/ signed_call
    \/ FeedPrice
    \/ \E quote \in Quotes : market_moves(quote)
    \/ FetchMarket
    \/ Submit
    \/ Others
    \/ Gossip
    \/ NodeFaults

RuntimeSpec ==
    /\ RuntimeInit /\ [][RuntimeNext]_all_vars
    /\ WF_all_vars(new_block) /\ WF_all_vars(FetchMarket) /\ WF_all_vars(Submit)
    /\ WF_all_vars(Gossip) /\ WF_all_vars(FeedPrice)

-----------------------------------------------------------------------------
(* Properties. *)

\* The composition keeps the money market's specification: the feed's writes to the ledger
\* are price changes that Lending allows for, so what is proved of Lending holds here.
MarketRefined == Spec

\* The composition keeps the feed's specification: nothing users do changes when workers
\* run, what is valid or which price is stored.
FeedRefined == Worker!Spec

\* On the chain too, a price is what some quote reads in cents or what somebody else submitted:
\* parse_price scales the decimals to cents, submit_price_unsigned back to dollars, and a price
\* with a single decimal is the one that is misread.
CentsRead == Worker!CentsRead

AtMarket == INSTANCE Lending WITH price <- [price EXCEPT ![FeedId] = on_chain(market)]

\* The chain and the market agree on who is covered (at once, if they agree on the price).
HealthAgrees ==
    \/ price[FeedId] = on_chain(market)
    \/ \A user \in Signers : healthy(user) <=> AtMarket!healthy(user)

\* The price a health check reads may be old, but not for ever: once a window opens after
\* the market and whoever else submits prices have come to rest, the chain comes to call
\* covered, and to liquidate, exactly the users who are so at the price its workers read from
\* the market, through failed fetches, stale answers, restarts and whatever the pools still hold.
HealthFollowsMarket ==
    [](next_unsigned_at \in LastMove..(MaxBlock - 1) => <>[]HealthAgrees)
=============================================================================
