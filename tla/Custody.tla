------------------------------ MODULE Custody ------------------------------
(***************************************************************************)
(* What the ledger promises the holders of assets, whatever pallet moves   *)
(* them: units are made only under a new id and destroyed only by one      *)
(* holder, all it has; every other call leaves the units of each asset as  *)
(* many as they were and takes from at most one holder, the one that made  *)
(* it.  A pallet's own accounts are no holders: they pay out on the calls  *)
(* of others.                                                              *)
(***************************************************************************)
EXTENDS Integers, FiniteSetsExt

CONSTANTS Ids,       \* of the assets
          Accounts,
          Holders    \* the accounts somebody has a key of

VARIABLES held,      \* asset -> account -> units
          next_id    \* the first id that is not in use

ledger == <<held, next_id>>

units(id) == MapThenSumSet(LAMBDA a : held[id][a], Accounts)

Init ==
    /\ held \in [Ids -> [Accounts -> Nat]]
    /\ \A id \in Ids : id >= next_id => units(id) = 0

\* The caller gets every unit of a new asset.
Issue(caller) ==
    /\ next_id \in Ids /\ next_id' = next_id + 1
    /\ held' = [held EXCEPT ![next_id][caller] = held'[next_id][caller]]

\* The caller destroys what it holds of an asset.
Burn(caller) ==
    /\ \E id \in Ids : held' = [held EXCEPT ![id][caller] = 0]
    /\ UNCHANGED next_id

\* The caller has units moved, its own or a pallet's, and no other holder's.
Move(caller) ==
    /\ \A id \in Ids, holder \in Holders \ {caller} : held'[id][holder] >= held[id][holder]
    /\ \A id \in Ids : held'[id] # held[id] => units(id)' = units(id)
    /\ UNCHANGED next_id

Next == \E caller \in Holders : Issue(caller) \/ Burn(caller) \/ Move(caller)

Spec == Init /\ [][Next]_ledger
=============================================================================
