----------------------------- MODULE FixedU128 -----------------------------
(***************************************************************************)
(* The arithmetic the pallets compute with: Balance = u128 (runtime        *)
(* lib.rs:59) in the release build, where + and - wrap, and the fixed      *)
(* point numbers of sp_arithmetic 2.0.1 (external: modelled from how the   *)
(* pallets use it).  A fixed point number is its inner integer, in units   *)
(* of 1/DIV.                                                               *)
(*                                                                         *)
(* A panic inside the runtime makes the block author drop the extrinsic    *)
(* and everything it wrote.  A computation that panics yields Panic, every *)
(* operator below propagates it, and an action that meets it is disabled.  *)
(***************************************************************************)
EXTENDS Integers

CONSTANTS MaxBalance,   \* u128::MAX, for balances and for fixed point inner values
          DIV,          \* FixedU128::DIV, 10^18 in the code
          LIMB          \* 2^32, the size of one limb of sp_arithmetic's big integers

ASSUME WidthAssumption ==
    /\ DIV \in Nat \ {0}
    /\ MaxBalance \in Nat /\ 2 * DIV <= MaxBalance
    /\ LIMB \in Nat

Balance == 0..MaxBalance
Panic   == -1
Outcome == Balance \cup {Panic}

one == DIV

(***************************************************************************)
(* The primitive operations are functions, of one argument after another,  *)
(* and the derived ones operators.                                         *)
(***************************************************************************)

\* `a + b` and `a - b` on u128, with the overflow checks of a release build (none).
wrapping_add == [a \in Int |-> [b \in Int |->
    IF Panic \in {a, b} THEN Panic ELSE (a + b) % (MaxBalance + 1)]]
wrapping_sub == [a \in Int |-> [b \in Int |->
    IF Panic \in {a, b} THEN Panic ELSE (a - b) % (MaxBalance + 1)]]

\* `a * b / c` on u128: the product wraps, a division by zero panics.
wrapping_mul_div == [a \in Int |-> [b \in Int |-> [c \in Int |->
    IF Panic \in {a, b, c} \/ c = 0 THEN Panic ELSE ((a * b) % (MaxBalance + 1)) \div c]]]

\* What an operation does with a result that does not fit in 128 bits.
checked[v \in Int]    == IF v \in Balance THEN v ELSE Panic
saturating[v \in Int] == IF v \in Outcome THEN v ELSE MaxBalance

(***************************************************************************)
(* a * b / c.  The quotient is truncated when a * b fits in 128 bits or c  *)
(* in one limb; otherwise it goes through big integers and is rounded to   *)
(* the nearest.  Nothing is divided by zero, it panics.                    *)
(***************************************************************************)
multiply_by_rational == [a \in Int |-> [b \in Int |-> [c \in Int |->
    IF Panic \in {a, b, c} \/ c = 0 THEN Panic
    ELSE LET p == a * b
             q == p \div c
         IN  IF p <= MaxBalance \/ c < LIMB \/ p % c <= c \div 2 THEN q ELSE q + 1]]]

fixed_add(a, b) == wrapping_add[a][b]
fixed_mul(a, b) == checked[multiply_by_rational[a][b][DIV]]
fixed_div(a, b) == checked[multiply_by_rational[a][DIV][b]]

saturating_mul_int(f, n)       == saturating[multiply_by_rational[f][n][DIV]]
saturating_from_integer(n)     == saturating[n * DIV]
saturating_from_rational(n, d) == saturating[multiply_by_rational[n][DIV][d]]

\* multiply_by_rational truncates: the product fits in 128 bits or the divisor in one limb.
rounds_down(a, b, c) == a * b <= MaxBalance \/ c < LIMB
============================================================================
