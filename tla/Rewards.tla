------------------------------ MODULE Rewards -------------------------------
(***************************************************************************)
(* chain/mining.rs: the schedule of block rewards.                         *)
(***************************************************************************)
EXTENDS Integers

CONSTANTS
    GENESIS_BLOCK_REWARD,
    HALVING_INTERVAL,
    REWARD_BITS             \* width of the reward's type

ASSUME RewardAssumption ==
    /\ GENESIS_BLOCK_REWARD \in Nat
    /\ HALVING_INTERVAL \in Nat \ {0}
    /\ REWARD_BITS \in Nat
\* Facts of arithmetic that the provers do not know.
ASSUME PowerAssumption ==
    2^0 = 1 /\ \A n \in 0..REWARD_BITS : 2^n \in Nat \ {0} /\ 2^(n + 1) = 2 * 2^n

\* checked_shr: nothing is left once the shift is as wide as the type.  The
\* code first casts the number of halvings to u32, which is left out: it
\* changes heights from 2^32 halvings on only, about 10^15 epoch blocks.
calculate_block_reward(h) ==
    LET halvings == h \div HALVING_INTERVAL IN
    IF halvings < REWARD_BITS THEN GENESIS_BLOCK_REWARD \div 2^halvings ELSE 0
=============================================================================
