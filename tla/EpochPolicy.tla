---------------------------- MODULE EpochPolicy -----------------------------
(***************************************************************************)
(* The numbers the protocol carries from one epoch block to the next: the  *)
(* block reward of chain/mining.rs and its sum in consensus/coinbase.rs,   *)
(* the difficulty of chain/mining.rs, and the fee split and the fee        *)
(* multiplier of mempool/fees.rs next to the shares that state_trie.rs and *)
(* coinbase.rs pay.  The node that calls these functions for every epoch   *)
(* block is not in the repository.                                         *)
(*                                                                         *)
(* The multiplier and the utilization are f64.  Here both are multiples    *)
(* of a small unit: TARGET_UTILIZATION units of utilization are one half,  *)
(* and ONE = (8 * TARGET_UTILIZATION)^MaxHeight units of the multiplier    *)
(* are 1.0, so that nothing is rounded within MaxHeight epochs.  The       *)
(* rounding of f64 itself is left out; where TARGET_UTILIZATION is a power *)
(* of two, as in the run, the adjustments of an instance are exact in f64. *)
(***************************************************************************)
EXTENDS MachineIntegers, Rewards, SequencesExt

CONSTANTS
    EPOCH_BLOCK_TARGET_SECONDS, MICRO_BLOCK_TARGET_SECONDS,
    DIFFICULTY_WINDOW, MIN_DIFFICULTY, MAX_DIFFICULTY,
    BaseFee,                    \* FEE_* of each transaction type
    MAX_MULTIPLIER,
    TARGET_UTILIZATION,         \* 0.5
    Utilizations,               \* how full the blocks of an epoch may be
    Overpay,                    \* what wallets pay above a minimum
    Intervals,                  \* seconds between epoch blocks
    MaxTransactions, MaxHeight  \* bounds: transactions and epochs of a run

ASSUME PolicyAssumption ==
    /\ DIFFICULTY_WINDOW \in Nat \ {0}
    /\ EPOCH_BLOCK_TARGET_SECONDS \in Nat
    /\ MIN_DIFFICULTY \in Nat /\ MAX_DIFFICULTY \in Nat /\ MIN_DIFFICULTY <= MAX_DIFFICULTY
    /\ BaseFee \in [DOMAIN BaseFee -> Nat] /\ MAX_MULTIPLIER \in Nat \ {0}
    /\ TARGET_UTILIZATION \in Nat \ {0}
    /\ Utilizations \subseteq 0..(2 * TARGET_UTILIZATION)
    /\ Overpay \subseteq Nat
    /\ Intervals \subseteq Nat \ {0}
    /\ MaxTransactions \in Nat /\ MaxHeight \in Nat
\* A fact of arithmetic that the provers do not know.
ASSUME OneAssumption == (8 * TARGET_UTILIZATION)^MaxHeight \in Nat \ {0}

VARIABLES
    height,         \* of the last epoch block
    timestamps,     \* of the epoch blocks so far
    difficulty,
    multiplier,     \* in units of 1/ONE
    pool,           \* fees of this epoch's transactions, in order
    credited,       \* history: coins credited by rewards
    fees,           \* history: [collected, count, validators, treasury], all epochs
    quoted,         \* history: [burn, validators, treasury] by calculate_fee_split
    wrapped,        \* history: a product of a fee split has wrapped around
    surplus         \* history: utilization above the target, added up over the
                    \* epochs since the multiplier was 1

policy_vars == <<height, timestamps, difficulty, multiplier, pool, credited, fees, quoted,
                 wrapped, surplus>>

-----------------------------------------------------------------------------
clamp(x, low, high) == IF x < low THEN low ELSE IF x > high THEN high ELSE x

\* Variant: the last block is left out.
calculate_mined_supply_Exclusive(h) ==
    LET supply[i \in Nat] ==
            IF i = 0 THEN 0 ELSE saturating_add(supply[i - 1], calculate_block_reward(i - 1))
    IN  supply[h]

calculate_mined_supply(h) ==
    LET supply[i \in Nat] ==
            IF i = 0 THEN saturating_add(0, calculate_block_reward(0))
            ELSE saturating_add(supply[i - 1], calculate_block_reward(i))
    IN  supply[h]

-----------------------------------------------------------------------------
\* Variant: the average is over the blocks, not the intervals between them.
average_seconds_PerBlock(recent) == (Last(recent) - Head(recent)) \div Len(recent)

average_seconds(recent) == (Last(recent) - Head(recent)) \div (Len(recent) - 1)

\* Variant: the result is not clamped.
calculate_next_difficulty_Unclamped(current, times, is_epoch_block) ==
    LET target == IF is_epoch_block THEN EPOCH_BLOCK_TARGET_SECONDS
                  ELSE MICRO_BLOCK_TARGET_SECONDS
        window == IF Len(times) < DIFFICULTY_WINDOW THEN Len(times) ELSE DIFFICULTY_WINDOW
        recent == SubSeq(times, Len(times) - window + 1, Len(times))
        average == average_seconds(recent)
        new == IF average < target THEN current + 1
               ELSE IF average > target THEN saturating_sub(current, 1)
               ELSE current
    IN  IF Len(times) < 2 \/ Len(recent) = 1 THEN current
        ELSE new

\* Blocks on average faster than the target make it harder by one, slower ones
\* easier by one.
calculate_next_difficulty(current, times, is_epoch_block) ==
    LET target == IF is_epoch_block THEN EPOCH_BLOCK_TARGET_SECONDS
                  ELSE MICRO_BLOCK_TARGET_SECONDS
        window == IF Len(times) < DIFFICULTY_WINDOW THEN Len(times) ELSE DIFFICULTY_WINDOW
        recent == SubSeq(times, Len(times) - window + 1, Len(times))
        average == average_seconds(recent)
        new == IF average < target THEN current + 1
               ELSE IF average > target THEN saturating_sub(current, 1)
               ELSE current
    IN  IF Len(times) < 2 \/ Len(recent) = 1 THEN current
        ELSE clamp(new, MIN_DIFFICULTY, MAX_DIFFICULTY)

-----------------------------------------------------------------------------
minimum_fee(type) == BaseFee[type]

fee_is_sufficient(type, fee) == fee >= minimum_fee(type)

Share(fee, bps) == Wrapped(fee * bps) \div 10000
calculate_burn_amount(fee) == Share(fee, 5000)
calculate_validator_amount(fee) == Share(fee, 4000)

\* Variant: the share is rounded to the nearest unit.
calculate_treasury_amount_Nearest(fee) == (Wrapped(fee * 1000) + 5000) \div 10000

calculate_treasury_amount(fee) == Share(fee, 1000)

\* Variant: the dust is dropped.
calculate_fee_split_NoDust(fee) ==
    [burn |-> calculate_burn_amount(fee), validators |-> calculate_validator_amount(fee),
     treasury |-> calculate_treasury_amount(fee)]

calculate_fee_split(fee) ==
    LET burn == calculate_burn_amount(fee)
        validators == calculate_validator_amount(fee)
        treasury == calculate_treasury_amount(fee)
        dust == saturating_sub(saturating_sub(saturating_sub(fee, burn), validators), treasury)
    IN  [burn |-> Wrapped(burn + dust), validators |-> validators, treasury |-> treasury]

\* What is paid instead: per transaction to the treasury (apply_fee_split of
\* state_trie.rs), per epoch to the validators.
treasury_share(fee) == fee \div 10

\* Variant: the share of the validators is rounded up.
calculate_validator_fee_share_Ceiling(total) == (Wrapped(total * 40) + 99) \div 100

calculate_validator_fee_share(total) == Wrapped(total * 40) \div 100

total_fees(txs) == FoldSeq(LAMBDA fee, sum : Wrapped(fee + sum), 0, txs)

ONE == (8 * TARGET_UTILIZATION)^MaxHeight

\* Variant: epochs below the target leave the multiplier as it is.
adjust_base_fee_multiplier_NeverFalls(avg_utilization, current) ==
    LET above == saturating_sub(avg_utilization, TARGET_UTILIZATION)
        new == (current * (8 * TARGET_UTILIZATION + above)) \div (8 * TARGET_UTILIZATION)
    IN  clamp(new, ONE, MAX_MULTIPLIER * ONE)

\* delta is the distance from the target by twice the 1/8 of
\* MAX_CHANGE_PER_EPOCH: 1 + delta goes from 7/8 for an empty epoch to 9/8 for
\* a full one, linearly.
adjust_base_fee_multiplier(avg_utilization, current) ==
    LET new == (current * (7 * TARGET_UTILIZATION + avg_utilization))
                  \div (8 * TARGET_UTILIZATION)
    IN  clamp(new, ONE, MAX_MULTIPLIER * ONE)

\* The cast of an f64 to u64 saturates.
effective_minimum_fee(type, current) ==
    LET fee == (minimum_fee(type) * current) \div ONE IN IF fee > MaxU64 THEN MaxU64 ELSE fee

-----------------------------------------------------------------------------
\* The genesis block is the epoch block of height 0.
PolicyInit ==
    /\ height = 0
    /\ timestamps = <<0>>
    /\ difficulty = MIN_DIFFICULTY
    /\ multiplier = ONE
    /\ pool = <<>>
    /\ credited = calculate_block_reward(0)
    /\ fees = [collected |-> 0, count |-> 0, validators |-> 0, treasury |-> 0]
    /\ quoted = [burn |-> 0, validators |-> 0, treasury |-> 0]
    /\ wrapped = FALSE
    /\ surplus = 0

\* A transaction of a micro block.  Its sender pays the minimum of its type or,
\* as wallets should, the one of the current multiplier, or more; only the
\* first is required of it.
CollectFee(type, fee) ==
    LET split == calculate_fee_split(fee) IN
    /\ fees.count < MaxTransactions
    /\ height < MaxHeight
    /\ fee <= MaxU64
    /\ fee_is_sufficient(type, fee)
    /\ pool' = Append(pool, fee)
    /\ fees' = [collected |-> fees.collected + fee, count |-> fees.count + 1,
                validators |-> fees.validators,
                treasury |-> fees.treasury + treasury_share(fee)]
    /\ quoted' = [burn |-> quoted.burn + split.burn,
                  validators |-> quoted.validators + split.validators,
                  treasury |-> quoted.treasury + split.treasury]
    /\ wrapped' = (wrapped \/ 5000 * fee > MaxU64)
    /\ UNCHANGED <<height, timestamps, difficulty, multiplier, credited, surplus>>

\* An epoch block: reward, the validators' share of the epoch's fees, and the
\* difficulty and the multiplier of the next epoch.  How full its blocks were
\* is measured by the node.
EpochBlock(interval, utilization) ==
    LET new == adjust_base_fee_multiplier(utilization, multiplier) IN
    /\ height < MaxHeight
    /\ height' = height + 1
    /\ timestamps' = Append(timestamps, Last(timestamps) + interval)
    /\ difficulty' = calculate_next_difficulty(difficulty, timestamps', TRUE)
    /\ multiplier' = new
    /\ pool' = <<>>
    /\ credited' = credited + calculate_block_reward(height')
    /\ fees' = [fees EXCEPT !.validators = @ + calculate_validator_fee_share(total_fees(pool))]
    /\ wrapped' = (wrapped \/ 40 * SumFunction(pool) > MaxU64)
    /\ surplus' = IF new = ONE THEN 0 ELSE surplus + utilization - TARGET_UTILIZATION
    /\ UNCHANGED quoted

PolicyNext ==
    \/ \E type \in DOMAIN BaseFee, overpay \in Overpay :
          \E floor \in {minimum_fee(type), effective_minimum_fee(type, multiplier)} :
             CollectFee(type, floor + overpay)
    \/ \E interval \in Intervals, utilization \in Utilizations : EpochBlock(interval, utilization)

PolicySpec == PolicyInit /\ [][PolicyNext]_policy_vars

-----------------------------------------------------------------------------
(***************************************************************************)
(* Properties.                                                             *)
(***************************************************************************)

\* calculate_mined_supply, "used by the supply integrity verification
\* system", is what the rewards of all epoch blocks credited, the halvings and
\* the end of the rewards included, and stays below the cap of the schedule.
SupplyIsSumOfRewards ==
    /\ calculate_mined_supply(height) = credited
    /\ credited <= 2 * HALVING_INTERVAL * GENESIS_BLOCK_REWARD

\* Fees are split in three places with three roundings, and in a release build
\* the products wrap around.  Whatever the fees: the parts fees.rs quotes ("the
\* three values will always sum to the original fee") add up to what was
\* collected, the treasury gets at least its quoted part, and after every
\* epoch the payouts are at most half of the fees.  As long as no product has
\* wrapped around, the treasury was paid what was quoted, and the validators
\* that and at most one unit per transaction, which is quoted as burned.
QuotedIsPaid ==
    /\ quoted.burn + quoted.validators + quoted.treasury = fees.collected
    /\ quoted.treasury <= fees.treasury
    /\ pool = <<>> => 2 * (fees.validators + fees.treasury) <= fees.collected
    /\ ~wrapped => quoted.treasury = fees.treasury
    /\ ~wrapped /\ pool = <<>> =>
         /\ quoted.validators <= fees.validators
         /\ fees.validators <= quoted.validators + fees.count

\* Fees above the base have a reason: the multiplier is above 1 only while the
\* epochs since it last was 1 were more than half full on average, although
\* rises and falls of one size do not cancel out ("when blocks are
\* consistently empty, the base fee falls back").
MultiplierFallsBack ==
    /\ multiplier \in ONE..(MAX_MULTIPLIER * ONE)
    /\ multiplier > ONE => surplus > 0

\* The difficulty answers to the blocks of the window and to nothing before
\* it: it rises (or is at its maximum) when all of them were fast, falls (or
\* is at its minimum) when all were slow, and stays when all were on target.
DifficultyFollowsWindow ==
    [][height' # height =>
         LET n == Len(timestamps')
             last == {i \in 2..n : i > n - DIFFICULTY_WINDOW + 1}
             interval(i) == timestamps'[i] - timestamps'[i - 1]
             target == EPOCH_BLOCK_TARGET_SECONDS
         IN  last # {} =>
               /\ (\A i \in last : interval(i) < target)
                     => difficulty' = clamp(difficulty + 1, MIN_DIFFICULTY, MAX_DIFFICULTY)
               /\ (\A i \in last : interval(i) > target)
                     => difficulty' = clamp(difficulty - 1, MIN_DIFFICULTY, MAX_DIFFICULTY)
               /\ (\A i \in last : interval(i) = target) => difficulty' = difficulty]_policy_vars
=============================================================================
