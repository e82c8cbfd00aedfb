------------------------------ MODULE Accounts ------------------------------
(***************************************************************************)
(* The account record of types/account.rs and the account store of         *)
(* storage/account_store.rs, as operators on the `accounts` tree of the    *)
(* database: a function whose domain is the set of addresses stored there. *)
(* Every store operation returns a result [ok, accts]: accts is what the   *)
(* tree holds when the call returns, also when it returns an error.        *)
(***************************************************************************)
EXTENDS MachineIntegers, FiniteSetsExt, Functions

CONSTANTS
    Address,        \* addresses, numbered in the byte order of their strings
    IgniterMin,     \* minimum stake of the three validator tiers
    KineticMin,
    NexusMin

ASSUME AddressAssumption == Address \subseteq Nat /\ IsFiniteSet(Address)
ASSUME TierAssumption ==
    /\ IgniterMin \in Nat \ {0}
    /\ KineticMin \in Nat
    /\ NexusMin \in Nat
    /\ IgniterMin < KineticMin
    /\ KineticMin < NexusMin

Tier == {"None", "Igniter", "Kinetic", "Nexus"}

Account == [balance : U64, staked : U64, nonce : Nat, tier : Tier]

\* f is a state of the accounts tree.
IsAccountMap(f) == DOMAIN f \subseteq Address /\ f \in [DOMAIN f -> Account]

NewAccount == [balance |-> 0, staked |-> 0, nonce |-> 0, tier |-> "None"]

from_staked_balance(staked) ==
    IF staked >= NexusMin THEN "Nexus"
    ELSE IF staked >= KineticMin THEN "Kinetic"
    ELSE IF staked >= IgniterMin THEN "Igniter"
    ELSE "None"

reward_bonus_bps(tier) ==
    CASE tier = "Nexus" -> 3500
      [] tier = "Kinetic" -> 1500
      [] OTHER -> 0

update_validator_tier(acc) ==
    [acc EXCEPT !.tier = from_staked_balance(acc.staked)]

\* The account with its amounts and nonce assigned and its tier kept.
Revised(acc, balance, staked, nonce) ==
    [balance |-> balance, staked |-> staked, nonce |-> nonce, tier |-> acc.tier]

is_validator(acc) == acc.tier # "None"

-----------------------------------------------------------------------------

Ok(accts) == [ok |-> TRUE, accts |-> accts]
Err(accts) == [ok |-> FALSE, accts |-> accts]

get_or_create_account(accts, a) ==
    IF a \in DOMAIN accts THEN accts[a] ELSE NewAccount

save_account(accts, a, acc) ==
    [x \in DOMAIN accts \cup {a} |-> IF x = a THEN acc ELSE accts[x]]

\* A fold of checked_add over the balance: the account is left alone when
\* the sum is not a u64.
Credited(acc, n) ==
    IF acc.balance + n \in U64 THEN [acc EXCEPT !.balance = @ + n] ELSE acc

credit_account(accts, a, n) ==
    LET acc == get_or_create_account(accts, a) IN
    IF acc.balance + n \in U64
    THEN Ok(save_account(accts, a, Credited(acc, n)))
    ELSE Err(accts)

lock_stake(accts, a, n) ==
    LET acc == get_or_create_account(accts, a)
        locked == Revised(acc, acc.balance - n, acc.staked + n, acc.nonce)
    IN  IF acc.balance >= n /\ acc.staked + n \in U64
        THEN Ok(save_account(accts, a, update_validator_tier(locked)))
        ELSE Err(accts)

unlock_stake(accts, a, n) ==
    LET acc == get_or_create_account(accts, a)
        freed == Revised(acc, acc.balance + n, acc.staked - n, acc.nonce)
    IN  IF acc.staked >= n /\ acc.balance + n \in U64
        THEN Ok(save_account(accts, a, update_validator_tier(freed)))
        ELSE Err(accts)

\* All coins in the tree.
TotalBalance(accts) == SumFunction([a \in DOMAIN accts |-> accts[a].balance + accts[a].staked])

get_validators(accts) == {a \in DOMAIN accts : is_validator(accts[a])}

-----------------------------------------------------------------------------
(***************************************************************************)
(* A loop of credit_account calls over the entries of a tree.  A credit is *)
(* [at, to, amount]; the tree is scanned by `at`, then by address, and the *)
(* loop stops at the first credit that overflows, keeping those before it. *)
(***************************************************************************)
Precedes(c, d) == c.at < d.at \/ (c.at = d.at /\ c.to <= d.to)

TotalAmount(credits) == SumFunction([c \in credits |-> c.amount])
TotalTo(credits, a) == TotalAmount({c \in credits : c.to = a})

CreditAll(accts, credits) ==
    LET upTo(c) == {d \in credits : Precedes(d, c)}
        fits(c) == get_or_create_account(accts, c.to).balance
                     + TotalTo(upTo(c), c.to) \in U64
        done == {c \in credits : \A d \in upTo(c) : fits(d)}
        paid == {c.to : c \in done}
    IN  [ok |-> done = credits,
         accts |-> [x \in DOMAIN accts \cup paid |->
                      IF x \in paid
                      THEN Credited(get_or_create_account(accts, x),
                                    TotalTo(done, x))
                      ELSE accts[x]]]
=============================================================================
