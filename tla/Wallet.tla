------------------------------- MODULE Wallet -------------------------------
(***************************************************************************)
(* The wallet file of wallet/storage.rs and the commands of bin/wallet.rs. *)
(* Each invocation of kyv-wallet is a process; several may run at once,    *)
(* each waits for its user at the prompts, and each may stop anywhere: it  *)
(* is killed, it meets the end of its input, or a file operation fails.    *)
(*                                                                         *)
(* A directory maps names to files.  A file is a number; contents[f] is    *)
(* what it holds, so that a process goes on writing to a file it has       *)
(* opened when another one renames it.  Encryption is authenticated: a     *)
(* file decrypts only when it is whole and with the key it was made with.  *)
(***************************************************************************)
EXTENDS TransactionBuilder, FiniteSets

CONSTANTS
    Process,            \* invocations that may run at the same time
    Path,               \* wallet files named on command lines
    Temp(_),            \* the name with ".tmp" appended
    Password,
    Amounts, Fees,      \* decimals on command lines, in tenths of a unit
    Recipients,
    MaxU64,
    MaxWallets,         \* bounds: wallets generated, transactions signed,
    MaxSigned, MaxClock \* milliseconds passed

\* No wallet has the name of another one's temporary file.
ASSUME TempAssumption ==
    /\ \A p \in Path : Temp(p) \notin Path
    /\ \A p, q \in Path : Temp(p) = Temp(q) => p = q
ASSUME WalletBoundsAssumption ==
    MaxWallets \in Nat /\ MaxSigned \in Nat /\ MaxClock \in Nat
ASSUME NumbersAssumption ==
    MaxU64 \in Nat \ {0} /\ Amounts \subseteq Int /\ Fees \subseteq Int

VARIABLES
    dir,        \* name to file, 0 when there is none
    contents,   \* sequence: what each file holds
    proc,       \* the running invocations
    generated,  \* number of wallets generated
    clock,
    signed,     \* transactions printed so far
    saved,      \* history: wallets reported as saved and not deleted since
    overlap     \* history: paths on which two invocations ran at once

files == <<dir, contents>>
vars == <<files, proc, generated, clock, signed, saved, overlap>>

Name == Path \cup {Temp(p) : p \in Path}
Partial == [whole |-> FALSE, key |-> <<>>, wallet |-> 0]
Idle == [at |-> "idle"]
zero_state == <<0>>

Init ==
    /\ dir = [n \in Name |-> 0]
    /\ contents = <<>>
    /\ proc = [p \in Process |-> Idle]
    /\ generated = 0
    /\ clock = 0
    /\ signed = {}
    /\ saved = {}
    /\ overlap = {}

-----------------------------------------------------------------------------
(***************************************************************************)
(* wallet/storage.rs                                                       *)
(***************************************************************************)
wallet_exists(path) == dir[path] # 0

derive_key_for_storage(password) == <<password>>

\* Variant: the key is salted with the address, which load_wallet cannot know.
encrypt_Salted(wallet, password) ==
    [whole |-> TRUE, key |-> <<password, wallet>>, wallet |-> wallet]

encrypt(wallet, password) ==
    [whole |-> TRUE, key |-> derive_key_for_storage(password), wallet |-> wallet]

\* The wallet in the file, as a set; none when the file is missing, too short,
\* without the magic bytes, not decryptable, or not of one piece.  A wallet is
\* named by the number of its keys.
load_wallet(path, password) ==
    {generate(c.wallet) : c \in
        {c \in {contents[f] : f \in {dir[path]} \ {0}} :
            /\ c.whole
            /\ c.key = derive_key_for_storage(password)
            /\ verify_address_integrity(generate(c.wallet))}}

\* The application deletes a wallet, having asked its user.
delete_wallet(path) ==
    /\ wallet_exists(path)
    /\ dir' = [dir EXCEPT ![path] = 0]
    /\ saved' = {s \in saved : s.path # path}
    /\ UNCHANGED <<contents, proc, generated, clock, signed, overlap>>

Move(p, new) == proc' = [proc EXCEPT ![p] = new]
Working(p, path) == proc[p].at # "idle" /\ proc[p].path = path

\* Variant: the wallet is written straight to its path.
temp_path_InPlace(p) == proc[p].path

temp_path(p) == Temp(proc[p].path)

\* save_wallet_v2, fs::write: the temporary file is created or emptied ...
OpenTemp(p) ==
    LET name == temp_path(p)
        f == IF dir[name] = 0 THEN Len(contents) + 1 ELSE dir[name]
        others == {q \in Process \ {p} : proc[q].at = "write" /\ proc[q].file = f}
    IN
    /\ proc[p].at = "open"
    /\ dir' = [dir EXCEPT ![name] = f]
    /\ contents' = IF dir[name] = 0 THEN Append(contents, Partial)
                   ELSE [contents EXCEPT ![f] = Partial]
    /\ proc' = [q \in Process |->
                  IF q = p THEN [proc[p] EXCEPT !.at = "write", !.file = f, !.shared = others # {}]
                  ELSE IF q \in others THEN [proc[q] EXCEPT !.shared = TRUE]
                  ELSE proc[q]]
    /\ UNCHANGED <<generated, clock, signed, saved, overlap>>

\* ... and filled.  Two processes that write to one file may mix their bytes.
WriteTemp(p) ==
    LET full == encrypt(proc[p].wallet, proc[p].password) IN
    /\ proc[p].at = "write"
    /\ \E c \in {full} \cup (IF proc[p].shared THEN {Partial} ELSE {}) :
          contents' = [contents EXCEPT ![proc[p].file] = c]
    /\ Move(p, [proc[p] EXCEPT !.at = "rename"])
    /\ UNCHANGED <<dir, generated, clock, signed, saved, overlap>>

\* save_wallet_v2, fs::rename; the command then reports the wallet as saved.
\* Without a temporary file the rename is an error (see Stop).
RenameTemp(p) ==
    LET path == proc[p].path IN
    /\ proc[p].at = "rename"
    /\ dir[temp_path(p)] # 0
    /\ dir' = [dir EXCEPT ![path] = dir[temp_path(p)], ![Temp(path)] = 0]
    /\ saved' = saved \cup {[path |-> path, wallet |-> proc[p].wallet,
                             password |-> proc[p].password]}
    /\ Move(p, Idle)
    /\ UNCHANGED <<contents, generated, clock, signed, overlap>>

-----------------------------------------------------------------------------
(***************************************************************************)
(* bin/wallet.rs                                                           *)
(***************************************************************************)

\* What a command keeps once it has its wallet.
HasWallet(path, i) ==
    [at |-> "password", path |-> path, wallet |-> i, password |-> "", file |-> 0, shared |-> FALSE]

MarkOverlap(p, path) ==
    overlap' = overlap \cup {x \in {path} : \E q \in Process \ {p} : Working(q, path)}

\* Variant: the file is not looked for.
cmd_create_Unchecked(p, path) ==
    /\ proc[p] = Idle
    /\ generated < MaxWallets
    /\ generated' = generated + 1
    /\ Move(p, HasWallet(path, generated'))
    /\ MarkOverlap(p, path)
    /\ UNCHANGED <<files, clock, signed, saved>>

\* The check comes first; the keys are generated before the password prompts.
cmd_create(p, path) ==
    /\ proc[p] = Idle
    /\ ~wallet_exists(path)
    /\ generated < MaxWallets
    /\ generated' = generated + 1
    /\ Move(p, HasWallet(path, generated'))
    /\ MarkOverlap(p, path)
    /\ UNCHANGED <<files, clock, signed, saved>>

cmd_restore(p, path) ==
    /\ proc[p] = Idle
    /\ ~wallet_exists(path)
    /\ generated < MaxWallets
    /\ Move(p, [at |-> "phrase", path |-> path])
    /\ MarkOverlap(p, path)
    /\ UNCHANGED <<files, generated, clock, signed, saved>>

\* After a valid phrase and a label the command generates new keys; an invalid
\* phrase ends it (see Stop).
EnterPhrase(p) ==
    /\ proc[p].at = "phrase"
    /\ generated < MaxWallets
    /\ generated' = generated + 1
    /\ Move(p, HasWallet(proc[p].path, generated'))
    /\ UNCHANGED <<files, clock, signed, saved, overlap>>

\* Both prompts; passwords that differ end the command (see Stop).
EnterPasswords(p) ==
    \E password, confirm \in Password :
        /\ proc[p].at = "password"
        /\ password = confirm
        /\ Move(p, [proc[p] EXCEPT !.at = "open", !.password = password])
        /\ UNCHANGED <<files, generated, clock, signed, saved, overlap>>

\* The command ends without having saved: it is killed, its user types
\* something it refuses, or a file operation fails.  Its files stay, the one
\* it was writing to with a part of its bytes.
Stop(p) ==
    /\ proc[p] # Idle
    /\ contents' = IF proc[p].at # "write" THEN contents
                   ELSE [contents EXCEPT ![proc[p].file] = Partial]
    /\ Move(p, Idle)
    /\ UNCHANGED <<dir, generated, clock, signed, saved, overlap>>

cmd_info(path, password) == {info(w) : w \in load_wallet(path, password)}

\* Variant: the cast keeps the sign.
as_units_Signed(tenths) == tenths \div 10

\* `(kyv * 1e9) as u64` of a decimal given in tenths of a unit: negative ones
\* become 0, large ones the largest u64, fractions are cut off.
as_units(tenths) ==
    IF tenths < 0 THEN 0
    ELSE IF tenths \div 10 > MaxU64 THEN MaxU64
    ELSE tenths \div 10

\* Any time may pass between the two readings of the clock.
Readings == [created : {clock}, signed : clock..MaxClock]

Emit(txs, t) ==
    /\ txs # {}
    /\ Cardinality(signed) < MaxSigned
    /\ signed' = signed \cup txs
    /\ clock' = t.signed
    /\ UNCHANGED <<files, proc, generated, saved, overlap>>

\* The commands that sign pass nonce 0 and a placeholder for the chain state.
cmd_send(path, password, recipient, amount_kyv, fee_kyv) ==
    \E wallet \in load_wallet(path, password), t \in Readings :
        Emit(build_transfer(wallet, recipient, as_units(amount_kyv), as_units(fee_kyv),
                             0, zero_state, t), t)

stake_fee == 1

cmd_stake(path, password, amount_kyv) ==
    \E wallet \in load_wallet(path, password), t \in Readings :
        Emit(build_stake_lock(wallet, as_units(amount_kyv), stake_fee, 0, zero_state, t), t)

\* An application of the library signs a withdrawal.
SignUnlock(path, password, amount) ==
    \E wallet \in load_wallet(path, password), t \in Readings :
        Emit(build_stake_unlock(wallet, amount, stake_fee, 0, zero_state, t), t)

\* No time passes inside a millisecond; it passes while users type.
Tick ==
    /\ clock < MaxClock
    /\ clock' = clock + 1
    /\ UNCHANGED <<files, proc, generated, signed, saved, overlap>>

Save(p) == OpenTemp(p) \/ WriteTemp(p) \/ RenameTemp(p)

Next ==
    \/ \E p \in Process, path \in Path : cmd_create(p, path) \/ cmd_restore(p, path)
    \/ \E p \in Process : EnterPhrase(p) \/ EnterPasswords(p) \/ Save(p) \/ Stop(p)
    \/ \E path \in Path : delete_wallet(path)
    \/ \E path \in Path, password \in Password, amount \in Amounts :
          \/ \E recipient \in Recipients, fee \in Fees :
                cmd_send(path, password, recipient, amount, fee)
          \/ cmd_stake(path, password, amount)
          \/ SignUnlock(path, password, as_units(amount))
    \/ Tick

Spec == Init /\ [][Next]_vars

-----------------------------------------------------------------------------
(***************************************************************************)
(* Properties.                                                             *)
(***************************************************************************)

\* Names lead to files, and no transaction is signed for less than one unit
\* or for an amount outside u64, whatever decimal was typed.
TypeOK ==
    /\ \A n \in Name : dir[n] \in 0..Len(contents)
    /\ \A p \in Process : proc[p].at \in {"idle", "phrase", "password", "open", "write", "rename"}
    /\ \A tx \in signed : tx.amount \in 1..MaxU64 /\ tx.fee \in 0..MaxU64

\* "This prevents a half-written wallet file if the process dies mid-write":
\* as long as no two invocations work on one path at once, the file at a path
\* is whole or there is none, wherever the invocations stop and whatever they
\* leave behind in the temporary file.
WholeOrAbsent ==
    \A path \in Path \ overlap : wallet_exists(path) => contents[dir[path]].whole

\* A wallet that was reported as saved can be loaded with its password, and
\* is the one that was shown, until it is deleted: no later create or
\* restore, whether it finishes or stops, touches it.  Again as long as no
\* two invocations work on one path at once: wallet_exists is asked long
\* before the file is written.
SavedIsLoadable ==
    \A s \in saved :
        s.path \notin overlap =>
            cmd_info(s.path, s.password) = {info(generate(s.wallet))}

\* Another chain state, which the placeholder is the beginning of.
other_state == <<0, 1>>

Contexts == {TransactionNonce(n, t, c) :
                n \in {0, 1}, t \in 0..MaxClock, c \in {zero_state, other_state}}

\* The contexts in which the signature of tx passes for transaction u.
Accepted(u, tx) ==
    {n \in Contexts : verify_transaction_signature(Payload(u), n, tx.signature, u.sender.of)}

\* A signature holds for one context only: of all account nonces, times and
\* chain states it verifies under exactly the one it was made for, with the
\* sender's key, and for no transaction with other contents.  The time of that
\* context is the second reading of the clock, which is not written into the
\* transaction: it may be any time from the transaction's own on.
SignatureBinds ==
    \A tx \in signed :
        /\ \E t \in tx.timestamp..MaxClock :
              Accepted(tx, tx) = {TransactionNonce(tx.nonce, t, zero_state)}
        /\ \A u \in signed : Accepted(u, tx) # {} => Payload(u) = Payload(tx)

\* The hash tells signed transactions apart, although the digits of amount,
\* fee and nonce run together in what is hashed.
HashIdentifies == \A t, u \in signed : t.hash = u.hash => t = u
=============================================================================
