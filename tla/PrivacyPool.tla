----------------------------- MODULE PrivacyPool -----------------------------
(***************************************************************************)
(* The privacy pool contract (packages/privacy).                           *)
(*                                                                         *)
(* A user's transaction has two halves.  The client half (compile) runs in *)
(* a virtual Starknet OS over the state of a closed block: it turns client *)
(* actions into server actions and is rolled back; its proof commits to    *)
(* the server actions, the class hash and the base block.  The server half *)
(* (apply_actions) executes the server actions on chain, possibly several  *)
(* blocks later, over a state that other transactions have changed.        *)
(*                                                                         *)
(* One step of the specification is one client action, one server action,  *)
(* one external deposit, one admin call or one block.  A compilation reads *)
(* nothing but the closed block, so running it while the chain stands still*)
(* loses no behaviour: its proof stays in `proofs' and may be applied at   *)
(* any later time, more than once, or never.  A transaction on chain is    *)
(* atomic: `tx' works on copies that finish_apply installs and             *)
(* revert_apply drops.                                                     *)
(***************************************************************************)
EXTENDS PoolData

CONSTANTS
    PoolAddress,    \* the pool's own address
    Callers,        \* pairs <<user, private key>> that sign compilations
    ClientActions,  \* the client actions explored
    AdminCalls,     \* the governors' calls explored
    Attestations,   \* screening attestations in circulation
    AuditorKey, ScreenerKey, ClassHash,
    InitAdmin,      \* the contract's configuration after its constructor
    BlockTimes,     \* seconds a block may take
    DEPOSITOR_VALIDATION_MAX_AGE, DEPOSITOR_VALIDATION_MAX_FUTURE,
    MaxBlock,       \* bound: blocks explored
    MaxProofs,      \* bound: proofs compiled
    MaxActions      \* bound: server actions of a transaction

Admin ==
    [paused : BOOLEAN, auditor_public_key : AuditorKey, screener_public_key : ScreenerKey,
     fee_amount : Nat, fee_collector : ContractAddress \cup {ZeroAddr},
     proof_validity_blocks : Nat, class_hash : ClassHash,
     policies : [ContractAddress -> OpenNoteScreeningPolicy]]

\* The calls a governor can make.
AdminCall ==
    [type : {"set_auditor_public_key"}, key : AuditorKey]
      \cup [type : {"set_screener_public_key"}, key : ScreenerKey]
      \cup [type : {"set_fee_amount"}, fee_amount : Nat]
      \cup [type : {"set_fee_collector"}, fee_collector : ContractAddress \cup {ZeroAddr}]
      \cup [type : {"set_proof_validity_blocks"}, blocks : Nat]
      \cup [type : {"set_open_note_screening_policy"},
            depositor : AnyAddress, policy : OpenNoteScreeningPolicy]
      \cup [type : {"set_paused"}, paused : BOOLEAN]
      \cup [type : {"replace_to"}, class_hash : ClassHash]

ASSUME PrivacyPoolAssumption ==
    /\ PoolAddress \in ContractAddress
    /\ Callers \subseteq (ContractAddress \ {PoolAddress}) \X PrivateKey
    /\ InitAdmin \in Admin
    /\ InitAdmin.fee_amount = 0 /\ InitAdmin.proof_validity_blocks > 0
    /\ BlockTimes \subseteq Nat
    /\ DEPOSITOR_VALIDATION_MAX_AGE \in Nat /\ DEPOSITOR_VALIDATION_MAX_FUTURE \in Nat
    /\ MaxBlock \in Nat /\ MaxProofs \in Nat /\ MaxActions \in Nat
    /\ ClientActions \subseteq ClientAction
    /\ AdminCalls \subseteq AdminCall

VARIABLES
    mode,                \* "idle", "compile" or "apply": the reentrancy guard and what it guards
    store,               \* committed WriteOnce storage
    recipient_channels,  \* committed channel lists, per recipient
    pool_balance,        \* ERC20 balance of the pool, per token
    admin,               \* configuration written by the governors
    block,               \* number of the block being built
    now,                 \* its timestamp
    closed,              \* what a compilation reads of the last closed block
    auditor_log,         \* auditor key at the close of every block
    proofs,              \* proofs of compilations
    applied,             \* server actions of the transactions applied so far
    session,             \* the running compilation
    tx                   \* the running apply_actions

chainVars == <<store, recipient_channels, pool_balance, applied>>
timeVars == <<block, now, closed, auditor_log>>
vars == <<mode, chainVars, timeVars, admin, proofs, session, tx>>

NoSession ==
    [user |-> ZeroAddr, private_key |-> 0, phase |-> 0,
     balances |-> [t \in Token |-> 0], store |-> EmptyStore, actions |-> <<>>,
     has_replay_protection |-> FALSE]

NoProof == [base_block |-> 0, class_hash |-> InitAdmin.class_hash, actions |-> <<>>]

NoTx ==
    [proof |-> NoProof, pc |-> 1, store |-> EmptyStore,
     channels |-> [r \in ContractAddress |-> <<>>], balance |-> [t \in Token |-> 0],
     undeposited |-> 0, subject |-> ZeroAddr, screened |-> {},
     depositor |-> ZeroAddr, deposits |-> 0]

Snapshot == [store |-> store, auditor_public_key |-> admin.auditor_public_key,
             class_hash |-> admin.class_hash]

\* An idle chain with the given committed storage, channel lists and balances.
InitWith(st, channels, balance) ==
    /\ mode = "idle"
    /\ store = st
    /\ recipient_channels = channels
    /\ pool_balance = balance
    /\ admin = InitAdmin
    /\ block = 1
    /\ now = 0
    /\ closed = Snapshot
    /\ auditor_log = <<admin.auditor_public_key>>
    /\ proofs = {}
    /\ applied = {}
    /\ session = NoSession
    /\ tx = NoTx

Init == InitWith(EmptyStore, [r \in ContractAddress |-> <<>>], [t \in Token |-> 0])

-----------------------------------------------------------------------------
(***************************************************************************)
(* The client half: __execute__, compile_actions and main.                 *)
(***************************************************************************)
start_compile(user_addr, user_private_key) ==
    /\ mode = "idle"
    /\ Cardinality(proofs) < MaxProofs
    /\ user_private_key # 0
    /\ is_canonical_key(user_private_key)
    /\ mode' = "compile"
    /\ session' = [NoSession EXCEPT !.user = user_addr, !.private_key = user_private_key,
                                    !.store = closed.store]
    /\ UNCHANGED <<chainVars, timeVars, admin, proofs, tx>>

assert_phase(action_type) == Phase[action_type] >= session.phase

\* The WriteOnce actions of a client action, applied to the virtual state.
WritesIn(actions) == {actions[i] : i \in {j \in DOMAIN actions : IsWriteOnce(actions[j])}}

WriteAll(st, writes) ==
    [a \in DOMAIN st \cup {w.address : w \in writes} |->
        IF \E w \in writes : w.address = a
        THEN (CHOOSE w \in writes : w.address = a).value
        ELSE st[a]]

\* A client action of the given type yields `actions' and leaves `balances'.
client_apply_actions(action_type, actions, balances) ==
    /\ mode = "compile"
    /\ assert_phase(action_type)
    /\ Len(session.actions) + Len(actions) <= MaxActions
    /\ \A w \in WritesIn(actions) : ~Written(session.store, w.address)
    /\ session' =
        [session EXCEPT
            !.phase = advance_phase(Phase[action_type]),
            !.balances = balances,
            !.actions = @ \o actions,
            !.store = WriteAll(@, WritesIn(actions)),
            !.has_replay_protection = @ \/ WritesIn(actions) # {}]
    /\ UNCHANGED <<mode, chainVars, timeVars, admin, proofs, tx>>

\* What the virtual state reads as: the registered public key of an address.
RegisteredKey(st, user_addr) == st[public_key_entry(user_addr)].public_key

IsRegistered(st, user_addr) == Written(st, public_key_entry(user_addr))

set_viewing_key ==
    LET public_key == derive_public_key(session.private_key)
    IN  client_apply_actions("SetViewingKey",
          <<WriteOnce(public_key_entry(session.user), [public_key |-> public_key]),
            WriteOnce(enc_private_key_entry(session.user),
                      [auditor_public_key |-> closed.auditor_public_key,
                       private_key |-> session.private_key])>>,
          session.balances)

open_channel(recipient_addr, index) ==
    /\ recipient_addr # ZeroAddr
    /\ IsRegistered(session.store, session.user)
    /\ RegisteredKey(session.store, session.user) = derive_public_key(session.private_key)
    /\ IsRegistered(session.store, recipient_addr)
    /\ \/ index = 0
       \/ Written(session.store,
                  compute_outgoing_channel_id(session.user, session.private_key, index - 1))
    /\ LET recipient_public_key == RegisteredKey(session.store, recipient_addr)
           channel_key == compute_channel_key(session.user, session.private_key,
                                              recipient_addr, recipient_public_key)
       IN  client_apply_actions("OpenChannel",
             <<AppendChannel(recipient_addr,
                 [encrypted_to |-> recipient_public_key, channel_key |-> channel_key,
                  sender_addr |-> session.user]),
               WriteOnce(compute_channel_marker(channel_key, session.user, recipient_addr,
                                                recipient_public_key),
                         [exists |-> TRUE]),
               WriteOnce(compute_outgoing_channel_id(session.user, session.private_key, index),
                         [recipient_addr |-> recipient_addr])>>,
             session.balances)

\* Mutant: subchannel indices need not be sequential.
open_subchannel_unordered(recipient_addr, recipient_public_key, channel_key, index, token) ==
    /\ recipient_addr # ZeroAddr
    /\ token # ZeroAddr
    /\ Written(session.store,
               compute_channel_marker(channel_key, session.user, recipient_addr,
                                      recipient_public_key))
    /\ client_apply_actions("OpenSubchannel",
         <<WriteOnce(compute_subchannel_id(channel_key, index), [token |-> token]),
           WriteOnce(compute_subchannel_marker(channel_key, recipient_addr,
                                               recipient_public_key, token),
                     [exists |-> TRUE])>>,
         session.balances)

open_subchannel(recipient_addr, recipient_public_key, channel_key, index, token) ==
    /\ recipient_addr # ZeroAddr
    /\ token # ZeroAddr
    /\ Written(session.store,
               compute_channel_marker(channel_key, session.user, recipient_addr,
                                      recipient_public_key))
    /\ index = 0 \/ Written(session.store, compute_subchannel_id(channel_key, index - 1))
    /\ client_apply_actions("OpenSubchannel",
         <<WriteOnce(compute_subchannel_id(channel_key, index), [token |-> token]),
           WriteOnce(compute_subchannel_marker(channel_key, recipient_addr,
                                               recipient_public_key, token),
                     [exists |-> TRUE])>>,
         session.balances)

\* Token balances are u128: adding panics on overflow, subtracting below zero.
add_balance(token, amount) == [session.balances EXCEPT ![token] = @ + amount]
AddFits(token, amount) == session.balances[token] + amount < AMOUNT_MODULUS

subtract_balance(token, amount) == [session.balances EXCEPT ![token] = @ - amount]
\* Mutant: subtraction is not checked for underflow.
SubtractFits_unchecked(token, amount) == token \in Token /\ amount \in Amount

SubtractFits(token, amount) == amount <= session.balances[token]

deposit(token, amount) ==
    /\ token # ZeroAddr
    /\ amount # 0
    /\ AddFits(token, amount)
    /\ client_apply_actions("Deposit", <<TransferFrom(session.user, token, amount)>>,
                            add_balance(token, amount))

withdraw(to_addr, token, amount) ==
    /\ to_addr # ZeroAddr
    /\ token # ZeroAddr
    /\ amount # 0
    /\ SubtractFits(token, amount)
    /\ client_apply_actions("Withdraw", <<TransferTo(to_addr, token, amount)>>,
                            subtract_balance(token, amount))

invoke_external(contract_address) ==
    /\ contract_address # ZeroAddr
    /\ client_apply_actions("InvokeExternal", <<Invoke(contract_address)>>, session.balances)

\* privacy_compute runs in the external contract; its result is opaque calldata.
compute_and_invoke(contract_address) ==
    /\ contract_address # ZeroAddr
    /\ client_apply_actions("ComputeAndInvoke", <<InvokeWithComputation(contract_address)>>,
                            session.balances)

use_note(channel_key, token, index) ==
    LET owner_public_key == derive_public_key(session.private_key)
        note_id == compute_note_id(channel_key, token, index)
        amount == decode_note_amount(session.store[note_id], index)
    IN  /\ token # ZeroAddr
        /\ Written(session.store,
                   compute_subchannel_marker(channel_key, session.user, owner_public_key, token))
        /\ Written(session.store, note_id)
        /\ amount # 0
        /\ AddFits(token, amount)
        /\ client_apply_actions("UseNote",
             <<WriteOnce(compute_nullifier(channel_key, token, index, session.private_key),
                         [exists |-> TRUE])>>,
             add_balance(token, amount))

\* Mutants: the previous note, or the subchannel, need not exist.
prepare_note_creation_unordered(recipient_addr, recipient_public_key, token, index) ==
    LET channel_key == compute_channel_key(session.user, session.private_key,
                                           recipient_addr, recipient_public_key)
    IN  /\ index >= 0
        /\ Written(session.store,
                   compute_subchannel_marker(channel_key, recipient_addr,
                                             recipient_public_key, token))

prepare_note_creation_anywhere(recipient_addr, recipient_public_key, token, index) ==
    LET channel_key == compute_channel_key(session.user, session.private_key,
                                           recipient_addr, recipient_public_key)
    IN  index = 0 \/ Written(session.store, compute_note_id(channel_key, token, index - 1))

prepare_note_creation(recipient_addr, recipient_public_key, token, index) ==
    LET channel_key == compute_channel_key(session.user, session.private_key,
                                           recipient_addr, recipient_public_key)
    IN  /\ Written(session.store,
                   compute_subchannel_marker(channel_key, recipient_addr,
                                             recipient_public_key, token))
        /\ index = 0 \/ Written(session.store, compute_note_id(channel_key, token, index - 1))

create_enc_note(recipient_addr, recipient_public_key, token, amount, index, salt) ==
    LET channel_key == compute_channel_key(session.user, session.private_key,
                                           recipient_addr, recipient_public_key)
    IN  /\ recipient_addr # ZeroAddr
        /\ token # ZeroAddr
        /\ salt > OPEN_NOTE_SALT
        /\ salt < TWO_POW_120
        /\ prepare_note_creation(recipient_addr, recipient_public_key, token, index)
        /\ SubtractFits(token, amount)
        /\ client_apply_actions("CreateEncNote",
             <<WriteOnce(compute_note_id(channel_key, token, index),
                         enc_note_packed_value(index, salt, amount))>>,
             subtract_balance(token, amount))

create_open_note(recipient_addr, recipient_public_key, token, index) ==
    LET channel_key == compute_channel_key(session.user, session.private_key,
                                           recipient_addr, recipient_public_key)
        note_id == compute_note_id(channel_key, token, index)
    IN  /\ recipient_addr # ZeroAddr
        /\ token # ZeroAddr
        /\ prepare_note_creation(recipient_addr, recipient_public_key, token, index)
        /\ client_apply_actions("CreateOpenNote",
             <<WriteOnce(note_id, open_note(token)), EmitOpenNoteCreated(note_id)>>,
             session.balances)

client_action(c) ==
    \/ c.type = "SetViewingKey" /\ set_viewing_key
    \/ c.type = "OpenChannel" /\ open_channel(c.recipient_addr, c.index)
    \/ /\ c.type = "OpenSubchannel"
       /\ open_subchannel(c.recipient_addr, c.recipient_public_key, c.channel_key,
                          c.index, c.token)
    \/ c.type = "Deposit" /\ deposit(c.token, c.amount)
    \/ c.type = "UseNote" /\ use_note(c.channel_key, c.token, c.index)
    \/ /\ c.type = "CreateEncNote"
       /\ create_enc_note(c.recipient_addr, c.recipient_public_key, c.token, c.amount,
                          c.index, c.salt)
    \/ /\ c.type = "CreateOpenNote"
       /\ create_open_note(c.recipient_addr, c.recipient_public_key, c.token, c.index)
    \/ c.type = "Withdraw" /\ withdraw(c.to_addr, c.token, c.amount)
    \/ c.type = "InvokeExternal" /\ invoke_external(c.contract_address)
    \/ c.type = "ComputeAndInvoke" /\ compute_and_invoke(c.contract_address)

\* The end of main; the message to L1 binds the actions and the class hash.
finish_compile ==
    /\ mode = "compile"
    /\ session.has_replay_protection
    /\ \A t \in Token : session.balances[t] = 0
    /\ mode' = "idle"
    /\ session' = NoSession
    /\ proofs' = proofs \cup {[base_block |-> block - 1, class_hash |-> closed.class_hash,
                               actions |-> session.actions]}
    /\ UNCHANGED <<chainVars, timeVars, admin, tx>>

\* A failed assertion, a rejected signature, or a user who gives up.
abort_compile ==
    /\ mode = "compile"
    /\ mode' = "idle"
    /\ session' = NoSession
    /\ UNCHANGED <<chainVars, timeVars, admin, proofs, tx>>

-----------------------------------------------------------------------------
(***************************************************************************)
(* The server half: apply_actions.                                         *)
(***************************************************************************)
\* Mutant: proofs do not expire.
validate_proof_no_expiry(proof) ==
    /\ proof.base_block < block
    /\ proof.class_hash = admin.class_hash

validate_proof(proof) ==
    /\ proof.base_block < block
    /\ block <= proof.base_block + admin.proof_validity_blocks
    /\ proof.class_hash = admin.class_hash

\* The fee goes from the caller to the collector; an ERC20 refuses the zero recipient.
collect_fee == admin.fee_amount = 0 \/ admin.fee_collector # ZeroAddr

start_apply(proof) ==
    /\ mode = "idle"
    /\ ~admin.paused
    /\ validate_proof(proof)
    /\ collect_fee
    /\ mode' = "apply"
    /\ tx' = [NoTx EXCEPT !.proof = proof, !.store = store,
                          !.channels = recipient_channels, !.balance = pool_balance]
    /\ UNCHANGED <<chainVars, timeVars, admin, proofs, session>>

\* The server action to execute next.
AtAction(action_type) ==
    /\ mode = "apply"
    /\ tx.pc <= Len(tx.proof.actions)
    /\ tx.proof.actions[tx.pc].type = action_type
    /\ tx.depositor = ZeroAddr

CurrentAction == tx.proof.actions[tx.pc]

applyUnchanged == UNCHANGED <<mode, chainVars, timeVars, admin, proofs, session>>

\* Mutant: the slot is not read before it is written.
CanWriteOnce_unchecked(st, address) == TRUE

CanWriteOnce(st, address) == ~Written(st, address)

apply_write_once ==
    /\ AtAction("WriteOnce")
    /\ CanWriteOnce(tx.store, CurrentAction.address)
    /\ tx' = [tx EXCEPT !.pc = @ + 1,
                        !.store = Write(@, CurrentAction.address, CurrentAction.value)]
    /\ applyUnchanged

\* Mutant: the vector is replaced instead of pushed to.
apply_append_replacing ==
    /\ AtAction("Append")
    /\ tx' = [tx EXCEPT !.pc = @ + 1,
                        !.channels[CurrentAction.recipient_addr] =
                            <<CurrentAction.enc_channel_info>>]
    /\ applyUnchanged

apply_append ==
    /\ AtAction("Append")
    /\ tx' = [tx EXCEPT !.pc = @ + 1,
                        !.channels[CurrentAction.recipient_addr] =
                            Append(@, CurrentAction.enc_channel_info)]
    /\ applyUnchanged

\* Mutant: a second subject replaces the first.
unify_address_latest(subject, reference) == reference # ZeroAddr

\* ZeroAddr stands for None: a subject is never the zero address.
unify_address(subject, reference) ==
    /\ reference # ZeroAddr
    /\ subject = ZeroAddr \/ subject = reference

apply_transfer_from ==
    /\ AtAction("TransferFrom")
    /\ unify_address(tx.subject, CurrentAction.from_addr)
    /\ tx' = [tx EXCEPT !.pc = @ + 1,
                        !.subject = CurrentAction.from_addr,
                        !.screened = @ \cup {CurrentAction.from_addr},
                        !.balance[CurrentAction.token] = @ + CurrentAction.amount]
    /\ applyUnchanged

apply_transfer_to ==
    /\ AtAction("TransferTo")
    /\ CurrentAction.amount <= tx.balance[CurrentAction.token]
    /\ tx' = [tx EXCEPT !.pc = @ + 1,
                        !.balance[CurrentAction.token] =
                            IF CurrentAction.to_addr = PoolAddress
                            THEN @ ELSE @ - CurrentAction.amount]
    /\ applyUnchanged

emit_open_note_created ==
    /\ AtAction("EmitOpenNoteCreated")
    /\ tx' = [tx EXCEPT !.pc = @ + 1, !.undeposited = @ + 1]
    /\ applyUnchanged

\* An invoke is next.  The pool itself has no such entry point to call.
AtInvoke ==
    /\ AtAction("Invoke") \/ AtAction("InvokeWithComputation")
    /\ CurrentAction.contract_address # PoolAddress

\* The callee returns no deposits.
invoke_without_deposits ==
    /\ AtInvoke
    /\ tx' = [tx EXCEPT !.pc = @ + 1]
    /\ applyUnchanged

\* The addresses whose screening the depositor's policy requires.
PolicySubjects(contract_address, action_type, associated_addresses) ==
    CASE admin.policies[contract_address] = "Required" -> {contract_address}
      [] admin.policies[contract_address] = "Exempt" -> {}
      [] admin.policies[contract_address] = "Delegated" ->
            IF action_type = "InvokeWithComputation" THEN associated_addresses ELSE {}

\* The callee returns deposits, with the addresses they are associated with.
invoke_with_deposits(associated_addresses) ==
    /\ AtInvoke
    /\ LET depositor == CurrentAction.contract_address
           subjects == PolicySubjects(depositor, CurrentAction.type, associated_addresses)
       IN  /\ (admin.policies[depositor] = "Delegated" /\ CurrentAction.type = "InvokeWithComputation")
                 => associated_addresses # {}
           /\ \A a \in subjects : unify_address(tx.subject, a)
           /\ \A a, b \in subjects : a = b
           /\ tx' = [tx EXCEPT !.depositor = depositor,
                               !.screened = @ \cup subjects,
                               !.subject = IF subjects = {} THEN @ ELSE CHOOSE a \in subjects : TRUE]
    /\ applyUnchanged

\* Mutants: the tokens are not transferred, or the note may be filled again.
deposit_to_open_note_no_transfer(note_id, token, amount) ==
    /\ mode = "apply"
    /\ tx.depositor # ZeroAddr
    /\ token # ZeroAddr
    /\ amount # 0
    /\ note_id \in NotesOf(tx.store)
    /\ tx.store[note_id].salt = OPEN_NOTE_SALT
    /\ tx.store[note_id].amount = 0
    /\ tx.store[note_id].token = token
    /\ tx' = [tx EXCEPT !.store[note_id].amount = amount, !.deposits = @ + 1]
    /\ applyUnchanged

deposit_to_open_note_again(note_id, token, amount) ==
    /\ mode = "apply"
    /\ tx.depositor # ZeroAddr
    /\ amount # 0
    /\ tx.store[note_id].salt = OPEN_NOTE_SALT
    /\ tx.store[note_id].token = token
    /\ tx' = [tx EXCEPT !.store[note_id].amount = amount,
                        !.balance[token] = @ + amount,
                        !.deposits = @ + 1]
    /\ applyUnchanged

\* One returned deposit.
deposit_to_open_note(note_id, token, amount) ==
    /\ mode = "apply"
    /\ tx.depositor # ZeroAddr
    /\ token # ZeroAddr
    /\ amount # 0
    /\ note_id \in NotesOf(tx.store)
    /\ tx.store[note_id].salt = OPEN_NOTE_SALT
    /\ tx.store[note_id].amount = 0
    /\ tx.store[note_id].token = token
    /\ tx' = [tx EXCEPT !.store[note_id].amount = amount,
                        !.balance[token] = @ + amount,
                        !.deposits = @ + 1]
    /\ applyUnchanged

end_deposits ==
    /\ mode = "apply"
    /\ tx.depositor # ZeroAddr
    /\ 0 < tx.deposits
    /\ tx.deposits <= tx.undeposited
    /\ tx' = [tx EXCEPT !.pc = @ + 1, !.undeposited = @ - tx.deposits,
                        !.deposits = 0, !.depositor = ZeroAddr]
    /\ applyUnchanged

\* The screening attestation passed to apply_actions covers the subject.
verify_screening ==
    tx.subject # ZeroAddr =>
        \E attestation \in Attestations :
            /\ attestation.issued_at <= now + DEPOSITOR_VALIDATION_MAX_FUTURE
            /\ now <= attestation.issued_at + DEPOSITOR_VALIDATION_MAX_AGE
            /\ attestation.depositor = tx.subject
            /\ attestation.signer = admin.screener_public_key

\* Mutant: the final check is missing.
NoUndepositedNotes_unchecked == TRUE

NoUndepositedNotes == tx.undeposited = 0

finish_apply ==
    /\ mode = "apply"
    /\ tx.pc > Len(tx.proof.actions)
    /\ NoUndepositedNotes
    /\ verify_screening
    /\ mode' = "idle"
    /\ store' = tx.store
    /\ recipient_channels' = tx.channels
    /\ pool_balance' = tx.balance
    /\ applied' = applied \cup {tx.proof.actions}
    /\ tx' = NoTx
    /\ UNCHANGED <<timeVars, admin, proofs, session>>

\* A failed assertion, or a failed call to an ERC20 or an external contract.
revert_apply ==
    /\ mode = "apply"
    /\ mode' = "idle"
    /\ tx' = NoTx
    /\ UNCHANGED <<chainVars, timeVars, admin, proofs, session>>

-----------------------------------------------------------------------------
(***************************************************************************)
(* The governors' calls, with pausing and upgrading (external components). *)
(***************************************************************************)
set_auditor_public_key(key) == admin' = [admin EXCEPT !.auditor_public_key = key]

set_screener_public_key(key) == admin' = [admin EXCEPT !.screener_public_key = key]

set_fee_amount(fee_amount) ==
    /\ fee_amount # 0 => admin.fee_collector # ZeroAddr
    /\ admin' = [admin EXCEPT !.fee_amount = fee_amount]

set_fee_collector(fee_collector) ==
    /\ admin.fee_amount # 0 => fee_collector # ZeroAddr
    /\ admin' = [admin EXCEPT !.fee_collector = fee_collector]

set_proof_validity_blocks(proof_validity_blocks) ==
    /\ proof_validity_blocks # 0
    /\ admin' = [admin EXCEPT !.proof_validity_blocks = proof_validity_blocks]

set_open_note_screening_policy(depositor, policy) ==
    /\ depositor # ZeroAddr
    /\ admin' = [admin EXCEPT !.policies[depositor] = policy]

set_paused(paused) == admin' = [admin EXCEPT !.paused = paused]

replace_to(class_hash) == admin' = [admin EXCEPT !.class_hash = class_hash]

admin_call(c) ==
    /\ mode = "idle"
    /\ \/ c.type = "set_auditor_public_key" /\ set_auditor_public_key(c.key)
       \/ c.type = "set_screener_public_key" /\ set_screener_public_key(c.key)
       \/ c.type = "set_fee_amount" /\ set_fee_amount(c.fee_amount)
       \/ c.type = "set_fee_collector" /\ set_fee_collector(c.fee_collector)
       \/ c.type = "set_proof_validity_blocks" /\ set_proof_validity_blocks(c.blocks)
       \/ /\ c.type = "set_open_note_screening_policy"
          /\ set_open_note_screening_policy(c.depositor, c.policy)
       \/ c.type = "set_paused" /\ set_paused(c.paused)
       \/ c.type = "replace_to" /\ replace_to(c.class_hash)
    /\ UNCHANGED <<mode, chainVars, timeVars, proofs, session, tx>>

\* The block closes: its state becomes the newest a compilation can be based on.
new_block(seconds) ==
    /\ mode = "idle"
    /\ block < MaxBlock
    /\ block' = block + 1
    /\ now' = now + seconds
    /\ closed' = Snapshot
    /\ auditor_log' = Append(auditor_log, admin.auditor_public_key)
    /\ UNCHANGED <<mode, chainVars, admin, proofs, session, tx>>

-----------------------------------------------------------------------------
compile_step ==
    \/ \E c \in Callers : start_compile(c[1], c[2])
    \/ \E c \in ClientActions : client_action(c)
    \/ finish_compile
    \/ abort_compile

apply_step ==
    \/ \E p \in proofs : start_apply(p)
    \/ apply_write_once
    \/ apply_append
    \/ apply_transfer_from
    \/ apply_transfer_to
    \/ emit_open_note_created
    \/ invoke_without_deposits
    \/ \E associated \in SUBSET ContractAddress : invoke_with_deposits(associated)
    \/ \E note_id \in NotesOf(tx.store), token \in Token, amount \in Amount :
           deposit_to_open_note(note_id, token, amount)
    \/ end_deposits
    \/ finish_apply
    \/ revert_apply

Next ==
    \/ compile_step
    \/ apply_step
    \/ \E c \in AdminCalls : admin_call(c)
    \/ \E seconds \in BlockTimes : new_block(seconds)

Spec == Init /\ [][Next]_vars

-----------------------------------------------------------------------------
(***************************************************************************)
(* Types.                                                                  *)
(***************************************************************************)
StoreValue ==
    [public_key : PublicKey]
      \cup [auditor_public_key : AuditorKey, private_key : PrivateKey]
      \cup [exists : {TRUE}] \cup [recipient_addr : ContractAddress]
      \cup [token : Token] \cup Note

StorageAddress ==
    PublicKeyEntry \cup EncPrivateKeyEntry \cup ChannelMarker \cup OutgoingChannelId
      \cup SubchannelId \cup SubchannelMarker \cup NoteId \cup Nullifier

\* A value of the type of the map that the address is in.
TypedWrite(a, v) ==
    \/ a \in PublicKeyEntry /\ v \in [public_key : PublicKey]
    \/ a \in EncPrivateKeyEntry
         /\ v \in [auditor_public_key : AuditorKey, private_key : PrivateKey]
    \/ a \in ChannelMarker \cup SubchannelMarker \cup Nullifier /\ v \in [exists : {TRUE}]
    \/ a \in OutgoingChannelId /\ v \in [recipient_addr : ContractAddress]
    \/ a \in SubchannelId /\ v \in [token : Token]
    \/ a \in NoteId /\ v \in Note

TypedStore(st) ==
    /\ st = [a \in DOMAIN st |-> st[a]]
    /\ \A a \in DOMAIN st : TypedWrite(a, st[a])

ChannelInfo ==
    [encrypted_to : PublicKey, channel_key : ChannelKey, sender_addr : ContractAddress]

ServerAction ==
    [type : {"WriteOnce"}, address : StorageAddress, value : StoreValue]
      \cup [type : {"Append"}, recipient_addr : ContractAddress, enc_channel_info : ChannelInfo]
      \cup [type : {"TransferFrom"}, from_addr : ContractAddress, token : Token, amount : Amount]
      \cup [type : {"TransferTo"}, to_addr : ContractAddress, token : Token, amount : Amount]
      \cup [type : {"EmitOpenNoteCreated"}, note_id : NoteId]
      \cup [type : {"Invoke", "InvokeWithComputation"}, contract_address : ContractAddress]

TypedActions(actions) ==
    /\ actions \in Seq(ServerAction)
    /\ \A i \in 1 .. Len(actions) :
           IsWriteOnce(actions[i]) => TypedWrite(actions[i].address, actions[i].value)

TypedProof(p) ==
    /\ p = [base_block |-> p.base_block, class_hash |-> p.class_hash, actions |-> p.actions]
    /\ p.base_block \in Nat
    /\ p.class_hash \in ClassHash
    /\ TypedActions(p.actions)

TypedSession ==
    /\ session = [user |-> session.user, private_key |-> session.private_key,
                  phase |-> session.phase, balances |-> session.balances,
                  store |-> session.store, actions |-> session.actions,
                  has_replay_protection |-> session.has_replay_protection]
    /\ session.user \in ContractAddress \cup {ZeroAddr}
    /\ session.private_key \in PrivateKey
    /\ mode = "compile" => /\ session.user \in ContractAddress
                           /\ session.private_key # 0
                           /\ is_canonical_key(session.private_key)
    /\ session.phase \in 0 .. 8
    /\ session.balances \in [Token -> Amount]
    /\ session.has_replay_protection \in BOOLEAN
    /\ TypedStore(session.store)
    /\ TypedActions(session.actions)

TypedTx ==
    /\ tx = [proof |-> tx.proof, pc |-> tx.pc, store |-> tx.store, channels |-> tx.channels,
             balance |-> tx.balance, undeposited |-> tx.undeposited, subject |-> tx.subject,
             screened |-> tx.screened, depositor |-> tx.depositor, deposits |-> tx.deposits]
    /\ TypedProof(tx.proof)
    /\ tx.pc \in Nat \ {0}
    /\ TypedStore(tx.store)
    /\ tx.channels \in [ContractAddress -> Seq(ChannelInfo)]
    /\ tx.balance \in [Token -> Nat]
    /\ tx.undeposited \in Nat
    /\ tx.deposits \in Nat
    /\ tx.subject \in ContractAddress \cup {ZeroAddr}
    /\ tx.depositor \in ContractAddress \cup {ZeroAddr}
    /\ tx.screened \in SUBSET ContractAddress

TypedChain ==
    /\ mode \in {"idle", "compile", "apply"}
    /\ TypedStore(store)
    /\ recipient_channels \in [ContractAddress -> Seq(ChannelInfo)]
    /\ pool_balance \in [Token -> Nat]
    /\ admin \in Admin
    /\ block \in Nat \ {0}
    /\ now \in Nat
    /\ auditor_log \in Seq(AuditorKey)
    /\ closed = [store |-> closed.store, auditor_public_key |-> closed.auditor_public_key,
                 class_hash |-> closed.class_hash]
    /\ TypedStore(closed.store)
    /\ closed.auditor_public_key \in AuditorKey
    /\ closed.class_hash \in ClassHash
    /\ \A p \in proofs : TypedProof(p)

(***************************************************************************)
(* Every variable keeps its type: in particular every value found in       *)
(* storage, in a proof or in a running transaction has the layout that the *)
(* storage map it is written to is read back with.                         *)
(***************************************************************************)
TypeOK == TypedChain /\ TypedSession /\ TypedTx

-----------------------------------------------------------------------------
(***************************************************************************)
(* Properties.                                                             *)
(***************************************************************************)
ChannelMarkerOf(ck) ==
    compute_channel_marker(ck, SenderOf(ck), RecipientOf(ck), RecipientPubOf(ck))

SubchannelMarkerOf(ck, token) ==
    compute_subchannel_marker(ck, RecipientOf(ck), RecipientPubOf(ck), token)

\* The entries that must be in storage before the entry at address a.
Needs(a) ==
    CASE MapOf(a) = "enc_private_key" -> {public_key_entry(a[2])}
      [] MapOf(a) = "channel_exists" -> {public_key_entry(a[3]), public_key_entry(a[4])}
      [] MapOf(a) = "outgoing_channels" ->
            {public_key_entry(a[2])}
              \cup {compute_outgoing_channel_id(a[2], a[3], i) : i \in {a[4] - 1} \cap Nat}
      [] MapOf(a) = "subchannel_tokens" ->
            {ChannelMarkerOf(a[2])}
              \cup {compute_subchannel_id(a[2], i) : i \in {a[3] - 1} \cap Nat}
      [] MapOf(a) = "subchannel_exists" -> {ChannelMarkerOf(a[2])}
      [] MapOf(a) = "notes" ->
            {SubchannelMarkerOf(a[2], a[3])}
              \cup {compute_note_id(a[2], a[3], i) : i \in {a[4] - 1} \cap Nat}
      [] MapOf(a) = "nullifiers" -> {compute_note_id(a[2], a[3], a[4])}
      [] OTHER -> {}

(***************************************************************************)
(* Storage has no dangling entries: a note has its subchannel and the note *)
(* before it, a subchannel its channel and its predecessor, a channel its  *)
(* two registered parties, a nullifier its note.  The contract checks this *)
(* against the base block when compiling (open_channel, open_subchannel,   *)
(* _prepare_note_creation, use_note) and never again when it applies the   *)
(* actions to a later state.                                               *)
(***************************************************************************)
NoDanglingEntry == \A a \in DOMAIN store : Needs(a) \subseteq DOMAIN store

(***************************************************************************)
(* A note is nullified at most once, whatever key its owner presents: the  *)
(* nullifier is a hash of the private key, and two private keys have the   *)
(* same public key (use_note, is_canonical_key).                           *)
(***************************************************************************)
NoDoubleSpend ==
    \A m, n \in {a \in DOMAIN store : MapOf(a) = "nullifiers"} :
        (m[2] = n[2] /\ m[3] = n[3] /\ m[4] = n[4]) => m = n

(***************************************************************************)
(* No note is out of its recipient's reach: its subchannel is marked for   *)
(* the recipient under the public key the recipient registered, and that   *)
(* key has a private key the pool accepts, so use_note's checks succeed.   *)
(***************************************************************************)
NotesSpendable ==
    \A a \in NotesOf(store) :
        LET ck == a[2]
        IN  /\ Written(store, SubchannelMarkerOf(ck, a[3]))
            /\ IsRegistered(store, RecipientOf(ck))
            /\ RegisteredKey(store, RecipientOf(ck)) = RecipientPubOf(ck)
            /\ \E k \in PrivateKey :
                   k # 0 /\ is_canonical_key(k) /\ derive_public_key(k) = RecipientPubOf(ck)

(***************************************************************************)
(* Every note can be discovered from both ends: the recipient finds the    *)
(* channel key in recipient_channels under its own key and the token in    *)
(* the subchannel list; the sender finds the recipient in its outgoing     *)
(* channels (the three lists the discovery protocol scans).  And nothing   *)
(* is listed twice: a channel appears once in its recipient's list and     *)
(* once among its sender's outgoing channels, a token once in its channel. *)
(* A second listing is refused by the WriteOnce of a marker that another,  *)
(* still unapplied transaction may write first.                            *)
(***************************************************************************)
NotesDiscoverable ==
  /\ \A a \in NotesOf(store) :
        LET ck == a[2]
            inbox == recipient_channels[RecipientOf(ck)]
        IN  /\ \E i \in DOMAIN inbox :
                   inbox[i] = [encrypted_to |-> RecipientPubOf(ck), channel_key |-> ck,
                               sender_addr |-> SenderOf(ck)]
            /\ \E i \in Index : /\ Written(store, compute_subchannel_id(ck, i))
                                /\ store[compute_subchannel_id(ck, i)].token = a[3]
            /\ \E i \in Index :
                   LET id == compute_outgoing_channel_id(SenderOf(ck), SenderKeyOf(ck), i)
                   IN  Written(store, id) /\ store[id].recipient_addr = RecipientOf(ck)
  /\ \A r \in ContractAddress : \A i, j \in DOMAIN recipient_channels[r] :
        recipient_channels[r][i].channel_key = recipient_channels[r][j].channel_key => i = j
  /\ \A a, b \in {x \in DOMAIN store : MapOf(x) = "outgoing_channels"} :
        (a[2] = b[2] /\ a[3] = b[3] /\ store[a] = store[b]) => a = b
  /\ \A a, b \in {x \in DOMAIN store : MapOf(x) = "subchannel_tokens"} :
        (a[2] = b[2] /\ store[a] = store[b]) => a = b

(***************************************************************************)
(* No open note is left without a deposit: _apply_actions counts the open  *)
(* notes a transaction emits against the number of deposits its invokes    *)
(* return, not against the notes those deposits fill.                      *)
(***************************************************************************)
OpenNotesFunded == Undeposited(store) = {}

(***************************************************************************)
(* What is committed never changes: no later transaction overwrites or     *)
(* erases an entry, and no later deposit changes a committed note's        *)
(* amount (_apply_write_once, _deposit_to_open_note).                      *)
(***************************************************************************)
CommittedIsImmutable ==
    [][\A a \in DOMAIN store : a \in DOMAIN store' /\ store'[a] = store[a]]_vars

(***************************************************************************)
(* A proof takes effect at most once, although nothing records that it was *)
(* used: a transaction about to commit is not one applied before (main     *)
(* requires replay protection, _apply_write_once provides it).             *)
(***************************************************************************)
AppliedOnce ==
    (mode = "apply" /\ tx.pc > Len(tx.proof.actions)) => tx.proof.actions \notin applied

(***************************************************************************)
(* Every address whose screening the transaction requires is the one the   *)
(* attestation is checked for (unify_address, _apply_actions).             *)
(***************************************************************************)
OneScreeningSubject == \A a \in tx.screened : a = tx.subject

(***************************************************************************)
(* A viewing key registered now is encrypted for an auditor that was       *)
(* current within the proof validity window: a registration compiled       *)
(* before a rotation of the auditor's key may be applied after it, but     *)
(* only until its proof expires (validate_proof).                          *)
(***************************************************************************)
AuditorIsRecent ==
    [][\A a \in DOMAIN store' \ DOMAIN store :
          MapOf(a) = "enc_private_key" =>
              \E b \in 0 .. (block - 1) :
                  /\ block <= b + admin.proof_validity_blocks
                  /\ auditor_log[b + 1] = store'[a].auditor_public_key]_vars
=============================================================================
