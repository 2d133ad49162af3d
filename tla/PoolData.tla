------------------------------ MODULE PoolData ------------------------------
(***************************************************************************)
(* The data of the privacy pool contract: keys, the hashed storage         *)
(* addresses, notes, and the inputs and outputs of the two halves of the   *)
(* contract (client actions go into the compiler, server actions come out  *)
(* and are applied on chain).                                              *)
(*                                                                         *)
(* Abstractions.  A Poseidon hash of a domain tag and its arguments is the *)
(* tuple of the tag and those arguments: hashing is collision free and     *)
(* domain separated, and nothing else about it is used.  A ciphertext is   *)
(* the record of the key it is encrypted to and its plaintext.  Zero felts *)
(* mean "absent" in the contract; here an absent storage slot is an        *)
(* address outside the domain of the store.                                *)
(***************************************************************************)
EXTENDS Integers, Sequences, FiniteSets

CONSTANTS
    ContractAddress,   \* non-zero account and contract addresses
    ZeroAddr,          \* the zero address
    Token,             \* non-zero ERC20 token addresses
    ORDER,             \* order of the Stark curve's group
    AMOUNT_MODULUS,    \* 2^128: the width of note amounts
    TWO_POW_120,       \* bound of a note's salt
    MaxIndex,          \* bound: channel, subchannel and note indices explored
    EncAmountHash      \* h(ENC_AMOUNT_TAG, ..., index, 0, salt) mod 2^128

Index == 0 .. MaxIndex
Amount == 0 .. (AMOUNT_MODULUS - 1)
Salt == 0 .. (TWO_POW_120 - 1)

ASSUME PoolDataAssumption ==
    /\ ZeroAddr \notin ContractAddress
    /\ ZeroAddr \notin Token
    /\ ORDER \in Nat /\ ORDER > 4 /\ ORDER % 2 = 1
    /\ AMOUNT_MODULUS \in Nat /\ AMOUNT_MODULUS > 1
    /\ TWO_POW_120 \in Nat /\ TWO_POW_120 > 2
    /\ MaxIndex \in Nat
    /\ EncAmountHash \in [Index \X Salt -> Amount]

-----------------------------------------------------------------------------
(***************************************************************************)
(* Keys.  A public key is the x coordinate of private_key * G, so a scalar *)
(* and its negation have the same public key; that is the only collision.  *)
(***************************************************************************)
HALF_ORDER == ORDER \div 2

PrivateKey == 0 .. (ORDER - 1)
PublicKey == 1 .. HALF_ORDER

derive_public_key(private_key) ==
    IF private_key <= HALF_ORDER THEN private_key ELSE ORDER - private_key

\* Mutant: every scalar is accepted.
is_canonical_key_any(key) == key >= 0

is_canonical_key(key) == key < HALF_ORDER

-----------------------------------------------------------------------------
(***************************************************************************)
(* Hashes, and the storage addresses they select.  A storage address names *)
(* the contract's storage map and the key in it.                           *)
(***************************************************************************)
compute_channel_key(sender_addr, sender_private_key, recipient_addr, recipient_public_key) ==
    <<sender_addr, sender_private_key, recipient_addr, recipient_public_key>>

ChannelKey == ContractAddress \X PrivateKey \X ContractAddress \X PublicKey

\* The fields a channel key is the hash of.
SenderOf(channel_key) == channel_key[1]
SenderKeyOf(channel_key) == channel_key[2]
RecipientOf(channel_key) == channel_key[3]
RecipientPubOf(channel_key) == channel_key[4]

public_key_entry(user_addr) == <<"public_key", user_addr>>

enc_private_key_entry(user_addr) == <<"enc_private_key", user_addr>>

compute_channel_marker(channel_key, sender_addr, recipient_addr, recipient_public_key) ==
    <<"channel_exists", channel_key, sender_addr, recipient_addr, recipient_public_key>>

compute_outgoing_channel_id(sender_addr, sender_private_key, index) ==
    <<"outgoing_channels", sender_addr, sender_private_key, index>>

compute_subchannel_id(channel_key, index) ==
    <<"subchannel_tokens", channel_key, index>>

compute_subchannel_marker(channel_key, recipient_addr, recipient_public_key, token) ==
    <<"subchannel_exists", channel_key, recipient_addr, recipient_public_key, token>>

compute_note_id(channel_key, token, index) ==
    <<"notes", channel_key, token, index>>

compute_nullifier(channel_key, token, index, owner_private_key) ==
    <<"nullifiers", channel_key, token, index, owner_private_key>>

\* Reading back what an address is the hash of.
MapOf(address) == address[1]

PublicKeyEntry == {"public_key"} \X ContractAddress
EncPrivateKeyEntry == {"enc_private_key"} \X ContractAddress
ChannelMarker ==
    {"channel_exists"} \X ChannelKey \X ContractAddress \X ContractAddress \X PublicKey
OutgoingChannelId == {"outgoing_channels"} \X ContractAddress \X PrivateKey \X Index
SubchannelId == {"subchannel_tokens"} \X ChannelKey \X Index
SubchannelMarker ==
    {"subchannel_exists"} \X ChannelKey \X ContractAddress \X PublicKey \X Token
NoteId == {"notes"} \X ChannelKey \X Token \X Index
Nullifier == {"nullifiers"} \X ChannelKey \X Token \X Index \X PrivateKey

-----------------------------------------------------------------------------
(***************************************************************************)
(* Values kept in storage.                                                 *)
(***************************************************************************)
OPEN_NOTE_SALT == 1

\* The packed pair (salt, amount) and the token, zero for an encrypted note.
Note == [salt : Salt, amount : Amount, token : Token \cup {ZeroAddr}]

open_note(token) == [salt |-> OPEN_NOTE_SALT, amount |-> 0, token |-> token]

encrypt_note_amount(index, salt, amount) ==
    (EncAmountHash[<<index, salt>>] + amount) % AMOUNT_MODULUS

enc_note_packed_value(index, salt, amount) ==
    [salt |-> salt, amount |-> encrypt_note_amount(index, salt, amount), token |-> ZeroAddr]

decrypt_note_amount(enc_amount, salt, index) ==
    (enc_amount - EncAmountHash[<<index, salt>>]) % AMOUNT_MODULUS

decode_note_amount(note, index) ==
    IF note.salt = OPEN_NOTE_SALT
    THEN note.amount
    ELSE decrypt_note_amount(note.amount, note.salt, index)

-----------------------------------------------------------------------------
(***************************************************************************)
(* The contract's WriteOnce maps as one partial function from storage      *)
(* addresses to values.                                                    *)
(***************************************************************************)
EmptyStore == [address \in {} |-> 0]

Written(st, address) == address \in DOMAIN st

Write(st, address, value) ==
    [x \in DOMAIN st \cup {address} |-> IF x = address THEN value ELSE st[x]]

\* The notes of a store, and those that are open and still await a deposit.
NotesOf(st) == {a \in DOMAIN st : MapOf(a) = "notes"}

Undeposited(st) ==
    {a \in NotesOf(st) : st[a].salt = OPEN_NOTE_SALT /\ st[a].amount = 0}

-----------------------------------------------------------------------------
(***************************************************************************)
(* Server actions: what the compiler produces and apply_actions executes.  *)
(* Of the Emit* actions only EmitOpenNoteCreated changes any state.        *)
(***************************************************************************)
WriteOnce(address, value) ==
    [type |-> "WriteOnce", address |-> address, value |-> value]
AppendChannel(recipient_addr, enc_channel_info) ==
    [type |-> "Append", recipient_addr |-> recipient_addr,
     enc_channel_info |-> enc_channel_info]
TransferFrom(from_addr, token, amount) ==
    [type |-> "TransferFrom", from_addr |-> from_addr, token |-> token, amount |-> amount]
TransferTo(to_addr, token, amount) ==
    [type |-> "TransferTo", to_addr |-> to_addr, token |-> token, amount |-> amount]
EmitOpenNoteCreated(note_id) ==
    [type |-> "EmitOpenNoteCreated", note_id |-> note_id]
Invoke(contract_address) ==
    [type |-> "Invoke", contract_address |-> contract_address]
InvokeWithComputation(contract_address) ==
    [type |-> "InvokeWithComputation", contract_address |-> contract_address]

IsWriteOnce(action) == action.type = "WriteOnce"

(***************************************************************************)
(* Client actions, without their randomness: it has to be non-zero and     *)
(* nothing else depends on it.                                             *)
(***************************************************************************)
AnyAddress == ContractAddress \cup {ZeroAddr}
AnyToken == Token \cup {ZeroAddr}

ClientAction ==
    [type : {"SetViewingKey"}]
      \cup [type : {"OpenChannel"}, recipient_addr : AnyAddress, index : Index]
      \cup [type : {"OpenSubchannel"}, recipient_addr : AnyAddress,
            recipient_public_key : PublicKey, channel_key : ChannelKey, index : Index,
            token : AnyToken]
      \cup [type : {"Deposit"}, token : AnyToken, amount : Amount]
      \cup [type : {"UseNote"}, channel_key : ChannelKey, token : AnyToken, index : Index]
      \cup [type : {"CreateEncNote"}, recipient_addr : AnyAddress,
            recipient_public_key : PublicKey, token : AnyToken, amount : Amount,
            index : Index, salt : Salt]
      \cup [type : {"CreateOpenNote"}, recipient_addr : AnyAddress,
            recipient_public_key : PublicKey, token : AnyToken, index : Index]
      \cup [type : {"Withdraw"}, to_addr : AnyAddress, token : AnyToken, amount : Amount]
      \cup [type : {"InvokeExternal", "ComputeAndInvoke"}, contract_address : AnyAddress]

(***************************************************************************)
(* The phase a client action belongs to, and the phase it advances to.     *)
(***************************************************************************)
Phase ==
    [SetViewingKey |-> 0, OpenChannel |-> 1, OpenSubchannel |-> 2, Deposit |-> 3,
     UseNote |-> 4, CreateEncNote |-> 5, CreateOpenNote |-> 5, Withdraw |-> 6,
     InvokeExternal |-> 7, ComputeAndInvoke |-> 7]

INVOKE_PHASE == 7

advance_phase(action_phase) ==
    IF action_phase = INVOKE_PHASE THEN action_phase + 1 ELSE action_phase

OpenNoteScreeningPolicy == {"Required", "Exempt", "Delegated"}
=============================================================================
