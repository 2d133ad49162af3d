---------------------------- MODULE PoolEntries ----------------------------
(***************************************************************************)
(* The inductive invariant behind CommittedIsImmutable, OpenNotesFunded,   *)
(* NotesSpendable, NotesDiscoverable and AuditorIsRecent.  PoolInv says    *)
(* which addresses are in storage; this invariant says which values are at *)
(* them, and how the three lists of the discovery protocol agree with the  *)
(* markers, while a transaction is between the writes of one client        *)
(* action.                                                                 *)
(***************************************************************************)
EXTENDS PoolInvariant

ChannelInfoOf(ck) ==
    [encrypted_to |-> RecipientPubOf(ck), channel_key |-> ck, sender_addr |-> SenderOf(ck)]

MarkChannel(ck) == WriteOnce(ChannelMarkerOf(ck), [exists |-> TRUE])
MarkSubchannel(ck, token) == WriteOnce(SubchannelMarkerOf(ck, token), [exists |-> TRUE])

\* The action writes to the map.
Writes(x, map) == IsWriteOnce(x) /\ MapOf(x.address) = map

OpensNote(x) == Writes(x, "notes") /\ x.value.salt = OPEN_NOTE_SALT

-----------------------------------------------------------------------------
(***************************************************************************)
(* The server actions of one client action stay together: y is the action  *)
(* that the compiler puts right after x.                                   *)
(***************************************************************************)
Linked(x, y) ==
    \/ /\ x.type = "Append"
       /\ LET ck == x.enc_channel_info.channel_key
          IN  x = AppendChannel(RecipientOf(ck), ChannelInfoOf(ck)) /\ y = MarkChannel(ck)
    \/ /\ Writes(x, "channel_exists") /\ Writes(y, "outgoing_channels")
       /\ y.address[2] = SenderOf(x.address[2]) /\ y.address[3] = SenderKeyOf(x.address[2])
       /\ y.value.recipient_addr = RecipientOf(x.address[2])
    \/ Writes(x, "subchannel_tokens") /\ y = MarkSubchannel(x.address[2], x.value.token)
    \/ OpensNote(x) /\ x.value = open_note(x.address[3]) /\ y = EmitOpenNoteCreated(x.address)

\* The actions that have a successor, or a predecessor, in their client action.
Leads(x) ==
    x.type = "Append" \/ Writes(x, "channel_exists") \/ Writes(x, "subchannel_tokens") \/ OpensNote(x)

Follows(y) ==
    \/ Writes(y, "channel_exists") \/ Writes(y, "outgoing_channels")
    \/ Writes(y, "subchannel_exists") \/ y.type = "EmitOpenNoteCreated"

Grouped(actions) ==
    \A i \in 1 .. Len(actions) :
        /\ Leads(actions[i]) => i < Len(actions) /\ Linked(actions[i], actions[i + 1])
        /\ Follows(actions[i]) => i > 1 /\ Linked(actions[i - 1], actions[i])

\* The user is registered under this public key.
RegisteredAs(st, user, public_key) ==
    IsRegistered(st, user) /\ RegisteredKey(st, user) = public_key

\* A channel is opened to the key its recipient has registered, in storage or before it.
Backed(actions, st) ==
    \A i \in 1 .. Len(actions) :
        Writes(actions[i], "channel_exists") =>
            LET ck == actions[i].address[2]
            IN  \/ RegisteredAs(st, RecipientOf(ck), RecipientPubOf(ck))
                \/ \E j \in 1 .. (i - 1) :
                       actions[j] = WriteOnce(public_key_entry(RecipientOf(ck)),
                                              [public_key |-> RecipientPubOf(ck)])

HasPrivateKey(public_key) ==
    \E k \in PrivateKey : k # 0 /\ is_canonical_key(k) /\ derive_public_key(k) = public_key

KeysUsable(actions) ==
    \A i \in 1 .. Len(actions) :
        Writes(actions[i], "public_key") => HasPrivateKey(actions[i].value.public_key)

\* Every viewing key is encrypted for this auditor.
EncryptedFor(actions, auditor) ==
    \A i \in 1 .. Len(actions) :
        Writes(actions[i], "enc_private_key") => actions[i].value.auditor_public_key = auditor

ActionsSound(actions, st) ==
    /\ Grouped(actions)
    /\ Backed(actions, st)
    /\ KeysUsable(actions)

-----------------------------------------------------------------------------
(***************************************************************************)
(* Storage and channel lists agree, if x is the next action to execute: an *)
(* entry whose counterpart is still missing is one that x completes.       *)
(***************************************************************************)
Outgoing(st, sender, key, recipient) ==
    {a \in DOMAIN st : /\ MapOf(a) = "outgoing_channels" /\ a[2] = sender /\ a[3] = key
                       /\ st[a].recipient_addr = recipient}

\* A marked channel is listed at both ends; its recipient is registered.
ChannelsListed(st, channels, x) ==
    \A a \in DOMAIN st : MapOf(a) = "channel_exists" =>
        LET ck == a[2]
        IN  /\ \E i \in DOMAIN channels[RecipientOf(ck)] :
                   channels[RecipientOf(ck)][i] = ChannelInfoOf(ck)
            /\ RegisteredAs(st, RecipientOf(ck), RecipientPubOf(ck))
            /\ \/ Outgoing(st, SenderOf(ck), SenderKeyOf(ck), RecipientOf(ck)) # {}
               \/ /\ Writes(x, "outgoing_channels")
                  /\ x.address[2] = SenderOf(ck) /\ x.address[3] = SenderKeyOf(ck)
                  /\ x.value.recipient_addr = RecipientOf(ck)

\* A marked subchannel is listed.
SubchannelsListed(st) ==
    \A a \in DOMAIN st : MapOf(a) = "subchannel_exists" =>
        \E b \in DOMAIN st : MapOf(b) = "subchannel_tokens" /\ b[2] = a[2] /\ st[b].token = a[5]

\* What is listed is marked.
InboxMarked(st, channels, x) ==
    \A r \in ContractAddress : \A i \in DOMAIN channels[r] :
        LET ck == channels[r][i].channel_key
        IN  r = RecipientOf(ck) /\ (Written(st, ChannelMarkerOf(ck)) \/ x = MarkChannel(ck))

OutgoingMarked(st) ==
    \A a \in DOMAIN st : MapOf(a) = "outgoing_channels" =>
        LET r == st[a].recipient_addr
        IN  /\ IsRegistered(st, r)
            /\ Written(st, ChannelMarkerOf(<<a[2], a[3], r, RegisteredKey(st, r)>>))

TokensMarked(st, x) ==
    \A a \in DOMAIN st : MapOf(a) = "subchannel_tokens" =>
        \/ Written(st, SubchannelMarkerOf(a[2], st[a].token))
        \/ x = MarkSubchannel(a[2], st[a].token)

\* Nothing is listed twice.
InboxUnique(channels) ==
    \A r \in ContractAddress : \A i, j \in DOMAIN channels[r] :
        channels[r][i].channel_key = channels[r][j].channel_key => i = j

OutgoingUnique(st, x) ==
    \A a \in DOMAIN st : MapOf(a) = "outgoing_channels" =>
        /\ Outgoing(st, a[2], a[3], st[a].recipient_addr) = {a}
        /\ Writes(x, "outgoing_channels") =>
               ~ (/\ x.address[2] = a[2] /\ x.address[3] = a[3]
                  /\ x.value.recipient_addr = st[a].recipient_addr)

TokensUnique(st) ==
    \A a, b \in DOMAIN st :
        (/\ MapOf(a) = "subchannel_tokens" /\ MapOf(b) = "subchannel_tokens"
         /\ a[2] = b[2] /\ st[a].token = st[b].token) => a = b

RegisteredUsable(st) ==
    \A a \in DOMAIN st : MapOf(a) = "public_key" => HasPrivateKey(st[a].public_key)

\* What x completes is there: the entry that the compiler puts right before it.
Awaited(st, channels, x) ==
    /\ Writes(x, "channel_exists") =>
           LET ck == x.address[2]
           IN  \E i \in DOMAIN channels[RecipientOf(ck)] :
                   channels[RecipientOf(ck)][i] = ChannelInfoOf(ck)
    /\ Writes(x, "outgoing_channels") =>
           \E a \in DOMAIN st :
               /\ MapOf(a) = "channel_exists"
               /\ x.address[2] = SenderOf(a[2]) /\ x.address[3] = SenderKeyOf(a[2])
               /\ x.value.recipient_addr = RecipientOf(a[2])
    /\ Writes(x, "subchannel_exists") =>
           \E a \in DOMAIN st :
               /\ MapOf(a) = "subchannel_tokens"
               /\ a[2] = x.address[2] /\ st[a].token = x.address[5]

Sound(st, channels, x) ==
    /\ Awaited(st, channels, x)
    /\ ChannelsListed(st, channels, x) /\ SubchannelsListed(st)
    /\ InboxMarked(st, channels, x) /\ OutgoingMarked(st) /\ TokensMarked(st, x)
    /\ InboxUnique(channels) /\ OutgoingUnique(st, x) /\ TokensUnique(st)
    /\ RegisteredUsable(st)

-----------------------------------------------------------------------------
NoAction == [type |-> "none"]

NextAction == IF tx.pc <= Len(tx.proof.actions) THEN CurrentAction ELSE NoAction

\* A duplicate is about to be refused: the transaction can only revert.
Stuck == IsWriteOnce(NextAction) /\ Written(tx.store, NextAction.address)

\* st has everything that base has.
ContinuesFrom(st, base) == \A a \in DOMAIN base : a \in DOMAIN st /\ st[a] = base[a]

StoreEntries ==
    /\ Undeposited(store) = {}
    /\ ContinuesFrom(store, closed.store)
    /\ Sound(store, recipient_channels, NoAction)

SessionEntries ==
    mode = "compile" =>
        /\ ActionsSound(session.actions, closed.store)
        /\ ContinuesFrom(session.store, closed.store)
        /\ \A a \in DOMAIN session.store \ DOMAIN closed.store :
               \E i \in 1 .. Len(session.actions) :
                   session.actions[i] = WriteOnce(a, session.store[a])

ProofEntries == \A p \in proofs : ActionsSound(p.actions, store)

TxEntries ==
    mode = "apply" =>
        /\ ContinuesFrom(tx.store, store)
        /\ \A i \in 1 .. Len(tx.proof.actions) :
               LET x == tx.proof.actions[i]
               IN  (i < tx.pc /\ IsWriteOnce(x) /\ MapOf(x.address) # "notes") =>
                       tx.store[x.address] = x.value
        /\ Stuck \/ Sound(tx.store, tx.channels, NextAction)

\* The open notes that a transaction has yet to fill are those it has counted.
OpenNotesCounted ==
    mode = "apply" =>
        /\ IsFiniteSet(Undeposited(tx.store))
        /\ Cardinality(Undeposited(tx.store)) + tx.deposits =
               tx.undeposited + (IF NextAction.type = "EmitOpenNoteCreated" THEN 1 ELSE 0)
        /\ IF tx.depositor = ZeroAddr
           THEN tx.deposits = 0
           ELSE NextAction.type \in {"Invoke", "InvokeWithComputation"}

\* Whose key a registration in flight is encrypted for.
AuditorInv ==
    /\ Len(auditor_log) = block
    /\ closed.auditor_public_key = auditor_log[block]
    /\ mode = "compile" => EncryptedFor(session.actions, closed.auditor_public_key)
    /\ \A p \in proofs :
           /\ p.base_block \in 0 .. (block - 1)
           /\ EncryptedFor(p.actions, auditor_log[p.base_block + 1])
    /\ mode = "apply" => block <= tx.proof.base_block + admin.proof_validity_blocks

(***************************************************************************)
(* The inductive invariant, on top of PoolInv.                             *)
(***************************************************************************)
EntriesInv == StoreEntries /\ SessionEntries /\ ProofEntries /\ TxEntries /\ OpenNotesCounted
=============================================================================
