------------------------ MODULE PoolInvariant_proofs ------------------------
(***************************************************************************)
(* Proofs about the privacy pool contract, for every value of its          *)
(* constants: the data and the types of its steps, then that its storage   *)
(* stays sound however stale the proofs are that are applied to it, which  *)
(* is that PoolInv is inductive, and the properties PoolInv implies.       *)
(***************************************************************************)
EXTENDS PoolInvariant, SequenceTheorems, TLAPS

-----------------------------------------------------------------------------
(***************************************************************************)
(* Facts about the data.                                                   *)
(***************************************************************************)

\* A non-zero private key has a public key.
LEMMA DerivedKeyType ==
    ASSUME NEW k \in PrivateKey, k # 0
    PROVE  derive_public_key(k) \in PublicKey
BY PoolDataAssumption, SMT DEF derive_public_key, PrivateKey, PublicKey, HALF_ORDER

\* Among canonical private keys the public key determines the private key.
LEMMA CanonicalKeyInjective ==
    ASSUME NEW j \in PrivateKey, NEW k \in PrivateKey,
           is_canonical_key(j), is_canonical_key(k),
           derive_public_key(j) = derive_public_key(k)
    PROVE  j = k
BY PoolDataAssumption, SMT DEF derive_public_key, is_canonical_key, PrivateKey, HALF_ORDER

\* Decoding an encrypted note gives back the amount it was created with.
LEMMA DecodeEncode ==
    ASSUME NEW index \in Index, NEW salt \in Salt, salt # OPEN_NOTE_SALT, NEW amount \in Amount
    PROVE  decode_note_amount(enc_note_packed_value(index, salt, amount), index) = amount
PROOF
<1> DEFINE h == EncAmountHash[<<index, salt>>]
<1>1. h \in Nat /\ h < AMOUNT_MODULUS /\ amount \in Nat /\ amount < AMOUNT_MODULUS
      /\ AMOUNT_MODULUS \in Nat
  BY PoolDataAssumption DEF Amount
<1>2. (((h + amount) % AMOUNT_MODULUS) - h) % AMOUNT_MODULUS = amount
  <2>1. CASE h + amount < AMOUNT_MODULUS
    BY <1>1, <2>1, SMT
  <2>2. CASE h + amount >= AMOUNT_MODULUS
    <3>1. (h + amount) % AMOUNT_MODULUS = h + amount - AMOUNT_MODULUS
      BY <1>1, <2>2, SMT
    <3>2. (amount - AMOUNT_MODULUS) % AMOUNT_MODULUS = amount
      BY <1>1, SMT
    <3> QED BY <1>1, <3>1, <3>2, SMT
  <2> QED BY <1>1, <2>1, <2>2
<1> QED
  BY <1>2 DEF decode_note_amount, enc_note_packed_value, encrypt_note_amount,
              decrypt_note_amount

-----------------------------------------------------------------------------
(***************************************************************************)
(* Facts about stores and sequences of server actions.                     *)
(***************************************************************************)

\* Writing adds one address and keeps every other value.
LEMMA WriteFacts ==
    ASSUME NEW st, NEW a, NEW v
    PROVE  /\ DOMAIN Write(st, a, v) = DOMAIN st \cup {a}
           /\ Write(st, a, v)[a] = v
           /\ \A x \in DOMAIN st : x # a => Write(st, a, v)[x] = st[x]
BY DEF Write

\* A typed write keeps a store typed.
LEMMA WriteTyped ==
    ASSUME NEW st, NEW a, NEW v, TypedStore(st), TypedWrite(a, v)
    PROVE  TypedStore(Write(st, a, v))
BY DEF TypedStore, Write

\* The compiler's writes add their addresses and keep a store typed.
LEMMA WriteAllFacts ==
    ASSUME NEW st, NEW writes
    PROVE  /\ DOMAIN WriteAll(st, writes) = DOMAIN st \cup {w.address : w \in writes}
           /\ \A a \in DOMAIN WriteAll(st, writes) :
                 \/ \E w \in writes : w.address = a /\ WriteAll(st, writes)[a] = w.value
                 \/ a \in DOMAIN st /\ WriteAll(st, writes)[a] = st[a]
PROOF
<1>1. DOMAIN WriteAll(st, writes) = DOMAIN st \cup {w.address : w \in writes}
  BY DEF WriteAll
<1>2. ASSUME NEW a \in DOMAIN WriteAll(st, writes)
      PROVE  \/ \E w \in writes : w.address = a /\ WriteAll(st, writes)[a] = w.value
             \/ a \in DOMAIN st /\ WriteAll(st, writes)[a] = st[a]
  <2>1. CASE \E w \in writes : w.address = a
    <3> DEFINE c == CHOOSE w \in writes : w.address = a
    <3>1. c \in writes /\ c.address = a
      BY <2>1
    <3>2. WriteAll(st, writes)[a] = c.value
      BY <1>1, <2>1 DEF WriteAll
    <3> QED BY <3>1, <3>2
  <2>2. CASE ~ \E w \in writes : w.address = a
    <3>1. a \in DOMAIN st
      BY <1>1, <2>2
    <3>2. WriteAll(st, writes)[a] = st[a]
      BY <1>1, <2>2 DEF WriteAll
    <3> QED BY <3>1, <3>2
  <2> QED BY <2>1, <2>2
<1> QED BY <1>1, <1>2

\* Typed writes keep a store typed.
LEMMA WriteAllTyped ==
    ASSUME NEW st, NEW writes, TypedStore(st),
           \A w \in writes : TypedWrite(w.address, w.value)
    PROVE  TypedStore(WriteAll(st, writes))
PROOF
<1>1. WriteAll(st, writes) = [a \in DOMAIN WriteAll(st, writes) |-> WriteAll(st, writes)[a]]
  BY DEF WriteAll
<1>2. \A a \in DOMAIN WriteAll(st, writes) : TypedWrite(a, WriteAll(st, writes)[a])
  BY WriteAllFacts DEF TypedStore
<1> QED BY <1>1, <1>2 DEF TypedStore

\* A well-typed server action.
TypedAction(x) ==
    x \in ServerAction /\ (IsWriteOnce(x) => TypedWrite(x.address, x.value))

\* Typed lists of actions, one after the other.
LEMMA TypedActionsConcat ==
    ASSUME NEW s, NEW t, TypedActions(s), TypedActions(t)
    PROVE  TypedActions(s \o t)
BY ConcatProperties, SMT DEF TypedActions

\* A typed list of one action.
LEMMA TypedActions1 ==
    ASSUME NEW x, TypedAction(x)
    PROVE  TypedActions(<<x>>)
BY DEF TypedActions, TypedAction

\* A typed list of two actions.
LEMMA TypedActions2 ==
    ASSUME NEW x, NEW y, TypedAction(x), TypedAction(y)
    PROVE  TypedActions(<<x, y>>)
BY DEF TypedActions, TypedAction

\* A typed list of three actions.
LEMMA TypedActions3 ==
    ASSUME NEW x, NEW y, NEW z, TypedAction(x), TypedAction(y), TypedAction(z)
    PROVE  TypedActions(<<x, y, z>>)
BY DEF TypedActions, TypedAction

\* A typed write is a typed action.
LEMMA TypedWriteOnce ==
    ASSUME NEW a, NEW v, TypedWrite(a, v)
    PROVE  TypedAction(WriteOnce(a, v))
BY DEF TypedAction, TypedWrite, WriteOnce, IsWriteOnce, ServerAction, StorageAddress, StoreValue

\* The writes of a typed list are typed.
LEMMA TypedWritesIn ==
    ASSUME NEW actions, TypedActions(actions)
    PROVE  \A w \in WritesIn(actions) : TypedWrite(w.address, w.value)
BY DEF WritesIn, TypedActions

\* A registered public key is a public key, and a note is a note.
LEMMA StoredTypes ==
    ASSUME NEW st, TypedStore(st)
    PROVE  /\ \A u : IsRegistered(st, u) => RegisteredKey(st, u) \in PublicKey
           /\ \A a \in NotesOf(st) : a \in NoteId /\ st[a] \in Note
BY DEF TypedStore, TypedWrite, IsRegistered, RegisteredKey, Written, NotesOf, MapOf,
       public_key_entry, PublicKeyEntry, EncPrivateKeyEntry, ChannelMarker, OutgoingChannelId,
       SubchannelId, SubchannelMarker, NoteId, Nullifier

-----------------------------------------------------------------------------
(***************************************************************************)
(* The type invariant.                                                     *)
(***************************************************************************)
LEMMA EmptyTyped ==
    /\ TypedStore(EmptyStore)
    /\ TypedActions(<<>>)
    /\ TypedProof(NoProof)
BY PrivacyPoolAssumption
   DEF TypedStore, EmptyStore, TypedActions, TypedProof, NoProof, Admin

\* The idle values of the session and of the transaction have their types.
LEMMA IdleTyped ==
    /\ (session = NoSession /\ mode # "compile") => TypedSession
    /\ (session' = NoSession /\ mode' # "compile") => TypedSession'
    /\ tx = NoTx => TypedTx
    /\ tx' = NoTx => TypedTx'
PROOF
<1>1. 0 \in Amount /\ 0 \in PrivateKey
  BY PoolDataAssumption DEF Amount, PrivateKey
<1>2. (session = NoSession /\ mode # "compile") => TypedSession
  BY <1>1, EmptyTyped DEF TypedSession, NoSession
<1>3. (session' = NoSession /\ mode' # "compile") => TypedSession'
  BY <1>1, EmptyTyped DEF TypedSession, NoSession
<1>4. tx = NoTx => TypedTx
  BY EmptyTyped DEF TypedTx, NoTx
<1>5. tx' = NoTx => TypedTx'
  BY EmptyTyped DEF TypedTx, NoTx
<1> QED BY <1>2, <1>3, <1>4, <1>5

\* The types hold initially.
LEMMA TypeInit == Init => TypeOK
PROOF
<1> SUFFICES ASSUME Init PROVE TypeOK
  OBVIOUS
<1>1. TypedChain
  BY EmptyTyped, PrivacyPoolAssumption DEF Init, InitWith, Snapshot, TypedChain, Admin
<1>2. TypedSession /\ TypedTx
  BY IdleTyped DEF Init, InitWith
<1> QED BY <1>1, <1>2 DEF TypeOK

\* What every client action does to the session, given typed actions and balances.
LEMMA TypeClientApply ==
    ASSUME TypeOK, NEW type \in DOMAIN Phase, NEW actions, TypedActions(actions),
           NEW balances \in [Token -> Amount],
           client_apply_actions(type, actions, balances)
    PROVE  TypeOK'
PROOF
<1> USE DEF client_apply_actions
<1>1. TypedStore(WriteAll(session.store, WritesIn(actions)))
  BY WriteAllTyped, TypedWritesIn DEF TypeOK, TypedSession
<1>2. TypedActions(session.actions \o actions)
  BY TypedActionsConcat DEF TypeOK, TypedSession
<1>3. advance_phase(Phase[type]) \in 0 .. 8
  BY DEF Phase, advance_phase, INVOKE_PHASE
<1>4. TypedSession'
  BY <1>1, <1>2, <1>3 DEF TypeOK, TypedSession
<1>5. TypedChain' /\ TypedTx'
  BY DEF TypeOK, TypedChain, TypedTx, chainVars, timeVars
<1> QED BY <1>4, <1>5 DEF TypeOK

\* Adding to and subtracting from a balance keeps it within u128.
LEMMA BalanceTypes ==
    ASSUME TypeOK, NEW token \in Token, NEW amount \in Amount
    PROVE  /\ AddFits(token, amount) => add_balance(token, amount) \in [Token -> Amount]
           /\ SubtractFits(token, amount) => subtract_balance(token, amount) \in [Token -> Amount]
BY PoolDataAssumption, SMT
   DEF TypeOK, TypedSession, AddFits, add_balance, SubtractFits, subtract_balance, Amount

\* Amounts decode to amounts, and encode to notes.
LEMMA NoteTypes ==
    /\ \A note \in Note, index \in Index : decode_note_amount(note, index) \in Amount
    /\ \A index \in Index, salt \in Salt, amount \in Amount :
          enc_note_packed_value(index, salt, amount) \in Note
    /\ \A token \in Token : open_note(token) \in Note
PROOF
<1>1. \A n \in Int : n % AMOUNT_MODULUS \in Amount
  BY PoolDataAssumption, SMT DEF Amount
<1>2. Amount \subseteq Int /\ 0 \in Amount /\ 1 \in Salt
  BY PoolDataAssumption DEF Amount, Salt
<1>3. \A index \in Index, salt \in Salt : EncAmountHash[<<index, salt>>] \in Amount
  BY PoolDataAssumption
<1>4. \A index \in Index, salt \in Salt, amount \in Amount :
         /\ (EncAmountHash[<<index, salt>>] + amount) % AMOUNT_MODULUS \in Amount
         /\ (amount - EncAmountHash[<<index, salt>>]) % AMOUNT_MODULUS \in Amount
  <2> TAKE index \in Index, salt \in Salt, amount \in Amount
  <2> DEFINE h == EncAmountHash[<<index, salt>>]
  <2>1. h \in Int /\ amount \in Int
    BY <1>2, <1>3
  <2> HIDE DEF h
  <2>2. (h + amount) \in Int /\ (amount - h) \in Int
    BY <2>1, SMT
  <2>3. (h + amount) % AMOUNT_MODULUS \in Amount /\ (amount - h) % AMOUNT_MODULUS \in Amount
    BY <1>1, <2>2
  <2> QED BY <2>3 DEF h
<1> QED
  BY <1>2, <1>4 DEF Note, decode_note_amount, decrypt_note_amount, enc_note_packed_value,
                    encrypt_note_amount, open_note, OPEN_NOTE_SALT

\* Every client action keeps the types.
LEMMA TypeClientAction ==
    ASSUME TypeOK, NEW c \in ClientActions, client_action(c), mode = "compile"
    PROVE  TypeOK'
PROOF
<1> c \in ClientAction
  BY PrivacyPoolAssumption
<1> DEFINE u == session.user
           k == session.private_key
<1>1. u \in ContractAddress /\ k \in PrivateKey /\ k # 0 /\ TypedStore(session.store)
      /\ session.balances \in [Token -> Amount]
  BY DEF TypeOK, TypedSession
<1>2. derive_public_key(k) \in PublicKey
  BY <1>1, DerivedKeyType
<1> HIDE DEF u, k
<1>a. CASE c.type = "SetViewingKey" /\ set_viewing_key
  <2> DEFINE w1 == WriteOnce(public_key_entry(u), [public_key |-> derive_public_key(k)])
             w2 == WriteOnce(enc_private_key_entry(u),
                             [auditor_public_key |-> closed.auditor_public_key,
                              private_key |-> k])
  <2>1. TypedAction(w1)
    BY <1>1, <1>2, TypedWriteOnce DEF TypedWrite, public_key_entry, PublicKeyEntry
  <2>2. closed.auditor_public_key \in AuditorKey
    BY DEF TypeOK, TypedChain
  <2>3. TypedAction(w2)
    BY <1>1, <2>2, TypedWriteOnce DEF TypedWrite, enc_private_key_entry, EncPrivateKeyEntry
  <2>4. TypedActions(<<w1, w2>>)
    BY <2>1, <2>3, TypedActions2
  <2>5. client_apply_actions("SetViewingKey", <<w1, w2>>, session.balances)
    BY <1>a DEF set_viewing_key, u, k
  <2>6. "SetViewingKey" \in DOMAIN Phase
    BY DEF Phase
  <2> QED BY <1>1, <2>4, <2>5, <2>6, TypeClientApply
<1>b. CASE c.type = "OpenChannel" /\ open_channel(c.recipient_addr, c.index)
  <2> DEFINE r == c.recipient_addr
             rp == RegisteredKey(session.store, r)
             ck == compute_channel_key(u, k, r, rp)
             w1 == AppendChannel(r, [encrypted_to |-> rp, channel_key |-> ck, sender_addr |-> u])
             w2 == WriteOnce(compute_channel_marker(ck, u, r, rp), [exists |-> TRUE])
             w3 == WriteOnce(compute_outgoing_channel_id(u, k, c.index), [recipient_addr |-> r])
  <2>1. r \in ContractAddress /\ c.index \in Index
    BY <1>b DEF open_channel, ClientAction, AnyAddress
  <2>2. rp \in PublicKey
    BY <1>b, <1>1, StoredTypes DEF open_channel
  <2>3. ck \in ChannelKey
    BY <1>1, <2>1, <2>2 DEF compute_channel_key, ChannelKey
  <2>4. client_apply_actions("OpenChannel", <<w1, w2, w3>>, session.balances)
    BY <1>b DEF open_channel, u, k
  <2> HIDE DEF r, rp, ck
  <2>5. TypedAction(w1)
    BY <1>1, <2>1, <2>2, <2>3 DEF TypedAction, AppendChannel, ServerAction, ChannelInfo, IsWriteOnce
  <2>6. TypedAction(w2)
    <3>1. compute_channel_marker(ck, u, r, rp) \in ChannelMarker
      BY <1>1, <2>1, <2>2, <2>3 DEF compute_channel_marker, ChannelMarker
    <3> QED BY <3>1, TypedWriteOnce DEF TypedWrite
  <2>7. TypedAction(w3)
    <3>1. compute_outgoing_channel_id(u, k, c.index) \in OutgoingChannelId
      BY <1>1, <2>1 DEF compute_outgoing_channel_id, OutgoingChannelId
    <3> QED BY <2>1, <3>1, TypedWriteOnce DEF TypedWrite
  <2>8. TypedActions(<<w1, w2, w3>>)
    BY <2>5, <2>6, <2>7, TypedActions3
  <2>9. "OpenChannel" \in DOMAIN Phase
    BY DEF Phase
  <2> QED BY <1>1, <2>4, <2>8, <2>9, TypeClientApply
<1>c. CASE /\ c.type = "OpenSubchannel"
           /\ open_subchannel(c.recipient_addr, c.recipient_public_key, c.channel_key,
                              c.index, c.token)
  <2> DEFINE w1 == WriteOnce(compute_subchannel_id(c.channel_key, c.index), [token |-> c.token])
             w2 == WriteOnce(compute_subchannel_marker(c.channel_key, c.recipient_addr,
                                 c.recipient_public_key, c.token), [exists |-> TRUE])
  <2>1. /\ c.recipient_addr \in ContractAddress /\ c.recipient_public_key \in PublicKey
        /\ c.channel_key \in ChannelKey /\ c.index \in Index /\ c.token \in Token
    BY <1>c DEF open_subchannel, ClientAction, AnyAddress, AnyToken
  <2>2. TypedAction(w1)
    <3>1. compute_subchannel_id(c.channel_key, c.index) \in SubchannelId
      BY <2>1 DEF compute_subchannel_id, SubchannelId
    <3> QED BY <2>1, <3>1, TypedWriteOnce DEF TypedWrite
  <2>3. TypedAction(w2)
    <3>1. compute_subchannel_marker(c.channel_key, c.recipient_addr, c.recipient_public_key,
                                    c.token) \in SubchannelMarker
      BY <2>1 DEF compute_subchannel_marker, SubchannelMarker
    <3> QED BY <3>1, TypedWriteOnce DEF TypedWrite
  <2>4. client_apply_actions("OpenSubchannel", <<w1, w2>>, session.balances)
    BY <1>c DEF open_subchannel
  <2>5. TypedActions(<<w1, w2>>)
    BY <2>2, <2>3, TypedActions2
  <2>6. "OpenSubchannel" \in DOMAIN Phase
    BY DEF Phase
  <2> QED BY <1>1, <2>4, <2>5, <2>6, TypeClientApply
<1>d. CASE c.type = "Deposit" /\ deposit(c.token, c.amount)
  <2> DEFINE w == TransferFrom(u, c.token, c.amount)
  <2>1. c.token \in Token /\ c.amount \in Amount /\ AddFits(c.token, c.amount)
    BY <1>d DEF deposit, ClientAction, AnyToken
  <2>2. TypedActions(<<w>>)
    BY <1>1, <2>1, TypedActions1 DEF TypedAction, TransferFrom, ServerAction, IsWriteOnce
  <2>3. client_apply_actions("Deposit", <<w>>, add_balance(c.token, c.amount))
    BY <1>d DEF deposit, u
  <2>4. "Deposit" \in DOMAIN Phase
    BY DEF Phase
  <2> QED BY <2>1, <2>2, <2>3, <2>4, BalanceTypes, TypeClientApply
<1>e. CASE c.type = "UseNote" /\ use_note(c.channel_key, c.token, c.index)
  <2> DEFINE n == compute_note_id(c.channel_key, c.token, c.index)
             amount == decode_note_amount(session.store[n], c.index)
             w == WriteOnce(compute_nullifier(c.channel_key, c.token, c.index, k),
                            [exists |-> TRUE])
  <2>1. c.channel_key \in ChannelKey /\ c.token \in Token /\ c.index \in Index
    BY <1>e DEF use_note, ClientAction, AnyToken
  <2>2. session.store[n] \in Note
    <3>1. n \in NotesOf(session.store)
      BY <1>e DEF use_note, Written, NotesOf, MapOf, compute_note_id
    <3> QED BY <1>1, <3>1, StoredTypes
  <2>3. amount \in Amount /\ AddFits(c.token, amount)
    BY <1>e, <2>1, <2>2, NoteTypes DEF use_note
  <2>4. TypedActions(<<w>>)
    <3>1. compute_nullifier(c.channel_key, c.token, c.index, k) \in Nullifier
      BY <1>1, <2>1 DEF compute_nullifier, Nullifier
    <3> QED BY <3>1, TypedWriteOnce, TypedActions1 DEF TypedWrite
  <2>5. client_apply_actions("UseNote", <<w>>, add_balance(c.token, amount))
    BY <1>e DEF use_note, k
  <2>6. "UseNote" \in DOMAIN Phase
    BY DEF Phase
  <2> QED BY <2>1, <2>3, <2>4, <2>5, <2>6, BalanceTypes, TypeClientApply
<1>f. CASE /\ c.type = "CreateEncNote"
           /\ create_enc_note(c.recipient_addr, c.recipient_public_key, c.token, c.amount,
                              c.index, c.salt)
  <2> DEFINE ck == compute_channel_key(u, k, c.recipient_addr, c.recipient_public_key)
             n == compute_note_id(ck, c.token, c.index)
             w == WriteOnce(n, enc_note_packed_value(c.index, c.salt, c.amount))
  <2>1. /\ c.recipient_addr \in ContractAddress /\ c.recipient_public_key \in PublicKey
        /\ c.token \in Token /\ c.amount \in Amount /\ c.index \in Index /\ c.salt \in Salt
        /\ SubtractFits(c.token, c.amount)
    BY <1>f DEF create_enc_note, ClientAction, AnyAddress, AnyToken
  <2>2. n \in NoteId
    BY <1>1, <2>1 DEF compute_channel_key, ChannelKey, compute_note_id, NoteId
  <2>3. TypedActions(<<w>>)
    BY <2>1, <2>2, NoteTypes, TypedWriteOnce, TypedActions1 DEF TypedWrite
  <2>4. client_apply_actions("CreateEncNote", <<w>>, subtract_balance(c.token, c.amount))
    BY <1>f DEF create_enc_note, u, k
  <2>5. "CreateEncNote" \in DOMAIN Phase
    BY DEF Phase
  <2> QED BY <2>1, <2>3, <2>4, <2>5, BalanceTypes, TypeClientApply
<1>g. CASE /\ c.type = "CreateOpenNote"
           /\ create_open_note(c.recipient_addr, c.recipient_public_key, c.token, c.index)
  <2> DEFINE ck == compute_channel_key(u, k, c.recipient_addr, c.recipient_public_key)
             n == compute_note_id(ck, c.token, c.index)
             w1 == WriteOnce(n, open_note(c.token))
             w2 == EmitOpenNoteCreated(n)
  <2>1. /\ c.recipient_addr \in ContractAddress /\ c.recipient_public_key \in PublicKey
        /\ c.token \in Token /\ c.index \in Index
    BY <1>g DEF create_open_note, ClientAction, AnyAddress, AnyToken
  <2>2. n \in NoteId
    BY <1>1, <2>1 DEF compute_channel_key, ChannelKey, compute_note_id, NoteId
  <2>3. TypedAction(w1)
    BY <2>1, <2>2, NoteTypes, TypedWriteOnce DEF TypedWrite
  <2>4. TypedAction(w2)
    BY <2>2 DEF TypedAction, EmitOpenNoteCreated, ServerAction, IsWriteOnce
  <2>5. client_apply_actions("CreateOpenNote", <<w1, w2>>, session.balances)
    BY <1>g DEF create_open_note, u, k
  <2>6. TypedActions(<<w1, w2>>)
    BY <2>3, <2>4, TypedActions2
  <2>7. "CreateOpenNote" \in DOMAIN Phase
    BY DEF Phase
  <2> QED BY <1>1, <2>5, <2>6, <2>7, TypeClientApply
<1>h. CASE c.type = "Withdraw" /\ withdraw(c.to_addr, c.token, c.amount)
  <2> DEFINE w == TransferTo(c.to_addr, c.token, c.amount)
  <2>1. /\ c.to_addr \in ContractAddress /\ c.token \in Token /\ c.amount \in Amount
        /\ SubtractFits(c.token, c.amount)
    BY <1>h DEF withdraw, ClientAction, AnyAddress, AnyToken
  <2>2. TypedActions(<<w>>)
    BY <2>1, TypedActions1 DEF TypedAction, TransferTo, ServerAction, IsWriteOnce
  <2>3. client_apply_actions("Withdraw", <<w>>, subtract_balance(c.token, c.amount))
    BY <1>h DEF withdraw
  <2>4. "Withdraw" \in DOMAIN Phase
    BY DEF Phase
  <2> QED BY <2>1, <2>2, <2>3, <2>4, BalanceTypes, TypeClientApply
<1>i. CASE c.type = "InvokeExternal" /\ invoke_external(c.contract_address)
  <2> DEFINE w == Invoke(c.contract_address)
  <2>1. c.contract_address \in ContractAddress
    BY <1>i DEF invoke_external, ClientAction, AnyAddress
  <2>2. TypedActions(<<w>>)
    BY <2>1, TypedActions1 DEF TypedAction, Invoke, ServerAction, IsWriteOnce
  <2>3. client_apply_actions("InvokeExternal", <<w>>, session.balances)
    BY <1>i DEF invoke_external
  <2>4. "InvokeExternal" \in DOMAIN Phase
    BY DEF Phase
  <2> QED BY <1>1, <2>2, <2>3, <2>4, TypeClientApply
<1>j. CASE c.type = "ComputeAndInvoke" /\ compute_and_invoke(c.contract_address)
  <2> DEFINE w == InvokeWithComputation(c.contract_address)
  <2>1. c.contract_address \in ContractAddress
    BY <1>j DEF compute_and_invoke, ClientAction, AnyAddress
  <2>2. TypedActions(<<w>>)
    BY <2>1, TypedActions1 DEF TypedAction, InvokeWithComputation, ServerAction, IsWriteOnce
  <2>3. client_apply_actions("ComputeAndInvoke", <<w>>, session.balances)
    BY <1>j DEF compute_and_invoke
  <2>4. "ComputeAndInvoke" \in DOMAIN Phase
    BY DEF Phase
  <2> QED BY <1>1, <2>2, <2>3, <2>4, TypeClientApply
<1> QED
  BY <1>a, <1>b, <1>c, <1>d, <1>e, <1>f, <1>g, <1>h, <1>i, <1>j DEF client_action

\* Compilation keeps the types.
LEMMA TypeCompileStep ==
    ASSUME TypeOK, compile_step
    PROVE  TypeOK'
PROOF
<1>1. ASSUME NEW c \in Callers, start_compile(c[1], c[2]) PROVE TypeOK'
  <2>1. c[1] \in ContractAddress /\ c[2] \in PrivateKey
    BY PrivacyPoolAssumption
  <2>2. TypedSession'
    <3>1. [t \in Token |-> 0] \in [Token -> Amount]
      BY PoolDataAssumption DEF Amount
    <3>2. session' = [user |-> c[1], private_key |-> c[2], phase |-> 0,
                      balances |-> [t \in Token |-> 0], store |-> closed.store,
                      actions |-> <<>>, has_replay_protection |-> FALSE]
      BY <1>1 DEF start_compile, NoSession
    <3>3. TypedStore(closed.store) /\ c[2] # 0 /\ is_canonical_key(c[2])
      BY <1>1 DEF start_compile, TypeOK, TypedChain
    <3> QED BY <2>1, <3>1, <3>2, <3>3, EmptyTyped DEF TypedSession
  <2>3. TypedChain' /\ TypedTx'
    BY <1>1 DEF start_compile, TypeOK, TypedChain, TypedTx, chainVars, timeVars
  <2> QED BY <2>2, <2>3 DEF TypeOK
<1>2. ASSUME NEW c \in ClientActions, client_action(c) PROVE TypeOK'
  <2>1. mode = "compile"
    BY <1>2
       DEF client_action, client_apply_actions, set_viewing_key, open_channel, open_subchannel,
           deposit, withdraw, invoke_external, compute_and_invoke, use_note, create_enc_note,
           create_open_note
  <2> QED BY <1>2, <2>1, TypeClientAction
<1>3. CASE finish_compile
  <2>1. TypedSession'
    BY <1>3, IdleTyped DEF finish_compile
  <2>2. TypedTx'
    BY <1>3 DEF finish_compile, TypeOK, TypedTx
  <2>3. TypedChain'
    BY <1>3 DEF finish_compile, TypeOK, TypedChain, TypedSession, TypedProof, chainVars, timeVars
  <2> QED BY <2>1, <2>2, <2>3 DEF TypeOK
<1>4. CASE abort_compile
  <2>1. TypedSession'
    BY <1>4, IdleTyped DEF abort_compile
  <2>2. TypedTx' /\ TypedChain'
    BY <1>4 DEF abort_compile, TypeOK, TypedChain, TypedTx, chainVars, timeVars
  <2> QED BY <2>1, <2>2 DEF TypeOK
<1> QED BY <1>1, <1>2, <1>3, <1>4 DEF compile_step

\* The action a transaction is at is well typed.
LEMMA CurrentActionTyped ==
    ASSUME TypeOK, NEW type, AtAction(type)
    PROVE  TypedAction(CurrentAction) /\ CurrentAction.type = type
BY DEF TypeOK, TypedTx, TypedProof, TypedActions, TypedAction, AtAction, CurrentAction

\* Adding an amount to a balance.
LEMMA Credited ==
    ASSUME NEW b \in [Token -> Nat], NEW t \in Token, NEW a \in Amount
    PROVE  [b EXCEPT ![t] = @ + a] \in [Token -> Nat]
<1>1. AMOUNT_MODULUS \in Nat
  BY PoolDataAssumption
<1>2. a \in Nat
  BY <1>1 DEF Amount
<1>3. b[t] + a \in Nat
  BY <1>2
<1> QED BY <1>3

\* A transaction's record, field by field.
TxOf(pc, st, channels, balance, undeposited, subject, screened, depositor, deposits) ==
    [proof |-> tx.proof, pc |-> pc, store |-> st, channels |-> channels, balance |-> balance,
     undeposited |-> undeposited, subject |-> subject, screened |-> screened,
     depositor |-> depositor, deposits |-> deposits]

\* A step of a transaction that keeps the types of its fields keeps the types.
LEMMA TxOfTyped ==
    ASSUME TypeOK, NEW pc \in Nat \ {0}, NEW st, TypedStore(st),
           NEW channels \in [ContractAddress -> Seq(ChannelInfo)],
           NEW balance \in [Token -> Nat], NEW undeposited \in Nat,
           NEW subject \in ContractAddress \cup {ZeroAddr},
           NEW screened \in SUBSET ContractAddress,
           NEW depositor \in ContractAddress \cup {ZeroAddr}, NEW deposits \in Nat,
           tx' = TxOf(pc, st, channels, balance, undeposited, subject, screened, depositor,
                      deposits)
    PROVE  TypedTx'
BY DEF TxOf, TypeOK, TypedTx

\* Every step of apply_actions keeps the types.
LEMMA TypeApplyStep ==
    ASSUME TypeOK, apply_step
    PROVE  TypeOK'
PROOF
<1> USE DEF applyUnchanged
<1> SUFFICES TypedTx' /\ TypedChain'
  <2>1. TypedSession'
    <3>1. UNCHANGED session /\ mode' # "compile"
      BY DEF apply_step, start_apply, apply_write_once, apply_append, apply_transfer_from,
             apply_transfer_to, emit_open_note_created, invoke_without_deposits, AtInvoke,
             invoke_with_deposits, deposit_to_open_note, end_deposits, finish_apply,
             revert_apply, AtAction
    <3> QED BY <3>1 DEF TypeOK, TypedSession
  <2> QED BY <2>1 DEF TypeOK
<1>1. ASSUME NEW p \in proofs, start_apply(p) PROVE TypedTx' /\ TypedChain'
  <2>1. tx' = [proof |-> p, pc |-> 1, store |-> store, channels |-> recipient_channels,
               balance |-> pool_balance, undeposited |-> 0, subject |-> ZeroAddr,
               screened |-> {}, depositor |-> ZeroAddr, deposits |-> 0]
    BY <1>1 DEF start_apply, NoTx
  <2>2. TypedTx'
    BY <2>1 DEF TypeOK, TypedChain, TypedTx
  <2>3. TypedChain'
    BY <1>1 DEF start_apply, TypeOK, TypedChain, chainVars, timeVars
  <2> QED BY <2>2, <2>3
<1>2. CASE UNCHANGED <<mode, chainVars, timeVars, admin, proofs, session>>
  <2>0. TypedChain'
    BY <1>2 DEF TypeOK, TypedChain, chainVars, timeVars
  <2>x. tx = TxOf(tx.pc, tx.store, tx.channels, tx.balance, tx.undeposited, tx.subject,
                  tx.screened, tx.depositor, tx.deposits)
    BY DEF TypeOK, TypedTx, TxOf
  <2>y. /\ tx.pc \in Nat \ {0} /\ tx.pc + 1 \in Nat \ {0} /\ TypedStore(tx.store)
        /\ tx.channels \in [ContractAddress -> Seq(ChannelInfo)]
        /\ tx.balance \in [Token -> Nat]
        /\ tx.undeposited \in Nat /\ tx.undeposited + 1 \in Nat
        /\ tx.subject \in ContractAddress \cup {ZeroAddr}
        /\ tx.screened \in SUBSET ContractAddress
        /\ tx.depositor \in ContractAddress \cup {ZeroAddr}
        /\ tx.deposits \in Nat /\ tx.deposits + 1 \in Nat
        /\ ZeroAddr \in ContractAddress \cup {ZeroAddr}
    BY DEF TypeOK, TypedTx
  <2>1. CASE apply_write_once
    <3>1. TypedWrite(CurrentAction.address, CurrentAction.value)
      BY <2>1, CurrentActionTyped DEF apply_write_once, TypedAction, IsWriteOnce
    <3>2. TypedStore(Write(tx.store, CurrentAction.address, CurrentAction.value))
      BY <3>1, WriteTyped DEF TypeOK, TypedTx
    <3>3. tx' = TxOf(tx.pc + 1, Write(tx.store, CurrentAction.address, CurrentAction.value),
                     tx.channels, tx.balance, tx.undeposited, tx.subject, tx.screened,
                     tx.depositor, tx.deposits)
      BY <2>1, <2>x DEF apply_write_once, TxOf
    <3> QED BY <2>0, <2>y, <3>2, <3>3, TxOfTyped
  <2>2. CASE apply_append
    <3>1. CurrentAction.recipient_addr \in ContractAddress
          /\ CurrentAction.enc_channel_info \in ChannelInfo
      BY <2>2, CurrentActionTyped DEF apply_append, TypedAction, ServerAction
    <3> DEFINE channels == [tx.channels EXCEPT ![CurrentAction.recipient_addr] =
                                Append(@, CurrentAction.enc_channel_info)]
    <3>2. channels \in [ContractAddress -> Seq(ChannelInfo)]
      BY <2>y, <3>1, AppendProperties
    <3>3. tx' = TxOf(tx.pc + 1, tx.store, channels, tx.balance, tx.undeposited, tx.subject,
                     tx.screened, tx.depositor, tx.deposits)
      BY <2>2, <2>x DEF apply_append, TxOf
    <3> QED BY <2>0, <2>y, <3>2, <3>3, TxOfTyped
  <2>3. CASE apply_transfer_from
    <3>1. /\ CurrentAction.from_addr \in ContractAddress /\ CurrentAction.token \in Token
          /\ CurrentAction.amount \in Amount
      BY <2>3, CurrentActionTyped DEF apply_transfer_from, TypedAction, ServerAction
    <3> DEFINE balance == [tx.balance EXCEPT ![CurrentAction.token] = @ + CurrentAction.amount]
    <3>2. balance \in [Token -> Nat]
      BY <2>y, <3>1, Credited
    <3>3. tx' = TxOf(tx.pc + 1, tx.store, tx.channels, balance, tx.undeposited,
                     CurrentAction.from_addr, tx.screened \cup {CurrentAction.from_addr},
                     tx.depositor, tx.deposits)
      BY <2>3, <2>x DEF apply_transfer_from, TxOf
    <3>4. tx.screened \cup {CurrentAction.from_addr} \in SUBSET ContractAddress
      BY <2>y, <3>1
    <3> HIDE DEF balance
    <3> QED BY <2>0, <2>y, <3>1, <3>2, <3>3, <3>4, TxOfTyped
  <2>4. CASE apply_transfer_to
    <3>1. CurrentAction.token \in Token /\ CurrentAction.amount \in Amount
      BY <2>4, CurrentActionTyped DEF apply_transfer_to, TypedAction, ServerAction
    <3> DEFINE balance == [tx.balance EXCEPT ![CurrentAction.token] =
                               IF CurrentAction.to_addr = PoolAddress
                               THEN @ ELSE @ - CurrentAction.amount]
    <3>2. balance \in [Token -> Nat]
      <4>1. /\ tx.balance[CurrentAction.token] \in Nat /\ CurrentAction.amount \in Nat
            /\ CurrentAction.amount <= tx.balance[CurrentAction.token]
        BY <2>4, <2>y, <3>1, PoolDataAssumption DEF apply_transfer_to, Amount
      <4>2. tx.balance[CurrentAction.token] - CurrentAction.amount \in Nat
        BY <4>1, SMT
      <4> QED BY <2>y, <4>1, <4>2
    <3>3. tx' = TxOf(tx.pc + 1, tx.store, tx.channels, balance, tx.undeposited, tx.subject,
                     tx.screened, tx.depositor, tx.deposits)
      BY <2>4, <2>x DEF apply_transfer_to, TxOf
    <3> HIDE DEF balance
    <3> QED BY <2>0, <2>y, <3>2, <3>3, TxOfTyped
  <2>5. CASE emit_open_note_created
    <3>1. tx' = TxOf(tx.pc + 1, tx.store, tx.channels, tx.balance, tx.undeposited + 1,
                     tx.subject, tx.screened, tx.depositor, tx.deposits)
      BY <2>5, <2>x DEF emit_open_note_created, TxOf
    <3> QED BY <2>0, <2>y, <3>1, TxOfTyped
  <2>6. CASE invoke_without_deposits
    <3>1. tx' = TxOf(tx.pc + 1, tx.store, tx.channels, tx.balance, tx.undeposited,
                     tx.subject, tx.screened, tx.depositor, tx.deposits)
      BY <2>6, <2>x DEF invoke_without_deposits, TxOf
    <3> QED BY <2>0, <2>y, <3>1, TxOfTyped
  <2>7. ASSUME NEW associated \in SUBSET ContractAddress, invoke_with_deposits(associated)
        PROVE  TypedTx' /\ TypedChain'
    <3> DEFINE subjects == PolicySubjects(CurrentAction.contract_address, CurrentAction.type,
                                          associated)
    <3>1. CurrentAction.contract_address \in ContractAddress
      BY <2>7, CurrentActionTyped DEF invoke_with_deposits, AtInvoke, TypedAction, ServerAction
    <3>2. subjects \in SUBSET ContractAddress
      <4>1. admin.policies[CurrentAction.contract_address] \in OpenNoteScreeningPolicy
        BY <3>1 DEF TypeOK, TypedChain, Admin
      <4> QED BY <3>1, <4>1 DEF PolicySubjects, OpenNoteScreeningPolicy
    <3>3. tx' = [tx EXCEPT !.depositor = CurrentAction.contract_address,
                           !.screened = @ \cup subjects,
                           !.subject = IF subjects = {} THEN @ ELSE CHOOSE a \in subjects : TRUE]
      BY <2>7 DEF invoke_with_deposits
    <3> HIDE DEF subjects
    <3>4. (IF subjects = {} THEN tx.subject ELSE CHOOSE a \in subjects : TRUE)
             \in ContractAddress \cup {ZeroAddr}
      BY <3>2 DEF TypeOK, TypedTx
    <3>5. tx' = TxOf(tx.pc, tx.store, tx.channels, tx.balance, tx.undeposited,
                     IF subjects = {} THEN tx.subject ELSE CHOOSE a \in subjects : TRUE,
                     tx.screened \cup subjects, CurrentAction.contract_address, tx.deposits)
      BY <3>3, <2>x DEF TxOf
    <3>6. tx.screened \cup subjects \in SUBSET ContractAddress
      BY <2>y, <3>2
    <3> QED BY <2>0, <2>y, <3>1, <3>4, <3>5, <3>6, TxOfTyped
  <2>8. ASSUME NEW n \in NotesOf(tx.store), NEW token \in Token, NEW amount \in Amount,
               deposit_to_open_note(n, token, amount)
        PROVE  TypedTx' /\ TypedChain'
    <3>1. n \in NoteId /\ tx.store[n] \in Note /\ n \in DOMAIN tx.store
      BY StoredTypes DEF TypeOK, TypedTx, NotesOf
    <3>2. [tx.store[n] EXCEPT !.amount = amount] \in Note
      BY <3>1 DEF Note
    <3>3. TypedWrite(n, [tx.store[n] EXCEPT !.amount = amount])
      BY <3>1, <3>2 DEF TypedWrite
    <3> DEFINE st == [tx.store EXCEPT ![n].amount = amount]
               balance == [tx.balance EXCEPT ![token] = @ + amount]
    <3>4. TypedStore(st)
      BY <2>y, <3>1, <3>3 DEF TypedStore
    <3>5. balance \in [Token -> Nat]
      BY <2>y, Credited
    <3>6. tx' = TxOf(tx.pc, st, tx.channels, balance, tx.undeposited, tx.subject, tx.screened,
                     tx.depositor, tx.deposits + 1)
      BY <2>8, <2>x DEF deposit_to_open_note, TxOf
    <3> HIDE DEF st, balance
    <3> QED BY <2>0, <2>y, <3>4, <3>5, <3>6, TxOfTyped
  <2>9. CASE end_deposits
    <3>1. tx' = TxOf(tx.pc + 1, tx.store, tx.channels, tx.balance,
                     tx.undeposited - tx.deposits, tx.subject, tx.screened, ZeroAddr, 0)
      BY <2>9, <2>x DEF end_deposits, TxOf
    <3>2. tx.undeposited - tx.deposits \in Nat
      BY <2>9, <2>y DEF end_deposits
    <3> QED BY <2>0, <2>y, <3>1, <3>2, TxOfTyped
  <2> QED
    BY <1>1, <1>2, <2>1, <2>2, <2>3, <2>4, <2>5, <2>6, <2>7, <2>8, <2>9
       DEF apply_step, finish_apply, revert_apply, TypeOK
<1>3. CASE finish_apply
  <2>1. TypedTx'
    BY <1>3, IdleTyped DEF finish_apply
  <2>2. TypedChain'
    BY <1>3 DEF finish_apply, TypeOK, TypedChain, TypedTx, timeVars
  <2> QED BY <2>1, <2>2
<1>4. CASE revert_apply
  <2>1. TypedTx'
    BY <1>4, IdleTyped DEF revert_apply
  <2>2. TypedChain'
    BY <1>4 DEF revert_apply, TypeOK, TypedChain, chainVars, timeVars
  <2> QED BY <2>1, <2>2
<1> QED
  BY <1>1, <1>2, <1>3, <1>4, ZenonT(40)
     DEF apply_step, apply_write_once, apply_append, apply_transfer_from, apply_transfer_to,
         emit_open_note_created, invoke_without_deposits, invoke_with_deposits,
         deposit_to_open_note, end_deposits

\* Administration keeps the types.
LEMMA TypeAdminCall ==
    ASSUME TypeOK, NEW c \in AdminCalls, admin_call(c)
    PROVE  TypeOK'
PROOF
<1> c \in AdminCall
  BY PrivacyPoolAssumption
<1>1. admin \in Admin
  BY DEF TypeOK, TypedChain
<1>2. admin' \in Admin
  <2>1. CASE c.type = "set_auditor_public_key" /\ set_auditor_public_key(c.key)
    BY <1>1, <2>1 DEF set_auditor_public_key, Admin, AdminCall
  <2>2. CASE c.type = "set_screener_public_key" /\ set_screener_public_key(c.key)
    BY <1>1, <2>2 DEF set_screener_public_key, Admin, AdminCall
  <2>3. CASE c.type = "set_fee_amount" /\ set_fee_amount(c.fee_amount)
    BY <1>1, <2>3 DEF set_fee_amount, Admin, AdminCall
  <2>4. CASE c.type = "set_fee_collector" /\ set_fee_collector(c.fee_collector)
    BY <1>1, <2>4 DEF set_fee_collector, Admin, AdminCall
  <2>5. CASE c.type = "set_proof_validity_blocks" /\ set_proof_validity_blocks(c.blocks)
    BY <1>1, <2>5 DEF set_proof_validity_blocks, Admin, AdminCall
  <2>6. CASE /\ c.type = "set_open_note_screening_policy"
             /\ set_open_note_screening_policy(c.depositor, c.policy)
    BY <1>1, <2>6 DEF set_open_note_screening_policy, Admin, AdminCall, AnyAddress
  <2>7. CASE c.type = "set_paused" /\ set_paused(c.paused)
    BY <1>1, <2>7 DEF set_paused, Admin, AdminCall
  <2>8. CASE c.type = "replace_to" /\ replace_to(c.class_hash)
    BY <1>1, <2>8 DEF replace_to, Admin, AdminCall
  <2> QED
    BY <2>1, <2>2, <2>3, <2>4, <2>5, <2>6, <2>7, <2>8 DEF admin_call
<1>3. UNCHANGED <<mode, chainVars, timeVars, proofs, session, tx>>
  BY DEF admin_call
<1> QED
  BY <1>2, <1>3 DEF TypeOK, TypedChain, TypedSession, TypedTx, chainVars, timeVars

\* A new block keeps the types.
LEMMA TypeNewBlock ==
    ASSUME TypeOK, NEW seconds \in BlockTimes, new_block(seconds)
    PROVE  TypeOK'
PROOF
<1>1. auditor_log' \in Seq(AuditorKey)
  BY AppendProperties DEF new_block, TypeOK, TypedChain, Admin
<1>2. now' \in Nat /\ block' \in Nat \ {0}
  BY PrivacyPoolAssumption DEF new_block, TypeOK, TypedChain
<1>3. TypedChain'
  BY <1>1, <1>2 DEF new_block, Snapshot, TypeOK, TypedChain, Admin, chainVars
<1>4. TypedSession' /\ TypedTx'
  BY DEF new_block, TypeOK, TypedSession, TypedTx
<1> QED BY <1>3, <1>4 DEF TypeOK

\* Every step keeps the types.
LEMMA TypeNext ==
    ASSUME TypeOK, [Next]_vars
    PROVE  TypeOK'
PROOF
<1>1. CASE UNCHANGED vars
  BY <1>1 DEF TypeOK, TypedChain, TypedSession, TypedTx, vars, chainVars, timeVars
<1> QED
  BY <1>1, TypeCompileStep, TypeApplyStep, TypeAdminCall, TypeNewBlock DEF Next

(***************************************************************************)
(* Every reachable state is well typed: whatever the compiler derives, a   *)
(* proof carries or apply_actions executes has the layout of the storage   *)
(* map it goes to, and token balances stay within 128 bits.                *)
(***************************************************************************)
THEOREM TypeCorrect == Spec => []TypeOK
PROOF
<1>1. Init => TypeOK
  BY TypeInit
<1>2. TypeOK /\ [Next]_vars => TypeOK'
  BY TypeNext
<1> QED BY <1>1, <1>2, PTL DEF Spec

\* A compilation leaves the chain alone.
LEMMA CompileKeepsChain ==
    ASSUME compile_step
    PROVE  UNCHANGED <<chainVars, timeVars, admin, tx>>
PROOF
<1>1. ASSUME NEW c \in Callers, start_compile(c[1], c[2])
      PROVE  UNCHANGED <<chainVars, timeVars, admin, tx>>
  BY <1>1 DEF start_compile
<1>2. ASSUME NEW c \in ClientActions, client_action(c)
      PROVE  UNCHANGED <<chainVars, timeVars, admin, tx>>
  <2> USE <1>2 DEF client_apply_actions
  <2>1. CASE set_viewing_key
    BY <2>1 DEF set_viewing_key
  <2>2. CASE open_channel(c.recipient_addr, c.index)
    BY <2>2 DEF open_channel
  <2>3. CASE open_subchannel(c.recipient_addr, c.recipient_public_key, c.channel_key, c.index,
                             c.token)
    BY <2>3 DEF open_subchannel
  <2>4. CASE deposit(c.token, c.amount) \/ withdraw(c.to_addr, c.token, c.amount)
    BY <2>4 DEF deposit, withdraw
  <2>5. CASE use_note(c.channel_key, c.token, c.index)
    BY <2>5 DEF use_note
  <2>6. CASE create_enc_note(c.recipient_addr, c.recipient_public_key, c.token, c.amount,
                             c.index, c.salt)
    BY <2>6 DEF create_enc_note
  <2>7. CASE create_open_note(c.recipient_addr, c.recipient_public_key, c.token, c.index)
    BY <2>7 DEF create_open_note
  <2>8. CASE invoke_external(c.contract_address) \/ compute_and_invoke(c.contract_address)
    BY <2>8 DEF invoke_external, compute_and_invoke
  <2> QED BY <2>1, <2>2, <2>3, <2>4, <2>5, <2>6, <2>7, <2>8 DEF client_action
<1>3. CASE finish_compile \/ abort_compile
  BY <1>3 DEF finish_compile, abort_compile
<1> QED BY <1>1, <1>2, <1>3 DEF compile_step

\* Only the end of a transaction changes what is committed.
LEMMA ChainChanges ==
    ASSUME [Next]_vars
    PROVE  UNCHANGED chainVars \/ finish_apply
PROOF
<1>1. CASE compile_step
  BY <1>1, CompileKeepsChain, Zenon
<1>2. CASE apply_step
  BY <1>2 DEF apply_step, start_apply, apply_write_once, apply_append, apply_transfer_from,
       apply_transfer_to, emit_open_note_created, invoke_without_deposits,
       invoke_with_deposits, deposit_to_open_note, end_deposits, revert_apply, applyUnchanged
<1>3. CASE \E c \in AdminCalls : admin_call(c)
  BY <1>3 DEF admin_call
<1>4. CASE \E seconds \in BlockTimes : new_block(seconds)
  BY <1>4 DEF new_block
<1>5. CASE UNCHANGED vars
  BY <1>5 DEF vars
<1> QED BY <1>1, <1>2, <1>3, <1>4, <1>5 DEF Next

(***************************************************************************)
(* Every address that a transaction has to be screened for is the one its  *)
(* attestation is checked for, through any sequence of transfers and       *)
(* invokes (unify_address): the first address becomes the subject, and no  *)
(* other is let through.                                                   *)
(***************************************************************************)
THEOREM SubjectsAreOne == Spec => []OneScreeningSubject
PROOF
<1>1. Init => OneScreeningSubject
  BY DEF Init, InitWith, NoTx, OneScreeningSubject
<1>2. TypeOK /\ OneScreeningSubject /\ [Next]_vars => OneScreeningSubject'
  <2> SUFFICES ASSUME TypeOK, OneScreeningSubject, [Next]_vars
               PROVE  OneScreeningSubject'
    OBVIOUS
  <2>t. /\ tx = [proof |-> tx.proof, pc |-> tx.pc, store |-> tx.store, channels |-> tx.channels,
                  balance |-> tx.balance, undeposited |-> tx.undeposited,
                  subject |-> tx.subject, screened |-> tx.screened,
                  depositor |-> tx.depositor, deposits |-> tx.deposits]
        /\ tx.screened \subseteq ContractAddress
    BY DEF TypeOK, TypedTx
  \* While there is no subject, nobody has been screened.
  <2>z. tx.subject = ZeroAddr => tx.screened = {}
    BY <2>t, PoolDataAssumption DEF OneScreeningSubject
  <2>1. CASE compile_step
    BY <2>1, CompileKeepsChain DEF OneScreeningSubject
  <2>2. CASE apply_step
    <3>1. CASE \E p \in proofs : start_apply(p)
      BY <3>1 DEF start_apply, NoTx, OneScreeningSubject
    <3>2. CASE apply_write_once \/ apply_append \/ apply_transfer_to \/ emit_open_note_created
               \/ invoke_without_deposits \/ end_deposits
      <4>1. tx'.screened = tx.screened /\ tx'.subject = tx.subject
        BY <3>2, <2>t DEF apply_write_once, apply_append, apply_transfer_to,
                emit_open_note_created, invoke_without_deposits, end_deposits
      <4> QED BY <4>1 DEF OneScreeningSubject
    <3>3. CASE apply_transfer_from
      <4>1. /\ unify_address(tx.subject, CurrentAction.from_addr)
            /\ tx'.subject = CurrentAction.from_addr
            /\ tx'.screened = tx.screened \cup {CurrentAction.from_addr}
        BY <3>3, <2>t DEF apply_transfer_from
      <4> QED BY <4>1, <2>z DEF OneScreeningSubject, unify_address
    <3>4. ASSUME NEW associated \in SUBSET ContractAddress, invoke_with_deposits(associated)
          PROVE  OneScreeningSubject'
      <4> DEFINE subjects == PolicySubjects(CurrentAction.contract_address, CurrentAction.type,
                                            associated)
      <4>1. /\ \A a \in subjects : unify_address(tx.subject, a)
            /\ \A a, b \in subjects : a = b
            /\ tx'.screened = tx.screened \cup subjects
            /\ tx'.subject = IF subjects = {} THEN tx.subject ELSE CHOOSE a \in subjects : TRUE
        BY <3>4, <2>t DEF invoke_with_deposits
      <4> HIDE DEF subjects
      <4>2. CASE subjects = {}
        BY <4>1, <4>2 DEF OneScreeningSubject
      <4>3. CASE subjects # {}
        <5>1. PICK a \in subjects : subjects = {a}
          BY <4>1, <4>3
        <5>2. tx'.subject = a
          BY <4>1, <5>1
        <5> QED BY <4>1, <5>1, <5>2, <2>z DEF OneScreeningSubject, unify_address
      <4> QED BY <4>2, <4>3
    <3>5. ASSUME NEW note_id \in NotesOf(tx.store), NEW token \in Token, NEW amount \in Amount,
                 deposit_to_open_note(note_id, token, amount)
          PROVE  OneScreeningSubject'
      <4>1. tx'.screened = tx.screened /\ tx'.subject = tx.subject
        BY <3>5, <2>t DEF deposit_to_open_note
      <4> QED BY <4>1 DEF OneScreeningSubject
    <3>6. CASE finish_apply \/ revert_apply
      BY <3>6 DEF finish_apply, revert_apply, NoTx, OneScreeningSubject
    <3> QED BY <2>2, <3>1, <3>2, <3>3, <3>4, <3>5, <3>6 DEF apply_step
  <2>3. CASE \E c \in AdminCalls : admin_call(c)
    BY <2>3 DEF admin_call, OneScreeningSubject
  <2>4. CASE \E seconds \in BlockTimes : new_block(seconds)
    BY <2>4 DEF new_block, OneScreeningSubject
  <2>5. CASE UNCHANGED vars
    BY <2>5 DEF vars, OneScreeningSubject
  <2> QED BY <2>1, <2>2, <2>3, <2>4, <2>5 DEF Next
<1> QED BY <1>1, <1>2, TypeCorrect, PTL DEF Spec

-----------------------------------------------------------------------------
(***************************************************************************)
(* Facts about lists of server actions.                                    *)
(***************************************************************************)
LEMMA WrittenByFacts ==
    ASSUME NEW s, TypedActions(s)
    PROVE  /\ WrittenBy(s) = {s[j].address : j \in {k \in 1 .. Len(s) : IsWriteOnce(s[k])}}
           /\ \A i \in Nat : i > Len(s) => WrittenBefore(s, i) = WrittenBy(s)
           /\ \A i \in Nat : WrittenBefore(s, i) \subseteq WrittenBy(s)
           /\ WrittenBefore(s, 1) = {}
           /\ WrittenBy(s) = {} <=> WritesIn(s) = {}
PROOF
<1>1. DOMAIN s = 1 .. Len(s) /\ Len(s) \in Nat
  BY DEF TypedActions
<1>2. WrittenBy(s) = {s[j].address : j \in {k \in 1 .. Len(s) : IsWriteOnce(s[k])}}
  BY <1>1 DEF WrittenBy, WritesIn
<1>3. ASSUME NEW i \in Nat, i > Len(s) PROVE WrittenBefore(s, i) = WrittenBy(s)
  <2>1. {k \in 1 .. Len(s) : k < i /\ IsWriteOnce(s[k])} = {k \in 1 .. Len(s) : IsWriteOnce(s[k])}
    BY <1>1, <1>3, SMT
  <2> QED BY <1>2, <2>1 DEF WrittenBefore
<1>4. ASSUME NEW i \in Nat PROVE WrittenBefore(s, i) \subseteq WrittenBy(s)
  BY <1>2 DEF WrittenBefore
<1>5. WrittenBefore(s, 1) = {}
  <2>1. {k \in 1 .. Len(s) : k < 1 /\ IsWriteOnce(s[k])} = {}
    BY <1>1, SMT
  <2> QED BY <2>1 DEF WrittenBefore
<1>6. WrittenBy(s) = {} <=> WritesIn(s) = {}
  BY DEF WrittenBy
<1> QED BY <1>2, <1>3, <1>4, <1>5, <1>6

\* One more action has been executed.
LEMMA WrittenBeforeNext ==
    ASSUME NEW s, TypedActions(s), NEW i \in 1 .. Len(s)
    PROVE  WrittenBefore(s, i + 1) =
               WrittenBefore(s, i) \cup (IF IsWriteOnce(s[i]) THEN {s[i].address} ELSE {})
PROOF
<1>1. Len(s) \in Nat
  BY DEF TypedActions
<1>2. {k \in 1 .. Len(s) : k < i + 1 /\ IsWriteOnce(s[k])} =
      {k \in 1 .. Len(s) : k < i /\ IsWriteOnce(s[k])}
        \cup (IF IsWriteOnce(s[i]) THEN {i} ELSE {})
  BY <1>1, SMT
<1> QED BY <1>2 DEF WrittenBefore

\* What two lists of actions write, one after the other.
LEMMA WrittenByConcat ==
    ASSUME NEW s, NEW t, TypedActions(s), TypedActions(t)
    PROVE  WrittenBy(s \o t) = WrittenBy(s) \cup WrittenBy(t)
PROOF
<1> DEFINE W(r) == {r[j].address : j \in {k \in 1 .. Len(r) : IsWriteOnce(r[k])}}
<1>1. TypedActions(s \o t)
  BY TypedActionsConcat
<1>2. WrittenBy(s) = W(s) /\ WrittenBy(t) = W(t) /\ WrittenBy(s \o t) = W(s \o t)
  BY <1>1, WrittenByFacts
<1>3. s \in Seq(ServerAction) /\ t \in Seq(ServerAction) /\ Len(s) \in Nat /\ Len(t) \in Nat
  BY DEF TypedActions
<1>4. /\ Len(s \o t) = Len(s) + Len(t)
      /\ \A i \in 1 .. Len(s) : (s \o t)[i] = s[i]
      /\ \A i \in 1 .. Len(t) : (s \o t)[Len(s) + i] = t[i]
  BY <1>3, ConcatProperties, SMT
<1>5. W(s \o t) \subseteq W(s) \cup W(t)
  <2> SUFFICES ASSUME NEW j \in 1 .. Len(s \o t), IsWriteOnce((s \o t)[j])
               PROVE  (s \o t)[j].address \in W(s) \cup W(t)
    OBVIOUS
  <2>1. CASE j \in 1 .. Len(s)
    BY <1>4, <2>1
  <2>2. CASE j \notin 1 .. Len(s)
    <3>1. j - Len(s) \in 1 .. Len(t) /\ Len(s) + (j - Len(s)) = j
      BY <1>3, <1>4, <2>2, SMT
    <3> DEFINE i == j - Len(s)
    <3>2. (s \o t)[j] = t[i]
      BY <1>4, <3>1
    <3> HIDE DEF i
    <3> QED BY <3>1, <3>2 DEF i
  <2> QED BY <2>1, <2>2
<1>6. W(s) \subseteq W(s \o t)
  <2> SUFFICES ASSUME NEW j \in 1 .. Len(s), IsWriteOnce(s[j])
               PROVE  s[j].address \in W(s \o t)
    OBVIOUS
  <2>1. j \in 1 .. Len(s \o t) /\ (s \o t)[j] = s[j]
    BY <1>3, <1>4, SMT
  <2> QED BY <2>1
<1>7. W(t) \subseteq W(s \o t)
  <2> SUFFICES ASSUME NEW j \in 1 .. Len(t), IsWriteOnce(t[j])
               PROVE  t[j].address \in W(s \o t)
    OBVIOUS
  <2>1. Len(s) + j \in 1 .. Len(s \o t) /\ (s \o t)[Len(s) + j] = t[j]
    BY <1>3, <1>4, SMT
  <2> QED BY <2>1
<1> QED BY <1>2, <1>5, <1>6, <1>7

\* Actions justified by more storage, and by the actions before them.
LEMMA JustifiedMore ==
    ASSUME NEW s, NEW D, NEW E, Justified(s, D), D \subseteq E
    PROVE  Justified(s, E)
BY DEF Justified

\* A list is justified when its parts are, in their order.
LEMMA JustifiedConcat ==
    ASSUME NEW s, NEW t, NEW D, TypedActions(s), TypedActions(t),
           Justified(s, D), Justified(t, D \cup WrittenBy(s))
    PROVE  Justified(s \o t, D)
PROOF
<1>1. s \in Seq(ServerAction) /\ t \in Seq(ServerAction) /\ Len(s) \in Nat /\ Len(t) \in Nat
  BY DEF TypedActions
<1>2. /\ Len(s \o t) = Len(s) + Len(t)
      /\ \A i \in 1 .. Len(s) : (s \o t)[i] = s[i]
      /\ \A i \in 1 .. Len(t) : (s \o t)[Len(s) + i] = t[i]
  BY <1>1, ConcatProperties, SMT
<1> SUFFICES ASSUME NEW i \in 1 .. Len(s \o t), IsWriteOnce((s \o t)[i])
             PROVE  Needs((s \o t)[i].address) \subseteq D \cup WrittenBefore(s \o t, i)
  BY DEF Justified
<1>3. CASE i \in 1 .. Len(s)
  <2>1. WrittenBefore(s, i) \subseteq WrittenBefore(s \o t, i)
    <3> SUFFICES ASSUME NEW j \in 1 .. Len(s), j < i, IsWriteOnce(s[j])
                 PROVE  s[j].address \in WrittenBefore(s \o t, i)
      BY DEF WrittenBefore
    <3>1. j \in 1 .. Len(s \o t) /\ (s \o t)[j] = s[j]
      BY <1>1, <1>2, SMT
    <3> QED BY <3>1 DEF WrittenBefore
  <2> QED BY <1>2, <1>3, <2>1 DEF Justified
<1>4. CASE i \notin 1 .. Len(s)
  <2> DEFINE m == i - Len(s)
  <2>1. m \in 1 .. Len(t) /\ Len(s) + m = i
    BY <1>1, <1>2, <1>4, SMT
  <2>2. (s \o t)[i] = t[m]
    BY <1>2, <2>1
  <2> HIDE DEF m
  <2>3. WrittenBy(s) \subseteq WrittenBefore(s \o t, i)
    <3> SUFFICES ASSUME NEW j \in 1 .. Len(s), IsWriteOnce(s[j])
                 PROVE  s[j].address \in WrittenBefore(s \o t, i)
      BY WrittenByFacts
    <3>1. j \in 1 .. Len(s \o t) /\ (s \o t)[j] = s[j] /\ j < i
      BY <1>1, <1>2, <2>1, SMT
    <3> QED BY <3>1 DEF WrittenBefore
  <2>4. WrittenBefore(t, m) \subseteq WrittenBefore(s \o t, i)
    <3> SUFFICES ASSUME NEW j \in 1 .. Len(t), j < m, IsWriteOnce(t[j])
                 PROVE  t[j].address \in WrittenBefore(s \o t, i)
      BY DEF WrittenBefore
    <3>1. Len(s) + j \in 1 .. Len(s \o t) /\ (s \o t)[Len(s) + j] = t[j] /\ Len(s) + j < i
      BY <1>1, <1>2, <2>1, SMT
    <3> QED BY <3>1 DEF WrittenBefore
  <2>5. Needs(t[m].address) \subseteq (D \cup WrittenBy(s)) \cup WrittenBefore(t, m)
    BY <2>1, <2>2 DEF Justified
  <2> QED BY <2>2, <2>3, <2>4, <2>5
<1> QED BY <1>3, <1>4

-----------------------------------------------------------------------------
(***************************************************************************)
(* What each kind of entry needs.                                          *)
(***************************************************************************)
LEMMA NeedsOf ==
    /\ \A u : Needs(public_key_entry(u)) = {}
    /\ \A u : Needs(enc_private_key_entry(u)) = {public_key_entry(u)}
    /\ \A ck, s, r, rp : Needs(compute_channel_marker(ck, s, r, rp)) =
                             {public_key_entry(s), public_key_entry(r)}
    /\ \A u, k : \A i \in Nat :
          Needs(compute_outgoing_channel_id(u, k, i)) \subseteq
              {public_key_entry(u)}
                \cup (IF i = 0 THEN {} ELSE {compute_outgoing_channel_id(u, k, i - 1)})
    /\ \A ck : \A i \in Nat :
          Needs(compute_subchannel_id(ck, i)) \subseteq
              {ChannelMarkerOf(ck)}
                \cup (IF i = 0 THEN {} ELSE {compute_subchannel_id(ck, i - 1)})
    /\ \A ck, r, rp, t : Needs(compute_subchannel_marker(ck, r, rp, t)) = {ChannelMarkerOf(ck)}
    /\ \A ck, t : \A i \in Nat :
          Needs(compute_note_id(ck, t, i)) \subseteq
              {SubchannelMarkerOf(ck, t)}
                \cup (IF i = 0 THEN {} ELSE {compute_note_id(ck, t, i - 1)})
    /\ \A ck, t, i, k : Needs(compute_nullifier(ck, t, i, k)) = {compute_note_id(ck, t, i)}
PROOF
<1>1. \A u : Needs(public_key_entry(u)) = {}
  BY DEF Needs, MapOf, public_key_entry
<1>2. \A u : Needs(enc_private_key_entry(u)) = {public_key_entry(u)}
  BY DEF Needs, MapOf, enc_private_key_entry
<1>3. \A ck, s, r, rp : Needs(compute_channel_marker(ck, s, r, rp)) =
                            {public_key_entry(s), public_key_entry(r)}
  BY DEF Needs, MapOf, compute_channel_marker
<1>4. ASSUME NEW u, NEW k, NEW i \in Nat
      PROVE  Needs(compute_outgoing_channel_id(u, k, i)) \subseteq
              {public_key_entry(u)}
                \cup (IF i = 0 THEN {} ELSE {compute_outgoing_channel_id(u, k, i - 1)})
  BY SMT DEF Needs, MapOf, compute_outgoing_channel_id
<1>5. ASSUME NEW ck, NEW i \in Nat
      PROVE  Needs(compute_subchannel_id(ck, i)) \subseteq
              {ChannelMarkerOf(ck)}
                \cup (IF i = 0 THEN {} ELSE {compute_subchannel_id(ck, i - 1)})
  BY SMT DEF Needs, MapOf, compute_subchannel_id
<1>6. \A ck, r, rp, t : Needs(compute_subchannel_marker(ck, r, rp, t)) = {ChannelMarkerOf(ck)}
  BY DEF Needs, MapOf, compute_subchannel_marker
<1>7. ASSUME NEW ck, NEW t, NEW i \in Nat
      PROVE  Needs(compute_note_id(ck, t, i)) \subseteq
              {SubchannelMarkerOf(ck, t)}
                \cup (IF i = 0 THEN {} ELSE {compute_note_id(ck, t, i - 1)})
  BY SMT DEF Needs, MapOf, compute_note_id
<1>8. \A ck, t, i, k : Needs(compute_nullifier(ck, t, i, k)) = {compute_note_id(ck, t, i)}
  BY DEF Needs, MapOf, compute_nullifier
<1> QED BY <1>1, <1>2, <1>3, <1>4, <1>5, <1>6, <1>7, <1>8

\* Which entries are well formed by construction.
LEMMA WellFormedOf ==
    /\ \A u : WellFormed(public_key_entry(u)) /\ WellFormed(enc_private_key_entry(u))
    /\ \A u, k, i : WellFormed(compute_outgoing_channel_id(u, k, i))
    /\ \A ck, i : WellFormed(compute_subchannel_id(ck, i))
    /\ \A ck, t, i : WellFormed(compute_note_id(ck, t, i))
BY DEF WellFormed, MapOf, public_key_entry, enc_private_key_entry, compute_outgoing_channel_id,
       compute_subchannel_id, compute_note_id

\* The writes of short lists.
LEMMA Writes1 ==
    ASSUME NEW a, NEW v
    PROVE  /\ WrittenBy(<<WriteOnce(a, v)>>) = {a}
           /\ \A D : Needs(a) \subseteq D => Justified(<<WriteOnce(a, v)>>, D)
BY DEF WrittenBy, WritesIn, WriteOnce, IsWriteOnce, Justified, WrittenBefore

\* An action that is no write needs nothing.
LEMMA NoWrites1 ==
    ASSUME NEW x, ~IsWriteOnce(x)
    PROVE  WrittenBy(<<x>>) = {} /\ \A D : Justified(<<x>>, D)
BY DEF WrittenBy, WritesIn, Justified

\* Two writes, of which the second may need the first.
LEMMA Writes2 ==
    ASSUME NEW a, NEW v, NEW b, NEW w
    PROVE  /\ WrittenBy(<<WriteOnce(a, v), WriteOnce(b, w)>>) = {a, b}
           /\ \A D : (Needs(a) \subseteq D /\ Needs(b) \subseteq D \cup {a}) =>
                         Justified(<<WriteOnce(a, v), WriteOnce(b, w)>>, D)
PROOF
<1> DEFINE s == <<WriteOnce(a, v), WriteOnce(b, w)>>
<1>1. s[1] = WriteOnce(a, v) /\ s[2] = WriteOnce(b, w) /\ Len(s) = 2 /\ DOMAIN s = {1, 2}
  OBVIOUS
<1> HIDE DEF s
<1>2. IsWriteOnce(s[1]) /\ s[1].address = a /\ IsWriteOnce(s[2]) /\ s[2].address = b
  BY <1>1 DEF WriteOnce, IsWriteOnce
<1>3. WrittenBy(s) = {a, b}
  BY <1>1, <1>2 DEF WrittenBy, WritesIn
<1>4. a \in WrittenBefore(s, 2)
  BY <1>1, <1>2, SMT DEF WrittenBefore
<1>5. \A D : (Needs(a) \subseteq D /\ Needs(b) \subseteq D \cup {a}) => Justified(s, D)
  BY <1>1, <1>2, <1>4, SMT DEF Justified
<1> QED BY <1>3, <1>5 DEF s

\* A list whose first or last action writes nothing.
LEMMA WritesMixed ==
    ASSUME NEW s, TypedActions(s), NEW x, TypedAction(x), ~IsWriteOnce(x)
    PROVE  /\ WrittenBy(<<x>> \o s) = WrittenBy(s) /\ WrittenBy(s \o <<x>>) = WrittenBy(s)
           /\ \A D : Justified(s, D) => Justified(<<x>> \o s, D) /\ Justified(s \o <<x>>, D)
PROOF
<1>1. TypedActions(<<x>>) /\ WrittenBy(<<x>>) = {} /\ \A D : Justified(<<x>>, D)
  BY TypedActions1, NoWrites1
<1>2. WrittenBy(<<x>> \o s) = WrittenBy(s) /\ WrittenBy(s \o <<x>>) = WrittenBy(s)
  BY <1>1, WrittenByConcat
<1>3. ASSUME NEW D, Justified(s, D) PROVE Justified(<<x>> \o s, D) /\ Justified(s \o <<x>>, D)
  <2>1. Justified(s, D \cup WrittenBy(<<x>>)) /\ Justified(<<x>>, D \cup WrittenBy(s))
    BY <1>1, <1>3, JustifiedMore
  <2> QED BY <1>1, <1>3, <2>1, JustifiedConcat
<1> QED BY <1>2, <1>3

-----------------------------------------------------------------------------
(***************************************************************************)
(* Compiling keeps the invariant.                                          *)
(***************************************************************************)
LEMMA CompileKeepsRest ==
    ASSUME PoolInv, UNCHANGED <<chainVars, timeVars, proofs, tx>>, mode' # "apply", SessionInv'
    PROVE  PoolInv'
BY DEF PoolInv, StorageInv, ProofsInv, TxInv, chainVars, timeVars

\* The invariant is kept when a client action's writes are well formed and justified.
LEMMA ClientApplyInv ==
    ASSUME TypeOK, PoolInv, NEW type, NEW actions, NEW balances, TypedActions(actions),
           AllWellFormed(WrittenBy(actions)), Justified(actions, DOMAIN session.store),
           client_apply_actions(type, actions, balances)
    PROVE  PoolInv'
PROOF
<1> USE DEF client_apply_actions
<1>1. TypedActions(session.actions) /\ mode = "compile"
  BY DEF TypeOK, TypedSession
<1>2. /\ DOMAIN session.store = DOMAIN closed.store \cup WrittenBy(session.actions)
      /\ AllWellFormed(WrittenBy(session.actions))
      /\ Justified(session.actions, DOMAIN closed.store)
      /\ session.has_replay_protection => WrittenBy(session.actions) # {}
  BY <1>1 DEF PoolInv, SessionInv
<1>3. /\ session'.actions = session.actions \o actions
      /\ session'.store = WriteAll(session.store, WritesIn(actions))
      /\ session'.has_replay_protection =
            (session.has_replay_protection \/ WritesIn(actions) # {})
  BY DEF TypeOK, TypedSession
<1>4. WrittenBy(session'.actions) = WrittenBy(session.actions) \cup WrittenBy(actions)
  BY <1>1, <1>3, WrittenByConcat
<1>5. DOMAIN session'.store = DOMAIN session.store \cup WrittenBy(actions)
  <2>1. DOMAIN WriteAll(session.store, WritesIn(actions)) =
            DOMAIN session.store \cup {w.address : w \in WritesIn(actions)}
    BY WriteAllFacts
  <2> QED BY <1>3, <2>1 DEF WrittenBy
<1>6. Justified(session'.actions, DOMAIN closed.store)
  BY <1>1, <1>2, <1>3, JustifiedConcat
<1>7. AllWellFormed(WrittenBy(session'.actions))
  BY <1>2, <1>4 DEF AllWellFormed
<1>8. session'.has_replay_protection => WrittenBy(session'.actions) # {}
  <2>1. WrittenBy(actions) = {} <=> WritesIn(actions) = {}
    BY WrittenByFacts
  <2> QED BY <1>2, <1>3, <1>4, <2>1
<1>9. closed' = closed
  BY DEF timeVars
<1>10. SessionInv'
  BY <1>2, <1>4, <1>5, <1>6, <1>7, <1>8, <1>9 DEF SessionInv
<1> QED BY <1>1, <1>10, CompileKeepsRest

\* Everything in a compilation's virtual state is well formed.
LEMMA SessionStoreWellFormed ==
    ASSUME PoolInv, mode = "compile"
    PROVE  AllWellFormed(DOMAIN session.store)
BY DEF PoolInv, StorageInv, SessionInv, AllWellFormed

\* The parties in a marker are those its channel key was derived from.
LEMMA MarkerParties ==
    /\ \A ck, s, r, rp : WellFormed(compute_channel_marker(ck, s, r, rp)) =>
           /\ compute_channel_marker(ck, s, r, rp) = ChannelMarkerOf(ck)
           /\ RecipientOf(ck) = r /\ RecipientPubOf(ck) = rp
    /\ \A ck, r, rp, t : WellFormed(compute_subchannel_marker(ck, r, rp, t)) =>
           /\ compute_subchannel_marker(ck, r, rp, t) = SubchannelMarkerOf(ck, t)
           /\ RecipientPubOf(ck) = rp
BY DEF WellFormed, MapOf, compute_channel_marker, compute_subchannel_marker, ChannelMarkerOf,
       SubchannelMarkerOf

\* Every client action keeps the invariant.
LEMMA ClientActionInv ==
    ASSUME TypeOK, PoolInv, NEW c \in ClientActions, client_action(c), mode = "compile"
    PROVE  PoolInv'
PROOF
<1> DEFINE u == session.user
           k == session.private_key
           D == DOMAIN session.store
<1>0. /\ u \in ContractAddress /\ k \in PrivateKey /\ k # 0 /\ is_canonical_key(k)
      /\ c \in ClientAction
  BY PrivacyPoolAssumption DEF TypeOK, TypedSession
<1>1. AllWellFormed(D)
  BY SessionStoreWellFormed
<1>2. ASSUME NEW n \in Index PROVE n \in Nat
  BY <1>2, PoolDataAssumption DEF Index
<1>t. ASSUME NEW type, NEW actions, NEW balances, client_apply_actions(type, actions, balances),
             WrittenBy(actions) = {}, TypedActions(actions), Justified(actions, D)
      PROVE  PoolInv'
  BY <1>t, ClientApplyInv DEF AllWellFormed
<1>a. CASE c.type = "SetViewingKey" /\ set_viewing_key
  <2> DEFINE a == public_key_entry(u)
             b == enc_private_key_entry(u)
             v == [public_key |-> derive_public_key(k)]
             w == [auditor_public_key |-> closed.auditor_public_key, private_key |-> k]
             acts == <<WriteOnce(a, v), WriteOnce(b, w)>>
  <2>1. client_apply_actions("SetViewingKey", acts, session.balances)
    BY <1>a DEF set_viewing_key
  <2>2. TypedActions(acts)
    <3>1. TypedWrite(a, v)
      BY <1>0, DerivedKeyType DEF TypedWrite, public_key_entry, PublicKeyEntry
    <3>2. TypedWrite(b, w)
      BY <1>0 DEF TypedWrite, enc_private_key_entry, EncPrivateKeyEntry, TypeOK, TypedChain
    <3> QED BY <3>1, <3>2, TypedWriteOnce, TypedActions2
  <2>3. WrittenBy(acts) = {a, b}
    BY Writes2
  <2>4. Needs(a) \subseteq D /\ Needs(b) \subseteq D \cup {a}
    BY NeedsOf
  <2>5. Justified(acts, D)
    <3> HIDE DEF a, b, v, w
    <3> QED BY <2>4, Writes2
  <2>6. AllWellFormed({a, b})
    BY WellFormedOf DEF AllWellFormed
  <2> HIDE DEF acts, a, b
  <2> QED BY <2>1, <2>2, <2>3, <2>5, <2>6, ClientApplyInv
<1>b. CASE c.type = "OpenChannel" /\ open_channel(c.recipient_addr, c.index)
  <2> DEFINE r == c.recipient_addr
             i == c.index
             rp == RegisteredKey(session.store, r)
             ck == compute_channel_key(u, k, r, rp)
             x == AppendChannel(r, [encrypted_to |-> rp, channel_key |-> ck, sender_addr |-> u])
             a == compute_channel_marker(ck, u, r, rp)
             b == compute_outgoing_channel_id(u, k, i)
             w1 == WriteOnce(a, [exists |-> TRUE])
             w2 == WriteOnce(b, [recipient_addr |-> r])
             acts == <<x, w1, w2>>
  <2>1. client_apply_actions("OpenChannel", acts, session.balances)
    BY <1>b DEF open_channel
  <2>2. /\ r \in ContractAddress /\ i \in Index
        /\ public_key_entry(u) \in D /\ public_key_entry(r) \in D
        /\ i = 0 \/ compute_outgoing_channel_id(u, k, i - 1) \in D
    BY <1>0, <1>b DEF open_channel, ClientAction, AnyAddress, IsRegistered, Written
  <2>3. rp \in PublicKey
    BY <1>b, StoredTypes DEF open_channel, TypeOK, TypedSession
  <2>4. ck \in ChannelKey /\ SenderOf(ck) = u /\ SenderKeyOf(ck) = k /\ RecipientOf(ck) = r
        /\ RecipientPubOf(ck) = rp
    BY <1>0, <2>2, <2>3
       DEF compute_channel_key, ChannelKey, SenderOf, SenderKeyOf, RecipientOf, RecipientPubOf
  <2> HIDE DEF u, k, r, i, rp, ck
  <2>5. TypedAction(x) /\ ~IsWriteOnce(x)
    BY <1>0, <2>2, <2>3, <2>4
       DEF TypedAction, AppendChannel, ServerAction, ChannelInfo, IsWriteOnce
  <2>6. TypedAction(w1) /\ TypedAction(w2)
    <3>1. a \in ChannelMarker
      BY <1>0, <2>2, <2>3, <2>4 DEF compute_channel_marker, ChannelMarker
    <3>2. b \in OutgoingChannelId
      BY <1>0, <2>2 DEF compute_outgoing_channel_id, OutgoingChannelId
    <3> QED BY <2>2, <3>1, <3>2, TypedWriteOnce DEF TypedWrite
  <2>7. WellFormed(a) /\ WellFormed(b)
    <3>1. WellFormed(a)
      BY <1>0, <2>4 DEF WellFormed, compute_channel_marker, ChannelMarkerOf, MapOf
    <3> QED BY <3>1, WellFormedOf
  <2>8. Needs(a) \subseteq D /\ Needs(b) \subseteq D \cup {a}
    BY <1>2, <2>2, NeedsOf
  <2>9. /\ TypedActions(<<w1, w2>>)
        /\ WrittenBy(<<w1, w2>>) = {a, b}
        /\ Justified(<<w1, w2>>, D)
    <3>1. TypedActions(<<w1, w2>>)
      BY <2>6, TypedActions2
    <3> HIDE DEF a, b
    <3> QED BY <2>8, <3>1, Writes2
  <2>10. acts = <<x>> \o <<w1, w2>>
    OBVIOUS
  <2> HIDE DEF a, b, w1, w2, x
  <2>11. WrittenBy(acts) = {a, b} /\ Justified(acts, D)
    BY <2>5, <2>9, <2>10, WritesMixed
  <2>12. TypedActions(acts)
    BY <2>5, <2>6, TypedActions3
  <2>13. AllWellFormed(WrittenBy(acts))
    BY <2>7, <2>11 DEF AllWellFormed
  <2> HIDE DEF acts
  <2> QED BY <2>1, <2>11, <2>12, <2>13, ClientApplyInv
<1>c. CASE /\ c.type = "OpenSubchannel"
           /\ open_subchannel(c.recipient_addr, c.recipient_public_key, c.channel_key,
                              c.index, c.token)
  <2> DEFINE r == c.recipient_addr
             rp == c.recipient_public_key
             ck == c.channel_key
             i == c.index
             t == c.token
             a == compute_subchannel_id(ck, i)
             b == compute_subchannel_marker(ck, r, rp, t)
             v == [token |-> t]
             acts == <<WriteOnce(a, v), WriteOnce(b, [exists |-> TRUE])>>
  <2>1. client_apply_actions("OpenSubchannel", acts, session.balances)
    BY <1>c DEF open_subchannel
  <2>2. /\ r \in ContractAddress /\ rp \in PublicKey /\ ck \in ChannelKey /\ i \in Index
        /\ t \in Token
        /\ compute_channel_marker(ck, u, r, rp) \in D
        /\ i = 0 \/ compute_subchannel_id(ck, i - 1) \in D
    BY <1>0, <1>c DEF open_subchannel, ClientAction, AnyAddress, AnyToken, Written
  <2> HIDE DEF u, r, rp, ck, i, t
  <2>3. ChannelMarkerOf(ck) \in D /\ RecipientOf(ck) = r /\ RecipientPubOf(ck) = rp
    BY <1>1, <2>2, MarkerParties DEF AllWellFormed
  <2>4. TypedActions(acts)
    <3>1. a \in SubchannelId
      BY <2>2 DEF compute_subchannel_id, SubchannelId
    <3>2. b \in SubchannelMarker
      BY <2>2 DEF compute_subchannel_marker, SubchannelMarker
    <3> QED BY <2>2, <3>1, <3>2, TypedWriteOnce, TypedActions2 DEF TypedWrite
  <2>5. WellFormed(a) /\ WellFormed(b)
    <3>1. WellFormed(b)
      BY <2>3 DEF WellFormed, MapOf, compute_subchannel_marker, SubchannelMarkerOf
    <3> QED BY <3>1, WellFormedOf
  <2>6. Needs(a) \subseteq D /\ Needs(b) \subseteq D \cup {a}
    BY <1>2, <2>2, <2>3, NeedsOf
  <2> HIDE DEF a, b, v
  <2>7. WrittenBy(acts) = {a, b} /\ Justified(acts, D)
    BY <2>6, Writes2
  <2>8. AllWellFormed(WrittenBy(acts))
    BY <2>5, <2>7 DEF AllWellFormed
  <2> HIDE DEF acts
  <2> QED BY <2>1, <2>4, <2>7, <2>8, ClientApplyInv
<1>d. CASE c.type = "Deposit" /\ deposit(c.token, c.amount)
  <2> DEFINE x == TransferFrom(u, c.token, c.amount)
  <2>1. client_apply_actions("Deposit", <<x>>, add_balance(c.token, c.amount))
    BY <1>d DEF deposit
  <2>2. TypedAction(x) /\ ~IsWriteOnce(x)
    BY <1>0, <1>d DEF deposit, ClientAction, AnyToken, TypedAction, TransferFrom, ServerAction, IsWriteOnce
  <2> HIDE DEF x
  <2> QED BY <1>t, <2>1, <2>2, TypedActions1, NoWrites1
<1>e. CASE c.type = "UseNote" /\ use_note(c.channel_key, c.token, c.index)
  <2> DEFINE ck == c.channel_key
             t == c.token
             i == c.index
             op == derive_public_key(k)
             amount == decode_note_amount(session.store[compute_note_id(ck, t, i)], i)
             a == compute_nullifier(ck, t, i, k)
             acts == <<WriteOnce(a, [exists |-> TRUE])>>
  <2>1. client_apply_actions("UseNote", acts, add_balance(t, amount))
    BY <1>e DEF use_note
  <2>2. /\ ck \in ChannelKey /\ t \in Token /\ i \in Index
        /\ compute_note_id(ck, t, i) \in D
        /\ compute_subchannel_marker(ck, u, op, t) \in D
    BY <1>0, <1>e DEF use_note, ClientAction, AnyToken, Written
  <2> HIDE DEF u, ck, t, i, op, k
  <2>3. RecipientPubOf(ck) = op
    BY <1>1, <2>2, MarkerParties DEF AllWellFormed
  <2>4. WellFormed(a)
    BY <1>0, <2>3 DEF WellFormed, MapOf, compute_nullifier, op
  <2>5. Needs(a) \subseteq D
    BY <2>2, NeedsOf
  <2>6. TypedActions(acts)
    <3>1. a \in Nullifier
      BY <1>0, <2>2 DEF compute_nullifier, Nullifier
    <3> QED BY <3>1, TypedWriteOnce, TypedActions1 DEF TypedWrite
  <2> HIDE DEF a
  <2>7. WrittenBy(acts) = {a} /\ Justified(acts, D)
    BY <2>5, Writes1
  <2>8. AllWellFormed(WrittenBy(acts))
    BY <2>4, <2>7 DEF AllWellFormed
  <2> HIDE DEF acts, amount
  <2> QED BY <2>1, <2>6, <2>7, <2>8, ClientApplyInv
<1>n. ASSUME NEW r, NEW rp, NEW t, NEW i, r \in ContractAddress, rp \in PublicKey, t \in Token,
             i \in Index, prepare_note_creation(r, rp, t, i)
      PROVE  LET a == compute_note_id(compute_channel_key(u, k, r, rp), t, i)
             IN  a \in NoteId /\ Needs(a) \subseteq D /\ WellFormed(a)
  <2> DEFINE ck == compute_channel_key(u, k, r, rp)
  <2>1. /\ compute_subchannel_marker(ck, r, rp, t) \in D
        /\ i = 0 \/ compute_note_id(ck, t, i - 1) \in D
    BY <1>n DEF prepare_note_creation, Written
  <2>2. ck \in ChannelKey
    BY <1>0, <1>n DEF compute_channel_key, ChannelKey
  <2> HIDE DEF ck, u, k
  <2>3. SubchannelMarkerOf(ck, t) \in D
    BY <1>1, <2>1, MarkerParties DEF AllWellFormed
  <2>4. compute_note_id(ck, t, i) \in NoteId
    BY <1>n, <2>2 DEF compute_note_id, NoteId
  <2> QED BY <1>2, <1>n, <2>1, <2>3, <2>4, NeedsOf, WellFormedOf DEF ck
<1>f. CASE /\ c.type = "CreateEncNote"
           /\ create_enc_note(c.recipient_addr, c.recipient_public_key, c.token, c.amount,
                              c.index, c.salt)
  <2> DEFINE ck == compute_channel_key(u, k, c.recipient_addr, c.recipient_public_key)
             a == compute_note_id(ck, c.token, c.index)
             v == enc_note_packed_value(c.index, c.salt, c.amount)
             acts == <<WriteOnce(a, v)>>
  <2>1. client_apply_actions("CreateEncNote", acts, subtract_balance(c.token, c.amount))
    BY <1>f DEF create_enc_note
  <2>2. /\ c.recipient_addr \in ContractAddress /\ c.recipient_public_key \in PublicKey
        /\ c.token \in Token /\ c.index \in Index /\ c.salt \in Salt /\ c.amount \in Amount
        /\ prepare_note_creation(c.recipient_addr, c.recipient_public_key, c.token, c.index)
    BY <1>0, <1>f DEF create_enc_note, ClientAction, AnyAddress, AnyToken
  <2>3. a \in NoteId /\ Needs(a) \subseteq D /\ WellFormed(a)
    BY <1>n, <2>2
  <2>4. v \in Note
    BY <2>2, NoteTypes
  <2> HIDE DEF a, v
  <2>5. TypedActions(acts)
    BY <2>3, <2>4, TypedWriteOnce, TypedActions1 DEF TypedWrite
  <2>6. WrittenBy(acts) = {a} /\ Justified(acts, D)
    BY <2>3, Writes1
  <2>7. AllWellFormed(WrittenBy(acts))
    BY <2>3, <2>6 DEF AllWellFormed
  <2> HIDE DEF acts
  <2> QED BY <2>1, <2>5, <2>6, <2>7, ClientApplyInv
<1>g. CASE /\ c.type = "CreateOpenNote"
           /\ create_open_note(c.recipient_addr, c.recipient_public_key, c.token, c.index)
  <2> DEFINE ck == compute_channel_key(u, k, c.recipient_addr, c.recipient_public_key)
             a == compute_note_id(ck, c.token, c.index)
             v == open_note(c.token)
             w == WriteOnce(a, v)
             x == EmitOpenNoteCreated(a)
             acts == <<w, x>>
  <2>1. client_apply_actions("CreateOpenNote", acts, session.balances)
    BY <1>g DEF create_open_note
  <2>2. /\ c.recipient_addr \in ContractAddress /\ c.recipient_public_key \in PublicKey
        /\ c.token \in Token /\ c.index \in Index
        /\ prepare_note_creation(c.recipient_addr, c.recipient_public_key, c.token, c.index)
    BY <1>0, <1>g DEF create_open_note, ClientAction, AnyAddress, AnyToken
  <2>3. a \in NoteId /\ Needs(a) \subseteq D /\ WellFormed(a)
    BY <1>n, <2>2
  <2>4. v \in Note
    BY <2>2, NoteTypes
  <2> HIDE DEF a, v
  <2>5. TypedAction(w) /\ TypedActions(<<w>>)
    BY <2>3, <2>4, TypedWriteOnce, TypedActions1 DEF TypedWrite
  <2>6. TypedAction(x) /\ ~IsWriteOnce(x)
    BY <2>3 DEF TypedAction, EmitOpenNoteCreated, ServerAction, IsWriteOnce
  <2>7. WrittenBy(<<w>>) = {a} /\ Justified(<<w>>, D)
    BY <2>3, Writes1
  <2>8. acts = <<w>> \o <<x>>
    OBVIOUS
  <2> HIDE DEF w, x
  <2>9. WrittenBy(acts) = {a} /\ Justified(acts, D)
    BY <2>5, <2>6, <2>7, <2>8, WritesMixed
  <2>10. TypedActions(acts)
    BY <2>5, <2>6, TypedActions2
  <2>11. AllWellFormed(WrittenBy(acts))
    BY <2>3, <2>9 DEF AllWellFormed
  <2> HIDE DEF acts
  <2> QED BY <2>1, <2>9, <2>10, <2>11, ClientApplyInv
<1>h. CASE c.type = "Withdraw" /\ withdraw(c.to_addr, c.token, c.amount)
  <2> DEFINE x == TransferTo(c.to_addr, c.token, c.amount)
  <2>1. client_apply_actions("Withdraw", <<x>>, subtract_balance(c.token, c.amount))
    BY <1>h DEF withdraw
  <2>2. TypedAction(x) /\ ~IsWriteOnce(x)
    BY <1>0, <1>h DEF withdraw, ClientAction, AnyToken, AnyAddress, TypedAction, TransferTo,
                      ServerAction, IsWriteOnce
  <2> HIDE DEF x
  <2> QED BY <1>t, <2>1, <2>2, TypedActions1, NoWrites1
<1>i. CASE c.type = "InvokeExternal" /\ invoke_external(c.contract_address)
  <2> DEFINE x == Invoke(c.contract_address)
  <2>1. client_apply_actions("InvokeExternal", <<x>>, session.balances)
    BY <1>i DEF invoke_external
  <2>2. TypedAction(x) /\ ~IsWriteOnce(x)
    BY <1>0, <1>i DEF invoke_external, ClientAction, AnyAddress, TypedAction, Invoke,
                      ServerAction, IsWriteOnce
  <2> HIDE DEF x
  <2> QED BY <1>t, <2>1, <2>2, TypedActions1, NoWrites1
<1>j. CASE c.type = "ComputeAndInvoke" /\ compute_and_invoke(c.contract_address)
  <2> DEFINE x == InvokeWithComputation(c.contract_address)
  <2>1. client_apply_actions("ComputeAndInvoke", <<x>>, session.balances)
    BY <1>j DEF compute_and_invoke
  <2>2. TypedAction(x) /\ ~IsWriteOnce(x)
    BY <1>0, <1>j DEF compute_and_invoke, ClientAction, AnyAddress, TypedAction,
                      InvokeWithComputation, ServerAction, IsWriteOnce
  <2> HIDE DEF x
  <2> QED BY <1>t, <2>1, <2>2, TypedActions1, NoWrites1
<1> QED
  BY <1>a, <1>b, <1>c, <1>d, <1>e, <1>f, <1>g, <1>h, <1>i, <1>j DEF client_action

\* Compilation keeps the invariant.
LEMMA CompileInv ==
    ASSUME TypeOK, PoolInv, compile_step
    PROVE  PoolInv'
PROOF
<1>1. ASSUME NEW c \in Callers, start_compile(c[1], c[2]) PROVE PoolInv'
  <2>1. session'.store = closed.store /\ session'.actions = <<>>
        /\ session'.has_replay_protection = FALSE
    BY <1>1 DEF start_compile, NoSession
  <2>2. WrittenBy(<<>>) = {} /\ Justified(<<>>, DOMAIN closed.store)
    BY DEF WrittenBy, WritesIn, Justified
  <2>3. closed' = closed /\ mode' = "compile" /\ UNCHANGED <<chainVars, timeVars, proofs, tx>>
    BY <1>1 DEF start_compile, timeVars
  <2>4. SessionInv'
    BY <2>1, <2>2, <2>3 DEF SessionInv, AllWellFormed
  <2> QED BY <2>3, <2>4, CompileKeepsRest
<1>2. ASSUME NEW c \in ClientActions, client_action(c) PROVE PoolInv'
  <2>1. mode = "compile"
    BY <1>2
       DEF client_action, client_apply_actions, set_viewing_key, open_channel, open_subchannel,
           deposit, withdraw, invoke_external, compute_and_invoke, use_note, create_enc_note,
           create_open_note
  <2> QED BY <1>2, <2>1, ClientActionInv
<1>3. CASE finish_compile
  <2> DEFINE p == [base_block |-> block - 1, class_hash |-> closed.class_hash,
                   actions |-> session.actions]
  <2>1. /\ proofs' = proofs \cup {p} /\ UNCHANGED <<chainVars, timeVars, tx>> /\ mode' = "idle"
        /\ session.has_replay_protection /\ mode = "compile"
    BY <1>3 DEF finish_compile
  <2>2. /\ WrittenBy(session.actions) # {}
        /\ AllWellFormed(WrittenBy(session.actions))
        /\ Justified(session.actions, DOMAIN closed.store)
        /\ DOMAIN closed.store \subseteq DOMAIN store
    BY <2>1 DEF PoolInv, SessionInv, StorageInv
  <2>3. Justified(session.actions, DOMAIN store)
    BY <2>2, JustifiedMore
  <2>4. store' = store /\ closed' = closed /\ applied' = applied
    BY <2>1 DEF chainVars, timeVars
  <2>5. ProofsInv'
    BY <2>1, <2>2, <2>3, <2>4 DEF PoolInv, ProofsInv
  <2>6. StorageInv'
    BY <2>4 DEF PoolInv, StorageInv
  <2>7. SessionInv' /\ TxInv'
    BY <2>1 DEF SessionInv, TxInv
  <2> QED BY <2>5, <2>6, <2>7 DEF PoolInv
<1>4. CASE abort_compile
  <2>1. UNCHANGED <<chainVars, timeVars, proofs, tx>> /\ mode' = "idle"
    BY <1>4 DEF abort_compile
  <2>2. SessionInv'
    BY <2>1 DEF SessionInv
  <2> QED BY <2>1, <2>2, CompileKeepsRest
<1> QED BY <1>1, <1>2, <1>3, <1>4 DEF compile_step

-----------------------------------------------------------------------------
(***************************************************************************)
(* Applying keeps the invariant.                                           *)
(***************************************************************************)
LEMMA ApplyKeepsRest ==
    ASSUME PoolInv, applyUnchanged, mode = "apply", TxInv'
    PROVE  PoolInv'
BY DEF PoolInv, StorageInv, ProofsInv, SessionInv, applyUnchanged, chainVars, timeVars

\* A step of a transaction that writes no new address.
LEMMA ApplyNoWrite ==
    ASSUME TypeOK, PoolInv, applyUnchanged, mode = "apply",
           tx'.proof = tx.proof, DOMAIN tx'.store = DOMAIN tx.store,
           tx.pc \in 1 .. Len(tx.proof.actions), ~IsWriteOnce(CurrentAction),
           \/ tx'.pc = tx.pc
           \/ tx'.pc = tx.pc + 1 /\ tx'.depositor = ZeroAddr
    PROVE  PoolInv'
PROOF
<1>1. TypedActions(tx.proof.actions)
  BY DEF TypeOK, TypedTx, TypedProof
<1>2. WrittenBefore(tx.proof.actions, tx.pc + 1) = WrittenBefore(tx.proof.actions, tx.pc)
  <2> DEFINE s == tx.proof.actions
  <2>1. ~IsWriteOnce(s[tx.pc])
    BY DEF CurrentAction
  <2> HIDE DEF s
  <2>2. WrittenBefore(s, tx.pc + 1) =
            WrittenBefore(s, tx.pc) \cup (IF IsWriteOnce(s[tx.pc]) THEN {s[tx.pc].address} ELSE {})
    BY <1>1, WrittenBeforeNext DEF s
  <2> QED BY <2>1, <2>2 DEF s
<1>3. WrittenBefore(tx'.proof.actions, tx'.pc) = WrittenBefore(tx.proof.actions, tx.pc)
  BY <1>2
<1>4. store' = store /\ proofs' = proofs
  BY DEF applyUnchanged, chainVars
<1>5. tx'.depositor # ZeroAddr =>
          tx'.pc \in 1 .. Len(tx'.proof.actions) /\ ~IsWriteOnce(CurrentAction')
  BY DEF CurrentAction
<1>6. TxInv'
  BY <1>3, <1>4, <1>5 DEF PoolInv, TxInv
<1> QED BY <1>6, ApplyKeepsRest

\* Every step of apply_actions keeps the invariant.
LEMMA ApplyInv ==
    ASSUME TypeOK, PoolInv, apply_step
    PROVE  PoolInv'
PROOF
<1>t. /\ tx = [proof |-> tx.proof, pc |-> tx.pc, store |-> tx.store, channels |-> tx.channels,
               balance |-> tx.balance, undeposited |-> tx.undeposited, subject |-> tx.subject,
               screened |-> tx.screened, depositor |-> tx.depositor, deposits |-> tx.deposits]
      /\ TypedActions(tx.proof.actions) /\ tx.pc \in Nat \ {0} /\ Len(tx.proof.actions) \in Nat
  BY DEF TypeOK, TypedTx, TypedProof, TypedActions
<1>at. ASSUME NEW type, AtAction(type), type # "WriteOnce"
       PROVE  /\ mode = "apply" /\ tx.pc \in 1 .. Len(tx.proof.actions)
              /\ ~IsWriteOnce(CurrentAction) /\ tx.depositor = ZeroAddr
  BY <1>at, <1>t DEF AtAction, CurrentAction, IsWriteOnce
<1>1. ASSUME NEW p \in proofs, start_apply(p) PROVE PoolInv'
  <2>1. /\ tx'.proof = p /\ tx'.pc = 1 /\ tx'.store = store /\ tx'.depositor = ZeroAddr
        /\ UNCHANGED <<chainVars, timeVars, admin, proofs, session>> /\ mode' = "apply"
    BY <1>1 DEF start_apply, NoTx
  <2>2. WrittenBefore(p.actions, 1) = {}
    BY WrittenByFacts DEF TypeOK, TypedChain, TypedProof
  <2>3. store' = store /\ closed' = closed /\ proofs' = proofs /\ applied' = applied
    BY <2>1 DEF chainVars, timeVars
  <2>4. NeedsMet(DOMAIN store)
    BY DEF PoolInv, StorageInv
  <2>5. TxInv'
    BY <1>1, <2>1, <2>2, <2>3, <2>4 DEF TxInv
  <2>6. StorageInv' /\ SessionInv' /\ ProofsInv'
    BY <2>1, <2>3 DEF PoolInv, StorageInv, SessionInv, ProofsInv
  <2> QED BY <2>5, <2>6 DEF PoolInv
<1>2. CASE apply_write_once
  <2> DEFINE a == CurrentAction.address
             before == WrittenBefore(tx.proof.actions, tx.pc)
  <2>1. /\ mode = "apply" /\ applyUnchanged /\ tx.pc \in 1 .. Len(tx.proof.actions)
        /\ IsWriteOnce(CurrentAction) /\ tx.depositor = ZeroAddr
    BY <1>2, <1>t DEF apply_write_once, AtAction, CurrentAction, IsWriteOnce
  <2>2. /\ tx'.proof = tx.proof /\ tx'.pc = tx.pc + 1 /\ tx'.depositor = tx.depositor
        /\ tx'.store = Write(tx.store, a, CurrentAction.value)
        /\ a \notin DOMAIN tx.store
    BY <1>2, <1>t DEF apply_write_once, CanWriteOnce, Written
  <2>3. DOMAIN tx'.store = DOMAIN tx.store \cup {a}
    <3>1. DOMAIN Write(tx.store, a, CurrentAction.value) = DOMAIN tx.store \cup {a}
      BY DEF Write
    <3> QED BY <2>2, <3>1
  <2>4. WrittenBefore(tx'.proof.actions, tx'.pc) = before \cup {a}
    BY <1>t, <2>1, <2>2, WrittenBeforeNext DEF CurrentAction
  <2>5. /\ tx.proof \in proofs /\ DOMAIN tx.store = DOMAIN store \cup before
        /\ before \cap DOMAIN store = {} /\ NeedsMet(DOMAIN tx.store)
    BY <2>1 DEF PoolInv, TxInv
  <2>6. Justified(tx.proof.actions, DOMAIN store)
    BY <2>5 DEF PoolInv, ProofsInv
  <2>7. Needs(a) \subseteq DOMAIN tx.store
    BY <2>1, <2>5, <2>6 DEF Justified, CurrentAction
  <2>8. NeedsMet(DOMAIN tx'.store)
    BY <2>3, <2>5, <2>7 DEF NeedsMet
  <2>9. store' = store /\ proofs' = proofs
    BY <2>1 DEF applyUnchanged, chainVars
  <2>10. TxInv'
    <3> HIDE DEF a, before
    <3> QED BY <2>1, <2>2, <2>3, <2>4, <2>5, <2>8, <2>9 DEF TxInv
  <2> QED BY <2>1, <2>10, ApplyKeepsRest
<1>3. CASE apply_append
  BY <1>3, <1>t, <1>at, ApplyNoWrite DEF apply_append
<1>4. CASE apply_transfer_from
  BY <1>4, <1>t, <1>at, ApplyNoWrite DEF apply_transfer_from
<1>5. CASE apply_transfer_to
  BY <1>5, <1>t, <1>at, ApplyNoWrite DEF apply_transfer_to
<1>6. CASE emit_open_note_created
  BY <1>6, <1>t, <1>at, ApplyNoWrite DEF emit_open_note_created
<1>7. CASE invoke_without_deposits
  BY <1>7, <1>t, <1>at, ApplyNoWrite DEF invoke_without_deposits, AtInvoke
<1>8. ASSUME NEW associated \in SUBSET ContractAddress, invoke_with_deposits(associated)
      PROVE  PoolInv'
  BY <1>8, <1>t, <1>at, ApplyNoWrite DEF invoke_with_deposits, AtInvoke
<1>d. ASSUME mode = "apply", tx.depositor # ZeroAddr
      PROVE  tx.pc \in 1 .. Len(tx.proof.actions) /\ ~IsWriteOnce(CurrentAction)
  BY <1>d DEF PoolInv, TxInv
<1>9. ASSUME NEW n \in NotesOf(tx.store), NEW token \in Token, NEW amount \in Amount,
             deposit_to_open_note(n, token, amount)
      PROVE  PoolInv'
  BY <1>9, <1>t, <1>d, ApplyNoWrite DEF deposit_to_open_note
<1>10. CASE end_deposits
  BY <1>10, <1>t, <1>d, ApplyNoWrite DEF end_deposits
<1>11. CASE finish_apply
  <2> DEFINE acts == tx.proof.actions
  <2>1. /\ mode = "apply" /\ tx.pc > Len(acts) /\ mode' = "idle" /\ store' = tx.store
        /\ applied' = applied \cup {acts} /\ UNCHANGED <<timeVars, admin, proofs, session>>
    BY <1>11 DEF finish_apply
  <2>2. /\ tx.proof \in proofs /\ DOMAIN tx.store = DOMAIN store \cup WrittenBefore(acts, tx.pc)
        /\ NeedsMet(DOMAIN tx.store)
    BY <2>1 DEF PoolInv, TxInv
  <2>3. WrittenBefore(acts, tx.pc) = WrittenBy(acts)
    BY <1>t, <2>1, WrittenByFacts
  <2>4. AllWellFormed(WrittenBy(acts))
    BY <2>2 DEF PoolInv, ProofsInv
  <2>5. AllWellFormed(DOMAIN store)
    BY DEF PoolInv, StorageInv
  <2>6. closed' = closed /\ proofs' = proofs
    BY <2>1 DEF timeVars
  <2>7. DOMAIN store' = DOMAIN store \cup WrittenBy(acts)
    BY <2>1, <2>2, <2>3
  <2>8. AllWellFormed(DOMAIN store')
    BY <2>4, <2>5, <2>7 DEF AllWellFormed
  <2>9. StorageInv'
    BY <2>1, <2>2, <2>6, <2>7, <2>8 DEF PoolInv, StorageInv
  <2>10. ProofsInv'
    BY <2>6, <2>7, JustifiedMore DEF PoolInv, ProofsInv
  <2>11. SessionInv' /\ TxInv'
    BY <2>1 DEF SessionInv, TxInv
  <2> QED BY <2>9, <2>10, <2>11 DEF PoolInv
<1>12. CASE revert_apply
  BY <1>12 DEF revert_apply, PoolInv, StorageInv, ProofsInv, SessionInv, TxInv, chainVars, timeVars
<1> QED
  BY <1>1, <1>2, <1>3, <1>4, <1>5, <1>6, <1>7, <1>8, <1>9, <1>10, <1>11, <1>12 DEF apply_step

-----------------------------------------------------------------------------
\* An empty pool satisfies the invariant.
LEMMA PoolInvInit == Init => PoolInv
PROOF
<1> SUFFICES ASSUME Init PROVE PoolInv
  OBVIOUS
<1>1. DOMAIN store = {} /\ closed.store = store /\ applied = {} /\ proofs = {} /\ mode = "idle"
  BY DEF Init, InitWith, EmptyStore, Snapshot
<1> QED
  BY <1>1 DEF PoolInv, StorageInv, SessionInv, ProofsInv, TxInv, AllWellFormed, NeedsMet

\* Every step of the pool keeps the invariant.
LEMMA PoolInvNext ==
    ASSUME TypeOK, PoolInv, [Next]_vars
    PROVE  PoolInv'
PROOF
<1> USE DEF PoolInv, StorageInv, SessionInv, ProofsInv, TxInv, CurrentAction, chainVars, timeVars
<1>1. CASE UNCHANGED vars
  BY <1>1 DEF vars
<1>2. ASSUME NEW c \in AdminCalls, admin_call(c) PROVE PoolInv'
  BY <1>2 DEF admin_call
<1>3. ASSUME NEW seconds \in BlockTimes, new_block(seconds) PROVE PoolInv'
  BY <1>3 DEF new_block, Snapshot
<1> QED BY <1>1, <1>2, <1>3, CompileInv, ApplyInv DEF Next

(***************************************************************************)
(* The inductive invariant holds in every reachable state: a proof relies  *)
(* only on entries that stay in storage, however late it is applied.       *)
(***************************************************************************)
THEOREM PoolInvHolds == Spec => [](TypeOK /\ PoolInv)
PROOF
<1>1. Init => TypeOK /\ PoolInv
  BY TypeInit, PoolInvInit
<1>2. TypeOK /\ PoolInv /\ [Next]_vars => (TypeOK /\ PoolInv)'
  BY TypeNext, PoolInvNext
<1> QED BY <1>1, <1>2, PTL DEF Spec

(***************************************************************************)
(* Storage never has a dangling entry, although the order of channels,     *)
(* subchannels and notes is checked only when compiling (open_channel,     *)
(* open_subchannel, _prepare_note_creation, use_note) and never by         *)
(* apply_actions.                                                          *)
(***************************************************************************)
THEOREM StorageIsSound == Spec => []NoDanglingEntry
PROOF
<1>1. PoolInv => NoDanglingEntry
  BY DEF PoolInv, StorageInv, NeedsMet, NoDanglingEntry
<1> QED BY <1>1, PoolInvHolds, PTL

(***************************************************************************)
(* No note has two nullifiers: the compiler's canonical key check and the  *)
(* write-once nullifiers rule out a second spend of a note, also by two    *)
(* proofs compiled over the same block (use_note, _apply_write_once).      *)
(***************************************************************************)
THEOREM SpendOnce == Spec => []NoDoubleSpend
PROOF
<1>1. TypeOK /\ PoolInv => NoDoubleSpend
  <2> SUFFICES ASSUME TypeOK, PoolInv,
                      NEW m \in DOMAIN store, NEW n \in DOMAIN store,
                      MapOf(m) = "nullifiers", MapOf(n) = "nullifiers",
                      m[2] = n[2], m[3] = n[3], m[4] = n[4]
               PROVE  m = n
    BY DEF NoDoubleSpend
  <2>1. ASSUME NEW a \in DOMAIN store, MapOf(a) = "nullifiers" PROVE a \in Nullifier
    <3>1. TypedWrite(a, store[a])
      BY DEF TypeOK, TypedChain, TypedStore
    <3> QED
      BY <2>1, <3>1 DEF TypedWrite, MapOf, PublicKeyEntry, EncPrivateKeyEntry, ChannelMarker,
                        OutgoingChannelId, SubchannelId, SubchannelMarker, NoteId, Nullifier
  <2>2. m \in Nullifier /\ n \in Nullifier
    BY <2>1
  <2>3. WellFormed(m) /\ WellFormed(n)
    BY DEF PoolInv, StorageInv, AllWellFormed
  <2>4. /\ m[5] \in PrivateKey /\ n[5] \in PrivateKey
        /\ is_canonical_key(m[5]) /\ is_canonical_key(n[5])
        /\ derive_public_key(m[5]) = derive_public_key(n[5])
    BY <2>2, <2>3 DEF WellFormed, Nullifier
  <2>5. m[5] = n[5]
    BY <2>4, CanonicalKeyInjective
  <2> QED BY <2>2, <2>5 DEF Nullifier
<1> QED BY <1>1, PoolInvHolds, PTL

(***************************************************************************)
(* A proof takes effect at most once: a transaction that got past its last *)
(* action is not one applied before (main's replay protection).            *)
(***************************************************************************)
THEOREM NoReplay == Spec => []AppliedOnce
PROOF
<1>1. TypeOK /\ PoolInv => AppliedOnce
  <2> SUFFICES ASSUME TypeOK, PoolInv, mode = "apply", tx.pc > Len(tx.proof.actions),
                      tx.proof.actions \in applied
               PROVE  FALSE
    BY DEF AppliedOnce
  <2>1. TypedActions(tx.proof.actions) /\ tx.pc \in Nat
    BY DEF TypeOK, TypedTx, TypedProof
  <2>2. WrittenBefore(tx.proof.actions, tx.pc) = WrittenBy(tx.proof.actions)
    BY <2>1, WrittenByFacts
  <2>3. WrittenBy(tx.proof.actions) # {} /\ WrittenBy(tx.proof.actions) \subseteq DOMAIN store
    BY DEF PoolInv, TxInv, ProofsInv, StorageInv
  <2>4. WrittenBefore(tx.proof.actions, tx.pc) \cap DOMAIN store = {}
    BY DEF PoolInv, TxInv
  <2> QED BY <2>2, <2>3, <2>4
<1> QED BY <1>1, PoolInvHolds, PTL
=============================================================================
