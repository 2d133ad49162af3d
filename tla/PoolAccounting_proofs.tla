----------------------- MODULE PoolAccounting_proofs -----------------------
(***************************************************************************)
(* Every note the pool holds can be found, spent and paid for: proofs that *)
(* EntriesInv and then BooksInv are inductive, and of the properties they  *)
(* imply.                                                                  *)
(***************************************************************************)
EXTENDS PoolAccounting, PoolInvariant_proofs, FiniteSetTheorems

-----------------------------------------------------------------------------
(***************************************************************************)
(* Facts about entries.                                                    *)
(***************************************************************************)

\* The map an address is in fixes its layout and that of its value.
LEMMA KindOf ==
    ASSUME NEW a, NEW v, TypedWrite(a, v)
    PROVE  /\ MapOf(a) = "public_key" => a \in PublicKeyEntry /\ v \in [public_key : PublicKey]
           /\ MapOf(a) = "enc_private_key" => a \in EncPrivateKeyEntry
           /\ MapOf(a) = "channel_exists" => a \in ChannelMarker /\ v \in [exists : {TRUE}]
           /\ MapOf(a) = "outgoing_channels" =>
                  a \in OutgoingChannelId /\ v \in [recipient_addr : ContractAddress]
           /\ MapOf(a) = "subchannel_tokens" => a \in SubchannelId /\ v \in [token : Token]
           /\ MapOf(a) = "subchannel_exists" => a \in SubchannelMarker /\ v \in [exists : {TRUE}]
           /\ MapOf(a) = "notes" => a \in NoteId /\ v \in Note
           /\ MapOf(a) = "nullifiers" => a \in Nullifier
           /\ MapOf(a) \in {"public_key", "enc_private_key", "channel_exists",
                            "outgoing_channels", "subchannel_tokens", "subchannel_exists",
                            "notes", "nullifiers"}
BY DEF TypedWrite, MapOf, PublicKeyEntry, EncPrivateKeyEntry, ChannelMarker, OutgoingChannelId,
       SubchannelId, SubchannelMarker, NoteId, Nullifier

\* The parts of the addresses that other entries are compared with.
LEMMA MarkerFacts ==
    /\ \A ck : MapOf(ChannelMarkerOf(ck)) = "channel_exists" /\ ChannelMarkerOf(ck)[2] = ck
    /\ \A ck, t : /\ MapOf(SubchannelMarkerOf(ck, t)) = "subchannel_exists"
                  /\ SubchannelMarkerOf(ck, t)[2] = ck /\ SubchannelMarkerOf(ck, t)[5] = t
    /\ \A ck : /\ Writes(MarkChannel(ck), "channel_exists")
               /\ MarkChannel(ck).address = ChannelMarkerOf(ck)
               /\ MarkChannel(ck).value = [exists |-> TRUE]
    /\ \A ck, t : /\ Writes(MarkSubchannel(ck, t), "subchannel_exists")
                  /\ MarkSubchannel(ck, t).address = SubchannelMarkerOf(ck, t)
                  /\ MarkSubchannel(ck, t).value = [exists |-> TRUE]
    /\ \A u : MapOf(public_key_entry(u)) = "public_key" /\ public_key_entry(u)[2] = u
    /\ \A u : MapOf(enc_private_key_entry(u)) = "enc_private_key"
BY DEF ChannelMarkerOf, SubchannelMarkerOf, MarkChannel, MarkSubchannel, compute_channel_marker,
       compute_subchannel_marker, MapOf, Writes, WriteOnce, IsWriteOnce, public_key_entry,
       enc_private_key_entry

\* A channel key is the tuple of its fields.
LEMMA ChannelKeyOf ==
    ASSUME NEW ck \in ChannelKey
    PROVE  /\ ck = <<SenderOf(ck), SenderKeyOf(ck), RecipientOf(ck), RecipientPubOf(ck)>>
           /\ SenderOf(ck) \in ContractAddress /\ SenderKeyOf(ck) \in PrivateKey
           /\ RecipientOf(ck) \in ContractAddress /\ RecipientPubOf(ck) \in PublicKey
BY DEF ChannelKey, SenderOf, SenderKeyOf, RecipientOf, RecipientPubOf

\* The actions that complete what the action before them began.
Completes(x) ==
    Writes(x, "channel_exists") \/ Writes(x, "outgoing_channels") \/ Writes(x, "subchannel_exists")

\* st2 is st with the new entry v at a.
Adds(st, st2, a, v) ==
    /\ a \notin DOMAIN st
    /\ DOMAIN st2 = DOMAIN st \cup {a}
    /\ st2[a] = v
    /\ \A z \in DOMAIN st : st2[z] = st[z]

\* Registrations stay: they depend on one entry of the map of public keys.
LEMMA RegisteredStays ==
    ASSUME NEW st, NEW st2, DOMAIN st \subseteq DOMAIN st2,
           \A a \in DOMAIN st : MapOf(a) # "notes" => st2[a] = st[a]
    PROVE  /\ \A u : IsRegistered(st, u) =>
                  IsRegistered(st2, u) /\ RegisteredKey(st2, u) = RegisteredKey(st, u)
           /\ \A u, k : RegisteredAs(st, u, k) => RegisteredAs(st2, u, k)
BY MarkerFacts DEF IsRegistered, RegisteredKey, RegisteredAs, Written

-----------------------------------------------------------------------------
(***************************************************************************)
(* Storage and lists keep agreeing: one lemma per kind of action.          *)
(***************************************************************************)

\* Nothing that the lists depend on is added.
LEMMA SoundFrame ==
    ASSUME NEW st, NEW st2, NEW ch, NEW x, NEW y, Sound(st, ch, x),
           ~Completes(x), ~Completes(y),
           DOMAIN st \subseteq DOMAIN st2,
           \A a \in DOMAIN st : MapOf(a) # "notes" => st2[a] = st[a],
           \A a \in DOMAIN st2 \ DOMAIN st :
               MapOf(a) \in {"public_key", "enc_private_key", "notes", "nullifiers"},
           RegisteredUsable(st2)
    PROVE  Sound(st2, ch, y)
PROOF
<1>r. /\ \A u : IsRegistered(st, u) =>
                  IsRegistered(st2, u) /\ RegisteredKey(st2, u) = RegisteredKey(st, u)
      /\ \A u, k : RegisteredAs(st, u, k) => RegisteredAs(st2, u, k)
  BY RegisteredStays
<1>m. /\ \A ck : x # MarkChannel(ck) /\ MapOf(ChannelMarkerOf(ck)) = "channel_exists"
      /\ \A ck, t : x # MarkSubchannel(ck, t)
                    /\ MapOf(SubchannelMarkerOf(ck, t)) = "subchannel_exists"
  BY MarkerFacts DEF Completes
<1>e. ASSUME NEW a \in DOMAIN st2, MapOf(a) \in {"channel_exists", "outgoing_channels",
                                                 "subchannel_tokens", "subchannel_exists"}
      PROVE  a \in DOMAIN st /\ st2[a] = st[a]
  BY <1>e
<1>o. \A s, k, r : Outgoing(st2, s, k, r) = Outgoing(st, s, k, r)
  BY <1>e DEF Outgoing
<1>1. ChannelsListed(st2, ch, y)
  BY <1>r, <1>e, <1>o DEF Sound, ChannelsListed, Completes
<1>2. SubchannelsListed(st2)
  BY <1>e DEF Sound, SubchannelsListed
<1>3. InboxMarked(st2, ch, y)
  BY <1>m DEF Sound, InboxMarked, Written
<1>4. OutgoingMarked(st2)
  BY <1>r, <1>e DEF Sound, OutgoingMarked, Written
<1>5. TokensMarked(st2, y)
  BY <1>e, <1>m DEF Sound, TokensMarked, Written
<1>6. InboxUnique(ch)
  BY DEF Sound
<1>7. OutgoingUnique(st2, y)
  BY <1>e, <1>o DEF Sound, OutgoingUnique, Completes
<1>8. TokensUnique(st2)
  BY <1>e DEF Sound, TokensUnique
<1>9. Awaited(st2, ch, y)
  BY DEF Awaited, Completes
<1> QED BY <1>1, <1>2, <1>3, <1>4, <1>5, <1>6, <1>7, <1>8, <1>9 DEF Sound

\* A channel is appended to its recipient's list; its marker is next.
LEMMA SoundAppend ==
    ASSUME NEW st, NEW ch, NEW ch2, NEW x, NEW y, NEW ck \in ChannelKey,
           Sound(st, ch, x), x.type = "Append", y = MarkChannel(ck),
           ch \in [ContractAddress -> Seq(ChannelInfo)],
           ch2 = [ch EXCEPT ![RecipientOf(ck)] = Append(@, ChannelInfoOf(ck))],
           ~Written(st, ChannelMarkerOf(ck))
    PROVE  Sound(st, ch2, y)
PROOF
<1> DEFINE r == RecipientOf(ck)
           n == Len(ch[r]) + 1
<1>k. r \in ContractAddress /\ ch[r] \in Seq(ChannelInfo)
  BY ChannelKeyOf
<1>i. ChannelInfoOf(ck) \in ChannelInfo /\ ChannelInfoOf(ck).channel_key = ck
  BY ChannelKeyOf DEF ChannelInfoOf, ChannelInfo
<1>a. /\ DOMAIN ch2[r] = DOMAIN ch[r] \cup {n} /\ n \notin DOMAIN ch[r]
      /\ ch2[r][n] = ChannelInfoOf(ck) /\ \A i \in DOMAIN ch[r] : ch2[r][i] = ch[r][i]
  <2>1. ch2[r] = Append(ch[r], ChannelInfoOf(ck))
    BY <1>k
  <2>2. /\ Append(ch[r], ChannelInfoOf(ck)) \in Seq(ChannelInfo)
        /\ Len(Append(ch[r], ChannelInfoOf(ck))) = n
        /\ Append(ch[r], ChannelInfoOf(ck))[n] = ChannelInfoOf(ck)
        /\ \A i \in 1 .. Len(ch[r]) : Append(ch[r], ChannelInfoOf(ck))[i] = ch[r][i]
    BY <1>k, <1>i, AppendProperties
  <2> QED BY <1>k, <2>1, <2>2, SMT
<1>b. \A q \in ContractAddress : q # r => ch2[q] = ch[q]
  BY <1>k
<1> HIDE DEF r, n
<1>m. /\ \A c : x # MarkChannel(c)
      /\ \A c, t : x # MarkSubchannel(c, t) /\ y # MarkSubchannel(c, t)
      /\ ~Completes(x) /\ Writes(y, "channel_exists") /\ y.address[2] = ck
      /\ ~Writes(y, "outgoing_channels") /\ ~Writes(y, "subchannel_exists")
  BY MarkerFacts DEF Completes, Writes, IsWriteOnce
<1>l. \A q \in ContractAddress : \A i \in DOMAIN ch[q] :
         i \in DOMAIN ch2[q] /\ ch2[q][i] = ch[q][i]
  BY <1>a, <1>b
<1>1. ChannelsListed(st, ch2, y)
  <2> SUFFICES ASSUME NEW a \in DOMAIN st, MapOf(a) = "channel_exists"
               PROVE  \E i \in DOMAIN ch2[RecipientOf(a[2])] :
                          ch2[RecipientOf(a[2])][i] = ChannelInfoOf(a[2])
    BY <1>m DEF Sound, ChannelsListed, Completes
  <2>1. PICK i \in DOMAIN ch[RecipientOf(a[2])] :
                 ch[RecipientOf(a[2])][i] = ChannelInfoOf(a[2])
    BY DEF Sound, ChannelsListed
  <2>2. CASE RecipientOf(a[2]) \in ContractAddress
    BY <1>l, <2>1, <2>2
  <2>3. CASE RecipientOf(a[2]) \notin ContractAddress
    BY <1>k, <2>1, <2>3
  <2> QED BY <2>2, <2>3
<1>2. InboxMarked(st, ch2, y)
  <2> SUFFICES ASSUME NEW q \in ContractAddress, NEW i \in DOMAIN ch2[q]
               PROVE  LET c == ch2[q][i].channel_key
                      IN  q = RecipientOf(c) /\ (Written(st, ChannelMarkerOf(c)) \/ y = MarkChannel(c))
    BY DEF InboxMarked
  <2>1. CASE i \in DOMAIN ch[q]
    BY <1>l, <1>m, <2>1 DEF Sound, InboxMarked
  <2>2. CASE i \notin DOMAIN ch[q]
    BY <1>a, <1>b, <1>i, <2>2 DEF r
  <2> QED BY <2>1, <2>2
<1>3. InboxUnique(ch2)
  <2>1. \A i \in DOMAIN ch[r] : ch[r][i].channel_key # ck
    BY <1>k, <1>m DEF Sound, InboxMarked
  <2> SUFFICES ASSUME NEW q \in ContractAddress, NEW i \in DOMAIN ch2[q], NEW j \in DOMAIN ch2[q],
                      ch2[q][i].channel_key = ch2[q][j].channel_key
               PROVE  i = j
    BY DEF InboxUnique
  <2>2. CASE q = r
    BY <1>a, <1>i, <1>k, <2>1, <2>2 DEF Sound, InboxUnique
  <2>3. CASE q # r
    BY <1>b, <2>3 DEF Sound, InboxUnique
  <2> QED BY <2>2, <2>3
<1>4. OutgoingUnique(st, y)
  BY <1>m DEF Sound, OutgoingUnique
<1>5. TokensMarked(st, y)
  BY <1>m DEF Sound, TokensMarked
<1>6. Awaited(st, ch2, y)
  BY <1>a, <1>m DEF Awaited, r
<1> QED BY <1>1, <1>2, <1>3, <1>4, <1>5, <1>6 DEF Sound

\* A new entry leaves the registrations and the other maps as they are.
LEMMA AddsKeeps ==
    ASSUME NEW st, NEW st2, NEW a, NEW v, Adds(st, st2, a, v), MapOf(a) # "public_key"
    PROVE  /\ \A u : IsRegistered(st, u) <=> IsRegistered(st2, u)
           /\ \A u : IsRegistered(st, u) => RegisteredKey(st2, u) = RegisteredKey(st, u)
           /\ \A u, k : RegisteredAs(st, u, k) => RegisteredAs(st2, u, k)
           /\ RegisteredUsable(st) => RegisteredUsable(st2)
           /\ MapOf(a) # "outgoing_channels" =>
                  \A s, k, r : Outgoing(st2, s, k, r) = Outgoing(st, s, k, r)
BY MarkerFacts
   DEF Adds, IsRegistered, RegisteredKey, RegisteredAs, RegisteredUsable, Outgoing, Written

\* The marker of a listed channel is written; the sender's own list is next.
LEMMA SoundMarker ==
    ASSUME NEW st, NEW st2, NEW ch, NEW x, NEW y, NEW ck \in ChannelKey, TypedStore(st),
           Sound(st, ch, x), x = MarkChannel(ck), Adds(st, st2, x.address, x.value),
           RegisteredAs(st, RecipientOf(ck), RecipientPubOf(ck)),
           Writes(y, "outgoing_channels"),
           y.address[2] = SenderOf(ck), y.address[3] = SenderKeyOf(ck),
           y.value.recipient_addr = RecipientOf(ck)
    PROVE  Sound(st2, ch, y)
PROOF
<1>x. /\ x.address = ChannelMarkerOf(ck) /\ MapOf(x.address) = "channel_exists"
      /\ x.address[2] = ck /\ Writes(x, "channel_exists")
  BY MarkerFacts
<1>m. /\ \A c : x = MarkChannel(c) => ChannelMarkerOf(c) = x.address
      /\ \A c, t : x # MarkSubchannel(c, t)
      /\ ~Writes(x, "outgoing_channels")
      /\ ~Writes(y, "channel_exists") /\ ~Writes(y, "subchannel_exists")
  BY <1>x, MarkerFacts DEF Writes
<1>k. /\ \A u : IsRegistered(st, u) <=> IsRegistered(st2, u)
      /\ \A u : IsRegistered(st, u) => RegisteredKey(st2, u) = RegisteredKey(st, u)
      /\ \A u, k : RegisteredAs(st, u, k) => RegisteredAs(st2, u, k)
      /\ RegisteredUsable(st2)
      /\ \A s, k, r : Outgoing(st2, s, k, r) = Outgoing(st, s, k, r)
  BY <1>x, AddsKeeps DEF Sound
<1>e. ASSUME NEW a \in DOMAIN st2, a # x.address
      PROVE  a \in DOMAIN st /\ st2[a] = st[a]
  BY <1>e DEF Adds
<1>f. \A a \in DOMAIN st : a \in DOMAIN st2 /\ st2[a] = st[a]
  BY DEF Adds
<1>1. ChannelsListed(st2, ch, y)
  <2> SUFFICES ASSUME NEW a \in DOMAIN st2, MapOf(a) = "channel_exists"
               PROVE  /\ \E i \in DOMAIN ch[RecipientOf(a[2])] :
                             ch[RecipientOf(a[2])][i] = ChannelInfoOf(a[2])
                      /\ RegisteredAs(st2, RecipientOf(a[2]), RecipientPubOf(a[2]))
                      /\ \/ Outgoing(st2, SenderOf(a[2]), SenderKeyOf(a[2]),
                                     RecipientOf(a[2])) # {}
                         \/ /\ Writes(y, "outgoing_channels")
                            /\ y.address[2] = SenderOf(a[2]) /\ y.address[3] = SenderKeyOf(a[2])
                            /\ y.value.recipient_addr = RecipientOf(a[2])
    BY DEF ChannelsListed
  <2>1. CASE a = x.address
    BY <1>x, <1>k, <2>1 DEF Sound, Awaited
  <2>2. CASE a # x.address
    BY <1>e, <1>k, <1>m, <2>2 DEF Sound, ChannelsListed
  <2> QED BY <2>1, <2>2
<1>2. SubchannelsListed(st2)
  BY <1>e, <1>f, <1>x DEF Sound, SubchannelsListed
<1>3. InboxMarked(st2, ch, y)
  BY <1>f, <1>m DEF Sound, InboxMarked, Written, Adds
<1>4. OutgoingMarked(st2)
  BY <1>e, <1>f, <1>k, <1>x DEF Sound, OutgoingMarked, Written
<1>5. TokensMarked(st2, y)
  BY <1>e, <1>f, <1>m, <1>x DEF Sound, TokensMarked, Written
<1>6. OutgoingUnique(st2, y)
  <2> SUFFICES ASSUME NEW a \in DOMAIN st, MapOf(a) = "outgoing_channels",
                      y.address[2] = a[2], y.address[3] = a[3],
                      y.value.recipient_addr = st[a].recipient_addr
               PROVE  FALSE
    BY <1>e, <1>k, <1>x DEF Sound, OutgoingUnique
  <2>1. Written(st, ChannelMarkerOf(<<a[2], a[3], st[a].recipient_addr,
                                      RegisteredKey(st, st[a].recipient_addr)>>))
    BY DEF Sound, OutgoingMarked
  <2>2. <<a[2], a[3], st[a].recipient_addr, RegisteredKey(st, st[a].recipient_addr)>> = ck
    BY ChannelKeyOf DEF RegisteredAs
  <2> QED BY <1>x, <2>1, <2>2 DEF Written, Adds
<1>7. TokensUnique(st2)
  BY <1>e, <1>x DEF Sound, TokensUnique
<1>8. Awaited(st2, ch, y)
  BY <1>m, <1>x DEF Awaited, Adds
<1>9. InboxUnique(ch)
  BY DEF Sound
<1> QED BY <1>1, <1>2, <1>3, <1>4, <1>5, <1>6, <1>7, <1>8, <1>9, <1>k DEF Sound

\* The sender's own list gets the recipient of a marked channel.
LEMMA SoundOutgoing ==
    ASSUME NEW st, NEW st2, NEW ch, NEW x, NEW y, TypedStore(st), Sound(st, ch, x),
           Writes(x, "outgoing_channels"), Adds(st, st2, x.address, x.value), ~Completes(y)
    PROVE  Sound(st2, ch, y)
PROOF
<1>m. /\ \A c : x # MarkChannel(c)
      /\ \A c, t : x # MarkSubchannel(c, t)
      /\ MapOf(x.address) = "outgoing_channels"
  BY MarkerFacts DEF Writes
<1>k. /\ \A u : IsRegistered(st, u) <=> IsRegistered(st2, u)
      /\ \A u : IsRegistered(st, u) => RegisteredKey(st2, u) = RegisteredKey(st, u)
      /\ \A u, k : RegisteredAs(st, u, k) => RegisteredAs(st2, u, k)
      /\ RegisteredUsable(st2)
  BY <1>m, AddsKeeps DEF Sound
<1>e. ASSUME NEW a \in DOMAIN st2, a # x.address
      PROVE  a \in DOMAIN st /\ st2[a] = st[a]
  BY <1>e DEF Adds
<1>f. \A a \in DOMAIN st : a \in DOMAIN st2 /\ st2[a] = st[a]
  BY DEF Adds
<1>g. x.address \in DOMAIN st2 /\ st2[x.address] = x.value /\ x.address \notin DOMAIN st
  BY DEF Adds
<1>1. ChannelsListed(st2, ch, y)
  <2> SUFFICES ASSUME NEW a \in DOMAIN st, MapOf(a) = "channel_exists"
               PROVE  /\ RegisteredAs(st2, RecipientOf(a[2]), RecipientPubOf(a[2]))
                      /\ Outgoing(st2, SenderOf(a[2]), SenderKeyOf(a[2]), RecipientOf(a[2])) # {}
    BY <1>e, <1>m DEF Sound, ChannelsListed
  <2>1. RegisteredAs(st2, RecipientOf(a[2]), RecipientPubOf(a[2]))
    BY <1>k DEF Sound, ChannelsListed
  <2>2. CASE Outgoing(st, SenderOf(a[2]), SenderKeyOf(a[2]), RecipientOf(a[2])) # {}
    BY <1>f, <2>1, <2>2 DEF Outgoing
  <2>3. CASE /\ x.address[2] = SenderOf(a[2]) /\ x.address[3] = SenderKeyOf(a[2])
             /\ x.value.recipient_addr = RecipientOf(a[2])
    BY <1>g, <1>m, <2>1, <2>3 DEF Outgoing
  <2> QED BY <2>2, <2>3 DEF Sound, ChannelsListed
<1>2. SubchannelsListed(st2)
  BY <1>e, <1>f, <1>m DEF Sound, SubchannelsListed
<1>3. InboxMarked(st2, ch, y)
  BY <1>f, <1>m DEF Sound, InboxMarked, Written
<1>4. OutgoingMarked(st2)
  <2> SUFFICES ASSUME NEW a \in DOMAIN st2, MapOf(a) = "outgoing_channels"
               PROVE  /\ IsRegistered(st2, st2[a].recipient_addr)
                      /\ Written(st2, ChannelMarkerOf(<<a[2], a[3], st2[a].recipient_addr,
                                          RegisteredKey(st2, st2[a].recipient_addr)>>))
    BY DEF OutgoingMarked
  <2>1. CASE a # x.address
    BY <1>e, <1>f, <1>k, <2>1 DEF Sound, OutgoingMarked, Written
  <2>2. CASE a = x.address
    <3>1. PICK b \in DOMAIN st : /\ MapOf(b) = "channel_exists"
                                 /\ x.address[2] = SenderOf(b[2])
                                 /\ x.address[3] = SenderKeyOf(b[2])
                                 /\ x.value.recipient_addr = RecipientOf(b[2])
      BY DEF Sound, Awaited
    <3>2. b[2] \in ChannelKey /\ b \in ChannelMarker
      BY <3>1, KindOf DEF TypedStore, ChannelMarker
    <3>3. RegisteredAs(st, RecipientOf(b[2]), RecipientPubOf(b[2]))
      BY <3>1 DEF Sound, ChannelsListed
    <3>4. RegisteredKey(st2, RecipientOf(b[2])) = RecipientPubOf(b[2])
      BY <1>k, <3>3 DEF RegisteredAs
    <3>5. <<a[2], a[3], st2[a].recipient_addr, RegisteredKey(st2, st2[a].recipient_addr)>> = b[2]
      BY <1>g, <2>2, <3>1, <3>2, <3>4, ChannelKeyOf
    <3>6. PICK i \in DOMAIN ch[RecipientOf(b[2])] :
                   ch[RecipientOf(b[2])][i] = ChannelInfoOf(b[2])
      BY <3>1 DEF Sound, ChannelsListed
    <3>7. Written(st, ChannelMarkerOf(b[2]))
      BY <1>m, <3>2, <3>6, ChannelKeyOf DEF Sound, InboxMarked, ChannelInfoOf
    <3> QED BY <1>f, <1>g, <1>k, <2>2, <3>1, <3>3, <3>5, <3>7 DEF Written, RegisteredAs
  <2> QED BY <2>1, <2>2
<1>5. TokensMarked(st2, y)
  BY <1>e, <1>f, <1>m DEF Sound, TokensMarked, Written
<1>6. OutgoingUnique(st2, y)
  <2> SUFFICES ASSUME NEW a \in DOMAIN st2, MapOf(a) = "outgoing_channels",
                      NEW b \in DOMAIN st2, MapOf(b) = "outgoing_channels",
                      a[2] = b[2], a[3] = b[3], st2[a].recipient_addr = st2[b].recipient_addr
               PROVE  a = b
    BY DEF OutgoingUnique, Completes, Outgoing
  <2>1. CASE a # x.address /\ b # x.address
    BY <1>e, <2>1 DEF Sound, OutgoingUnique, Outgoing
  <2>2. CASE a = x.address /\ b # x.address
    BY <1>e, <1>g, <2>2 DEF Sound, OutgoingUnique
  <2>3. CASE a # x.address /\ b = x.address
    BY <1>e, <1>g, <2>3 DEF Sound, OutgoingUnique
  <2> QED BY <2>1, <2>2, <2>3
<1>7. TokensUnique(st2)
  BY <1>e, <1>m DEF Sound, TokensUnique
<1>8. Awaited(st2, ch, y)
  BY DEF Awaited, Completes
<1>9. InboxUnique(ch)
  BY DEF Sound
<1> QED BY <1>1, <1>2, <1>3, <1>4, <1>5, <1>6, <1>7, <1>8, <1>9, <1>k DEF Sound

\* A token is listed in its channel; its marker is next.
LEMMA SoundToken ==
    ASSUME NEW st, NEW st2, NEW ch, NEW x, NEW y, Sound(st, ch, x),
           Writes(x, "subchannel_tokens"), Adds(st, st2, x.address, x.value),
           y = MarkSubchannel(x.address[2], x.value.token),
           ~Written(st2, SubchannelMarkerOf(x.address[2], x.value.token))
    PROVE  Sound(st2, ch, y)
PROOF
<1>m. /\ \A c : x # MarkChannel(c) /\ MapOf(ChannelMarkerOf(c)) = "channel_exists"
      /\ \A c, t : x # MarkSubchannel(c, t)
      /\ MapOf(x.address) = "subchannel_tokens" /\ ~Completes(x)
      /\ Writes(y, "subchannel_exists") /\ ~Writes(y, "outgoing_channels")
      /\ ~Writes(y, "channel_exists")
      /\ y.address[2] = x.address[2] /\ y.address[5] = x.value.token
  BY MarkerFacts DEF Writes, Completes
<1>k. /\ \A u : IsRegistered(st, u) <=> IsRegistered(st2, u)
      /\ \A u : IsRegistered(st, u) => RegisteredKey(st2, u) = RegisteredKey(st, u)
      /\ \A u, k : RegisteredAs(st, u, k) => RegisteredAs(st2, u, k)
      /\ RegisteredUsable(st2)
      /\ \A s, k, r : Outgoing(st2, s, k, r) = Outgoing(st, s, k, r)
  BY <1>m, AddsKeeps DEF Sound
<1>e. ASSUME NEW a \in DOMAIN st2, a # x.address
      PROVE  a \in DOMAIN st /\ st2[a] = st[a]
  BY <1>e DEF Adds
<1>f. \A a \in DOMAIN st : a \in DOMAIN st2 /\ st2[a] = st[a]
  BY DEF Adds
<1>g. x.address \in DOMAIN st2 /\ st2[x.address] = x.value /\ x.address \notin DOMAIN st
  BY DEF Adds
<1>1. ChannelsListed(st2, ch, y)
  BY <1>e, <1>k, <1>m DEF Sound, ChannelsListed, Completes
<1>2. SubchannelsListed(st2)
  BY <1>e, <1>f, <1>m DEF Sound, SubchannelsListed
<1>3. InboxMarked(st2, ch, y)
  BY <1>f, <1>m DEF Sound, InboxMarked, Written
<1>4. OutgoingMarked(st2)
  <2> SUFFICES ASSUME NEW a \in DOMAIN st, MapOf(a) = "outgoing_channels", st2[a] = st[a]
               PROVE  /\ IsRegistered(st2, st[a].recipient_addr)
                      /\ Written(st2, ChannelMarkerOf(<<a[2], a[3], st[a].recipient_addr,
                                          RegisteredKey(st2, st[a].recipient_addr)>>))
    BY <1>e, <1>m DEF OutgoingMarked
  <2> QED BY <1>f, <1>k DEF Sound, OutgoingMarked, Written
<1>5. TokensMarked(st2, y)
  <2> SUFFICES ASSUME NEW a \in DOMAIN st2, MapOf(a) = "subchannel_tokens"
               PROVE  \/ Written(st2, SubchannelMarkerOf(a[2], st2[a].token))
                      \/ y = MarkSubchannel(a[2], st2[a].token)
    BY DEF TokensMarked
  <2>1. CASE a = x.address
    BY <1>g, <2>1
  <2>2. CASE a # x.address
    BY <1>e, <1>f, <1>m, <2>2 DEF Sound, TokensMarked, Written
  <2> QED BY <2>1, <2>2
<1>6. OutgoingUnique(st2, y)
  BY <1>e, <1>k, <1>m DEF Sound, OutgoingUnique
<1>7. TokensUnique(st2)
  <2>1. ASSUME NEW b \in DOMAIN st, MapOf(b) = "subchannel_tokens", b[2] = x.address[2],
               st[b].token = x.value.token
        PROVE  FALSE
    BY <1>f, <1>m, <2>1 DEF Sound, TokensMarked, Written
  <2> SUFFICES ASSUME NEW a \in DOMAIN st2, NEW b \in DOMAIN st2,
                      MapOf(a) = "subchannel_tokens", MapOf(b) = "subchannel_tokens",
                      a[2] = b[2], st2[a].token = st2[b].token
               PROVE  a = b
    BY DEF TokensUnique
  <2>2. CASE a # x.address /\ b # x.address
    BY <1>e, <2>2 DEF Sound, TokensUnique
  <2>3. CASE a = x.address /\ b # x.address
    BY <1>e, <1>g, <2>1, <2>3
  <2>4. CASE a # x.address /\ b = x.address
    BY <1>e, <1>g, <2>1, <2>4
  <2> QED BY <2>2, <2>3, <2>4
<1>8. Awaited(st2, ch, y)
  BY <1>g, <1>m DEF Awaited
<1>9. InboxUnique(ch)
  BY DEF Sound
<1> QED BY <1>1, <1>2, <1>3, <1>4, <1>5, <1>6, <1>7, <1>8, <1>9, <1>k DEF Sound

\* The marker of a listed token is written.
LEMMA SoundSubchannel ==
    ASSUME NEW st, NEW st2, NEW ch, NEW x, NEW y, Sound(st, ch, x),
           Writes(x, "subchannel_exists"), Adds(st, st2, x.address, x.value), ~Completes(y)
    PROVE  Sound(st2, ch, y)
PROOF
<1>m. /\ \A c : x # MarkChannel(c) /\ MapOf(ChannelMarkerOf(c)) = "channel_exists"
      /\ \A c, t : x = MarkSubchannel(c, t) => x.address = SubchannelMarkerOf(c, t)
      /\ MapOf(x.address) = "subchannel_exists" /\ ~Writes(x, "outgoing_channels")
  BY MarkerFacts DEF Writes
<1>k. /\ \A u : IsRegistered(st, u) <=> IsRegistered(st2, u)
      /\ \A u : IsRegistered(st, u) => RegisteredKey(st2, u) = RegisteredKey(st, u)
      /\ \A u, k : RegisteredAs(st, u, k) => RegisteredAs(st2, u, k)
      /\ RegisteredUsable(st2)
      /\ \A s, k, r : Outgoing(st2, s, k, r) = Outgoing(st, s, k, r)
  BY <1>m, AddsKeeps DEF Sound
<1>e. ASSUME NEW a \in DOMAIN st2, a # x.address
      PROVE  a \in DOMAIN st /\ st2[a] = st[a]
  BY <1>e DEF Adds
<1>f. \A a \in DOMAIN st : a \in DOMAIN st2 /\ st2[a] = st[a]
  BY DEF Adds
<1>g. x.address \in DOMAIN st2
  BY DEF Adds
<1>1. ChannelsListed(st2, ch, y)
  BY <1>e, <1>k, <1>m DEF Sound, ChannelsListed
<1>2. SubchannelsListed(st2)
  <2> SUFFICES ASSUME NEW a \in DOMAIN st2, MapOf(a) = "subchannel_exists"
               PROVE  \E b \in DOMAIN st : /\ MapOf(b) = "subchannel_tokens"
                                           /\ b[2] = a[2] /\ st[b].token = a[5]
    BY <1>f DEF SubchannelsListed
  <2>1. CASE a = x.address
    BY <2>1 DEF Sound, Awaited
  <2>2. CASE a # x.address
    BY <1>e, <2>2 DEF Sound, SubchannelsListed
  <2> QED BY <2>1, <2>2
<1>3. InboxMarked(st2, ch, y)
  BY <1>f, <1>m DEF Sound, InboxMarked, Written
<1>4. OutgoingMarked(st2)
  <2> SUFFICES ASSUME NEW a \in DOMAIN st, MapOf(a) = "outgoing_channels", st2[a] = st[a]
               PROVE  /\ IsRegistered(st2, st[a].recipient_addr)
                      /\ Written(st2, ChannelMarkerOf(<<a[2], a[3], st[a].recipient_addr,
                                          RegisteredKey(st2, st[a].recipient_addr)>>))
    BY <1>e, <1>m DEF OutgoingMarked
  <2> QED BY <1>f, <1>k DEF Sound, OutgoingMarked, Written
<1>5. TokensMarked(st2, y)
  BY <1>e, <1>f, <1>g, <1>m DEF Sound, TokensMarked, Written
<1>6. OutgoingUnique(st2, y)
  BY <1>e, <1>k, <1>m DEF Sound, OutgoingUnique, Completes
<1>7. TokensUnique(st2)
  BY <1>e, <1>m DEF Sound, TokensUnique
<1>8. Awaited(st2, ch, y)
  BY DEF Awaited, Completes
<1>9. InboxUnique(ch)
  BY DEF Sound
<1> QED BY <1>1, <1>2, <1>3, <1>4, <1>5, <1>6, <1>7, <1>8, <1>9, <1>k DEF Sound

-----------------------------------------------------------------------------
(***************************************************************************)
(* Lists of server actions.                                                *)
(***************************************************************************)

\* The parts of a concatenation.
LEMMA ConcatParts ==
    ASSUME NEW s, NEW t, TypedActions(s), TypedActions(t)
    PROVE  /\ Len(s) \in Nat /\ Len(t) \in Nat /\ Len(s \o t) = Len(s) + Len(t)
           /\ \A i \in 1 .. Len(s) : i \in 1 .. Len(s \o t) /\ (s \o t)[i] = s[i]
           /\ \A i \in 1 .. Len(t) :
                  Len(s) + i \in 1 .. Len(s \o t) /\ (s \o t)[Len(s) + i] = t[i]
           /\ \A i \in 1 .. Len(s \o t) :
                  i \in 1 .. Len(s) \/ \E m \in 1 .. Len(t) : i = Len(s) + m
PROOF
<1>1. s \in Seq(ServerAction) /\ t \in Seq(ServerAction) /\ Len(s) \in Nat /\ Len(t) \in Nat
  BY DEF TypedActions
<1>2. /\ Len(s \o t) = Len(s) + Len(t)
      /\ \A i \in 1 .. Len(s) : (s \o t)[i] = s[i]
      /\ \A i \in 1 .. Len(t) : (s \o t)[Len(s) + i] = t[i]
  BY <1>1, ConcatProperties, SMT
<1>3. ASSUME NEW i \in 1 .. Len(s \o t), i \notin 1 .. Len(s)
      PROVE  \E m \in 1 .. Len(t) : i = Len(s) + m
  <2>1. i - Len(s) \in 1 .. Len(t) /\ i = Len(s) + (i - Len(s))
    BY <1>1, <1>2, <1>3, SMT
  <2> QED BY <2>1
<1>4. /\ \A i \in 1 .. Len(s) : i \in 1 .. Len(s \o t)
      /\ \A i \in 1 .. Len(t) : Len(s) + i \in 1 .. Len(s \o t)
  BY <1>1, <1>2, SMT
<1> QED BY <1>1, <1>2, <1>3, <1>4

\* The actions of one client action stay together in a longer list.
LEMMA GroupedConcat ==
    ASSUME NEW s, NEW t, TypedActions(s), TypedActions(t), Grouped(s), Grouped(t)
    PROVE  Grouped(s \o t)
PROOF
<1> DEFINE st == s \o t
<1>1. /\ Len(s) \in Nat /\ Len(t) \in Nat /\ Len(st) = Len(s) + Len(t)
      /\ \A i \in 1 .. Len(s) : i \in 1 .. Len(st) /\ st[i] = s[i]
      /\ \A i \in 1 .. Len(t) : Len(s) + i \in 1 .. Len(st) /\ st[Len(s) + i] = t[i]
      /\ \A i \in 1 .. Len(st) : i \in 1 .. Len(s) \/ \E m \in 1 .. Len(t) : i = Len(s) + m
  BY ConcatParts
<1> HIDE DEF st
<1> SUFFICES ASSUME NEW i \in 1 .. Len(st)
             PROVE  /\ Leads(st[i]) => i < Len(st) /\ Linked(st[i], st[i + 1])
                    /\ Follows(st[i]) => i > 1 /\ Linked(st[i - 1], st[i])
  BY DEF Grouped, st
<1>2. CASE i \in 1 .. Len(s)
  <2>1. st[i] = s[i]
    BY <1>1, <1>2
  <2>2. ASSUME Leads(st[i]) PROVE i < Len(st) /\ Linked(st[i], st[i + 1])
    <3>1. i < Len(s) /\ Linked(s[i], s[i + 1])
      BY <1>2, <2>1, <2>2 DEF Grouped
    <3>2. i + 1 \in 1 .. Len(s) /\ i < Len(st)
      BY <1>1, <3>1, SMT
    <3> QED BY <1>1, <2>1, <3>1, <3>2
  <2>3. ASSUME Follows(st[i]) PROVE i > 1 /\ Linked(st[i - 1], st[i])
    <3>1. i > 1 /\ Linked(s[i - 1], s[i])
      BY <1>2, <2>1, <2>3 DEF Grouped
    <3>2. i - 1 \in 1 .. Len(s)
      BY <1>1, <1>2, <3>1, SMT
    <3> QED BY <1>1, <2>1, <3>1, <3>2
  <2> QED BY <2>2, <2>3
<1>3. ASSUME NEW m \in 1 .. Len(t), i = Len(s) + m
      PROVE  /\ Leads(st[i]) => i < Len(st) /\ Linked(st[i], st[i + 1])
             /\ Follows(st[i]) => i > 1 /\ Linked(st[i - 1], st[i])
  <2>1. st[i] = t[m]
    BY <1>1, <1>3
  <2>2. ASSUME Leads(st[i]) PROVE i < Len(st) /\ Linked(st[i], st[i + 1])
    <3>1. m < Len(t) /\ Linked(t[m], t[m + 1])
      BY <2>1, <2>2 DEF Grouped
    <3>2. m + 1 \in 1 .. Len(t) /\ i < Len(st) /\ i + 1 = Len(s) + (m + 1)
      BY <1>1, <1>3, <3>1, SMT
    <3> QED BY <1>1, <2>1, <3>1, <3>2
  <2>3. ASSUME Follows(st[i]) PROVE i > 1 /\ Linked(st[i - 1], st[i])
    <3>1. m > 1 /\ Linked(t[m - 1], t[m])
      BY <2>1, <2>3 DEF Grouped
    <3>2. m - 1 \in 1 .. Len(t) /\ i > 1 /\ i - 1 = Len(s) + (m - 1)
      BY <1>1, <1>3, <3>1, SMT
    <3> QED BY <1>1, <2>1, <3>1, <3>2
  <2> QED BY <2>2, <2>3
<1> QED BY <1>1, <1>2, <1>3

\* What backs a channel stays in storage.
LEMMA BackedMore ==
    ASSUME NEW s, NEW st, NEW st2, Backed(s, st), ContinuesFrom(st2, st)
    PROVE  Backed(s, st2)
PROOF
<1>1. \A u, k : RegisteredAs(st, u, k) => RegisteredAs(st2, u, k)
  BY DEF RegisteredAs, IsRegistered, RegisteredKey, Written, ContinuesFrom
<1> QED BY <1>1 DEF Backed

\* A typed write is the pair of its address and its value.
LEMMA WriteOnceOf ==
    ASSUME NEW x, TypedAction(x), IsWriteOnce(x)
    PROVE  x = WriteOnce(x.address, x.value) /\ TypedWrite(x.address, x.value)
BY DEF TypedAction, IsWriteOnce, ServerAction, WriteOnce

\* Every channel that the actions open is opened to a registered key.
OpensToRegistered(actions, st) ==
    \A i \in 1 .. Len(actions) :
        Writes(actions[i], "channel_exists") =>
            LET ck == actions[i].address[2] IN RegisteredAs(st, RecipientOf(ck), RecipientPubOf(ck))

-----------------------------------------------------------------------------
(***************************************************************************)
(* Compiling keeps the invariant.                                          *)
(***************************************************************************)

\* What a client action contributes.
LEMMA ClientApplyEntries ==
    ASSUME TypeOK, PoolInv, SessionEntries, NEW type, NEW actions, NEW balances,
           TypedActions(actions), Grouped(actions), KeysUsable(actions),
           OpensToRegistered(actions, session.store),
           client_apply_actions(type, actions, balances)
    PROVE  SessionEntries'
PROOF
<1> DEFINE s == session.actions
           base == closed.store
           st == session.store
<1>1. mode = "compile" /\ TypedActions(s) /\ TypedStore(st)
  BY DEF client_apply_actions, TypeOK, TypedSession
<1>2. /\ ActionsSound(s, base) /\ ContinuesFrom(st, base)
      /\ \A a \in DOMAIN st \ DOMAIN base : \E i \in 1 .. Len(s) : s[i] = WriteOnce(a, st[a])
  BY <1>1 DEF SessionEntries
<1>3. /\ session'.actions = s \o actions
      /\ session'.store = WriteAll(st, WritesIn(actions))
      /\ closed' = closed
      /\ \A w \in WritesIn(actions) : w.address \notin DOMAIN st
  BY DEF client_apply_actions, TypeOK, TypedSession, timeVars, Written
<1> HIDE DEF s, base, st
<1>4. /\ Len(s) \in Nat /\ Len(actions) \in Nat /\ Len(s \o actions) = Len(s) + Len(actions)
      /\ \A i \in 1 .. Len(s) : i \in 1 .. Len(s \o actions) /\ (s \o actions)[i] = s[i]
      /\ \A i \in 1 .. Len(actions) :
            Len(s) + i \in 1 .. Len(s \o actions) /\ (s \o actions)[Len(s) + i] = actions[i]
      /\ \A i \in 1 .. Len(s \o actions) :
            i \in 1 .. Len(s) \/ \E m \in 1 .. Len(actions) : i = Len(s) + m
  BY <1>1, ConcatParts
<1>5. \A a \in DOMAIN session'.store :
         \/ \E w \in WritesIn(actions) : w.address = a /\ session'.store[a] = w.value
         \/ a \in DOMAIN st /\ session'.store[a] = st[a]
  <2> DEFINE W == WritesIn(actions)
  <2>1. \A a \in DOMAIN WriteAll(st, W) :
           \/ \E w \in W : w.address = a /\ WriteAll(st, W)[a] = w.value
           \/ a \in DOMAIN st /\ WriteAll(st, W)[a] = st[a]
    <3> HIDE DEF W
    <3> QED BY WriteAllFacts
  <2> QED BY <1>3, <2>1
<1>6. DOMAIN st \subseteq DOMAIN session'.store
  BY <1>3 DEF WriteAll
<1>7. DOMAIN actions = 1 .. Len(actions) /\ \A i \in 1 .. Len(actions) : TypedAction(actions[i])
  BY DEF TypedActions, TypedAction
<1>8. ContinuesFrom(session'.store, base)
  BY <1>2, <1>3, <1>5, <1>6 DEF ContinuesFrom
<1>9. \A a \in DOMAIN session'.store \ DOMAIN base :
         \E i \in 1 .. Len(session'.actions) :
             session'.actions[i] = WriteOnce(a, session'.store[a])
  <2> SUFFICES ASSUME NEW a \in DOMAIN session'.store, a \notin DOMAIN base
               PROVE  \E i \in 1 .. Len(s \o actions) :
                          (s \o actions)[i] = WriteOnce(a, session'.store[a])
    BY <1>3
  <2>1. CASE a \in DOMAIN st /\ session'.store[a] = st[a]
    BY <1>2, <1>4, <2>1
  <2>2. ASSUME NEW w \in WritesIn(actions), w.address = a, session'.store[a] = w.value
        PROVE  \E i \in 1 .. Len(s \o actions) :
                   (s \o actions)[i] = WriteOnce(a, session'.store[a])
    <3>1. PICK i \in 1 .. Len(actions) : IsWriteOnce(actions[i]) /\ w = actions[i]
      BY <1>7 DEF WritesIn
    <3>2. w = WriteOnce(a, session'.store[a])
      BY <1>7, <2>2, <3>1, WriteOnceOf
    <3> QED BY <1>4, <3>1, <3>2
  <2> QED BY <1>5, <2>1, <2>2
<1>10. Grouped(s \o actions)
  BY <1>1, <1>2, GroupedConcat DEF ActionsSound
<1>11. KeysUsable(s \o actions)
  BY <1>2, <1>4 DEF ActionsSound, KeysUsable
<1>12. Backed(s \o actions, base)
  <2> SUFFICES ASSUME NEW i \in 1 .. Len(s \o actions),
                      Writes((s \o actions)[i], "channel_exists"),
                      NEW ck, ck = (s \o actions)[i].address[2]
               PROVE  \/ RegisteredAs(base, RecipientOf(ck), RecipientPubOf(ck))
                      \/ \E j \in 1 .. (i - 1) :
                             (s \o actions)[j] = WriteOnce(public_key_entry(RecipientOf(ck)),
                                                           [public_key |-> RecipientPubOf(ck)])
    BY DEF Backed
  <2>1. CASE i \in 1 .. Len(s)
    <3>1. \/ RegisteredAs(base, RecipientOf(ck), RecipientPubOf(ck))
          \/ \E j \in 1 .. (i - 1) :
                 s[j] = WriteOnce(public_key_entry(RecipientOf(ck)),
                                  [public_key |-> RecipientPubOf(ck)])
      BY <1>2, <1>4, <2>1 DEF ActionsSound, Backed
    <3>2. \A j \in 1 .. (i - 1) : j \in 1 .. Len(s)
      BY <1>4, <2>1, SMT
    <3> QED BY <1>4, <3>1, <3>2
  <2>2. ASSUME NEW m \in 1 .. Len(actions), i = Len(s) + m
        PROVE  \/ RegisteredAs(base, RecipientOf(ck), RecipientPubOf(ck))
               \/ \E j \in 1 .. (i - 1) :
                      (s \o actions)[j] = WriteOnce(public_key_entry(RecipientOf(ck)),
                                                    [public_key |-> RecipientPubOf(ck)])
    <3> DEFINE e == public_key_entry(RecipientOf(ck))
    <3>1. e \in DOMAIN st /\ st[e].public_key = RecipientPubOf(ck)
      BY <1>4, <2>2
         DEF OpensToRegistered, RegisteredAs, IsRegistered, RegisteredKey, Written, st
    <3>2. CASE e \in DOMAIN base
      BY <1>2, <3>1, <3>2 DEF ContinuesFrom, RegisteredAs, IsRegistered, RegisteredKey, Written
    <3>3. CASE e \notin DOMAIN base
      <4>1. PICK j \in 1 .. Len(s) : s[j] = WriteOnce(e, st[e])
        BY <1>2, <3>1, <3>3
      <4>2. st[e] \in [public_key : PublicKey]
        BY <1>1, <3>1, KindOf, MarkerFacts DEF TypedStore
      <4>3. st[e] = [public_key |-> RecipientPubOf(ck)]
        BY <3>1, <4>2
      <4>4. j \in 1 .. (i - 1)
        BY <1>4, <2>2, SMT
      <4> QED BY <1>4, <4>1, <4>3, <4>4
    <3> QED BY <3>2, <3>3
  <2> QED BY <1>4, <2>1, <2>2
<1>13. ActionsSound(session'.actions, closed'.store)
  BY <1>3, <1>10, <1>11, <1>12 DEF ActionsSound, base
<1> QED BY <1>3, <1>8, <1>9, <1>13 DEF SessionEntries, base

\* The new actions of a session are typed as all of its actions are.
LEMMA NewActionsTyped ==
    ASSUME TypeOK, TypeOK', NEW type, NEW T, NEW actions \in Seq(T), NEW balances,
           client_apply_actions(type, actions, balances)
    PROVE  TypedActions(actions)
PROOF
<1> DEFINE s == session.actions
<1>1. s \in Seq(ServerAction) /\ TypedActions(s \o actions)
  BY DEF client_apply_actions, TypeOK, TypedSession, TypedActions
<1> HIDE DEF s
<1>2. s \in Seq(ServerAction \cup T) /\ actions \in Seq(ServerAction \cup T)
  BY <1>1, SMT
<1>3. Len(s \o actions) = Len(s) + Len(actions) /\ Len(s) \in Nat /\ Len(actions) \in Nat
  BY <1>2, ConcatProperties
<1>4. ASSUME NEW i \in 1 .. Len(actions)
      PROVE  Len(s) + i \in 1 .. Len(s \o actions) /\ (s \o actions)[Len(s) + i] = actions[i]
  BY <1>2, <1>3, ConcatProperties, SMT
<1>5. ASSUME NEW i \in 1 .. Len(actions)
      PROVE  /\ actions[i] \in ServerAction
             /\ IsWriteOnce(actions[i]) => TypedWrite(actions[i].address, actions[i].value)
  <2>1. (s \o actions) \in Seq(ServerAction)
    BY <1>1 DEF TypedActions
  <2>2. (s \o actions)[Len(s) + i] \in ServerAction
    BY <1>4, <2>1
  <2> QED BY <1>1, <1>4, <2>2 DEF TypedActions
<1> QED BY <1>2, <1>3, <1>5 DEF TypedActions

\* What the actions of a client action are like.
Contribution(actions) ==
    /\ TypedActions(actions)
    /\ Grouped(actions)
    /\ KeysUsable(actions)
    /\ OpensToRegistered(actions, session.store)
    /\ EncryptedFor(actions, closed.auditor_public_key)

\* Neither part of a group nor a registration.
Plain(x) ==
    /\ ~Leads(x) /\ ~Follows(x)
    /\ ~Writes(x, "public_key") /\ ~Writes(x, "enc_private_key")

\* An action that writes no entry contributes nothing to check.
LEMMA PlainContribution ==
    ASSUME NEW x, Plain(x), TypedActions(<<x>>)
    PROVE  Contribution(<<x>>)
BY DEF Contribution, Plain, Grouped, KeysUsable, OpensToRegistered, EncryptedFor, Follows

\* The actions that a client action compiles to come in complete groups.
LEMMA ClientActionContribution ==
    ASSUME TypeOK, PoolInv, NEW c \in ClientActions, client_action(c), mode = "compile"
    PROVE  \E type, actions, balances :
               client_apply_actions(type, actions, balances) /\ Contribution(actions)
PROOF
<1> DEFINE u == session.user
           k == session.private_key
<1>0. k \in PrivateKey /\ k # 0 /\ is_canonical_key(k)
  BY DEF TypeOK, TypedSession
<1>1. TypeOK'
  BY TypeClientAction
<1>p. ASSUME NEW type, NEW x, NEW balances, client_apply_actions(type, <<x>>, balances), Plain(x)
      PROVE  \E ty, actions, b : client_apply_actions(ty, actions, b) /\ Contribution(actions)
  <2>1. <<x>> \in Seq({x})
    OBVIOUS
  <2>2. TypedActions(<<x>>)
    BY <1>1, <1>p, <2>1, NewActionsTyped
  <2> QED BY <1>p, <2>2, PlainContribution
<1>a. CASE c.type = "SetViewingKey" /\ set_viewing_key
  <2> DEFINE w1 == WriteOnce(public_key_entry(u), [public_key |-> derive_public_key(k)])
             w2 == WriteOnce(enc_private_key_entry(u),
                             [auditor_public_key |-> closed.auditor_public_key,
                              private_key |-> k])
             acts == <<w1, w2>>
  <2>1. client_apply_actions("SetViewingKey", acts, session.balances)
    BY <1>a DEF set_viewing_key
  <2>2. acts \in Seq({w1, w2}) /\ acts[1] = w1 /\ acts[2] = w2 /\ Len(acts) = 2
    OBVIOUS
  <2>3. TypedActions(acts)
    <3> HIDE DEF acts, w1, w2
    <3> QED BY <1>1, <2>1, <2>2, NewActionsTyped
  <2>4. /\ Writes(w1, "public_key") /\ w1.value.public_key = derive_public_key(k)
        /\ Writes(w2, "enc_private_key")
        /\ w2.value.auditor_public_key = closed.auditor_public_key
        /\ ~Writes(w2, "public_key") /\ ~Writes(w1, "enc_private_key")
    BY MarkerFacts DEF Writes, WriteOnce, IsWriteOnce
  <2>5. ~Leads(w1) /\ ~Follows(w1) /\ ~Leads(w2) /\ ~Follows(w2)
    BY <2>4 DEF Leads, Follows, Writes, IsWriteOnce, OpensNote
  <2>6. HasPrivateKey(derive_public_key(k))
    BY <1>0 DEF HasPrivateKey
  <2>7. \A i \in 1 .. Len(acts) : i = 1 \/ i = 2
    BY <2>2
  <2> HIDE DEF acts, w1, w2
  <2>8. Contribution(acts)
    BY <2>2, <2>3, <2>4, <2>5, <2>6, <2>7
       DEF Contribution, Grouped, KeysUsable, OpensToRegistered, EncryptedFor, Follows
  <2> QED BY <2>1, <2>8
<1>b. CASE c.type = "OpenChannel" /\ open_channel(c.recipient_addr, c.index)
  <2> DEFINE r == c.recipient_addr
             rp == RegisteredKey(session.store, r)
             ck == compute_channel_key(u, k, r, rp)
             x == AppendChannel(r, [encrypted_to |-> rp, channel_key |-> ck, sender_addr |-> u])
             w1 == WriteOnce(compute_channel_marker(ck, u, r, rp), [exists |-> TRUE])
             w2 == WriteOnce(compute_outgoing_channel_id(u, k, c.index), [recipient_addr |-> r])
             acts == <<x, w1, w2>>
  <2>1. client_apply_actions("OpenChannel", acts, session.balances)
    BY <1>b DEF open_channel
  <2>2. /\ acts \in Seq({x, w1, w2}) /\ Len(acts) = 3
        /\ acts[1] = x /\ acts[2] = w1 /\ acts[3] = w2
    OBVIOUS
  <2>3. TypedActions(acts)
    <3> HIDE DEF acts, x, w1, w2
    <3> QED BY <1>1, <2>1, <2>2, NewActionsTyped
  <2>4. SenderOf(ck) = u /\ SenderKeyOf(ck) = k /\ RecipientOf(ck) = r /\ RecipientPubOf(ck) = rp
    BY DEF compute_channel_key, SenderOf, SenderKeyOf, RecipientOf, RecipientPubOf
  <2>5. RegisteredAs(session.store, RecipientOf(ck), RecipientPubOf(ck))
    BY <1>b, <2>4 DEF open_channel, RegisteredAs
  <2> HIDE DEF u, k, r, rp, ck
  <2>6. /\ x = AppendChannel(RecipientOf(ck), ChannelInfoOf(ck)) /\ x.type = "Append"
        /\ x.enc_channel_info.channel_key = ck
    BY <2>4 DEF ChannelInfoOf, AppendChannel
  <2>7. w1 = MarkChannel(ck)
    BY <2>4 DEF MarkChannel, ChannelMarkerOf
  <2>8. Writes(w1, "channel_exists") /\ w1.address[2] = ck
    BY <2>7, MarkerFacts
  <2>9. /\ Writes(w2, "outgoing_channels") /\ w2.address[2] = SenderOf(ck)
        /\ w2.address[3] = SenderKeyOf(ck) /\ w2.value.recipient_addr = RecipientOf(ck)
    BY <2>4 DEF Writes, WriteOnce, IsWriteOnce, MapOf, compute_outgoing_channel_id
  <2> HIDE DEF acts, x, w1, w2
  <2>10. Linked(x, w1) /\ Linked(w1, w2)
    BY <2>6, <2>7, <2>8, <2>9 DEF Linked
  <2>11. /\ ~Follows(x) /\ ~Leads(w2)
         /\ \A m \in {"public_key", "enc_private_key"} :
                ~Writes(x, m) /\ ~Writes(w1, m) /\ ~Writes(w2, m)
         /\ ~Writes(x, "channel_exists") /\ ~Writes(w2, "channel_exists")
    BY <2>6, <2>8, <2>9 DEF Leads, Follows, Writes, IsWriteOnce, OpensNote
  <2>12. \A i \in 1 .. Len(acts) : i = 1 \/ i = 2 \/ i = 3
    BY <2>2
  <2>13. Grouped(acts)
    BY <2>2, <2>10, <2>11, <2>12, SMT DEF Grouped
  <2>14. KeysUsable(acts) /\ EncryptedFor(acts, closed.auditor_public_key)
    BY <2>2, <2>11, <2>12 DEF KeysUsable, EncryptedFor
  <2>15. OpensToRegistered(acts, session.store)
    BY <2>2, <2>5, <2>8, <2>11, <2>12 DEF OpensToRegistered
  <2> QED BY <2>1, <2>3, <2>13, <2>14, <2>15 DEF Contribution
<1>c. CASE /\ c.type = "OpenSubchannel"
           /\ open_subchannel(c.recipient_addr, c.recipient_public_key, c.channel_key,
                              c.index, c.token)
  <2> DEFINE r == c.recipient_addr
             rp == c.recipient_public_key
             ck == c.channel_key
             w1 == WriteOnce(compute_subchannel_id(ck, c.index), [token |-> c.token])
             w2 == WriteOnce(compute_subchannel_marker(ck, r, rp, c.token), [exists |-> TRUE])
             acts == <<w1, w2>>
  <2>1. /\ client_apply_actions("OpenSubchannel", acts, session.balances)
        /\ compute_channel_marker(ck, u, r, rp) \in DOMAIN session.store
    BY <1>c DEF open_subchannel, Written
  <2>2. acts \in Seq({w1, w2}) /\ acts[1] = w1 /\ acts[2] = w2 /\ Len(acts) = 2
    OBVIOUS
  <2>3. TypedActions(acts)
    <3> HIDE DEF acts, w1, w2
    <3> QED BY <1>1, <2>1, <2>2, NewActionsTyped
  <2> HIDE DEF u, r, rp, ck
  <2>4. RecipientOf(ck) = r /\ RecipientPubOf(ck) = rp
    BY <2>1, SessionStoreWellFormed, MarkerParties DEF AllWellFormed
  <2>5. /\ Writes(w1, "subchannel_tokens") /\ w1.address[2] = ck /\ w1.value.token = c.token
        /\ w2 = MarkSubchannel(ck, c.token)
    BY <2>4 DEF Writes, WriteOnce, IsWriteOnce, MapOf, compute_subchannel_id, MarkSubchannel,
                SubchannelMarkerOf
  <2>6. Writes(w2, "subchannel_exists")
    BY <2>5, MarkerFacts
  <2> HIDE DEF acts, w1, w2
  <2>7. Linked(w1, w2)
    BY <2>5 DEF Linked
  <2>8. /\ ~Follows(w1) /\ ~Leads(w2)
        /\ \A m \in {"public_key", "enc_private_key", "channel_exists"} :
               ~Writes(w1, m) /\ ~Writes(w2, m)
    BY <2>5, <2>6 DEF Leads, Follows, Writes, IsWriteOnce, OpensNote
  <2>9. \A i \in 1 .. Len(acts) : i = 1 \/ i = 2
    BY <2>2
  <2>10. Grouped(acts)
    BY <2>2, <2>7, <2>8, <2>9, SMT DEF Grouped
  <2>11. KeysUsable(acts) /\ EncryptedFor(acts, closed.auditor_public_key)
         /\ OpensToRegistered(acts, session.store)
    BY <2>2, <2>8, <2>9 DEF KeysUsable, EncryptedFor, OpensToRegistered
  <2> QED BY <2>1, <2>3, <2>10, <2>11 DEF Contribution
<1>d. CASE c.type = "Deposit" /\ deposit(c.token, c.amount)
  <2>1. Plain(TransferFrom(u, c.token, c.amount))
    BY DEF Plain, Leads, Follows, Writes, OpensNote, IsWriteOnce, TransferFrom
  <2> QED BY <1>d, <1>p, <2>1 DEF deposit
<1>e. CASE c.type = "UseNote" /\ use_note(c.channel_key, c.token, c.index)
  <2> DEFINE w == WriteOnce(compute_nullifier(c.channel_key, c.token, c.index, k),
                            [exists |-> TRUE])
  <2>1. Plain(w)
    BY DEF Plain, Leads, Follows, Writes, OpensNote, IsWriteOnce, WriteOnce, MapOf, compute_nullifier
  <2>2. client_apply_actions("UseNote", <<w>>,
            add_balance(c.token, decode_note_amount(
                session.store[compute_note_id(c.channel_key, c.token, c.index)], c.index)))
    BY <1>e DEF use_note
  <2> QED BY <1>p, <2>1, <2>2
<1>f. CASE /\ c.type = "CreateEncNote"
           /\ create_enc_note(c.recipient_addr, c.recipient_public_key, c.token, c.amount,
                              c.index, c.salt)
  <2> DEFINE n == compute_note_id(compute_channel_key(u, k, c.recipient_addr,
                                                      c.recipient_public_key), c.token, c.index)
             w == WriteOnce(n, enc_note_packed_value(c.index, c.salt, c.amount))
  <2>1. c.salt > OPEN_NOTE_SALT /\ c.salt \in Salt
    BY <1>f, PrivacyPoolAssumption DEF create_enc_note, ClientAction
  <2>2. c.salt # OPEN_NOTE_SALT
    BY <2>1, PoolDataAssumption DEF OPEN_NOTE_SALT, Salt
  <2>3. Plain(w)
    BY <2>2 DEF Plain, Leads, Follows, Writes, OpensNote, IsWriteOnce, WriteOnce, MapOf,
                compute_note_id, enc_note_packed_value
  <2>4. client_apply_actions("CreateEncNote", <<w>>, subtract_balance(c.token, c.amount))
    BY <1>f DEF create_enc_note
  <2> QED BY <1>p, <2>3, <2>4
<1>g. CASE /\ c.type = "CreateOpenNote"
           /\ create_open_note(c.recipient_addr, c.recipient_public_key, c.token, c.index)
  <2> DEFINE n == compute_note_id(compute_channel_key(u, k, c.recipient_addr,
                                                      c.recipient_public_key), c.token, c.index)
             w1 == WriteOnce(n, open_note(c.token))
             w2 == EmitOpenNoteCreated(n)
             acts == <<w1, w2>>
  <2>1. client_apply_actions("CreateOpenNote", acts, session.balances)
    BY <1>g DEF create_open_note
  <2>2. acts \in Seq({w1, w2}) /\ acts[1] = w1 /\ acts[2] = w2 /\ Len(acts) = 2
    OBVIOUS
  <2>3. TypedActions(acts)
    <3> HIDE DEF acts, w1, w2
    <3> QED BY <1>1, <2>1, <2>2, NewActionsTyped
  <2>4. /\ OpensNote(w1) /\ Writes(w1, "notes") /\ w1.value = open_note(w1.address[3])
        /\ w2 = EmitOpenNoteCreated(w1.address) /\ w2.type = "EmitOpenNoteCreated"
    BY DEF OpensNote, Writes, WriteOnce, IsWriteOnce, MapOf, compute_note_id, open_note,
           EmitOpenNoteCreated
  <2> HIDE DEF acts, w1, w2, n
  <2>5. Linked(w1, w2)
    BY <2>4 DEF Linked
  <2>6. /\ ~Follows(w1) /\ ~Leads(w2)
        /\ \A m \in {"public_key", "enc_private_key", "channel_exists"} :
               ~Writes(w1, m) /\ ~Writes(w2, m)
    BY <2>4 DEF Leads, Follows, Writes, IsWriteOnce, OpensNote
  <2>7. \A i \in 1 .. Len(acts) : i = 1 \/ i = 2
    BY <2>2
  <2>8. Grouped(acts)
    BY <2>2, <2>5, <2>6, <2>7, SMT DEF Grouped
  <2>9. KeysUsable(acts) /\ EncryptedFor(acts, closed.auditor_public_key)
        /\ OpensToRegistered(acts, session.store)
    BY <2>2, <2>6, <2>7 DEF KeysUsable, EncryptedFor, OpensToRegistered
  <2> QED BY <2>1, <2>3, <2>8, <2>9 DEF Contribution
<1>h. CASE c.type = "Withdraw" /\ withdraw(c.to_addr, c.token, c.amount)
  <2>1. Plain(TransferTo(c.to_addr, c.token, c.amount))
    BY DEF Plain, Leads, Follows, Writes, OpensNote, IsWriteOnce, TransferTo
  <2> QED BY <1>h, <1>p, <2>1 DEF withdraw
<1>i. CASE c.type = "InvokeExternal" /\ invoke_external(c.contract_address)
  <2>1. Plain(Invoke(c.contract_address))
    BY DEF Plain, Leads, Follows, Writes, OpensNote, IsWriteOnce, Invoke
  <2> QED BY <1>i, <1>p, <2>1 DEF invoke_external
<1>j. CASE c.type = "ComputeAndInvoke" /\ compute_and_invoke(c.contract_address)
  <2>1. Plain(InvokeWithComputation(c.contract_address))
    BY DEF Plain, Leads, Follows, Writes, OpensNote, IsWriteOnce, InvokeWithComputation
  <2> QED BY <1>j, <1>p, <2>1 DEF compute_and_invoke
<1> QED
  BY <1>a, <1>b, <1>c, <1>d, <1>e, <1>f, <1>g, <1>h, <1>i, <1>j DEF client_action

\* A client action extends the session and nothing else.
LEMMA ClientActionEntries ==
    ASSUME TypeOK, PoolInv, EntriesInv, AuditorInv, NEW c \in ClientActions, client_action(c),
           mode = "compile"
    PROVE  /\ SessionEntries' /\ EncryptedFor(session'.actions, closed.auditor_public_key)
           /\ UNCHANGED <<mode, chainVars, timeVars, admin, proofs, tx>>
PROOF
<1>1. PICK type, actions, balances :
               client_apply_actions(type, actions, balances) /\ Contribution(actions)
  BY ClientActionContribution
<1>2. SessionEntries'
  BY <1>1, ClientApplyEntries DEF Contribution, EntriesInv
<1>3. UNCHANGED <<mode, chainVars, timeVars, admin, proofs, tx>>
  BY <1>1 DEF client_apply_actions
<1>4. EncryptedFor(session'.actions, closed.auditor_public_key)
  <2> DEFINE s == session.actions
             key == closed.auditor_public_key
  <2>1. TypedActions(s) /\ TypedActions(actions) /\ session'.actions = s \o actions
    BY <1>1 DEF client_apply_actions, TypeOK, TypedSession, Contribution
  <2>2. EncryptedFor(s, key) /\ EncryptedFor(actions, key)
    BY <1>1 DEF AuditorInv, Contribution
  <2> HIDE DEF s, key
  <2>3. EncryptedFor(s \o actions, key)
    BY <2>1, <2>2, ConcatParts DEF EncryptedFor
  <2> QED BY <2>1, <2>3 DEF key
<1> QED BY <1>2, <1>3, <1>4

\* Compilation keeps the entries sound.
LEMMA CompileEntries ==
    ASSUME TypeOK, PoolInv, EntriesInv, AuditorInv, compile_step
    PROVE  EntriesInv' /\ AuditorInv'
PROOF
<1> SUFFICES StoreEntries' /\ SessionEntries' /\ ProofEntries' /\ AuditorInv' /\ mode' # "apply"
  BY DEF EntriesInv, TxEntries, OpenNotesCounted
<1>k. ASSUME UNCHANGED <<chainVars, timeVars>> PROVE StoreEntries'
  BY <1>k DEF EntriesInv, StoreEntries, chainVars, timeVars
<1>p. ASSUME UNCHANGED <<chainVars, proofs>> PROVE ProofEntries'
  BY <1>p DEF EntriesInv, ProofEntries, chainVars
<1>1. ASSUME NEW c \in Callers, start_compile(c[1], c[2])
      PROVE  StoreEntries' /\ SessionEntries' /\ ProofEntries' /\ AuditorInv' /\ mode' # "apply"
  <2>1. /\ session'.actions = <<>> /\ session'.store = closed.store /\ closed' = closed
        /\ UNCHANGED <<chainVars, timeVars, admin, proofs, tx>> /\ mode' = "compile"
    BY <1>1 DEF start_compile, NoSession, timeVars
  <2>2. SessionEntries'
    BY <2>1 DEF SessionEntries, ActionsSound, Grouped, Backed, KeysUsable, ContinuesFrom
  <2>3. AuditorInv'
    BY <2>1 DEF AuditorInv, EncryptedFor, timeVars
  <2> QED BY <1>k, <1>p, <2>1, <2>2, <2>3
<1>2. ASSUME NEW c \in ClientActions, client_action(c)
      PROVE  StoreEntries' /\ SessionEntries' /\ ProofEntries' /\ AuditorInv' /\ mode' # "apply"
  <2>1. mode = "compile"
    BY <1>2
       DEF client_action, client_apply_actions, set_viewing_key, open_channel, open_subchannel,
           deposit, withdraw, invoke_external, compute_and_invoke, use_note, create_enc_note,
           create_open_note
  <2>2. /\ SessionEntries' /\ EncryptedFor(session'.actions, closed.auditor_public_key)
        /\ UNCHANGED <<mode, chainVars, timeVars, admin, proofs, tx>>
    BY <1>2, <2>1, ClientActionEntries
  <2>3. AuditorInv'
    BY <2>1, <2>2 DEF AuditorInv, timeVars
  <2> QED BY <1>k, <1>p, <2>1, <2>2, <2>3
<1>3. CASE finish_compile
  <2> DEFINE p == [base_block |-> block - 1, class_hash |-> closed.class_hash,
                   actions |-> session.actions]
  <2>1. /\ proofs' = proofs \cup {p} /\ UNCHANGED <<chainVars, timeVars, admin, tx>>
        /\ mode = "compile" /\ mode' = "idle" /\ store' = store
    BY <1>3 DEF finish_compile, chainVars
  <2>2. ActionsSound(session.actions, closed.store) /\ ContinuesFrom(store, closed.store)
    BY <2>1 DEF EntriesInv, SessionEntries, StoreEntries
  <2>3. ActionsSound(session.actions, store)
    BY <2>2, BackedMore DEF ActionsSound
  <2>4. ProofEntries'
    BY <2>1, <2>3 DEF EntriesInv, ProofEntries
  <2>5. SessionEntries'
    BY <2>1 DEF SessionEntries
  <2>6. block \in Nat \ {0}
    BY DEF TypeOK, TypedChain
  <2>7. block - 1 \in 0 .. (block - 1) /\ (block - 1) + 1 = block
    BY <2>6, SMT
  <2>8. EncryptedFor(session.actions, auditor_log[block])
    BY <2>1 DEF AuditorInv
  <2>9. AuditorInv'
    BY <2>1, <2>7, <2>8 DEF AuditorInv, timeVars
  <2> QED BY <1>k, <2>1, <2>4, <2>5, <2>9
<1>4. CASE abort_compile
  <2>1. UNCHANGED <<chainVars, timeVars, admin, proofs, tx>> /\ mode' = "idle"
    BY <1>4 DEF abort_compile
  <2>2. SessionEntries'
    BY <2>1 DEF SessionEntries
  <2>3. AuditorInv'
    BY <2>1 DEF AuditorInv, timeVars
  <2> QED BY <1>k, <1>p, <2>1, <2>2, <2>3
<1> QED BY <1>1, <1>2, <1>3, <1>4 DEF compile_step

-----------------------------------------------------------------------------
(***************************************************************************)
(* Applying keeps the invariant.                                           *)
(***************************************************************************)

\* An action, its successor and what Grouped says of the two.
LEMMA GroupedNext ==
    ASSUME NEW s, TypedActions(s), Grouped(s), NEW i \in 1 .. Len(s), NEW y,
           y = IF i + 1 <= Len(s) THEN s[i + 1] ELSE NoAction
    PROVE  /\ Leads(s[i]) => Linked(s[i], y)
           /\ Follows(y) => Linked(s[i], y)
           /\ i + 1 <= Len(s) => TypedAction(y)
PROOF
<1>1. Len(s) \in Nat /\ \A j \in 1 .. Len(s) : TypedAction(s[j])
  BY DEF TypedActions, TypedAction
<1>2. ASSUME Leads(s[i]) PROVE Linked(s[i], y)
  <2>1. i < Len(s) /\ Linked(s[i], s[i + 1])
    BY <1>2 DEF Grouped
  <2> QED BY <1>1, <2>1, SMT
<1>3. ~Follows(NoAction)
  BY DEF Follows, NoAction, Writes, IsWriteOnce
<1>4. ASSUME i + 1 <= Len(s)
      PROVE  i + 1 \in 1 .. Len(s) /\ (i + 1) - 1 = i /\ y = s[i + 1]
  BY <1>1, <1>4, SMT
<1>5. ASSUME Follows(y) PROVE Linked(s[i], y)
  <2>1. CASE i + 1 <= Len(s)
    <3>1. Linked(s[(i + 1) - 1], s[i + 1])
      BY <1>4, <1>5, <2>1 DEF Grouped
    <3> QED BY <1>4, <2>1, <3>1
  <2>2. CASE ~(i + 1 <= Len(s))
    BY <1>3, <1>5, <2>2
  <2> QED BY <2>1, <2>2
<1> QED BY <1>1, <1>2, <1>4, <1>5

\* Only an action that leads has an action that completes it right behind it.
LEMMA CompletesFollows ==
    ASSUME NEW x, NEW y, Follows(y) => Linked(x, y), ~Leads(x)
    PROVE  ~Completes(y) /\ y.type # "EmitOpenNoteCreated"
PROOF
<1>1. ~Linked(x, y)
  BY DEF Linked, Leads, OpensNote
<1> QED BY <1>1 DEF Completes, Follows

\* A write keeps storage and lists in agreement, or the next write is a duplicate.
LEMMA SoundWrite ==
    ASSUME NEW st, NEW st2, NEW ch, NEW x, NEW y, TypedStore(st), Sound(st, ch, x),
           TypedAction(x), IsWriteOnce(x), WellFormed(x.address),
           Adds(st, st2, x.address, x.value),
           Leads(x) => Linked(x, y), Follows(y) => Linked(x, y),
           Writes(x, "public_key") => HasPrivateKey(x.value.public_key),
           Writes(x, "channel_exists") =>
               RegisteredAs(st, RecipientOf(x.address[2]), RecipientPubOf(x.address[2]))
    PROVE  (IsWriteOnce(y) /\ Written(st2, y.address)) \/ Sound(st2, ch, y)
PROOF
<1> DEFINE a == x.address
           v == x.value
<1>0. x = WriteOnce(a, v) /\ TypedWrite(a, v)
  BY WriteOnceOf
<1>w. \A map : Writes(x, map) <=> MapOf(a) = map
  BY DEF Writes
<1>x. x.type # "Append"
  BY DEF IsWriteOnce
<1>u. MapOf(a) # "public_key" => RegisteredUsable(st2)
  BY AddsKeeps DEF Sound
<1>f. ASSUME ~Completes(x), ~Completes(y),
             MapOf(a) \in {"public_key", "enc_private_key", "notes", "nullifiers"},
             RegisteredUsable(st2)
      PROVE  Sound(st2, ch, y)
  BY <1>f, SoundFrame DEF Adds
<1>1. CASE MapOf(a) = "channel_exists"
  <2>1. a \in ChannelMarker /\ v \in [exists : {TRUE}]
    BY <1>0, <1>1, KindOf
  <2>2. a[2] \in ChannelKey /\ v = [exists |-> TRUE]
    BY <2>1 DEF ChannelMarker
  <2>3. x = MarkChannel(a[2])
    BY <1>0, <1>1, <2>2 DEF WellFormed, MarkChannel
  <2>4. Linked(x, y)
    BY <1>1, <1>w DEF Leads
  <2>5. /\ Writes(y, "outgoing_channels") /\ y.address[2] = SenderOf(a[2])
        /\ y.address[3] = SenderKeyOf(a[2]) /\ y.value.recipient_addr = RecipientOf(a[2])
    BY <1>1, <1>w, <1>x, <2>4 DEF Linked, OpensNote
  <2> QED BY <1>1, <1>w, <2>2, <2>3, <2>5, SoundMarker
<1>2. CASE MapOf(a) = "outgoing_channels"
  <2>1. ~Leads(x)
    BY <1>2, <1>w, <1>x DEF Leads, OpensNote
  <2>2. ~Completes(y)
    BY <2>1, CompletesFollows
  <2> QED BY <1>2, <1>w, <2>2, SoundOutgoing
<1>3. CASE MapOf(a) = "subchannel_tokens"
  <2>1. Linked(x, y)
    BY <1>3, <1>w DEF Leads
  <2>2. y = MarkSubchannel(a[2], v.token)
    BY <1>3, <1>w, <1>x, <2>1 DEF Linked, OpensNote
  <2>3. IsWriteOnce(y) /\ y.address = SubchannelMarkerOf(a[2], v.token)
    BY <2>2, MarkerFacts DEF Writes
  <2> QED BY <1>3, <1>w, <2>2, <2>3, SoundToken
<1>4. CASE MapOf(a) = "subchannel_exists"
  <2>1. ~Leads(x)
    BY <1>4, <1>w, <1>x DEF Leads, OpensNote
  <2>2. ~Completes(y)
    BY <2>1, CompletesFollows
  <2> QED BY <1>4, <1>w, <2>2, SoundSubchannel
<1>5. CASE MapOf(a) = "public_key"
  <2>1. ~Leads(x) /\ ~Completes(x)
    BY <1>5, <1>w, <1>x DEF Leads, OpensNote, Completes
  <2>2. ~Completes(y)
    BY <2>1, CompletesFollows
  <2>3. RegisteredUsable(st2)
    BY <1>5, <1>w DEF Adds, RegisteredUsable, Sound
  <2> QED BY <1>5, <1>f, <2>1, <2>2, <2>3
<1>6. CASE MapOf(a) = "enc_private_key" \/ MapOf(a) = "nullifiers"
  <2>1. ~Leads(x) /\ ~Completes(x)
    BY <1>6, <1>w, <1>x DEF Leads, OpensNote, Completes
  <2>2. ~Completes(y)
    BY <2>1, CompletesFollows
  <2> QED BY <1>6, <1>f, <1>u, <2>1, <2>2
<1>7. CASE MapOf(a) = "notes"
  <2>1. ~Completes(x)
    BY <1>7, <1>w DEF Completes
  <2>2. ~Completes(y)
    <3>1. CASE OpensNote(x)
      <4>1. Linked(x, y)
        BY <3>1 DEF Leads
      <4>2. y = EmitOpenNoteCreated(a)
        BY <1>7, <1>w, <1>x, <4>1 DEF Linked
      <4> QED BY <4>2 DEF Completes, Writes, IsWriteOnce, EmitOpenNoteCreated
    <3>2. CASE ~OpensNote(x)
      <4>1. ~Leads(x)
        BY <1>7, <1>w, <1>x, <3>2 DEF Leads
      <4> QED BY <4>1, CompletesFollows
    <3> QED BY <3>1, <3>2
  <2> QED BY <1>7, <1>f, <1>u, <2>1, <2>2
<1> QED BY <1>0, <1>1, <1>2, <1>3, <1>4, <1>5, <1>6, <1>7, KindOf

\* The action that was executed and the one after it.
LEMMA Advance ==
    ASSUME TypeOK, PoolInv, EntriesInv, mode = "apply", tx.pc \in 1 .. Len(tx.proof.actions),
           tx'.proof = tx.proof, tx'.pc = tx.pc + 1
    PROVE  /\ NextAction = CurrentAction /\ TypedAction(CurrentAction)
           /\ Leads(CurrentAction) => Linked(CurrentAction, NextAction')
           /\ Follows(NextAction') => Linked(CurrentAction, NextAction')
           /\ tx.pc + 1 <= Len(tx.proof.actions) => TypedAction(NextAction')
PROOF
<1> DEFINE s == tx.proof.actions
           i == tx.pc
           y == IF i + 1 <= Len(s) THEN s[i + 1] ELSE NoAction
<1>1. TypedActions(s) /\ Grouped(s) /\ i \in 1 .. Len(s)
  BY DEF TypeOK, TypedTx, TypedProof, PoolInv, TxInv, EntriesInv, ProofEntries, ActionsSound
<1>2. NextAction' = y /\ CurrentAction = s[i] /\ NextAction = s[i]
  BY DEF NextAction, CurrentAction
<1> HIDE DEF s, i
<1>3. /\ Leads(s[i]) => Linked(s[i], y)
      /\ Follows(y) => Linked(s[i], y)
      /\ i + 1 <= Len(s) => TypedAction(y)
  BY <1>1, GroupedNext
<1>4. TypedAction(s[i])
  BY <1>1 DEF TypedActions, TypedAction
<1> HIDE DEF y
<1> QED BY <1>2, <1>3, <1>4 DEF s, i

\* A step that only counts: nothing is written and no list changes.
LEMMA ApplyCounts ==
    ASSUME TypeOK, PoolInv, EntriesInv, mode = "apply", tx.pc \in 1 .. Len(tx.proof.actions),
           ~IsWriteOnce(CurrentAction), CurrentAction.type # "Append", store' = store,
           tx'.proof = tx.proof, tx'.pc = tx.pc + 1,
           tx'.store = tx.store, tx'.channels = tx.channels
    PROVE  TxEntries' /\ NextAction'.type # "EmitOpenNoteCreated"
PROOF
<1>1. /\ NextAction = CurrentAction
      /\ Follows(NextAction') => Linked(CurrentAction, NextAction')
  BY Advance
<1>2. ~Leads(CurrentAction) /\ ~Completes(CurrentAction)
  BY DEF Leads, Completes, Writes, OpensNote
<1>3. ~Completes(NextAction') /\ NextAction'.type # "EmitOpenNoteCreated"
  BY <1>1, <1>2, CompletesFollows
<1>4. Sound(tx.store, tx.channels, CurrentAction)
  BY <1>1 DEF EntriesInv, TxEntries, Stuck
<1>5. Sound(tx.store, tx.channels, NextAction')
  <2>1. RegisteredUsable(tx.store)
    BY <1>4 DEF Sound
  <2> QED BY <1>2, <1>3, <1>4, <2>1, SoundFrame
<1>6. ASSUME NEW i \in 1 .. Len(tx.proof.actions), i < tx.pc + 1,
             IsWriteOnce(tx.proof.actions[i]), MapOf(tx.proof.actions[i].address) # "notes"
      PROVE  tx.store[tx.proof.actions[i].address] = tx.proof.actions[i].value
  <2>1. i # tx.pc
    BY <1>6 DEF CurrentAction
  <2>2. i < tx.pc
    BY <1>6, <2>1
  <2> QED BY <1>6, <2>2 DEF EntriesInv, TxEntries
<1>7. ContinuesFrom(tx'.store, store')
  BY DEF EntriesInv, TxEntries
<1>8. Stuck' \/ Sound(tx'.store, tx'.channels, NextAction')
  BY <1>5
<1>9. \A i \in 1 .. Len(tx'.proof.actions) :
         (i < tx'.pc /\ IsWriteOnce(tx'.proof.actions[i])
            /\ MapOf(tx'.proof.actions[i].address) # "notes") =>
             tx'.store[tx'.proof.actions[i].address] = tx'.proof.actions[i].value
  BY <1>6
<1>10. TxEntries'
  BY <1>7, <1>8, <1>9 DEF TxEntries
<1> QED BY <1>3, <1>10

\* A new entry is counted if it is an open note without its deposit.
LEMMA UndepositedAdds ==
    ASSUME NEW st, NEW st2, NEW a, NEW v, Adds(st, st2, a, v)
    PROVE  /\ a \notin Undeposited(st)
           /\ Undeposited(st2) =
                  Undeposited(st)
                    \cup (IF MapOf(a) = "notes" /\ v.salt = OPEN_NOTE_SALT /\ v.amount = 0
                          THEN {a} ELSE {})
BY DEF Adds, Undeposited, NotesOf

\* A write of apply_actions keeps the entries sound.
LEMMA ApplyWriteEntries ==
    ASSUME TypeOK, PoolInv, EntriesInv, apply_write_once
    PROVE  TxEntries' /\ OpenNotesCounted'
PROOF
<1> DEFINE s == tx.proof.actions
           x == CurrentAction
           y == NextAction'
<1>t. /\ tx = [proof |-> tx.proof, pc |-> tx.pc, store |-> tx.store, channels |-> tx.channels,
               balance |-> tx.balance, undeposited |-> tx.undeposited, subject |-> tx.subject,
               screened |-> tx.screened, depositor |-> tx.depositor, deposits |-> tx.deposits]
      /\ TypedActions(s) /\ tx.pc \in Nat \ {0} /\ Len(s) \in Nat /\ TypedStore(tx.store)
      /\ tx.undeposited \in Nat /\ tx.deposits \in Nat
  BY DEF TypeOK, TypedTx, TypedProof, TypedActions
<1>1. /\ mode = "apply" /\ applyUnchanged /\ tx.pc \in 1 .. Len(s)
      /\ IsWriteOnce(x) /\ tx.depositor = ZeroAddr
  BY <1>t DEF apply_write_once, AtAction, CurrentAction, IsWriteOnce
<1>2. /\ tx'.proof = tx.proof /\ tx'.pc = tx.pc + 1 /\ tx'.depositor = tx.depositor
      /\ tx'.undeposited = tx.undeposited /\ tx'.deposits = tx.deposits
      /\ tx'.channels = tx.channels /\ tx'.store = Write(tx.store, x.address, x.value)
      /\ x.address \notin DOMAIN tx.store
  BY <1>t DEF apply_write_once, CanWriteOnce, Written
<1>3. Adds(tx.store, tx'.store, x.address, x.value)
  <2> DEFINE a == x.address
             v == x.value
             st == tx.store
  <2> HIDE DEF a, v, st
  <2>1. Adds(st, Write(st, a, v), a, v)
    BY <1>2, WriteFacts DEF Adds, a, st
  <2> QED BY <1>2, <2>1 DEF a, v, st
<1>4. /\ NextAction = x /\ TypedAction(x)
      /\ Leads(x) => Linked(x, y)
      /\ Follows(y) => Linked(x, y)
  BY <1>1, <1>2, Advance
<1>5. tx.proof \in proofs /\ store' = store
  BY <1>1 DEF PoolInv, TxInv, applyUnchanged, chainVars
<1>6. ActionsSound(s, store) /\ AllWellFormed(WrittenBy(s))
  BY <1>5 DEF EntriesInv, ProofEntries, PoolInv, ProofsInv
<1>7. WellFormed(x.address)
  <2>1. x.address \in WrittenBy(s)
    BY <1>1, <1>t, WrittenByFacts DEF CurrentAction
  <2> QED BY <1>6, <2>1 DEF AllWellFormed
<1>8. Sound(tx.store, tx.channels, x) /\ ContinuesFrom(tx.store, store)
  BY <1>1, <1>2, <1>4 DEF EntriesInv, TxEntries, Stuck, Written
<1>9. ASSUME Writes(x, "channel_exists")
      PROVE  RegisteredAs(tx.store, RecipientOf(x.address[2]), RecipientPubOf(x.address[2]))
  <2> DEFINE ck == x.address[2]
             e == public_key_entry(RecipientOf(ck))
  <2>1. \/ RegisteredAs(store, RecipientOf(ck), RecipientPubOf(ck))
        \/ \E j \in 1 .. (tx.pc - 1) : s[j] = WriteOnce(e, [public_key |-> RecipientPubOf(ck)])
    BY <1>1, <1>6, <1>9 DEF ActionsSound, Backed, CurrentAction
  <2>2. CASE RegisteredAs(store, RecipientOf(ck), RecipientPubOf(ck))
    BY <1>8, <2>2 DEF RegisteredAs, IsRegistered, RegisteredKey, Written, ContinuesFrom
  <2>3. ASSUME NEW j \in 1 .. (tx.pc - 1),
               s[j] = WriteOnce(e, [public_key |-> RecipientPubOf(ck)])
        PROVE  RegisteredAs(tx.store, RecipientOf(ck), RecipientPubOf(ck))
    <3>1. j \in 1 .. Len(s) /\ j < tx.pc
      BY <1>1, <1>t, SMT
    <3>2. IsWriteOnce(s[j]) /\ s[j].address = e /\ s[j].value = [public_key |-> RecipientPubOf(ck)]
      BY <2>3 DEF WriteOnce, IsWriteOnce
    <3>3. MapOf(e) # "notes"
      BY MarkerFacts
    <3>4. tx.store[e] = [public_key |-> RecipientPubOf(ck)]
      BY <1>1, <3>1, <3>2, <3>3 DEF EntriesInv, TxEntries
    <3>5. e \in WrittenBefore(s, tx.pc)
      BY <3>1, <3>2 DEF WrittenBefore
    <3>6. e \in DOMAIN tx.store
      BY <1>1, <3>5 DEF PoolInv, TxInv
    <3> QED BY <3>4, <3>6 DEF RegisteredAs, IsRegistered, RegisteredKey, Written
  <2> QED BY <2>1, <2>2, <2>3
<1>10. Writes(x, "public_key") => HasPrivateKey(x.value.public_key)
  BY <1>1, <1>6 DEF ActionsSound, KeysUsable, CurrentAction
<1> HIDE DEF x, y, s
<1>11. (IsWriteOnce(y) /\ Written(tx'.store, y.address)) \/ Sound(tx'.store, tx.channels, y)
  BY <1>t, <1>1, <1>3, <1>4, <1>7, <1>8, <1>9, <1>10, SoundWrite
<1>12. ContinuesFrom(tx'.store, store')
  BY <1>3, <1>5, <1>8 DEF ContinuesFrom, Adds
<1>13. ASSUME NEW i \in 1 .. Len(s), i < tx.pc + 1, IsWriteOnce(s[i]),
              MapOf(s[i].address) # "notes"
       PROVE  tx'.store[s[i].address] = s[i].value
  <2>1. CASE i = tx.pc
    BY <1>3, <2>1 DEF CurrentAction, Adds, x, s
  <2>2. CASE i # tx.pc
    <3>1. i < tx.pc
      BY <1>13, <1>t, <2>2
    <3>2. tx.store[s[i].address] = s[i].value
      BY <1>1, <1>13, <3>1 DEF EntriesInv, TxEntries, s
    <3>3. s[i].address \in WrittenBefore(s, tx.pc)
      BY <1>13, <3>1 DEF WrittenBefore
    <3>4. s[i].address \in DOMAIN tx.store
      BY <1>1, <3>3 DEF PoolInv, TxInv, s
    <3> QED BY <1>3, <3>2, <3>4 DEF Adds
  <2> QED BY <2>1, <2>2
<1>14. TxEntries'
  BY <1>2, <1>11, <1>12, <1>13 DEF TxEntries, Stuck, s, y
<1> DEFINE U == Undeposited(tx.store)
           emit == IF y.type = "EmitOpenNoteCreated" THEN 1 ELSE 0
<1>15. /\ IsFiniteSet(U) /\ Cardinality(U) + tx.deposits = tx.undeposited /\ tx.deposits = 0
  <2>1. NextAction.type # "EmitOpenNoteCreated"
    BY <1>1, <1>4 DEF IsWriteOnce
  <2>2. IsFiniteSet(U) /\ Cardinality(U) + tx.deposits = tx.undeposited + 0 /\ tx.deposits = 0
    BY <1>1, <2>1 DEF EntriesInv, OpenNotesCounted
  <2> QED BY <1>t, <2>2
<1>16. /\ IsFiniteSet(Undeposited(tx'.store))
       /\ Cardinality(Undeposited(tx'.store)) = tx.undeposited + emit
  <2>1. CASE OpensNote(x)
    <3>1. Linked(x, y)
      BY <1>4, <2>1 DEF Leads
    <3>2. x.value = open_note(x.address[3]) /\ y = EmitOpenNoteCreated(x.address)
          /\ MapOf(x.address) = "notes"
      BY <2>1, <3>1 DEF Linked, OpensNote, Writes, IsWriteOnce
    <3>3. x.value.salt = OPEN_NOTE_SALT /\ x.value.amount = 0 /\ emit = 1
      BY <3>2 DEF open_note, EmitOpenNoteCreated
    <3>4. Undeposited(tx'.store) = U \cup {x.address} /\ x.address \notin U
      BY <1>3, <3>2, <3>3, UndepositedAdds
    <3> HIDE DEF U, emit
    <3>5. IsFiniteSet(U \cup {x.address}) /\ Cardinality(U \cup {x.address}) = Cardinality(U) + 1
      BY <1>15, <3>4, FS_AddElement
    <3>6. Cardinality(U) = tx.undeposited
      BY <1>15, <1>t, FS_CardinalityType
    <3> QED BY <3>3, <3>4, <3>5, <3>6
  <2>2. CASE ~OpensNote(x)
    <3>1. y.type # "EmitOpenNoteCreated"
      <4>1. CASE Leads(x)
        <5>1. Linked(x, y)
          BY <1>4, <4>1
        <5> QED
          BY <2>2, <5>1 DEF Linked, MarkChannel, MarkSubchannel, WriteOnce, Writes, IsWriteOnce
      <4>2. CASE ~Leads(x)
        BY <1>4, <4>2, CompletesFollows
      <4> QED BY <4>1, <4>2
    <3>2. ~(MapOf(x.address) = "notes" /\ x.value.salt = OPEN_NOTE_SALT /\ x.value.amount = 0)
      BY <1>1, <2>2 DEF OpensNote, Writes
    <3>3. Undeposited(tx'.store) = U
      BY <1>3, <3>2, UndepositedAdds
    <3> HIDE DEF U
    <3>4. Cardinality(U) = tx.undeposited
      BY <1>15, <1>t, FS_CardinalityType
    <3> QED BY <1>15, <1>t, <3>1, <3>3, <3>4
  <2> QED BY <2>1, <2>2
<1>17. Cardinality(Undeposited(tx'.store)) + 0 = tx.undeposited + emit
  BY <1>16, FS_CardinalityType
<1> QED BY <1>1, <1>2, <1>14, <1>15, <1>16, <1>17 DEF OpenNotesCounted, y

\* So does an append to the channels of a recipient.
LEMMA ApplyAppendEntries ==
    ASSUME TypeOK, PoolInv, EntriesInv, apply_append
    PROVE  TxEntries' /\ OpenNotesCounted'
PROOF
<1> DEFINE s == tx.proof.actions
           x == CurrentAction
           y == NextAction'
           ck == x.enc_channel_info.channel_key
<1>t. /\ tx = [proof |-> tx.proof, pc |-> tx.pc, store |-> tx.store, channels |-> tx.channels,
               balance |-> tx.balance, undeposited |-> tx.undeposited, subject |-> tx.subject,
               screened |-> tx.screened, depositor |-> tx.depositor, deposits |-> tx.deposits]
      /\ TypedActions(s) /\ tx.pc \in Nat \ {0} /\ Len(s) \in Nat
      /\ tx.channels \in [ContractAddress -> Seq(ChannelInfo)]
  BY DEF TypeOK, TypedTx, TypedProof, TypedActions
<1>1. /\ mode = "apply" /\ applyUnchanged /\ tx.pc \in 1 .. Len(s)
      /\ x.type = "Append" /\ tx.depositor = ZeroAddr
  BY <1>t DEF apply_append, AtAction, CurrentAction
<1>2. /\ tx'.proof = tx.proof /\ tx'.pc = tx.pc + 1 /\ tx'.depositor = tx.depositor
      /\ tx'.undeposited = tx.undeposited /\ tx'.deposits = tx.deposits
      /\ tx'.channels = [tx.channels EXCEPT ![x.recipient_addr] = Append(@, x.enc_channel_info)]
      /\ tx'.store = tx.store
  BY <1>t DEF apply_append
<1>3. NextAction = x /\ TypedAction(x) /\ (Leads(x) => Linked(x, y))
  BY <1>1, <1>2, Advance
<1>4. store' = store
  BY <1>1 DEF applyUnchanged, chainVars
<1>5. ck \in ChannelKey
  BY <1>1, <1>3 DEF TypedAction, ServerAction, ChannelInfo
<1>6. x = AppendChannel(RecipientOf(ck), ChannelInfoOf(ck)) /\ y = MarkChannel(ck)
  BY <1>1, <1>3 DEF Leads, Linked, Writes, OpensNote, IsWriteOnce
<1>7. /\ x.recipient_addr = RecipientOf(ck) /\ x.enc_channel_info = ChannelInfoOf(ck)
      /\ ~IsWriteOnce(x)
  BY <1>6 DEF AppendChannel, IsWriteOnce
<1>8. Sound(tx.store, tx.channels, x) /\ ContinuesFrom(tx.store, store)
  BY <1>1, <1>3, <1>7 DEF EntriesInv, TxEntries, Stuck
<1>9. IsWriteOnce(y) /\ y.address = ChannelMarkerOf(ck)
  BY <1>6, MarkerFacts DEF Writes
<1> HIDE DEF ck
<1>10. Stuck' \/ Sound(tx'.store, tx'.channels, y)
  <2>1. CASE Written(tx.store, ChannelMarkerOf(ck))
    BY <1>2, <1>9, <2>1 DEF Stuck
  <2>2. CASE ~Written(tx.store, ChannelMarkerOf(ck))
    <3> HIDE DEF x, y
    <3>1. tx'.channels = [tx.channels EXCEPT ![RecipientOf(ck)] = Append(@, ChannelInfoOf(ck))]
      BY <1>2, <1>7
    <3>2. Sound(tx.store, tx'.channels, y)
      BY <1>t, <1>1, <1>5, <1>6, <1>8, <2>2, <3>1, SoundAppend
    <3> QED BY <1>2, <3>2
  <2> QED BY <2>1, <2>2
<1>11. ASSUME NEW i \in 1 .. Len(s), i < tx.pc + 1, IsWriteOnce(s[i]),
              MapOf(s[i].address) # "notes"
       PROVE  tx.store[s[i].address] = s[i].value
  <2>1. i # tx.pc
    BY <1>7, <1>11 DEF CurrentAction
  <2>2. i < tx.pc
    BY <1>11, <1>t, <2>1
  <2> QED BY <1>1, <1>11, <2>2 DEF EntriesInv, TxEntries
<1>12. TxEntries'
  BY <1>2, <1>4, <1>8, <1>10, <1>11 DEF TxEntries
<1>13. y.type # "EmitOpenNoteCreated" /\ x.type # "EmitOpenNoteCreated"
  BY <1>1, <1>9 DEF IsWriteOnce
<1>14. OpenNotesCounted'
  BY <1>1, <1>2, <1>3, <1>13 DEF EntriesInv, OpenNotesCounted
<1> QED BY <1>12, <1>14

\* So does a deposit into an open note.
LEMMA ApplyDepositEntries ==
    ASSUME TypeOK, PoolInv, EntriesInv,
           NEW n \in NotesOf(tx.store), NEW token \in Token, NEW amount \in Amount,
           deposit_to_open_note(n, token, amount)
    PROVE  TxEntries' /\ OpenNotesCounted'
PROOF
<1> DEFINE s == tx.proof.actions
<1>t. /\ tx = [proof |-> tx.proof, pc |-> tx.pc, store |-> tx.store, channels |-> tx.channels,
               balance |-> tx.balance, undeposited |-> tx.undeposited, subject |-> tx.subject,
               screened |-> tx.screened, depositor |-> tx.depositor, deposits |-> tx.deposits]
      /\ TypedStore(tx.store) /\ tx.undeposited \in Nat /\ tx.deposits \in Nat
  BY DEF TypeOK, TypedTx
<1>1. /\ mode = "apply" /\ applyUnchanged /\ tx.depositor # ZeroAddr /\ amount # 0
      /\ tx.store[n].salt = OPEN_NOTE_SALT /\ tx.store[n].amount = 0
      /\ tx' = [tx EXCEPT !.store[n].amount = amount, !.balance[token] = @ + amount,
                          !.deposits = @ + 1]
  BY DEF deposit_to_open_note
<1>2. /\ tx'.proof = tx.proof /\ tx'.pc = tx.pc /\ tx'.depositor = tx.depositor
      /\ tx'.undeposited = tx.undeposited /\ tx'.deposits = tx.deposits + 1
      /\ tx'.channels = tx.channels
      /\ tx'.store = [tx.store EXCEPT ![n].amount = amount]
  BY <1>1, <1>t
<1>3. n \in DOMAIN tx.store /\ MapOf(n) = "notes" /\ tx.store[n] \in Note
      /\ n \in Undeposited(tx.store)
  BY <1>1, <1>t, StoredTypes DEF NotesOf, Undeposited
<1>4. /\ DOMAIN tx'.store = DOMAIN tx.store
      /\ \A a \in DOMAIN tx.store : a # n => tx'.store[a] = tx.store[a]
      /\ tx'.store[n] = [tx.store[n] EXCEPT !.amount = amount]
  BY <1>2, <1>3, <1>t DEF TypedStore
<1>5. tx'.store[n].amount # 0
  BY <1>1, <1>3, <1>4 DEF Note
<1>6. store' = store /\ NextAction' = NextAction
  BY <1>1, <1>2 DEF applyUnchanged, chainVars, NextAction, CurrentAction
<1>7. ContinuesFrom(tx.store, store) /\ Undeposited(store) = {}
  BY <1>1 DEF EntriesInv, TxEntries, StoreEntries
<1>8. n \notin DOMAIN store
  BY <1>1, <1>3, <1>7 DEF ContinuesFrom, Undeposited, NotesOf
<1>9. ContinuesFrom(tx'.store, store')
  BY <1>4, <1>6, <1>7, <1>8 DEF ContinuesFrom
<1>10. ~IsWriteOnce(NextAction) /\ ~Stuck
  BY <1>1 DEF PoolInv, TxInv, NextAction, Stuck
<1>11. ~Completes(NextAction) /\ Sound(tx.store, tx.channels, NextAction)
  BY <1>1, <1>10 DEF EntriesInv, TxEntries, Completes, Writes
<1>12. RegisteredUsable(tx'.store)
  BY <1>3, <1>4, <1>11 DEF Sound, RegisteredUsable
<1>13. Sound(tx'.store, tx.channels, NextAction)
  BY <1>3, <1>4, <1>11, <1>12, SoundFrame
<1>14. ASSUME NEW i \in 1 .. Len(s), i < tx.pc, IsWriteOnce(s[i]), MapOf(s[i].address) # "notes"
       PROVE  tx'.store[s[i].address] = s[i].value
  <2>1. tx.store[s[i].address] = s[i].value
    BY <1>1, <1>14 DEF EntriesInv, TxEntries
  <2>2. s[i].address \in WrittenBefore(s, tx.pc)
    BY <1>14 DEF WrittenBefore
  <2>3. s[i].address \in DOMAIN tx.store
    BY <1>1, <2>2 DEF PoolInv, TxInv
  <2> QED BY <1>3, <1>4, <1>14, <2>1, <2>3
<1>15. TxEntries'
  BY <1>2, <1>6, <1>9, <1>13, <1>14 DEF TxEntries
<1> DEFINE U == Undeposited(tx.store)
           emit == IF NextAction.type = "EmitOpenNoteCreated" THEN 1 ELSE 0
<1>16. Undeposited(tx'.store) = U \ {n}
  BY <1>3, <1>4, <1>5 DEF Undeposited, NotesOf
<1>17. /\ IsFiniteSet(U) /\ Cardinality(U) + tx.deposits = tx.undeposited + emit
       /\ NextAction.type \in {"Invoke", "InvokeWithComputation"}
  BY <1>1 DEF EntriesInv, OpenNotesCounted
<1>18. n \in U
  BY <1>3
<1> HIDE DEF U
<1>19. IsFiniteSet(U \ {n}) /\ Cardinality(U \ {n}) = Cardinality(U) - 1 /\ Cardinality(U) \in Nat
  BY <1>17, <1>18, FS_RemoveElement, FS_CardinalityType
<1>20. Cardinality(U \ {n}) + (tx.deposits + 1) = tx.undeposited + emit
  <2> HIDE DEF emit
  <2> QED BY <1>17, <1>19, <1>t
<1>21. OpenNotesCounted'
  BY <1>1, <1>2, <1>6, <1>16, <1>17, <1>19, <1>20 DEF OpenNotesCounted
<1> QED BY <1>15, <1>21

\* So does every step of apply_actions.
LEMMA ApplyEntries ==
    ASSUME TypeOK, PoolInv, EntriesInv, apply_step
    PROVE  EntriesInv'
PROOF
<1> DEFINE s == tx.proof.actions
<1>t. /\ tx = [proof |-> tx.proof, pc |-> tx.pc, store |-> tx.store, channels |-> tx.channels,
               balance |-> tx.balance, undeposited |-> tx.undeposited, subject |-> tx.subject,
               screened |-> tx.screened, depositor |-> tx.depositor, deposits |-> tx.deposits]
      /\ TypedActions(s) /\ tx.pc \in Nat \ {0} /\ Len(s) \in Nat
      /\ tx.undeposited \in Nat /\ tx.deposits \in Nat
  BY DEF TypeOK, TypedTx, TypedProof, TypedActions
<1>k. ASSUME applyUnchanged, mode = "apply", TxEntries', OpenNotesCounted'
      PROVE  EntriesInv'
  BY <1>k DEF EntriesInv, StoreEntries, SessionEntries, ProofEntries, applyUnchanged, chainVars,
              timeVars
<1>at. ASSUME NEW type, AtAction(type), type # "WriteOnce", applyUnchanged
       PROVE  /\ mode = "apply" /\ tx.pc \in 1 .. Len(s) /\ ~IsWriteOnce(CurrentAction)
              /\ CurrentAction.type = type /\ NextAction = CurrentAction
              /\ tx.depositor = ZeroAddr /\ store' = store
  BY <1>at, <1>t DEF AtAction, CurrentAction, NextAction, IsWriteOnce, applyUnchanged, chainVars
\* A step that goes on to the next action and leaves the open notes alone.
<1>n. ASSUME NEW type, AtAction(type), applyUnchanged,
             type \in {"TransferFrom", "TransferTo", "Invoke", "InvokeWithComputation"},
             tx'.proof = tx.proof, tx'.pc = tx.pc + 1, tx'.store = tx.store,
             tx'.channels = tx.channels, tx'.undeposited = tx.undeposited,
             tx'.deposits = tx.deposits, tx'.depositor = tx.depositor
      PROVE  EntriesInv'
  <2>1. /\ mode = "apply" /\ tx.pc \in 1 .. Len(s) /\ ~IsWriteOnce(CurrentAction)
        /\ CurrentAction.type = type /\ NextAction = CurrentAction
        /\ tx.depositor = ZeroAddr /\ store' = store
    BY <1>at, <1>n
  <2>2. TxEntries' /\ NextAction'.type # "EmitOpenNoteCreated"
    BY <1>n, <2>1, ApplyCounts
  <2>3. NextAction.type # "EmitOpenNoteCreated"
    BY <1>n, <2>1
  <2>4. OpenNotesCounted'
    BY <1>n, <2>1, <2>2, <2>3 DEF EntriesInv, OpenNotesCounted
  <2> QED BY <1>k, <1>n, <2>1, <2>2, <2>4
<1>1. ASSUME NEW p \in proofs, start_apply(p) PROVE EntriesInv'
  <2>1. /\ tx'.proof = p /\ tx'.pc = 1 /\ tx'.store = store /\ tx'.depositor = ZeroAddr
        /\ tx'.channels = recipient_channels /\ tx'.undeposited = 0 /\ tx'.deposits = 0
        /\ UNCHANGED <<chainVars, timeVars, admin, proofs, session>> /\ mode' = "apply"
    BY <1>1 DEF start_apply, NoTx
  <2>2. TypedActions(p.actions) /\ ActionsSound(p.actions, store)
    BY DEF TypeOK, TypedChain, TypedProof, EntriesInv, ProofEntries
  <2>3. Len(p.actions) \in Nat
    BY <2>2 DEF TypedActions
  <2> DEFINE y == IF 1 <= Len(p.actions) THEN p.actions[1] ELSE NoAction
  <2>4. NextAction' = y
    BY <2>1 DEF NextAction, CurrentAction
  <2>5. ~Follows(y)
    <3>1. CASE 1 <= Len(p.actions)
      <4>1. 1 \in 1 .. Len(p.actions) /\ ~(1 > 1)
        BY <2>3, <3>1
      <4> QED BY <2>2, <3>1, <4>1 DEF ActionsSound, Grouped
    <3>2. CASE ~(1 <= Len(p.actions))
      BY <3>2 DEF Follows, NoAction, Writes, IsWriteOnce
    <3> QED BY <3>1, <3>2
  <2>6. ~Completes(y) /\ y.type # "EmitOpenNoteCreated"
    BY <2>5 DEF Follows, Completes
  <2>7. ~Completes(NoAction)
    BY DEF Completes, NoAction, Writes, IsWriteOnce
  <2>8. Sound(store, recipient_channels, NoAction) /\ Undeposited(store) = {}
        /\ RegisteredUsable(store)
    BY DEF EntriesInv, StoreEntries, Sound
  <2> HIDE DEF y
  <2>9. Sound(store, recipient_channels, y)
    BY <2>6, <2>7, <2>8, SoundFrame
  <2>10. store' = store /\ recipient_channels' = recipient_channels /\ closed' = closed
         /\ proofs' = proofs
    BY <2>1 DEF chainVars, timeVars
  <2>11. TxEntries'
    BY <2>1, <2>4, <2>9, <2>10 DEF TxEntries, ContinuesFrom
  <2>12. OpenNotesCounted'
    BY <2>1, <2>4, <2>6, <2>8, FS_EmptySet DEF OpenNotesCounted
  <2>13. StoreEntries' /\ ProofEntries' /\ SessionEntries'
    BY <2>1, <2>10 DEF EntriesInv, StoreEntries, ProofEntries, SessionEntries
  <2> QED BY <2>11, <2>12, <2>13 DEF EntriesInv
<1>2. CASE apply_write_once
  BY <1>2, <1>k, ApplyWriteEntries DEF apply_write_once, AtAction
<1>3. CASE apply_append
  BY <1>3, <1>k, ApplyAppendEntries DEF apply_append, AtAction
<1>4. CASE apply_transfer_from
  BY <1>4, <1>n, <1>t DEF apply_transfer_from
<1>5. CASE apply_transfer_to
  BY <1>5, <1>n, <1>t DEF apply_transfer_to
<1>6. CASE emit_open_note_created
  <2>1. /\ mode = "apply" /\ tx.pc \in 1 .. Len(s) /\ ~IsWriteOnce(CurrentAction)
        /\ CurrentAction.type = "EmitOpenNoteCreated" /\ NextAction = CurrentAction
        /\ tx.depositor = ZeroAddr /\ store' = store /\ applyUnchanged
    BY <1>6, <1>at DEF emit_open_note_created
  <2>2. /\ tx'.proof = tx.proof /\ tx'.pc = tx.pc + 1 /\ tx'.store = tx.store
        /\ tx'.channels = tx.channels /\ tx'.undeposited = tx.undeposited + 1
        /\ tx'.deposits = tx.deposits /\ tx'.depositor = tx.depositor
    BY <1>6, <1>t DEF emit_open_note_created
  <2>3. TxEntries' /\ NextAction'.type # "EmitOpenNoteCreated"
    BY <2>1, <2>2, ApplyCounts
  <2>4. /\ IsFiniteSet(Undeposited(tx.store)) /\ tx.deposits = 0
        /\ Cardinality(Undeposited(tx.store)) + tx.deposits = tx.undeposited + 1
    BY <2>1 DEF EntriesInv, OpenNotesCounted
  <2>5. (tx.undeposited + 1) + 0 = tx.undeposited + 1
    BY <1>t
  <2>6. OpenNotesCounted'
    BY <2>1, <2>2, <2>3, <2>4, <2>5 DEF OpenNotesCounted
  <2> QED BY <1>k, <2>1, <2>3, <2>6
<1>7. CASE invoke_without_deposits
  BY <1>7, <1>n, <1>t DEF invoke_without_deposits, AtInvoke
<1>8. ASSUME NEW associated \in SUBSET ContractAddress, invoke_with_deposits(associated)
      PROVE  EntriesInv'
  <2>1. applyUnchanged /\ (AtAction("Invoke") \/ AtAction("InvokeWithComputation"))
    BY <1>8 DEF invoke_with_deposits, AtInvoke
  <2>2. /\ mode = "apply" /\ NextAction.type \in {"Invoke", "InvokeWithComputation"}
        /\ tx.depositor = ZeroAddr /\ store' = store
    BY <1>at, <2>1
  <2>3. /\ tx'.proof = tx.proof /\ tx'.pc = tx.pc /\ tx'.store = tx.store
        /\ tx'.channels = tx.channels /\ tx'.undeposited = tx.undeposited
        /\ tx'.deposits = tx.deposits
    BY <1>8, <1>t DEF invoke_with_deposits
  <2>4. NextAction' = NextAction /\ Stuck' = Stuck
    BY <2>3 DEF NextAction, CurrentAction, Stuck
  <2>5. TxEntries'
    BY <2>2, <2>3, <2>4 DEF EntriesInv, TxEntries
  <2>6. OpenNotesCounted'
    BY <2>2, <2>3, <2>4 DEF EntriesInv, OpenNotesCounted
  <2> QED BY <1>k, <2>1, <2>2, <2>5, <2>6
<1>9. ASSUME NEW n \in NotesOf(tx.store), NEW token \in Token, NEW amount \in Amount,
             deposit_to_open_note(n, token, amount)
      PROVE  EntriesInv'
  <2>1. applyUnchanged /\ mode = "apply"
    BY <1>9 DEF deposit_to_open_note
  <2> QED BY <1>9, <1>k, <2>1, ApplyDepositEntries
<1>10. CASE end_deposits
  <2>1. /\ mode = "apply" /\ applyUnchanged /\ tx.depositor # ZeroAddr /\ store' = store
        /\ tx.deposits <= tx.undeposited
    BY <1>10 DEF end_deposits, applyUnchanged, chainVars
  <2>2. /\ tx'.proof = tx.proof /\ tx'.pc = tx.pc + 1 /\ tx'.store = tx.store
        /\ tx'.channels = tx.channels /\ tx'.undeposited = tx.undeposited - tx.deposits
        /\ tx'.deposits = 0 /\ tx'.depositor = ZeroAddr
    BY <1>10, <1>t DEF end_deposits
  <2>3. tx.pc \in 1 .. Len(s) /\ ~IsWriteOnce(CurrentAction) /\ NextAction = CurrentAction
    BY <2>1 DEF PoolInv, TxInv, NextAction
  <2>4. NextAction.type \in {"Invoke", "InvokeWithComputation"}
    BY <2>1 DEF EntriesInv, OpenNotesCounted
  <2>5. TxEntries' /\ NextAction'.type # "EmitOpenNoteCreated"
    BY <2>1, <2>2, <2>3, <2>4, ApplyCounts
  <2>6. /\ IsFiniteSet(Undeposited(tx.store))
        /\ Cardinality(Undeposited(tx.store)) + tx.deposits = tx.undeposited + 0
    BY <2>1, <2>4 DEF EntriesInv, OpenNotesCounted
  <2>7. Cardinality(Undeposited(tx.store)) \in Nat
    BY <2>6, FS_CardinalityType
  <2>8. Cardinality(Undeposited(tx.store)) + 0 = (tx.undeposited - tx.deposits) + 0
    BY <1>t, <2>6, <2>7
  <2>9. OpenNotesCounted'
    BY <2>1, <2>2, <2>5, <2>6, <2>8 DEF OpenNotesCounted
  <2> QED BY <1>k, <2>1, <2>5, <2>9
<1>11. CASE finish_apply
  <2>1. /\ mode = "apply" /\ tx.pc > Len(s) /\ tx.undeposited = 0 /\ mode' = "idle"
        /\ store' = tx.store /\ recipient_channels' = tx.channels
        /\ UNCHANGED <<timeVars, admin, proofs, session>>
    BY <1>11 DEF finish_apply, NoUndepositedNotes
  <2>2. NextAction = NoAction
    BY <1>t, <2>1 DEF NextAction
  <2>3. ~Stuck /\ NextAction.type # "EmitOpenNoteCreated"
        /\ NextAction.type \notin {"Invoke", "InvokeWithComputation"}
    BY <2>2 DEF Stuck, NoAction, IsWriteOnce
  <2>4. Sound(store', recipient_channels', NoAction) /\ ContinuesFrom(store', store)
    BY <2>1, <2>2, <2>3 DEF EntriesInv, TxEntries
  <2>5. IsFiniteSet(Undeposited(tx.store)) /\ Cardinality(Undeposited(tx.store)) + tx.deposits = 0
    BY <2>1, <2>3 DEF EntriesInv, OpenNotesCounted
  <2>6. Cardinality(Undeposited(tx.store)) = 0
    BY <1>t, <2>5, FS_CardinalityType
  <2>7. Undeposited(store') = {}
    BY <2>1, <2>5, <2>6, FS_EmptySet
  <2>8. closed' = closed /\ proofs' = proofs
    BY <2>1 DEF timeVars
  <2>9. ContinuesFrom(store', closed'.store)
    BY <2>4, <2>8 DEF EntriesInv, StoreEntries, ContinuesFrom
  <2>10. StoreEntries'
    BY <2>4, <2>7, <2>9 DEF StoreEntries
  <2>11. ProofEntries'
    BY <2>4, <2>8, BackedMore DEF EntriesInv, ProofEntries, ActionsSound
  <2>12. SessionEntries' /\ TxEntries' /\ OpenNotesCounted'
    BY <2>1 DEF SessionEntries, TxEntries, OpenNotesCounted
  <2> QED BY <2>10, <2>11, <2>12 DEF EntriesInv
<1>12. CASE revert_apply
  BY <1>12 DEF revert_apply, EntriesInv, StoreEntries, ProofEntries, SessionEntries, TxEntries,
               OpenNotesCounted, chainVars, timeVars
<1> QED
  BY <1>1, <1>2, <1>3, <1>4, <1>5, <1>6, <1>7, <1>8, <1>9, <1>10, <1>11, <1>12 DEF apply_step

\* A step of apply_actions keeps the registrations recent.
LEMMA ApplyAuditor ==
    ASSUME TypeOK, AuditorInv, apply_step
    PROVE  AuditorInv'
PROOF
<1>t. tx = [proof |-> tx.proof, pc |-> tx.pc, store |-> tx.store, channels |-> tx.channels,
            balance |-> tx.balance, undeposited |-> tx.undeposited, subject |-> tx.subject,
            screened |-> tx.screened, depositor |-> tx.depositor, deposits |-> tx.deposits]
  BY DEF TypeOK, TypedTx
<1>1. ASSUME NEW p \in proofs, start_apply(p) PROVE AuditorInv'
  <2>1. /\ tx'.proof = p /\ mode' = "apply" /\ validate_proof(p)
        /\ UNCHANGED <<chainVars, timeVars, admin, proofs, session>>
    BY <1>1 DEF start_apply, NoTx
  <2> QED BY <2>1 DEF AuditorInv, validate_proof, timeVars
<1>2. CASE finish_apply \/ revert_apply
  BY <1>2 DEF finish_apply, revert_apply, AuditorInv, timeVars
<1>3. CASE applyUnchanged /\ tx'.proof = tx.proof
  BY <1>3 DEF AuditorInv, applyUnchanged, timeVars
<1>4. CASE \/ apply_write_once \/ apply_append \/ apply_transfer_from \/ apply_transfer_to
           \/ emit_open_note_created \/ invoke_without_deposits \/ end_deposits
  <2>1. applyUnchanged /\ tx'.proof = tx.proof
    BY <1>4, <1>t DEF apply_write_once, apply_append, apply_transfer_from, apply_transfer_to,
                      emit_open_note_created, invoke_without_deposits, end_deposits
  <2> QED BY <1>3, <2>1
<1>5. ASSUME NEW associated \in SUBSET ContractAddress, invoke_with_deposits(associated)
      PROVE  AuditorInv'
  <2>1. applyUnchanged /\ tx'.proof = tx.proof
    BY <1>5, <1>t DEF invoke_with_deposits
  <2> QED BY <1>3, <2>1
<1>6. ASSUME NEW n \in NotesOf(tx.store), NEW token \in Token, NEW amount \in Amount,
             deposit_to_open_note(n, token, amount)
      PROVE  AuditorInv'
  <2>1. applyUnchanged /\ tx'.proof = tx.proof
    BY <1>6, <1>t DEF deposit_to_open_note
  <2> QED BY <1>3, <2>1
<1> QED BY <1>1, <1>2, <1>4, <1>5, <1>6 DEF apply_step

-----------------------------------------------------------------------------
\* An empty pool has no entries.
LEMMA EntriesInit == Init => EntriesInv /\ AuditorInv
PROOF
<1> SUFFICES ASSUME Init PROVE EntriesInv /\ AuditorInv
  OBVIOUS
<1>1. /\ DOMAIN store = {} /\ closed.store = store /\ proofs = {} /\ mode = "idle" /\ block = 1
      /\ recipient_channels = [r \in ContractAddress |-> <<>>]
      /\ auditor_log = <<admin.auditor_public_key>>
      /\ closed.auditor_public_key = admin.auditor_public_key
  BY DEF Init, InitWith, EmptyStore, Snapshot
<1>2. ~Completes(NoAction)
  BY DEF Completes, NoAction, Writes, IsWriteOnce
<1>3. Sound(store, recipient_channels, NoAction)
  BY <1>1, <1>2
     DEF Sound, Awaited, ChannelsListed, SubchannelsListed, InboxMarked, OutgoingMarked,
         TokensMarked, InboxUnique, OutgoingUnique, TokensUnique, RegisteredUsable, Completes
<1>4. StoreEntries
  BY <1>1, <1>3 DEF StoreEntries, Undeposited, NotesOf, ContinuesFrom
<1>5. SessionEntries /\ ProofEntries /\ TxEntries /\ OpenNotesCounted
  BY <1>1 DEF SessionEntries, ProofEntries, TxEntries, OpenNotesCounted
<1>6. AuditorInv
  BY <1>1 DEF AuditorInv
<1> QED BY <1>4, <1>5, <1>6 DEF EntriesInv

\* Every step of the pool keeps the entries sound.
LEMMA EntriesNext ==
    ASSUME TypeOK, PoolInv, EntriesInv, AuditorInv, [Next]_vars
    PROVE  EntriesInv' /\ AuditorInv'
PROOF
<1>1. CASE UNCHANGED vars
  BY <1>1 DEF vars, chainVars, timeVars, EntriesInv, StoreEntries, SessionEntries, ProofEntries,
              TxEntries, OpenNotesCounted, AuditorInv, NextAction, CurrentAction, Stuck
<1>2. ASSUME NEW c \in AdminCalls, admin_call(c) PROVE EntriesInv' /\ AuditorInv'
  <2>1. mode = "idle" /\ UNCHANGED <<mode, chainVars, timeVars, proofs, session, tx>>
    BY <1>2 DEF admin_call
  <2> QED
    BY <2>1 DEF chainVars, timeVars, EntriesInv, StoreEntries, SessionEntries, ProofEntries,
                TxEntries, OpenNotesCounted, AuditorInv
<1>3. ASSUME NEW seconds \in BlockTimes, new_block(seconds) PROVE EntriesInv' /\ AuditorInv'
  <2> DEFINE key == admin.auditor_public_key
  <2>1. /\ mode = "idle" /\ mode' = "idle" /\ block' = block + 1
        /\ closed'.store = store /\ closed'.auditor_public_key = key
        /\ auditor_log' = Append(auditor_log, key)
        /\ UNCHANGED <<chainVars, proofs>>
    BY <1>3 DEF new_block, Snapshot
  <2>2. block \in Nat \ {0} /\ auditor_log \in Seq(AuditorKey) /\ key \in AuditorKey
    BY DEF TypeOK, TypedChain, Admin
  <2> HIDE DEF key
  <2>3. /\ Len(auditor_log') = Len(auditor_log) + 1
        /\ auditor_log'[Len(auditor_log) + 1] = key
        /\ \A i \in 1 .. Len(auditor_log) : auditor_log'[i] = auditor_log[i]
    BY <2>1, <2>2, AppendProperties
  <2>4. ContinuesFrom(store, store)
    BY DEF ContinuesFrom
  <2>5. EntriesInv'
    BY <2>1, <2>4 DEF chainVars, EntriesInv, StoreEntries, SessionEntries, ProofEntries,
                      TxEntries, OpenNotesCounted
  <2>6. Len(auditor_log) = block
    BY DEF AuditorInv
  <2>7. ASSUME NEW p \in proofs
        PROVE  /\ p.base_block \in 0 .. (block' - 1)
               /\ EncryptedFor(p.actions, auditor_log'[p.base_block + 1])
    <3>1. p.base_block \in 0 .. (block - 1) /\ EncryptedFor(p.actions, auditor_log[p.base_block + 1])
      BY DEF AuditorInv
    <3>2. p.base_block \in 0 .. (block' - 1) /\ p.base_block + 1 \in 1 .. Len(auditor_log)
      BY <2>1, <2>2, <2>6, <3>1
    <3> QED BY <2>3, <3>1, <3>2
  <2>8. AuditorInv'
    BY <2>1, <2>3, <2>6, <2>7 DEF AuditorInv
  <2> QED BY <2>5, <2>8
<1> QED BY <1>1, <1>2, <1>3, CompileEntries, ApplyEntries, ApplyAuditor DEF Next

(***************************************************************************)
(* The invariant on entries holds in every reachable state: a transaction  *)
(* that is between the writes of one client action always completes them   *)
(* or reverts.                                                             *)
(***************************************************************************)
THEOREM EntriesHold == Spec => [](TypeOK /\ PoolInv /\ EntriesInv /\ AuditorInv)
PROOF
<1>1. Init => TypeOK /\ PoolInv /\ EntriesInv /\ AuditorInv
  BY TypeInit, PoolInvInit, EntriesInit
<1>2. TypeOK /\ PoolInv /\ EntriesInv /\ AuditorInv /\ [Next]_vars
        => (TypeOK /\ PoolInv /\ EntriesInv /\ AuditorInv)'
  BY TypeNext, PoolInvNext, EntriesNext
<1> QED BY <1>1, <1>2, PTL DEF Spec

(***************************************************************************)
(* No committed open note is without its deposit, although _apply_actions  *)
(* only compares how many notes were opened and how many deposits came     *)
(* back: every deposit of a transaction goes to a note of its own.         *)
(***************************************************************************)
THEOREM OpenNotesAreFunded == Spec => []OpenNotesFunded
PROOF
<1>1. EntriesInv => OpenNotesFunded
  BY DEF EntriesInv, StoreEntries, OpenNotesFunded
<1> QED BY <1>1, EntriesHold, PTL

\* A note's subchannel and channel are in storage.
LEMMA NoteIsReachable ==
    ASSUME TypeOK, PoolInv, NEW a \in NotesOf(store)
    PROVE  Written(store, SubchannelMarkerOf(a[2], a[3])) /\ Written(store, ChannelMarkerOf(a[2]))
PROOF
<1>1. a \in DOMAIN store /\ MapOf(a) = "notes"
  BY DEF NotesOf
<1>2. NeedsMet(DOMAIN store)
  BY DEF PoolInv, StorageInv
<1>3. SubchannelMarkerOf(a[2], a[3]) \in Needs(a)
  BY <1>1 DEF Needs
<1>4. SubchannelMarkerOf(a[2], a[3]) \in DOMAIN store
  BY <1>1, <1>2, <1>3 DEF NeedsMet
<1>5. ChannelMarkerOf(a[2]) \in Needs(SubchannelMarkerOf(a[2], a[3]))
  BY NeedsOf DEF SubchannelMarkerOf
<1> QED BY <1>2, <1>4, <1>5 DEF NeedsMet, Written

(***************************************************************************)
(* What is committed never changes: a transaction only adds entries, and   *)
(* its deposits reach no note that another transaction committed           *)
(* (_apply_write_once, _deposit_to_open_note).                             *)
(***************************************************************************)
THEOREM NothingIsOverwritten == Spec => CommittedIsImmutable
PROOF
<1>1. EntriesInv /\ [Next]_vars =>
         [\A a \in DOMAIN store : a \in DOMAIN store' /\ store'[a] = store[a]]_vars
  <2> SUFFICES ASSUME EntriesInv, [Next]_vars
               PROVE  \A a \in DOMAIN store : a \in DOMAIN store' /\ store'[a] = store[a]
    OBVIOUS
  <2>1. CASE finish_apply
    BY <2>1 DEF finish_apply, EntriesInv, TxEntries, ContinuesFrom
  <2> QED BY <2>1, ChainChanges DEF chainVars
<1> QED BY <1>1, EntriesHold, PTL DEF Spec, CommittedIsImmutable

(***************************************************************************)
(* Every note's recipient can spend it: the subchannel is marked under the *)
(* public key the recipient registered, which has a canonical private key  *)
(* (use_note's checks), whoever created the note and whenever its proof    *)
(* was applied.                                                            *)
(***************************************************************************)
THEOREM NotesAreSpendable == Spec => []NotesSpendable
PROOF
<1>1. TypeOK /\ PoolInv /\ EntriesInv => NotesSpendable
  <2> SUFFICES ASSUME TypeOK, PoolInv, EntriesInv, NEW a \in NotesOf(store)
               PROVE  /\ Written(store, SubchannelMarkerOf(a[2], a[3]))
                      /\ RegisteredAs(store, RecipientOf(a[2]), RecipientPubOf(a[2]))
                      /\ HasPrivateKey(RecipientPubOf(a[2]))
    BY DEF NotesSpendable, RegisteredAs, HasPrivateKey
  <2>1. Written(store, SubchannelMarkerOf(a[2], a[3])) /\ Written(store, ChannelMarkerOf(a[2]))
    BY NoteIsReachable
  <2>2. RegisteredAs(store, RecipientOf(a[2]), RecipientPubOf(a[2]))
    BY <2>1, MarkerFacts DEF EntriesInv, StoreEntries, Sound, ChannelsListed, Written
  <2>3. HasPrivateKey(RecipientPubOf(a[2]))
    BY <2>2, MarkerFacts DEF EntriesInv, StoreEntries, Sound, RegisteredUsable, RegisteredAs,
                             IsRegistered, RegisteredKey, Written
  <2> QED BY <2>1, <2>2, <2>3
<1> QED BY <1>1, EntriesHold, PTL

(***************************************************************************)
(* Every note is found by the scans of the discovery protocol, from its    *)
(* recipient's side and from its sender's, and no list has an entry twice: *)
(* the append to recipient_channels is not a WriteOnce, so a duplicate is  *)
(* kept out by the marker written right after it.                          *)
(***************************************************************************)
THEOREM NotesAreDiscoverable == Spec => []NotesDiscoverable
PROOF
<1>1. TypeOK /\ PoolInv /\ EntriesInv => NotesDiscoverable
  <2> SUFFICES ASSUME TypeOK, PoolInv, EntriesInv PROVE NotesDiscoverable
    OBVIOUS
  <2>s. /\ ChannelsListed(store, recipient_channels, NoAction) /\ SubchannelsListed(store)
        /\ InboxUnique(recipient_channels) /\ OutgoingUnique(store, NoAction)
        /\ TokensUnique(store) /\ TypedStore(store)
    BY DEF EntriesInv, StoreEntries, Sound, TypeOK, TypedChain
  <2>n. ~Writes(NoAction, "outgoing_channels")
    BY DEF NoAction, Writes, IsWriteOnce
  <2>1. ASSUME NEW a \in NotesOf(store)
        PROVE  /\ \E i \in DOMAIN recipient_channels[RecipientOf(a[2])] :
                      recipient_channels[RecipientOf(a[2])][i] = ChannelInfoOf(a[2])
               /\ \E i \in Index : /\ Written(store, compute_subchannel_id(a[2], i))
                                   /\ store[compute_subchannel_id(a[2], i)].token = a[3]
               /\ \E i \in Index :
                     LET id == compute_outgoing_channel_id(SenderOf(a[2]), SenderKeyOf(a[2]), i)
                     IN  Written(store, id) /\ store[id].recipient_addr = RecipientOf(a[2])
    <3> DEFINE ck == a[2]
    <3>1. Written(store, SubchannelMarkerOf(ck, a[3])) /\ Written(store, ChannelMarkerOf(ck))
      BY NoteIsReachable
    <3>2. /\ \E i \in DOMAIN recipient_channels[RecipientOf(ck)] :
                 recipient_channels[RecipientOf(ck)][i] = ChannelInfoOf(ck)
          /\ Outgoing(store, SenderOf(ck), SenderKeyOf(ck), RecipientOf(ck)) # {}
      BY <2>s, <2>n, <3>1, MarkerFacts DEF ChannelsListed, Written
    <3>3. PICK b \in DOMAIN store : /\ MapOf(b) = "subchannel_tokens" /\ b[2] = ck
                                    /\ store[b].token = a[3]
      BY <2>s, <3>1, MarkerFacts DEF SubchannelsListed, Written
    <3>4. b \in SubchannelId
      BY <2>s, <3>3, KindOf DEF TypedStore
    <3>5. b[3] \in Index /\ b = compute_subchannel_id(ck, b[3])
      BY <3>3, <3>4 DEF SubchannelId, compute_subchannel_id
    <3>6. PICK d \in DOMAIN store : /\ MapOf(d) = "outgoing_channels" /\ d[2] = SenderOf(ck)
                                    /\ d[3] = SenderKeyOf(ck)
                                    /\ store[d].recipient_addr = RecipientOf(ck)
      BY <3>2 DEF Outgoing
    <3>7. d \in OutgoingChannelId
      BY <2>s, <3>6, KindOf DEF TypedStore
    <3>8. d[4] \in Index /\ d = compute_outgoing_channel_id(SenderOf(ck), SenderKeyOf(ck), d[4])
      BY <3>6, <3>7 DEF OutgoingChannelId, compute_outgoing_channel_id
    <3> QED BY <3>2, <3>3, <3>5, <3>6, <3>8 DEF Written
  <2>2. \A r \in ContractAddress : \A i, j \in DOMAIN recipient_channels[r] :
           recipient_channels[r][i].channel_key = recipient_channels[r][j].channel_key => i = j
    BY <2>s DEF InboxUnique
  <2>3. ASSUME NEW a \in DOMAIN store, NEW b \in DOMAIN store,
               MapOf(a) = "outgoing_channels", MapOf(b) = "outgoing_channels",
               a[2] = b[2], a[3] = b[3], store[a] = store[b]
        PROVE  a = b
    BY <2>s, <2>3 DEF OutgoingUnique, Outgoing
  <2>4. ASSUME NEW a \in DOMAIN store, NEW b \in DOMAIN store,
               MapOf(a) = "subchannel_tokens", MapOf(b) = "subchannel_tokens",
               a[2] = b[2], store[a] = store[b]
        PROVE  a = b
    BY <2>s, <2>4 DEF TokensUnique
  <2> QED BY <2>1, <2>2, <2>3, <2>4 DEF NotesDiscoverable, ChannelInfoOf
<1> QED BY <1>1, EntriesHold, PTL

(***************************************************************************)
(* A viewing key is registered for an auditor that was current within the  *)
(* proof validity window, however the governors rotate the auditor's key   *)
(* between compilation and application (validate_proof).                   *)
(***************************************************************************)
THEOREM RegistrationsAreRecent == Spec => AuditorIsRecent
PROOF
<1>1. TypeOK /\ PoolInv /\ EntriesInv /\ AuditorInv /\ [Next]_vars =>
         [\A a \in DOMAIN store' \ DOMAIN store :
             MapOf(a) = "enc_private_key" =>
                 \E b \in 0 .. (block - 1) :
                     /\ block <= b + admin.proof_validity_blocks
                     /\ auditor_log[b + 1] = store'[a].auditor_public_key]_vars
  <2> SUFFICES ASSUME TypeOK, PoolInv, EntriesInv, AuditorInv, [Next]_vars,
                      NEW a \in DOMAIN store', a \notin DOMAIN store,
                      MapOf(a) = "enc_private_key"
               PROVE  \E b \in 0 .. (block - 1) :
                          /\ block <= b + admin.proof_validity_blocks
                          /\ auditor_log[b + 1] = store'[a].auditor_public_key
    OBVIOUS
  <2> DEFINE s == tx.proof.actions
             base == tx.proof.base_block
  <2>1. finish_apply
    BY ChainChanges DEF chainVars
  <2>2. mode = "apply" /\ store' = tx.store
    BY <2>1 DEF finish_apply
  <2>3. a \in WrittenBefore(s, tx.pc) /\ tx.proof \in proofs
    BY <2>2 DEF PoolInv, TxInv
  <2>4. PICK i \in 1 .. Len(s) : i < tx.pc /\ IsWriteOnce(s[i]) /\ s[i].address = a
    BY <2>3 DEF WrittenBefore
  <2>5. store'[a] = s[i].value
    BY <2>2, <2>4 DEF EntriesInv, TxEntries
  <2>6. base \in 0 .. (block - 1) /\ EncryptedFor(s, auditor_log[base + 1])
        /\ block <= base + admin.proof_validity_blocks
    BY <2>2, <2>3 DEF AuditorInv
  <2>7. s[i].value.auditor_public_key = auditor_log[base + 1]
    BY <2>4, <2>6 DEF EncryptedFor, Writes
  <2> QED BY <2>5, <2>6, <2>7
<1> QED BY <1>1, EntriesHold, PTL DEF Spec, AuditorIsRecent

-----------------------------------------------------------------------------
(***************************************************************************)
(* Sums of amounts.                                                        *)
(***************************************************************************)

\* The units that Total counts.
Units(f) == {u \in (DOMAIN f) \X Amount : u[2] < f[u[1]]}

\* A finite map of amounts has a total.
LEMMA UnitsFinite ==
    ASSUME NEW f, IsFiniteSet(DOMAIN f)
    PROVE  IsFiniteSet(Units(f)) /\ Total(f) = Cardinality(Units(f)) /\ Total(f) \in Nat
PROOF
<1>1. IsFiniteSet(Amount)
  BY FS_Interval, PoolDataAssumption DEF Amount
<1>2. IsFiniteSet((DOMAIN f) \X Amount)
  BY <1>1, FS_Product
<1>3. IsFiniteSet(Units(f))
  BY <1>2, FS_Subset DEF Units
<1> QED BY <1>3, FS_CardinalityType DEF Total, Units

\* g has the values of f, zeros elsewhere, and a value of its own at k.
LEMMA TotalAdd ==
    ASSUME NEW f, NEW g, IsFiniteSet(DOMAIN g), DOMAIN f \subseteq DOMAIN g,
           NEW k \in DOMAIN g, g[k] \in Amount, k \in DOMAIN f => f[k] = 0,
           \A x \in DOMAIN g : x # k => g[x] = IF x \in DOMAIN f THEN f[x] ELSE 0
    PROVE  Total(g) = Total(f) + g[k]
PROOF
<1> DEFINE c == g[k]
           K == {k} \X (0 .. (c - 1))
<1>0. AMOUNT_MODULUS \in Nat /\ c \in Nat /\ c < AMOUNT_MODULUS
  BY PoolDataAssumption DEF Amount
<1>1. IsFiniteSet(DOMAIN f)
  BY FS_Subset
<1>2. /\ IsFiniteSet(Units(f)) /\ Total(f) = Cardinality(Units(f)) /\ Total(f) \in Nat
      /\ IsFiniteSet(Units(g)) /\ Total(g) = Cardinality(Units(g))
  BY <1>1, UnitsFinite
<1>3. IsFiniteSet({k}) /\ Cardinality({k}) = 1
  BY FS_Singleton
<1>4. IsFiniteSet(0 .. (c - 1)) /\ Cardinality(0 .. (c - 1)) = c
  <2>1. 0 \in Int /\ c - 1 \in Int
    BY <1>0
  <2>2. /\ IsFiniteSet(0 .. (c - 1))
        /\ Cardinality(0 .. (c - 1)) = IF 0 > c - 1 THEN 0 ELSE (c - 1) - 0 + 1
    <3> DEFINE b == c - 1
    <3> HIDE DEF b
    <3> QED BY <2>1, FS_Interval DEF b
  <2> QED BY <1>0, <2>2
<1>5. IsFiniteSet(K) /\ Cardinality(K) = c
  <2> DEFINE A == 0 .. (c - 1)
             S == {k}
  <2>1. IsFiniteSet(A) /\ Cardinality(A) = c /\ IsFiniteSet(S) /\ Cardinality(S) = 1
    BY <1>3, <1>4
  <2> HIDE DEF A, S
  <2>2. IsFiniteSet(S \X A) /\ Cardinality(S \X A) = Cardinality(S) * Cardinality(A)
    BY <2>1, FS_Product
  <2>3. Cardinality(S \X A) = c
    <3> HIDE DEF c
    <3> QED BY <1>0, <2>1, <2>2
  <2> QED BY <2>2, <2>3 DEF A, S
<1>6. Units(g) = Units(f) \cup K
  <2>1. ASSUME NEW u \in Units(g) PROVE u \in Units(f) \cup K
    <3>1. /\ u = <<u[1], u[2]>> /\ u[1] \in DOMAIN g /\ u[2] \in Amount /\ u[2] < g[u[1]]
      BY DEF Units
    <3>2. CASE u[1] = k
      <4>1. u[2] \in 0 .. (c - 1)
        BY <1>0, <3>1, <3>2 DEF Amount
      <4> QED BY <3>1, <3>2, <4>1
    <3>3. CASE u[1] # k
      <4>1. u[1] \in DOMAIN f /\ g[u[1]] = f[u[1]]
        BY <1>0, <3>1, <3>3 DEF Amount
      <4> QED BY <3>1, <4>1 DEF Units
    <3> QED BY <3>2, <3>3
  <2>2. ASSUME NEW u \in Units(f) PROVE u \in Units(g)
    <3>1. u = <<u[1], u[2]>> /\ u[1] \in DOMAIN f /\ u[2] \in Amount /\ u[2] < f[u[1]]
      BY DEF Units
    <3>2. u[1] # k
      BY <1>0, <3>1 DEF Amount
    <3> QED BY <3>1, <3>2 DEF Units
  <2>3. ASSUME NEW u \in K PROVE u \in Units(g)
    <3>1. u = <<u[1], u[2]>> /\ u[1] = k /\ u[2] \in 0 .. (c - 1)
      OBVIOUS
    <3>2. u[2] \in Amount /\ u[2] < c
      BY <1>0, <3>1 DEF Amount
    <3> QED BY <3>1, <3>2 DEF Units
  <2> QED BY <2>1, <2>2, <2>3
<1>7. Units(f) \cap K = {}
  <2> SUFFICES ASSUME NEW u \in Units(f), u \in K PROVE FALSE
    OBVIOUS
  <2>1. u[1] = k /\ u[1] \in DOMAIN f /\ u[2] \in Amount /\ u[2] < f[u[1]]
    BY DEF Units
  <2> QED BY <1>0, <2>1 DEF Amount
<1>8. Cardinality(Units(f) \cup K) = Cardinality(Units(f)) + Cardinality(K)
  <2> HIDE DEF K
  <2>1. Cardinality(Units(f) \cup K) =
            Cardinality(Units(f)) + Cardinality(K) - Cardinality(Units(f) \cap K)
    BY <1>2, <1>5, FS_Union
  <2>2. Cardinality(Units(f) \cap K) = 0
    BY <1>7, FS_EmptySet
  <2>3. Cardinality(Units(f)) \in Nat /\ Cardinality(K) \in Nat
    BY <1>2, <1>5, FS_CardinalityType
  <2> QED BY <2>1, <2>2, <2>3
<1> QED BY <1>2, <1>5, <1>6, <1>8

\* The sum of zeros.
LEMMA TotalZero ==
    ASSUME NEW f, \A x \in DOMAIN f : f[x] = 0
    PROVE  Total(f) = 0
PROOF
<1>1. \A n \in Amount : ~(n < 0)
  BY PoolDataAssumption DEF Amount
<1>2. Units(f) = {}
  BY <1>1 DEF Units
<1> QED BY <1>2, FS_EmptySet DEF Total, Units

-----------------------------------------------------------------------------
(***************************************************************************)
(* Credits and debits.                                                     *)
(***************************************************************************)

\* The address of the note that a nullifier spends.
LEMMA NoteOfFacts ==
    ASSUME NEW a \in Nullifier
    PROVE  /\ NoteOf(a) \in NoteId /\ MapOf(NoteOf(a)) = "notes"
           /\ NoteOf(a)[2] = a[2] /\ NoteOf(a)[3] = a[3] /\ NoteOf(a)[4] = a[4]
           /\ a[3] \in Token /\ a[4] \in Index
BY DEF Nullifier, NoteId, NoteOf, compute_note_id, MapOf

\* What a note of a store decodes to.
LEMMA StoredAmount ==
    ASSUME NEW st, TypedStore(st), NEW n \in NotesOf(st)
    PROVE  /\ n \in NoteId /\ st[n] \in Note /\ n[3] \in Token
           /\ n[4] \in Index /\ decode_note_amount(st[n], n[4]) \in Amount
PROOF
<1>1. n \in NoteId /\ st[n] \in Note
  BY KindOf DEF TypedStore, NotesOf
<1>2. n[3] \in Token /\ n[4] \in Index
  BY <1>1 DEF NoteId
<1> QED BY <1>1, <1>2, NoteTypes

\* Credits and debits are amounts.
LEMMA AmountOf ==
    ASSUME NEW x, TypedAction(x), NEW st, TypedStore(st), NEW t,
           Writes(x, "nullifiers") => NoteOf(x.address) \in DOMAIN st
    PROVE  Credit(x, st, t) \in Amount /\ Debit(x, t) \in Amount
PROOF
<1>0. 0 \in Amount
  BY PoolDataAssumption DEF Amount
<1>1. x.type \in {"TransferFrom", "TransferTo"} => x.amount \in Amount
  BY DEF TypedAction, ServerAction
<1>2. Writes(x, "nullifiers") =>
          decode_note_amount(st[NoteOf(x.address)], x.address[4]) \in Amount
  <2> SUFFICES ASSUME Writes(x, "nullifiers")
               PROVE  decode_note_amount(st[NoteOf(x.address)], x.address[4]) \in Amount
    OBVIOUS
  <2> DEFINE a == x.address
  <2>1. a \in Nullifier
    BY WriteOnceOf, KindOf DEF Writes
  <2>2. NoteOf(a) \in NotesOf(st) /\ NoteOf(a)[4] = a[4]
    BY <2>1, NoteOfFacts DEF NotesOf
  <2> HIDE DEF a
  <2>3. decode_note_amount(st[NoteOf(a)], a[4]) \in Amount
    BY <2>2, StoredAmount
  <2> QED BY <2>3 DEF a
<1>3. Writes(x, "notes") => decode_note_amount(x.value, x.address[4]) \in Amount
  <2> SUFFICES ASSUME Writes(x, "notes")
               PROVE  decode_note_amount(x.value, x.address[4]) \in Amount
    OBVIOUS
  <2>1. x.address \in NoteId /\ x.value \in Note
    BY WriteOnceOf, KindOf DEF Writes
  <2>2. x.address[4] \in Index
    BY <2>1 DEF NoteId
  <2> QED BY <2>1, <2>2, NoteTypes
<1> QED BY <1>0, <1>1, <1>2, <1>3 DEF Credit, Debit

\* An action that moves nothing.
Neutral(x) ==
    /\ x.type \notin {"TransferFrom", "TransferTo"}
    /\ ~Writes(x, "nullifiers") /\ ~Writes(x, "notes")

\* An action that moves nothing is worth nothing.
LEMMA NeutralIsZero ==
    ASSUME NEW x, Neutral(x), NEW st, NEW t
    PROVE  Credit(x, st, t) = 0 /\ Debit(x, t) = 0
BY DEF Neutral, Credit, Debit

\* The list of positions is finite.
LEMMA PositionsFinite ==
    ASSUME NEW s, TypedActions(s), NEW pc \in Nat
    PROVE  IsFiniteSet(pc .. Len(s)) /\ Len(s) \in Nat
PROOF
<1>1. Len(s) \in Nat
  BY DEF TypedActions
<1> DEFINE n == Len(s)
<1> HIDE DEF n
<1>2. IsFiniteSet(pc .. n)
  BY <1>1, FS_Interval DEF n
<1> QED BY <1>1, <1>2 DEF n

\* Credits and debits are natural numbers.
LEMMA BooksTyped ==
    ASSUME NEW s, TypedActions(s), NEW st, NEW t, NEW pc \in Nat
    PROVE  Credits(s, st, t, pc) \in Nat /\ Debits(s, t, pc) \in Nat
PROOF
<1> DEFINE f == [i \in pc .. Len(s) |-> Credit(s[i], st, t)]
           g == [i \in pc .. Len(s) |-> Debit(s[i], t)]
<1>1. IsFiniteSet(DOMAIN f) /\ IsFiniteSet(DOMAIN g)
  BY PositionsFinite
<1>2. Total(f) \in Nat /\ Total(g) \in Nat
  <2> HIDE DEF f, g
  <2> QED BY <1>1, UnitsFinite
<1> QED BY <1>2 DEF Credits, Debits

\* The books of a longer list, whose first new action alone counts.
LEMMA BooksConcat ==
    ASSUME NEW s, NEW new, TypedActions(s), TypedActions(new), NEW st, NEW t, Len(new) > 0,
           Credit(new[1], st, t) \in Amount, Debit(new[1], t) \in Amount,
           \A i \in 2 .. Len(new) : Credit(new[i], st, t) = 0 /\ Debit(new[i], t) = 0
    PROVE  /\ Credits(s \o new, st, t, 1) = Credits(s, st, t, 1) + Credit(new[1], st, t)
           /\ Debits(s \o new, t, 1) = Debits(s, t, 1) + Debit(new[1], t)
PROOF
<1> DEFINE z == s \o new
           k == Len(s) + 1
           cf == [i \in 1 .. Len(s) |-> Credit(s[i], st, t)]
           cg == [i \in 1 .. Len(z) |-> Credit(z[i], st, t)]
           df == [i \in 1 .. Len(s) |-> Debit(s[i], t)]
           dg == [i \in 1 .. Len(z) |-> Debit(z[i], t)]
<1>1. /\ Len(s) \in Nat /\ Len(new) \in Nat /\ Len(z) = Len(s) + Len(new)
      /\ \A i \in 1 .. Len(s) : i \in 1 .. Len(z) /\ z[i] = s[i]
      /\ \A i \in 1 .. Len(new) : Len(s) + i \in 1 .. Len(z) /\ z[Len(s) + i] = new[i]
      /\ \A i \in 1 .. Len(z) : i \in 1 .. Len(s) \/ \E m \in 1 .. Len(new) : i = Len(s) + m
  BY ConcatParts
<1> HIDE DEF z
<1>2. 1 \in 1 .. Len(new) /\ k \in 1 .. Len(z) /\ k \notin 1 .. Len(s) /\ z[k] = new[1]
  BY <1>1
<1>3. IsFiniteSet(1 .. Len(z))
  <2> DEFINE n == Len(z)
  <2>1. n \in Nat
    BY <1>1
  <2> HIDE DEF n
  <2>2. IsFiniteSet(1 .. n)
    BY <2>1, FS_Interval
  <2> QED BY <2>2 DEF n
<1>4. \A i \in 1 .. Len(z) :
         (i # k /\ i \notin 1 .. Len(s)) => \E m \in 2 .. Len(new) : z[i] = new[m]
  <2> SUFFICES ASSUME NEW i \in 1 .. Len(z), i # k, i \notin 1 .. Len(s)
               PROVE  \E m \in 2 .. Len(new) : z[i] = new[m]
    OBVIOUS
  <2>1. PICK m \in 1 .. Len(new) : i = Len(s) + m
    BY <1>1
  <2>2. m \in 2 .. Len(new)
    BY <1>1, <2>1
  <2> QED BY <1>1, <2>1, <2>2
<1>5. /\ DOMAIN cf \subseteq DOMAIN cg /\ IsFiniteSet(DOMAIN cg) /\ k \in DOMAIN cg
      /\ k \notin DOMAIN cf /\ cg[k] = Credit(new[1], st, t)
      /\ \A i \in DOMAIN cg : i # k => cg[i] = IF i \in DOMAIN cf THEN cf[i] ELSE 0
  <2>1. DOMAIN cf \subseteq DOMAIN cg
    BY <1>1
  <2>2. /\ IsFiniteSet(DOMAIN cg) /\ k \in DOMAIN cg /\ k \notin DOMAIN cf
        /\ cg[k] = Credit(new[1], st, t)
    BY <1>2, <1>3
  <2>3. ASSUME NEW i \in DOMAIN cg, i # k
        PROVE  cg[i] = IF i \in DOMAIN cf THEN cf[i] ELSE 0
    <3> HIDE DEF k
    <3>1. CASE i \in 1 .. Len(s)
      BY <1>1, <3>1
    <3>2. CASE i \notin 1 .. Len(s)
      BY <1>4, <2>3, <3>2
    <3> QED BY <3>1, <3>2
  <2> QED BY <2>1, <2>2, <2>3
<1>6. /\ DOMAIN df \subseteq DOMAIN dg /\ IsFiniteSet(DOMAIN dg) /\ k \in DOMAIN dg
      /\ k \notin DOMAIN df /\ dg[k] = Debit(new[1], t)
      /\ \A i \in DOMAIN dg : i # k => dg[i] = IF i \in DOMAIN df THEN df[i] ELSE 0
  <2>1. DOMAIN df \subseteq DOMAIN dg
    BY <1>1
  <2>2. /\ IsFiniteSet(DOMAIN dg) /\ k \in DOMAIN dg /\ k \notin DOMAIN df
        /\ dg[k] = Debit(new[1], t)
    BY <1>2, <1>3
  <2>3. ASSUME NEW i \in DOMAIN dg, i # k
        PROVE  dg[i] = IF i \in DOMAIN df THEN df[i] ELSE 0
    <3> HIDE DEF k
    <3>1. CASE i \in 1 .. Len(s)
      BY <1>1, <3>1
    <3>2. CASE i \notin 1 .. Len(s)
      BY <1>4, <2>3, <3>2
    <3> QED BY <3>1, <3>2
  <2> QED BY <2>1, <2>2, <2>3
<1>7. Total(cg) = Total(cf) + cg[k] /\ Total(dg) = Total(df) + dg[k]
  <2> HIDE DEF cf, cg, df, dg, k
  <2> QED BY <1>5, <1>6, TotalAdd
<1> QED BY <1>5, <1>6, <1>7 DEF Credits, Debits, z

\* The books from the position after pc on.
LEMMA BooksNext ==
    ASSUME NEW s, TypedActions(s), NEW st, NEW t, NEW pc \in 1 .. Len(s),
           Credit(s[pc], st, t) \in Amount, Debit(s[pc], t) \in Amount
    PROVE  /\ Credits(s, st, t, pc) = Credits(s, st, t, pc + 1) + Credit(s[pc], st, t)
           /\ Debits(s, t, pc) = Debits(s, t, pc + 1) + Debit(s[pc], t)
PROOF
<1> DEFINE cf == [i \in (pc + 1) .. Len(s) |-> Credit(s[i], st, t)]
           cg == [i \in pc .. Len(s) |-> Credit(s[i], st, t)]
           df == [i \in (pc + 1) .. Len(s) |-> Debit(s[i], t)]
           dg == [i \in pc .. Len(s) |-> Debit(s[i], t)]
<1>1. Len(s) \in Nat /\ IsFiniteSet(pc .. Len(s))
  BY PositionsFinite
<1>2. /\ (pc + 1) .. Len(s) \subseteq pc .. Len(s) /\ pc \in pc .. Len(s)
      /\ pc \notin (pc + 1) .. Len(s)
      /\ \A i \in pc .. Len(s) : i # pc => i \in (pc + 1) .. Len(s)
  BY <1>1
<1>3. /\ DOMAIN cf \subseteq DOMAIN cg /\ IsFiniteSet(DOMAIN cg) /\ pc \in DOMAIN cg
      /\ pc \notin DOMAIN cf /\ cg[pc] = Credit(s[pc], st, t)
      /\ \A i \in DOMAIN cg : i # pc => cg[i] = IF i \in DOMAIN cf THEN cf[i] ELSE 0
  BY <1>1, <1>2
<1>4. /\ DOMAIN df \subseteq DOMAIN dg /\ IsFiniteSet(DOMAIN dg) /\ pc \in DOMAIN dg
      /\ pc \notin DOMAIN df /\ dg[pc] = Debit(s[pc], t)
      /\ \A i \in DOMAIN dg : i # pc => dg[i] = IF i \in DOMAIN df THEN df[i] ELSE 0
  BY <1>1, <1>2
<1>5. Total(cg) = Total(cf) + cg[pc] /\ Total(dg) = Total(df) + dg[pc]
  <2> HIDE DEF cf, cg, df, dg
  <2> QED BY <1>3, <1>4, TotalAdd
<1> QED BY <1>3, <1>4, <1>5 DEF Credits, Debits

\* The books of no actions.
LEMMA BooksEnd ==
    ASSUME NEW s, NEW st, NEW t, NEW pc, pc .. Len(s) = {}
    PROVE  Credits(s, st, t, pc) = 0 /\ Debits(s, t, pc) = 0
PROOF
<1>1. Total([i \in pc .. Len(s) |-> Credit(s[i], st, t)]) = 0
  BY TotalZero
<1>2. Total([i \in pc .. Len(s) |-> Debit(s[i], t)]) = 0
  BY TotalZero
<1> QED BY <1>1, <1>2 DEF Credits, Debits

-----------------------------------------------------------------------------
(***************************************************************************)
(* Compiling keeps the books.                                              *)
(***************************************************************************)
LastTypes == {"TransferTo", "Invoke", "InvokeWithComputation"}

\* What a client action does to the books: its first server action alone counts.
Booked(type, actions, balances) ==
    /\ TypedActions(actions) /\ Len(actions) > 0
    /\ \A i \in 2 .. Len(actions) : Neutral(actions[i])
    /\ \A t \in Token : session.balances[t] + Credit(actions[1], closed.store, t) =
                            balances[t] + Debit(actions[1], t)
    /\ balances \in [Token -> Amount]
    /\ SpendsFrom(actions, closed.store)
    /\ Phase[type] \in 0 .. 7
    /\ \A i \in 1 .. Len(actions) :
           /\ Writes(actions[i], "notes") => Phase[type] >= Phase.CreateEncNote
           /\ actions[i].type = "TransferTo" => Phase[type] >= Phase.Withdraw
           /\ Phase[type] >= Phase.Withdraw => actions[i].type \in LastTypes

\* Actions that are booked keep the session balanced.
LEMMA ClientApplyBooks ==
    ASSUME TypeOK, SessionBooks, NEW type, NEW actions, NEW balances,
           client_apply_actions(type, actions, balances), Booked(type, actions, balances)
    PROVE  SessionBooks'
PROOF
<1> DEFINE s == session.actions
           base == closed.store
           z == s \o actions
<1>1. /\ mode = "compile" /\ TypedActions(s) /\ TypedActions(actions)
      /\ TypedStore(base) /\ session.balances \in [Token -> Amount] /\ session.phase \in 0 .. 8
  BY DEF client_apply_actions, TypeOK, TypedSession, TypedChain, Booked
<1>2. /\ session'.actions = z /\ session'.balances = balances /\ closed' = closed
      /\ session'.phase = advance_phase(Phase[type]) /\ Phase[type] >= session.phase
  BY DEF client_apply_actions, TypeOK, TypedSession, timeVars, assert_phase
<1>3. /\ Phase[type] \in 0 .. 7 /\ session'.phase \in Nat /\ session'.phase >= Phase[type]
      /\ session'.phase >= session.phase
  BY <1>1, <1>2 DEF Booked, advance_phase, INVOKE_PHASE
<1>4. /\ SpendsFrom(s, base) /\ WithdrawsLast(s)
      /\ \A i \in 1 .. Len(s) :
             /\ Writes(s[i], "notes") => session.phase >= Phase.CreateEncNote
             /\ s[i].type = "TransferTo" => session.phase >= Phase.Withdraw
      /\ \A t \in Token : Credits(s, base, t, 1) = session.balances[t] + Debits(s, t, 1)
  BY <1>1 DEF SessionBooks
<1>5. /\ SpendsFrom(actions, base) /\ Len(actions) > 0
      /\ \A t \in Token : session.balances[t] + Credit(actions[1], base, t) =
                              balances[t] + Debit(actions[1], t)
      /\ \A i \in 2 .. Len(actions) : Neutral(actions[i])
      /\ \A i \in 1 .. Len(actions) :
             /\ Writes(actions[i], "notes") => Phase[type] >= Phase.CreateEncNote
             /\ actions[i].type = "TransferTo" => Phase[type] >= Phase.Withdraw
             /\ Phase[type] >= Phase.Withdraw => actions[i].type \in LastTypes
      /\ balances \in [Token -> Amount]
  BY DEF Booked
<1>p. Phase.CreateEncNote = 5 /\ Phase.Withdraw = 6
  BY DEF Phase
<1> HIDE DEF s, base, z
<1>6. /\ Len(s) \in Nat /\ Len(actions) \in Nat /\ Len(z) = Len(s) + Len(actions)
      /\ \A i \in 1 .. Len(s) : i \in 1 .. Len(z) /\ z[i] = s[i]
      /\ \A i \in 1 .. Len(actions) : Len(s) + i \in 1 .. Len(z) /\ z[Len(s) + i] = actions[i]
      /\ \A i \in 1 .. Len(z) : i \in 1 .. Len(s) \/ \E m \in 1 .. Len(actions) : i = Len(s) + m
  BY <1>1, ConcatParts DEF z
<1>7. SpendsFrom(z, base)
  BY <1>4, <1>5, <1>6 DEF SpendsFrom
<1>8. WithdrawsLast(z)
  <2> SUFFICES ASSUME NEW i \in 1 .. Len(z), NEW j \in 1 .. Len(z), i < j,
                      z[i].type = "TransferTo"
               PROVE  z[j].type \in LastTypes
    BY DEF WithdrawsLast, LastTypes
  <2>1. CASE j \in 1 .. Len(s)
    <3>1. i \in 1 .. Len(s)
      BY <1>6, <2>1
    <3> QED BY <1>4, <1>6, <2>1, <3>1 DEF WithdrawsLast, LastTypes
  <2>2. ASSUME NEW m \in 1 .. Len(actions), j = Len(s) + m
        PROVE  z[j].type \in LastTypes
    <3>1. CASE i \in 1 .. Len(s)
      <4>1. session.phase >= 6
        BY <1>4, <1>6, <1>p, <3>1
      <4>2. Phase[type] >= 6
        BY <1>1, <1>2, <1>3, <4>1, SMTT(30)
      <4> QED BY <1>5, <1>6, <1>p, <2>2, <4>2
    <3>2. ASSUME NEW n \in 1 .. Len(actions), i = Len(s) + n
          PROVE  z[j].type \in LastTypes
      <4>1. Phase[type] >= 6
        BY <1>5, <1>6, <1>p, <3>2
      <4> QED BY <1>5, <1>6, <1>p, <2>2, <4>1
    <3> QED BY <1>6, <3>1, <3>2
  <2> QED BY <1>6, <2>1, <2>2
<1>9. ASSUME NEW i \in 1 .. Len(z)
      PROVE  /\ Writes(z[i], "notes") => session'.phase >= Phase.CreateEncNote
             /\ z[i].type = "TransferTo" => session'.phase >= Phase.Withdraw
  <2>1. CASE i \in 1 .. Len(s)
    <3>1. /\ Writes(z[i], "notes") => session.phase >= 5
          /\ z[i].type = "TransferTo" => session.phase >= 6
      BY <1>4, <1>6, <1>p, <2>1
    <3> QED BY <1>1, <1>3, <1>p, <3>1
  <2>2. ASSUME NEW m \in 1 .. Len(actions), i = Len(s) + m
        PROVE  /\ Writes(z[i], "notes") => session'.phase >= Phase.CreateEncNote
               /\ z[i].type = "TransferTo" => session'.phase >= Phase.Withdraw
    <3>1. /\ Writes(z[i], "notes") => Phase[type] >= 5
          /\ z[i].type = "TransferTo" => Phase[type] >= 6
      BY <1>5, <1>6, <1>p, <2>2
    <3> QED BY <1>3, <1>p, <3>1
  <2> QED BY <1>6, <2>1, <2>2
<1>10. ASSUME NEW t \in Token
       PROVE  Credits(z, base, t, 1) = balances[t] + Debits(z, t, 1)
  <2> DEFINE c == Credit(actions[1], base, t)
             d == Debit(actions[1], t)
             cs == Credits(s, base, t, 1)
             ds == Debits(s, t, 1)
  <2>1. 1 \in 1 .. Len(actions) /\ TypedAction(actions[1])
    BY <1>1, <1>5, <1>6 DEF TypedActions, TypedAction
  <2>2. c \in Amount /\ d \in Amount
    BY <1>1, <1>5, <2>1, AmountOf DEF SpendsFrom
  <2>3. \A i \in 2 .. Len(actions) : Credit(actions[i], base, t) = 0 /\ Debit(actions[i], t) = 0
    BY <1>5, NeutralIsZero
  <2>4. Credits(z, base, t, 1) = cs + c /\ Debits(z, t, 1) = ds + d
    BY <1>1, <1>5, <2>2, <2>3, BooksConcat DEF z
  <2>5. cs \in Nat /\ ds \in Nat
    BY <1>1, BooksTyped
  <2>6. session.balances[t] + c = balances[t] + d /\ cs = session.balances[t] + ds
    BY <1>4, <1>5
  <2>7. c \in Int /\ d \in Int /\ session.balances[t] \in Int /\ balances[t] \in Int
    BY <1>1, <1>5, <2>2, PoolDataAssumption DEF Amount
  <2> DEFINE b == session.balances[t]
             b2 == balances[t]
  <2>8. b + c = b2 + d /\ cs = b + ds /\ b \in Int /\ b2 \in Int
    BY <2>6, <2>7
  <2>9. cs + c = b2 + (ds + d)
    <3> HIDE DEF c, d, cs, ds, b, b2
    <3> QED BY <2>5, <2>7, <2>8
  <2> QED BY <2>4, <2>9
<1> QED BY <1>2, <1>7, <1>8, <1>9, <1>10 DEF SessionBooks, base

\* The token and the amount of a client action that moves tokens.
LEMMA MovedTypes ==
    ASSUME NEW c \in ClientActions, c.type \in {"Deposit", "UseNote", "CreateEncNote",
               "CreateOpenNote", "Withdraw"}, c.token # ZeroAddr
    PROVE  /\ c.token \in Token
           /\ c.type \in {"Deposit", "CreateEncNote", "Withdraw"} => c.amount \in Amount
           /\ c.type \in {"UseNote", "CreateEncNote", "CreateOpenNote"} => c.index \in Index
           /\ c.type = "CreateEncNote" => c.salt \in Salt
           /\ c.type = "UseNote" => c.channel_key \in ChannelKey
BY PrivacyPoolAssumption DEF ClientAction, AnyToken

\* The balance of every token after one is changed.
LEMMA MovedBalances ==
    ASSUME TypeOK, NEW token \in Token, NEW amount, NEW t \in Token
    PROVE  /\ add_balance(token, amount)[t] =
                  session.balances[t] + (IF t = token THEN amount ELSE 0)
           /\ subtract_balance(token, amount)[t] =
                  session.balances[t] - (IF t = token THEN amount ELSE 0)
PROOF
<1>1. session.balances \in [Token -> Int]
  BY PoolDataAssumption DEF TypeOK, TypedSession, Amount
<1>2. /\ add_balance(token, amount)[t] =
             IF t = token THEN session.balances[t] + amount ELSE session.balances[t]
      /\ subtract_balance(token, amount)[t] =
             IF t = token THEN session.balances[t] - amount ELSE session.balances[t]
  BY <1>1 DEF add_balance, subtract_balance
<1>3. session.balances[t] + 0 = session.balances[t] /\ session.balances[t] - 0 = session.balances[t]
  BY <1>1
<1> QED BY <1>2, <1>3

\* The phase of every client action.
LEMMA Phases ==
    /\ Phase["SetViewingKey"] = 0 /\ Phase["OpenChannel"] = 1 /\ Phase["OpenSubchannel"] = 2
    /\ Phase["Deposit"] = 3 /\ Phase["UseNote"] = 4 /\ Phase["CreateEncNote"] = 5
    /\ Phase["CreateOpenNote"] = 5 /\ Phase["Withdraw"] = 6 /\ Phase["InvokeExternal"] = 7
    /\ Phase["ComputeAndInvoke"] = 7 /\ Phase.CreateEncNote = 5 /\ Phase.Withdraw = 6
BY DEF Phase

\* A client action before the notes, whose server actions move nothing.
LEMMA NeutralBooks ==
    ASSUME TypeOK, NEW type, NEW actions, TypedActions(actions), Len(actions) > 0,
           \A i \in 1 .. Len(actions) : Neutral(actions[i]), Phase[type] \in 0 .. 2
    PROVE  Booked(type, actions, session.balances)
PROOF
<1>1. Len(actions) \in Nat
  BY DEF TypedActions
<1>2. 1 \in 1 .. Len(actions) /\ \A i \in 2 .. Len(actions) : i \in 1 .. Len(actions)
  BY <1>1
<1>3. session.balances \in [Token -> Amount]
  BY DEF TypeOK, TypedSession
<1>4. Phase[type] \in 0 .. 7 /\ ~(Phase[type] >= Phase.CreateEncNote)
      /\ ~(Phase[type] >= Phase.Withdraw)
  BY Phases
<1>5. \A t \in Token : Credit(actions[1], closed.store, t) = 0 /\ Debit(actions[1], t) = 0
  BY <1>2, NeutralIsZero
<1>6. SpendsFrom(actions, closed.store)
  BY DEF SpendsFrom, Neutral
<1> QED BY <1>2, <1>3, <1>4, <1>5, <1>6 DEF Booked, Neutral

\* A client action with one server action.
LEMMA SingleBooks ==
    ASSUME NEW type, NEW x, TypedActions(<<x>>), NEW balances \in [Token -> Amount],
           \A t \in Token : session.balances[t] + Credit(x, closed.store, t) =
                                balances[t] + Debit(x, t),
           Writes(x, "nullifiers") => NoteOf(x.address) \in DOMAIN closed.store,
           Phase[type] \in 0 .. 7,
           Writes(x, "notes") => Phase[type] >= 5,
           x.type = "TransferTo" => Phase[type] >= 6,
           Phase[type] >= 6 => x.type \in LastTypes
    PROVE  Booked(type, <<x>>, balances)
PROOF
<1>1. Len(<<x>>) = 1 /\ <<x>>[1] = x /\ (\A i \in 1 .. Len(<<x>>) : <<x>>[i] = x)
      /\ 2 .. Len(<<x>>) = {}
  OBVIOUS
<1>2. SpendsFrom(<<x>>, closed.store)
  BY <1>1 DEF SpendsFrom
<1> QED BY <1>1, <1>2, Phases DEF Booked

\* A note that a session can spend was committed before the session began.
LEMMA SpentFromBase ==
    ASSUME TypeOK, PoolInv, SessionEntries, SessionBooks, mode = "compile",
           NEW n \in NotesOf(session.store), session.phase <= 4
    PROVE  n \in DOMAIN closed.store /\ session.store[n] = closed.store[n]
PROOF
<1>1. ContinuesFrom(session.store, closed.store)
      /\ \A a \in DOMAIN session.store \ DOMAIN closed.store :
             \E i \in 1 .. Len(session.actions) :
                 session.actions[i] = WriteOnce(a, session.store[a])
  BY DEF SessionEntries
<1>2. n \in DOMAIN closed.store
  <2> SUFFICES ASSUME n \notin DOMAIN closed.store PROVE FALSE
    OBVIOUS
  <2>1. PICK i \in 1 .. Len(session.actions) :
            session.actions[i] = WriteOnce(n, session.store[n])
    BY <1>1 DEF NotesOf
  <2>2. Writes(session.actions[i], "notes")
    BY <2>1 DEF Writes, WriteOnce, IsWriteOnce, NotesOf
  <2>3. session.phase >= 5
    BY <2>2, Phases DEF SessionBooks
  <2>4. session.phase \in 0 .. 8
    BY DEF TypeOK, TypedSession
  <2> QED BY <2>3, <2>4
<1> QED BY <1>1, <1>2 DEF ContinuesFrom

\* Every client action books what it moves.
LEMMA ClientActionBooks ==
    ASSUME TypeOK, PoolInv, SessionEntries, SessionBooks, NEW c \in ClientActions,
           client_action(c), mode = "compile"
    PROVE  \E type, actions, balances :
               client_apply_actions(type, actions, balances) /\ Booked(type, actions, balances)
PROOF
<1> DEFINE u == session.user
           k == session.private_key
           base == closed.store
           Goal == \E type, actions, balances :
                       /\ client_apply_actions(type, actions, balances)
                       /\ Booked(type, actions, balances)
<1> SUFFICES Goal
  OBVIOUS
<1> HIDE DEF Goal
<1>1. TypeOK'
  BY TypeClientAction
<1>b. session.balances \in [Token -> Amount] /\ (\A t \in Token : session.balances[t] \in Int)
      /\ \A n \in Amount : n \in Int
  BY PoolDataAssumption DEF TypeOK, TypedSession, Amount
<1>n. ASSUME NEW type, NEW T, NEW actions \in Seq(T),
             client_apply_actions(type, actions, session.balances), Len(actions) > 0,
             \A i \in 1 .. Len(actions) : Neutral(actions[i]), Phase[type] \in 0 .. 2
      PROVE  Goal
  <2>1. TypedActions(actions)
    BY <1>1, <1>n, NewActionsTyped
  <2> QED BY <1>n, <2>1, NeutralBooks DEF Goal
<1>s. ASSUME NEW type, NEW x, NEW balances, client_apply_actions(type, <<x>>, balances)
      PROVE  TypedActions(<<x>>)
  <2>1. <<x>> \in Seq({x})
    OBVIOUS
  <2> QED BY <1>1, <1>s, <2>1, NewActionsTyped
<1>a. CASE c.type = "SetViewingKey" /\ set_viewing_key
  <2> DEFINE w1 == WriteOnce(public_key_entry(u), [public_key |-> derive_public_key(k)])
             w2 == WriteOnce(enc_private_key_entry(u),
                             [auditor_public_key |-> closed.auditor_public_key,
                              private_key |-> k])
             acts == <<w1, w2>>
  <2>1. client_apply_actions("SetViewingKey", acts, session.balances)
    BY <1>a DEF set_viewing_key
  <2>2. acts \in Seq({w1, w2}) /\ Len(acts) > 0 /\ \A i \in 1 .. Len(acts) : acts[i] \in {w1, w2}
    OBVIOUS
  <2>3. Neutral(w1) /\ Neutral(w2)
    BY DEF Neutral, Writes, WriteOnce, MapOf, public_key_entry, enc_private_key_entry
  <2>4. \A i \in 1 .. Len(acts) : Neutral(acts[i])
    BY <2>2, <2>3
  <2> HIDE DEF acts, w1, w2
  <2> QED BY <2>1, <2>2, <2>4, <1>n, Phases
<1>c. CASE c.type = "OpenChannel" /\ open_channel(c.recipient_addr, c.index)
  <2> DEFINE r == c.recipient_addr
             rp == RegisteredKey(session.store, r)
             ck == compute_channel_key(u, k, r, rp)
             x == AppendChannel(r, [encrypted_to |-> rp, channel_key |-> ck, sender_addr |-> u])
             w1 == WriteOnce(compute_channel_marker(ck, u, r, rp), [exists |-> TRUE])
             w2 == WriteOnce(compute_outgoing_channel_id(u, k, c.index), [recipient_addr |-> r])
             acts == <<x, w1, w2>>
  <2>1. client_apply_actions("OpenChannel", acts, session.balances)
    BY <1>c DEF open_channel
  <2>2. /\ acts \in Seq({x, w1, w2}) /\ Len(acts) > 0
        /\ \A i \in 1 .. Len(acts) : acts[i] \in {x, w1, w2}
    OBVIOUS
  <2>3. Neutral(x) /\ Neutral(w1) /\ Neutral(w2)
    BY DEF Neutral, Writes, IsWriteOnce, AppendChannel, WriteOnce, MapOf, compute_channel_marker,
           compute_outgoing_channel_id
  <2>4. \A i \in 1 .. Len(acts) : Neutral(acts[i])
    BY <2>2, <2>3
  <2> HIDE DEF acts, x, w1, w2
  <2> QED BY <2>1, <2>2, <2>4, <1>n, Phases
<1>d. CASE /\ c.type = "OpenSubchannel"
           /\ open_subchannel(c.recipient_addr, c.recipient_public_key, c.channel_key,
                              c.index, c.token)
  <2> DEFINE w1 == WriteOnce(compute_subchannel_id(c.channel_key, c.index), [token |-> c.token])
             w2 == WriteOnce(compute_subchannel_marker(c.channel_key, c.recipient_addr,
                                 c.recipient_public_key, c.token), [exists |-> TRUE])
             acts == <<w1, w2>>
  <2>1. client_apply_actions("OpenSubchannel", acts, session.balances)
    BY <1>d DEF open_subchannel
  <2>2. acts \in Seq({w1, w2}) /\ Len(acts) > 0 /\ \A i \in 1 .. Len(acts) : acts[i] \in {w1, w2}
    OBVIOUS
  <2>3. Neutral(w1) /\ Neutral(w2)
    BY DEF Neutral, Writes, WriteOnce, MapOf, compute_subchannel_id, compute_subchannel_marker
  <2>4. \A i \in 1 .. Len(acts) : Neutral(acts[i])
    BY <2>2, <2>3
  <2> HIDE DEF acts, w1, w2
  <2> QED BY <2>1, <2>2, <2>4, <1>n, Phases
<1>e. CASE c.type = "Deposit" /\ deposit(c.token, c.amount)
  <2> DEFINE x == TransferFrom(u, c.token, c.amount)
             b == add_balance(c.token, c.amount)
  <2>1. client_apply_actions("Deposit", <<x>>, b) /\ c.token # ZeroAddr
        /\ AddFits(c.token, c.amount)
    BY <1>e DEF deposit
  <2>2. c.token \in Token /\ c.amount \in Amount
    BY <1>e, <2>1, MovedTypes
  <2>3. /\ x.type = "TransferFrom" /\ x.token = c.token /\ x.amount = c.amount
        /\ ~Writes(x, "nullifiers") /\ ~Writes(x, "notes")
    BY DEF TransferFrom, Writes, IsWriteOnce
  <2>4. b \in [Token -> Amount]
    BY <2>1, <2>2, BalanceTypes
  <2>5. \A t \in Token : /\ Credit(x, base, t) = IF t = c.token THEN c.amount ELSE 0
                         /\ Debit(x, t) = 0
    BY <2>3 DEF Credit, Debit
  <2>6. \A t \in Token : b[t] = session.balances[t] + (IF t = c.token THEN c.amount ELSE 0)
    BY <2>2, MovedBalances
  <2>7. TypedActions(<<x>>)
    BY <2>1, <1>s
  <2>8. \A t \in Token : session.balances[t] + Credit(x, base, t) = b[t] + Debit(x, t)
    BY <1>b, <2>2, <2>5, <2>6
  <2> HIDE DEF x, b
  <2>9. Booked("Deposit", <<x>>, b)
    BY <2>3, <2>4, <2>7, <2>8, Phases, SingleBooks
  <2> QED BY <2>1, <2>9 DEF Goal
<1>f. CASE c.type = "Withdraw" /\ withdraw(c.to_addr, c.token, c.amount)
  <2> DEFINE x == TransferTo(c.to_addr, c.token, c.amount)
             b == subtract_balance(c.token, c.amount)
  <2>1. client_apply_actions("Withdraw", <<x>>, b) /\ c.token # ZeroAddr
        /\ SubtractFits(c.token, c.amount)
    BY <1>f DEF withdraw
  <2>2. c.token \in Token /\ c.amount \in Amount
    BY <1>f, <2>1, MovedTypes
  <2>3. /\ x.type = "TransferTo" /\ x.token = c.token /\ x.amount = c.amount
        /\ ~Writes(x, "nullifiers") /\ ~Writes(x, "notes")
    BY DEF TransferTo, Writes, IsWriteOnce
  <2>4. b \in [Token -> Amount]
    BY <2>1, <2>2, BalanceTypes
  <2>5. \A t \in Token : /\ Debit(x, t) = IF t = c.token THEN c.amount ELSE 0
                         /\ Credit(x, base, t) = 0
    BY <2>3 DEF Credit, Debit
  <2>6. \A t \in Token : b[t] = session.balances[t] - (IF t = c.token THEN c.amount ELSE 0)
    BY <2>2, MovedBalances
  <2>7. TypedActions(<<x>>)
    BY <2>1, <1>s
  <2>8. \A t \in Token : session.balances[t] + Credit(x, base, t) = b[t] + Debit(x, t)
    BY <1>b, <2>2, <2>5, <2>6
  <2> HIDE DEF x, b
  <2>9. Booked("Withdraw", <<x>>, b)
    BY <2>3, <2>4, <2>7, <2>8, Phases, SingleBooks DEF LastTypes
  <2> QED BY <2>1, <2>9 DEF Goal
<1>g. CASE c.type = "UseNote" /\ use_note(c.channel_key, c.token, c.index)
  <2> DEFINE n == compute_note_id(c.channel_key, c.token, c.index)
             amount == decode_note_amount(session.store[n], c.index)
             a == compute_nullifier(c.channel_key, c.token, c.index, k)
             x == WriteOnce(a, [exists |-> TRUE])
             b == add_balance(c.token, amount)
  <2>1. client_apply_actions("UseNote", <<x>>, b) /\ c.token # ZeroAddr
        /\ AddFits(c.token, amount) /\ n \in DOMAIN session.store
    BY <1>g DEF use_note, Written
  <2>2. c.token \in Token /\ c.index \in Index
    BY <1>g, <2>1, MovedTypes
  <2>3. /\ Writes(x, "nullifiers") /\ x.type = "WriteOnce" /\ ~Writes(x, "notes")
        /\ x.address = a /\ a[3] = c.token /\ a[4] = c.index /\ NoteOf(a) = n
    BY DEF Writes, WriteOnce, IsWriteOnce, MapOf, compute_nullifier, NoteOf
  <2>4. n \in NotesOf(session.store) /\ n[4] = c.index
    BY <2>1 DEF NotesOf, compute_note_id, MapOf
  <2>5. session.phase <= 4
    BY <2>1, Phases DEF client_apply_actions, assert_phase, TypeOK, TypedSession
  <2>6. n \in DOMAIN base /\ session.store[n] = base[n]
    <3> HIDE DEF n
    <3> QED BY <2>4, <2>5, SpentFromBase
  <2>7. amount \in Amount
    <3>1. TypedStore(session.store)
      BY DEF TypeOK, TypedSession
    <3> HIDE DEF n
    <3> QED BY <2>4, <3>1, StoredAmount
  <2>8. b \in [Token -> Amount]
    <3> HIDE DEF amount
    <3> QED BY <2>1, <2>2, <2>7, BalanceTypes
  <2>9. \A t \in Token : /\ Credit(x, base, t) = IF t = c.token THEN amount ELSE 0
                         /\ Debit(x, t) = 0
    <3> HIDE DEF x, a, n
    <3> QED BY <2>3, <2>6 DEF Credit, Debit
  <2>10. \A t \in Token : b[t] = session.balances[t] + (IF t = c.token THEN amount ELSE 0)
    <3> HIDE DEF amount
    <3> QED BY <2>2, MovedBalances
  <2>11. TypedActions(<<x>>)
    BY <2>1, <1>s
  <2>12. \A t \in Token : session.balances[t] + Credit(x, base, t) = b[t] + Debit(x, t)
    <3> HIDE DEF amount, x, b
    <3> QED BY <1>b, <2>7, <2>9, <2>10
  <2> HIDE DEF x, b, a, n, amount
  <2>13. Booked("UseNote", <<x>>, b)
    BY <2>3, <2>6, <2>8, <2>11, <2>12, Phases, SingleBooks
  <2> QED BY <2>1, <2>13 DEF Goal
<1>h. CASE /\ c.type = "CreateEncNote"
           /\ create_enc_note(c.recipient_addr, c.recipient_public_key, c.token, c.amount,
                              c.index, c.salt)
  <2> DEFINE n == compute_note_id(compute_channel_key(u, k, c.recipient_addr,
                                                      c.recipient_public_key), c.token, c.index)
             v == enc_note_packed_value(c.index, c.salt, c.amount)
             x == WriteOnce(n, v)
             b == subtract_balance(c.token, c.amount)
  <2>1. client_apply_actions("CreateEncNote", <<x>>, b) /\ c.token # ZeroAddr
        /\ SubtractFits(c.token, c.amount) /\ c.salt > OPEN_NOTE_SALT
    BY <1>h DEF create_enc_note
  <2>2. c.token \in Token /\ c.amount \in Amount /\ c.index \in Index /\ c.salt \in Salt
    BY <1>h, <2>1, MovedTypes
  <2>3. /\ ~Writes(x, "nullifiers") /\ x.type = "WriteOnce" /\ Writes(x, "notes")
        /\ x.address = n /\ n[3] = c.token /\ n[4] = c.index /\ x.value = v
    BY DEF Writes, WriteOnce, IsWriteOnce, MapOf, compute_note_id
  <2>4. decode_note_amount(v, c.index) = c.amount
    <3>1. c.salt # OPEN_NOTE_SALT
      BY <2>1, <2>2, PoolDataAssumption DEF OPEN_NOTE_SALT, Salt
    <3> QED BY <2>2, <3>1, DecodeEncode
  <2>5. b \in [Token -> Amount]
    BY <2>1, <2>2, BalanceTypes
  <2>6. \A t \in Token : /\ Debit(x, t) = IF t = c.token THEN c.amount ELSE 0
                         /\ Credit(x, base, t) = 0
    <3> HIDE DEF x, v, n
    <3> QED BY <2>3, <2>4 DEF Credit, Debit
  <2>7. \A t \in Token : b[t] = session.balances[t] - (IF t = c.token THEN c.amount ELSE 0)
    BY <2>2, MovedBalances
  <2>8. TypedActions(<<x>>)
    BY <2>1, <1>s
  <2>9. \A t \in Token : session.balances[t] + Credit(x, base, t) = b[t] + Debit(x, t)
    <3> HIDE DEF x, b
    <3> QED BY <1>b, <2>2, <2>6, <2>7
  <2> HIDE DEF x, b, v, n
  <2>p. Phase["CreateEncNote"] \in 0 .. 7 /\ Phase["CreateEncNote"] >= 5
        /\ ~(Phase["CreateEncNote"] >= 6) /\ x.type # "TransferTo"
    BY <2>3, Phases
  <2>10. Booked("CreateEncNote", <<x>>, b)
    BY <2>3, <2>5, <2>8, <2>9, <2>p, SingleBooks
  <2> QED BY <2>1, <2>10 DEF Goal
<1>i. CASE /\ c.type = "CreateOpenNote"
           /\ create_open_note(c.recipient_addr, c.recipient_public_key, c.token, c.index)
  <2> DEFINE n == compute_note_id(compute_channel_key(u, k, c.recipient_addr,
                                                      c.recipient_public_key), c.token, c.index)
             w1 == WriteOnce(n, open_note(c.token))
             w2 == EmitOpenNoteCreated(n)
             acts == <<w1, w2>>
  <2>1. client_apply_actions("CreateOpenNote", acts, session.balances)
    BY <1>i DEF create_open_note
  <2>2. /\ acts \in Seq({w1, w2}) /\ acts[1] = w1 /\ acts[2] = w2 /\ Len(acts) = 2
        /\ (\A i \in 1 .. Len(acts) : acts[i] \in {w1, w2})
        /\ (\A i \in 2 .. Len(acts) : acts[i] = w2)
    OBVIOUS
  <2>3. TypedActions(acts)
    <3> HIDE DEF acts, w1, w2
    <3> QED BY <1>1, <2>1, <2>2, NewActionsTyped
  <2>4. /\ w1.type = "WriteOnce" /\ ~Writes(w1, "nullifiers") /\ w1.value = open_note(c.token)
        /\ w2.type = "EmitOpenNoteCreated" /\ Neutral(w2)
    BY DEF Neutral, Writes, WriteOnce, IsWriteOnce, MapOf, compute_note_id, EmitOpenNoteCreated
  <2> HIDE DEF acts, w1, w2, n
  <2>5. \A t \in Token : Credit(w1, base, t) = 0 /\ Debit(w1, t) = 0
    BY <2>4 DEF Credit, Debit, open_note, decode_note_amount
  <2>6. \A t \in Token : session.balances[t] + Credit(acts[1], base, t) =
                             session.balances[t] + Debit(acts[1], t)
    BY <2>2, <2>5
  <2>7. SpendsFrom(acts, base)
    BY <2>2, <2>4 DEF SpendsFrom, Neutral
  <2>8. Phase["CreateOpenNote"] \in 0 .. 7 /\ Phase["CreateOpenNote"] >= Phase.CreateEncNote
        /\ ~(Phase["CreateOpenNote"] >= Phase.Withdraw)
    BY Phases
  <2>9. \A i \in 1 .. Len(acts) : acts[i].type # "TransferTo"
    BY <2>2, <2>4
  <2>10. Booked("CreateOpenNote", acts, session.balances)
    BY <1>b, <2>2, <2>3, <2>4, <2>6, <2>7, <2>8, <2>9 DEF Booked
  <2> QED BY <2>1, <2>10 DEF Goal
<1>j. ASSUME NEW type \in {"InvokeExternal", "ComputeAndInvoke"}, NEW x,
             client_apply_actions(type, <<x>>, session.balances),
             x.type \in {"Invoke", "InvokeWithComputation"}
      PROVE  Goal
  <2>1. TypedActions(<<x>>)
    BY <1>j, <1>s
  <2>2. ~Writes(x, "nullifiers") /\ ~Writes(x, "notes") /\ x.type # "TransferTo"
        /\ x.type \in LastTypes
    BY <1>j DEF Writes, IsWriteOnce, LastTypes
  <2>3. \A t \in Token : Credit(x, base, t) = 0 /\ Debit(x, t) = 0
    BY <1>j DEF Credit, Debit, Writes, IsWriteOnce
  <2>4. \A t \in Token : session.balances[t] + Credit(x, base, t) =
                             session.balances[t] + Debit(x, t)
    BY <2>3
  <2>5. Phase[type] \in 0 .. 7
    BY Phases
  <2>6. Booked(type, <<x>>, session.balances)
    BY <1>b, <2>1, <2>2, <2>4, <2>5, SingleBooks
  <2> QED BY <1>j, <2>6 DEF Goal
<1>k. CASE c.type = "InvokeExternal" /\ invoke_external(c.contract_address)
  <2>1. Invoke(c.contract_address).type = "Invoke"
    BY DEF Invoke
  <2> QED BY <1>k, <1>j, <2>1 DEF invoke_external
<1>l. CASE c.type = "ComputeAndInvoke" /\ compute_and_invoke(c.contract_address)
  <2>1. InvokeWithComputation(c.contract_address).type = "InvokeWithComputation"
    BY DEF InvokeWithComputation
  <2> QED BY <1>l, <1>j, <2>1 DEF compute_and_invoke
<1> QED
  BY <1>a, <1>c, <1>d, <1>e, <1>f, <1>g, <1>h, <1>i, <1>k, <1>l DEF client_action

\* The credits do not change when the store they are read in grows.
LEMMA CreditsMore ==
    ASSUME NEW s, NEW st, NEW st2, NEW t, SpendsFrom(s, st), ContinuesFrom(st2, st)
    PROVE  Credits(s, st2, t, 1) = Credits(s, st, t, 1) /\ SpendsFrom(s, st2)
PROOF
<1>1. \A i \in 1 .. Len(s) : Credit(s[i], st2, t) = Credit(s[i], st, t)
  BY DEF Credit, SpendsFrom, ContinuesFrom
<1>2. [i \in 1 .. Len(s) |-> Credit(s[i], st2, t)] = [i \in 1 .. Len(s) |-> Credit(s[i], st, t)]
  BY <1>1
<1> QED BY <1>2 DEF Credits, SpendsFrom, ContinuesFrom

\* Compilation keeps the books.
LEMMA CompileBooks ==
    ASSUME TypeOK, PoolInv, EntriesInv, BooksInv, compile_step
    PROVE  BooksInv'
PROOF
<1>0. UNCHANGED <<chainVars, timeVars, admin, tx>>
  BY CompileKeepsChain
<1>1. StoreBooks'
  BY <1>0 DEF BooksInv, StoreBooks, chainVars
<1>p. proofs' = proofs => ProofBooks'
  BY <1>0 DEF BooksInv, ProofBooks, chainVars
<1>2. ASSUME NEW c \in Callers, start_compile(c[1], c[2])
      PROVE  BooksInv'
  <2>1. /\ session'.actions = <<>> /\ session'.balances = [t \in Token |-> 0]
        /\ proofs' = proofs /\ mode' = "compile"
    BY <1>2 DEF start_compile, NoSession
  <2>2. Len(<<>>) = 0 /\ 1 .. Len(<<>>) = {}
    OBVIOUS
  <2>3. \A st, t : Credits(<<>>, st, t, 1) = 0 /\ Debits(<<>>, t, 1) = 0
    <3> DEFINE e == <<>>
    <3>1. 1 .. Len(e) = {}
      BY <2>2
    <3> HIDE DEF e
    <3>2. \A st, t : Credits(e, st, t, 1) = 0 /\ Debits(e, t, 1) = 0
      BY <3>1, BooksEnd
    <3> QED BY <3>2 DEF e
  <2>4. SpendsFrom(<<>>, closed'.store) /\ WithdrawsLast(<<>>)
    BY <2>2 DEF SpendsFrom, WithdrawsLast
  <2>5. SessionBooks'
    BY <2>1, <2>2, <2>3, <2>4 DEF SessionBooks
  <2> QED BY <1>1, <1>p, <2>1, <2>5 DEF BooksInv, TxBooks
<1>3. ASSUME NEW c \in ClientActions, client_action(c)
      PROVE  BooksInv'
  <2>1. mode = "compile"
    BY <1>3
       DEF client_action, client_apply_actions, set_viewing_key, open_channel, open_subchannel,
           deposit, withdraw, invoke_external, compute_and_invoke, use_note, create_enc_note,
           create_open_note
  <2>2. PICK type, actions, balances :
            client_apply_actions(type, actions, balances) /\ Booked(type, actions, balances)
    BY <1>3, <2>1, ClientActionBooks DEF EntriesInv, BooksInv
  <2>3. SessionBooks'
    BY <2>2, ClientApplyBooks DEF BooksInv
  <2>4. proofs' = proofs /\ mode' = "compile"
    BY <2>1, <2>2 DEF client_apply_actions
  <2> QED BY <1>1, <1>p, <2>3, <2>4 DEF BooksInv, TxBooks
<1>4. CASE finish_compile
  <2> DEFINE s == session.actions
             p == [base_block |-> block - 1, class_hash |-> closed.class_hash, actions |-> s]
  <2>1. /\ mode = "compile" /\ mode' = "idle" /\ proofs' = proofs \cup {p} /\ store' = store
        /\ \A t \in Token : session.balances[t] = 0
    BY <1>4, <1>0 DEF finish_compile, chainVars
  <2>2. /\ SpendsFrom(s, closed.store) /\ WithdrawsLast(s)
        /\ \A t \in Token : Credits(s, closed.store, t, 1) = 0 + Debits(s, t, 1)
    BY <2>1 DEF BooksInv, SessionBooks
  <2>3. TypedActions(s)
    BY DEF TypeOK, TypedSession
  <2>4. ContinuesFrom(store, closed.store)
    BY DEF EntriesInv, StoreEntries
  <2> DEFINE base == closed.store
  <2>5. SpendsFrom(s, store) /\ Balanced(s, store)
    <3>1. SpendsFrom(s, base) /\ ContinuesFrom(store, base)
      BY <2>2, <2>4
    <3> HIDE DEF s, base
    <3>2. \A t : Credits(s, store, t, 1) = Credits(s, base, t, 1) /\ SpendsFrom(s, store)
      BY <3>1, CreditsMore
    <3>3. \A t \in Token : Debits(s, t, 1) \in Nat
      BY <2>3, BooksTyped
    <3>4. \A t \in Token : Credits(s, base, t, 1) = Debits(s, t, 1)
      BY <2>2, <3>3 DEF base
    <3> QED BY <3>2, <3>4 DEF Balanced
  <2>6. p.actions = s
    OBVIOUS
  <2> HIDE DEF p
  <2>7. ProofBooks'
    BY <2>1, <2>2, <2>5, <2>6 DEF BooksInv, ProofBooks
  <2> QED BY <1>1, <2>1, <2>7 DEF BooksInv, SessionBooks, TxBooks
<1>5. CASE abort_compile
  <2>1. mode' = "idle" /\ proofs' = proofs
    BY <1>5 DEF abort_compile
  <2> QED BY <1>1, <1>p, <2>1 DEF BooksInv, SessionBooks, TxBooks
<1> QED BY <1>2, <1>3, <1>4, <1>5 DEF compile_step

-----------------------------------------------------------------------------
(***************************************************************************)
(* What the notes are worth, from one store to the next.                   *)
(***************************************************************************)

\* The worth of every unspent note.
Worth(st, token) == [n \in UnspentNotes(st, token) |-> decode_note_amount(st[n], n[4])]

\* What the pool owes is a natural number.
LEMMA LiabilitiesTyped ==
    ASSUME NEW st, IsFiniteSet(DOMAIN st), NEW t
    PROVE  /\ IsFiniteSet(DOMAIN Worth(st, t)) /\ Liabilities(st, t) \in Nat
           /\ Liabilities(st, t) = Total(Worth(st, t))
PROOF
<1>1. DOMAIN Worth(st, t) \subseteq DOMAIN st
  BY DEF Worth, UnspentNotes, NotesOf
<1>2. IsFiniteSet(DOMAIN Worth(st, t))
  BY <1>1, FS_Subset
<1> QED BY <1>2, UnitsFinite DEF Liabilities, Worth

\* An entry that is neither a note nor a nullifier is worth nothing.
LEMMA OtherWorth ==
    ASSUME NEW st, NEW st2, NEW a, NEW v, NEW t, Adds(st, st2, a, v),
           MapOf(a) # "notes", MapOf(a) # "nullifiers"
    PROVE  Liabilities(st2, t) = Liabilities(st, t)
PROOF
<1>1. NotesOf(st2) = NotesOf(st) /\ \A n : IsSpent(st2, n) <=> IsSpent(st, n)
  BY DEF Adds, NotesOf, IsSpent
<1>2. UnspentNotes(st2, t) = UnspentNotes(st, t)
  BY <1>1 DEF UnspentNotes
<1>3. \A n \in UnspentNotes(st, t) : st2[n] = st[n]
  BY DEF UnspentNotes, NotesOf, Adds
<1>4. Worth(st2, t) = Worth(st, t)
  BY <1>2, <1>3 DEF Worth
<1> QED BY <1>4 DEF Liabilities, Worth

\* A new note adds what it decodes to.
LEMMA NoteWorth ==
    ASSUME NEW st, NEW st2, NEW a, NEW v, NEW t, Adds(st, st2, a, v),
           TypedStore(st2), IsFiniteSet(DOMAIN st2), MapOf(a) = "notes"
    PROVE  Liabilities(st2, t) <=
               Liabilities(st, t) + (IF a[3] = t THEN decode_note_amount(v, a[4]) ELSE 0)
PROOF
<1> DEFINE f == Worth(st, t)
           g == Worth(st2, t)
           d == decode_note_amount(v, a[4])
<1>0. IsFiniteSet(DOMAIN st)
  BY FS_Subset DEF Adds
<1>1. /\ Liabilities(st2, t) = Total(g) /\ Liabilities(st, t) = Total(f)
      /\ Liabilities(st, t) \in Nat /\ IsFiniteSet(DOMAIN g)
  BY <1>0, LiabilitiesTyped
<1>2. NotesOf(st2) = NotesOf(st) \cup {a} /\ (\A n : IsSpent(st2, n) <=> IsSpent(st, n))
      /\ a \notin NotesOf(st)
  BY DEF Adds, NotesOf, IsSpent
<1>3. a \in NotesOf(st2) /\ st2[a] = v
  BY <1>2 DEF Adds
<1>4. d \in Amount
  BY <1>3, StoredAmount
<1>5. d \in Nat
  BY <1>4, PoolDataAssumption DEF Amount
<1>6. \A n \in NotesOf(st) : st2[n] = st[n]
  BY DEF NotesOf, Adds
<1>7. CASE a[3] = t /\ ~IsSpent(st2, a)
  <2>1. UnspentNotes(st2, t) = UnspentNotes(st, t) \cup {a} /\ a \notin UnspentNotes(st, t)
    BY <1>2, <1>7 DEF UnspentNotes
  <2>2. /\ DOMAIN f \subseteq DOMAIN g /\ a \in DOMAIN g /\ a \notin DOMAIN f
        /\ g[a] = d /\ \A n \in DOMAIN g : n # a => g[n] = IF n \in DOMAIN f THEN f[n] ELSE 0
    BY <1>3, <1>6, <2>1 DEF Worth, UnspentNotes
  <2>3. Total(g) = Total(f) + g[a]
    <3> HIDE DEF f, g, d
    <3> QED BY <1>1, <1>4, <2>2, TotalAdd
  <2> QED BY <1>1, <1>5, <1>7, <2>2, <2>3
<1>8. CASE ~(a[3] = t /\ ~IsSpent(st2, a))
  <2>1. UnspentNotes(st2, t) = UnspentNotes(st, t)
    BY <1>2, <1>8 DEF UnspentNotes
  <2>2. g = f
    BY <1>6, <2>1 DEF Worth, UnspentNotes
  <2>3. Liabilities(st2, t) = Liabilities(st, t)
    BY <1>1, <2>2
  <2> QED BY <1>1, <1>5, <2>3
<1> QED BY <1>7, <1>8

\* A nullifier takes away what the note it spends decodes to.
LEMMA SpentWorth ==
    ASSUME NEW st, NEW st2, NEW a, NEW v, NEW t, Adds(st, st2, a, v),
           TypedStore(st), IsFiniteSet(DOMAIN st2), a \in Nullifier,
           NoteOf(a) \in NotesOf(st), ~IsSpent(st, NoteOf(a))
    PROVE  Liabilities(st, t) =
               Liabilities(st2, t)
                 + (IF a[3] = t THEN decode_note_amount(st[NoteOf(a)], a[4]) ELSE 0)
PROOF
<1> DEFINE f == Worth(st2, t)
           g == Worth(st, t)
           n == NoteOf(a)
           d == decode_note_amount(st[n], a[4])
<1>0. IsFiniteSet(DOMAIN st)
  BY FS_Subset DEF Adds
<1>1. /\ Liabilities(st, t) = Total(g) /\ Liabilities(st2, t) = Total(f)
      /\ Liabilities(st2, t) \in Nat /\ IsFiniteSet(DOMAIN g)
  BY <1>0, LiabilitiesTyped
<1>2. /\ n \in NoteId /\ n[2] = a[2] /\ n[3] = a[3] /\ n[4] = a[4]
      /\ MapOf(a) = "nullifiers"
  BY NoteOfFacts DEF Nullifier, MapOf
<1>3. /\ NotesOf(st2) = NotesOf(st)
      /\ \A m \in NotesOf(st) : IsSpent(st2, m) <=> (IsSpent(st, m) \/ m = n)
  <2>1. NotesOf(st2) = NotesOf(st)
    BY <1>2 DEF Adds, NotesOf
  <2>2. ASSUME NEW m \in NotesOf(st)
        PROVE  (m[2] = a[2] /\ m[3] = a[3] /\ m[4] = a[4]) <=> m = n
    <3>1. m \in NoteId
      BY StoredAmount
    <3> QED BY <1>2, <3>1 DEF NoteId
  <2> QED BY <1>2, <2>1, <2>2 DEF IsSpent, Adds
<1>4. \A m \in NotesOf(st) : st2[m] = st[m]
  BY DEF NotesOf, Adds
<1>5. CASE a[3] = t
  <2>1. /\ UnspentNotes(st2, t) = UnspentNotes(st, t) \ {n} /\ n \in UnspentNotes(st, t)
    BY <1>2, <1>3, <1>5 DEF UnspentNotes
  <2>2. /\ DOMAIN f \subseteq DOMAIN g /\ n \in DOMAIN g /\ n \notin DOMAIN f
        /\ g[n] = d /\ \A m \in DOMAIN g : m # n => g[m] = IF m \in DOMAIN f THEN f[m] ELSE 0
    BY <1>2, <1>4, <2>1 DEF Worth, UnspentNotes
  <2>3. d \in Amount
    BY <1>2, StoredAmount
  <2>4. Total(g) = Total(f) + g[n]
    <3> HIDE DEF f, g, d, n
    <3> QED BY <1>1, <2>2, <2>3, TotalAdd
  <2> QED BY <1>1, <1>5, <2>2, <2>4
<1>6. CASE a[3] # t
  <2>1. UnspentNotes(st2, t) = UnspentNotes(st, t)
    BY <1>2, <1>3, <1>6 DEF UnspentNotes
  <2>2. g = f
    BY <1>4, <2>1 DEF Worth, UnspentNotes
  <2> QED BY <1>1, <1>6, <2>2
<1> QED BY <1>5, <1>6

\* A deposit adds its amount to the note it fills.
LEMMA DepositWorth ==
    ASSUME NEW st, NEW st2, NEW n \in NotesOf(st), NEW amount \in Amount, NEW t,
           TypedStore(st), IsFiniteSet(DOMAIN st), DOMAIN st2 = DOMAIN st,
           \A m \in DOMAIN st : m # n => st2[m] = st[m],
           st[n].salt = OPEN_NOTE_SALT, st[n].amount = 0,
           st2[n] = [st[n] EXCEPT !.amount = amount]
    PROVE  Liabilities(st2, t) <= Liabilities(st, t) + (IF n[3] = t THEN amount ELSE 0)
PROOF
<1> DEFINE f == Worth(st, t)
           g == Worth(st2, t)
<1>1. /\ Liabilities(st2, t) = Total(g) /\ Liabilities(st, t) = Total(f)
      /\ Liabilities(st, t) \in Nat /\ IsFiniteSet(DOMAIN g)
  BY LiabilitiesTyped
<1>2. NotesOf(st2) = NotesOf(st) /\ (\A m : IsSpent(st2, m) <=> IsSpent(st, m))
  BY DEF NotesOf, IsSpent
<1>3. UnspentNotes(st2, t) = UnspentNotes(st, t)
  BY <1>2 DEF UnspentNotes
<1>4. st[n] \in Note /\ amount \in Nat
  BY StoredAmount, PoolDataAssumption DEF Amount
<1>5. st2[n].salt = OPEN_NOTE_SALT /\ st2[n].amount = amount
  BY <1>4 DEF Note
<1>6. decode_note_amount(st[n], n[4]) = 0 /\ decode_note_amount(st2[n], n[4]) = amount
  BY <1>5 DEF decode_note_amount
<1>7. CASE n \in UnspentNotes(st, t)
  <2>1. /\ DOMAIN f \subseteq DOMAIN g /\ n \in DOMAIN g /\ f[n] = 0 /\ g[n] = amount
        /\ \A m \in DOMAIN g : m # n => g[m] = IF m \in DOMAIN f THEN f[m] ELSE 0
    BY <1>3, <1>6, <1>7 DEF Worth, UnspentNotes, NotesOf
  <2>2. Total(g) = Total(f) + g[n]
    <3> HIDE DEF f, g
    <3> QED BY <1>1, <2>1, TotalAdd
  <2>3. n[3] = t
    BY <1>7 DEF UnspentNotes
  <2> QED BY <1>1, <1>4, <2>1, <2>2, <2>3
<1>8. CASE n \notin UnspentNotes(st, t)
  <2>1. g = f
    BY <1>3, <1>8 DEF Worth, UnspentNotes, NotesOf
  <2> QED BY <1>1, <1>4, <2>1
<1> QED BY <1>7, <1>8

-----------------------------------------------------------------------------
(***************************************************************************)
(* Applying keeps the books.                                               *)
(***************************************************************************)

\* What a transaction in progress has, as far as its books go.
LEMMA TxFacts ==
    ASSUME TypeOK, PoolInv, BooksInv, mode = "apply"
    PROVE  /\ TypedActions(tx.proof.actions) /\ tx.proof \in proofs /\ TypedStore(store)
           /\ TypedStore(tx.store) /\ IsFiniteSet(DOMAIN tx.store) /\ OpenTokens(tx.store)
           /\ SpendsFrom(tx.proof.actions, store) /\ WithdrawsLast(tx.proof.actions)
           /\ tx.balance \in [Token -> Nat] /\ tx.pc \in Nat /\ Len(tx.proof.actions) \in Nat
           /\ \A i \in 1 .. Len(tx.proof.actions) : TypedAction(tx.proof.actions[i])
PROOF
<1>1. tx.proof \in proofs
  BY DEF PoolInv, TxInv
<1> QED BY <1>1 DEF TypeOK, TypedChain, TypedTx, TypedProof, TypedActions, TypedAction, BooksInv,
                    TxBooks, ProofBooks

\* The books are kept by an action whose effect on the balance and the notes is its due.
LEMMA TxStep ==
    ASSUME TypeOK, PoolInv, BooksInv, mode = "apply", tx.pc \in 1 .. Len(tx.proof.actions),
           tx'.proof = tx.proof, tx'.pc = tx.pc + 1, store' = store,
           IsFiniteSet(DOMAIN tx'.store), OpenTokens(tx'.store), tx'.balance \in [Token -> Nat],
           \A t \in Token :
               tx.balance[t] + Liabilities(tx'.store, t) + Credit(CurrentAction, store, t) <=
                   tx'.balance[t] + Liabilities(tx.store, t) + Debit(CurrentAction, t)
    PROVE  TxBooks'
PROOF
<1> DEFINE s == tx.proof.actions
           pc == tx.pc
<1>1. /\ TypedActions(s) /\ TypedStore(store) /\ SpendsFrom(s, store)
      /\ IsFiniteSet(DOMAIN tx.store) /\ tx.balance \in [Token -> Nat] /\ pc \in Nat
      /\ \A i \in 1 .. Len(s) : TypedAction(s[i])
  BY TxFacts
<1>2. ASSUME NEW t \in Token
      PROVE  tx'.balance[t] + Credits(s, store, t, pc + 1) >=
                 Liabilities(tx'.store, t) + Debits(s, t, pc + 1)
  <2> DEFINE x == s[pc]
             c == Credit(x, store, t)
             d == Debit(x, t)
             C == Credits(s, store, t, pc)
             C1 == Credits(s, store, t, pc + 1)
             D == Debits(s, t, pc)
             D1 == Debits(s, t, pc + 1)
             b == tx.balance[t]
             b2 == tx'.balance[t]
             v == Liabilities(tx.store, t)
             v2 == Liabilities(tx'.store, t)
  <2>1. c \in Amount /\ d \in Amount
    BY <1>1, AmountOf DEF SpendsFrom
  <2>2. C = C1 + c /\ D = D1 + d
    <3> HIDE DEF s, pc
    <3> QED BY <1>1, <2>1, BooksNext DEF s, pc
  <2>3. C1 \in Nat /\ D1 \in Nat
    <3> HIDE DEF s, pc
    <3>1. pc + 1 \in Nat
      BY <1>1
    <3> QED BY <1>1, <3>1, BooksTyped
  <2>4. c \in Nat /\ d \in Nat /\ b \in Nat /\ b2 \in Nat
    BY <1>1, <2>1, PoolDataAssumption DEF Amount
  <2>5. v \in Nat /\ v2 \in Nat
    <3> DEFINE st == tx.store
               st2 == tx'.store
    <3>1. IsFiniteSet(DOMAIN st) /\ IsFiniteSet(DOMAIN st2)
      BY <1>1
    <3> HIDE DEF st, st2
    <3>2. Liabilities(st, t) \in Nat /\ Liabilities(st2, t) \in Nat
      BY <3>1, LiabilitiesTyped
    <3> QED BY <3>2 DEF st, st2
  <2>6. b + C >= v + D
    BY DEF BooksInv, TxBooks
  <2>7. b + v2 + c <= b2 + v + d
    BY DEF CurrentAction
  <2>8. b2 + C1 >= v2 + D1
    <3> HIDE DEF c, d, C, C1, D, D1, b, b2, v, v2
    <3> QED BY <2>2, <2>3, <2>4, <2>5, <2>6, <2>7
  <2> QED BY <2>8
<1> QED BY <1>2 DEF TxBooks

\* Writing a fresh address adds its entry.
LEMMA WriteAdds ==
    ASSUME NEW st, NEW a, NEW v, a \notin DOMAIN st
    PROVE  Adds(st, Write(st, a, v), a, v)
PROOF
<1>1. \A z \in DOMAIN st : z # a
  OBVIOUS
<1> QED BY <1>1, WriteFacts DEF Adds

\* A write of apply_actions keeps the books: a note, an open note or a nullifier.
LEMMA ApplyWriteBooks ==
    ASSUME TypeOK, TypeOK', PoolInv, EntriesInv, BooksInv, apply_write_once
    PROVE  TxBooks'
PROOF
<1> DEFINE s == tx.proof.actions
           x == CurrentAction
           a == x.address
           v == x.value
           st == tx.store
           st2 == tx'.store
<1>t. tx = [proof |-> tx.proof, pc |-> tx.pc, store |-> tx.store, channels |-> tx.channels,
            balance |-> tx.balance, undeposited |-> tx.undeposited, subject |-> tx.subject,
            screened |-> tx.screened, depositor |-> tx.depositor, deposits |-> tx.deposits]
      /\ tx.pc \in Nat \ {0} /\ Len(s) \in Nat
  BY DEF TypeOK, TypedTx, TypedProof, TypedActions
<1>1. /\ mode = "apply" /\ applyUnchanged /\ tx.pc \in 1 .. Len(s) /\ IsWriteOnce(x)
  BY <1>t DEF apply_write_once, AtAction, CurrentAction, IsWriteOnce
<1>2. /\ tx'.proof = tx.proof /\ tx'.pc = tx.pc + 1 /\ tx'.balance = tx.balance
      /\ st2 = Write(st, a, v) /\ a \notin DOMAIN st /\ store' = store
  BY <1>t, <1>1 DEF apply_write_once, CanWriteOnce, Written, applyUnchanged, chainVars
<1>3. /\ TypedActions(s) /\ tx.proof \in proofs /\ TypedStore(store) /\ TypedStore(st)
      /\ IsFiniteSet(DOMAIN st) /\ OpenTokens(st) /\ SpendsFrom(s, store)
      /\ tx.balance \in [Token -> Nat] /\ TypedAction(x)
  BY <1>1, TxFacts DEF CurrentAction
<1>4. TypedStore(st2)
  BY DEF TypeOK, TypedTx
<1>5. Leads(x) => Linked(x, NextAction')
  BY <1>1, <1>2, Advance
<1>6. TypedWrite(a, v)
  BY <1>1, <1>3, WriteOnceOf
<1>7. ContinuesFrom(st, store)
  BY <1>1 DEF EntriesInv, TxEntries
<1>8. x.type = "WriteOnce"
  BY <1>1 DEF IsWriteOnce
<1>9. Writes(x, "nullifiers") => /\ NoteOf(a) \in DOMAIN store
                                 /\ WellFormed(a) /\ \A m \in DOMAIN st : WellFormed(m)
  <2>1. AllWellFormed(WrittenBy(s)) /\ AllWellFormed(DOMAIN store)
        /\ DOMAIN st = DOMAIN store \cup WrittenBefore(s, tx.pc)
    BY <1>1, <1>3 DEF PoolInv, ProofsInv, StorageInv, TxInv
  <2>2. a \in WrittenBy(s) /\ WrittenBefore(s, tx.pc) \subseteq WrittenBy(s)
    BY <1>1, <1>3, <1>t, WrittenByFacts DEF CurrentAction
  <2>3. Writes(x, "nullifiers") => NoteOf(a) \in DOMAIN store
    BY <1>1, <1>3 DEF SpendsFrom, CurrentAction
  <2> QED BY <2>1, <2>2, <2>3 DEF AllWellFormed
<1>10. OpensNote(x) => v.token = a[3]
  <2> SUFFICES ASSUME OpensNote(x) PROVE v.token = a[3]
    OBVIOUS
  <2>1. Linked(x, NextAction')
    BY <1>5 DEF Leads
  <2>2. ~Writes(x, "channel_exists") /\ ~Writes(x, "subchannel_tokens")
    BY DEF OpensNote, Writes
  <2>3. v = open_note(a[3])
    BY <1>8, <2>1, <2>2 DEF Linked
  <2> QED BY <2>3 DEF open_note
<1> HIDE DEF st, st2, a, v
<1>11. Adds(st, st2, a, v)
  <2>1. a \notin DOMAIN st
    BY <1>2
  <2>2. Adds(st, Write(st, a, v), a, v)
    BY <2>1, WriteAdds
  <2> QED BY <1>2, <2>2
<1>12. IsFiniteSet(DOMAIN st2)
  BY <1>3, <1>11, FS_AddElement DEF Adds
<1>13. OpenTokens(st2)
  BY <1>1, <1>3, <1>10, <1>11 DEF OpenTokens, Adds, NotesOf, OpensNote, Writes, a, v
<1>14. \A t \in Token : Liabilities(st, t) \in Nat /\ Liabilities(st2, t) \in Nat
                        /\ tx.balance[t] \in Nat
  BY <1>3, <1>12, LiabilitiesTyped
<1>15. ASSUME NEW t \in Token
       PROVE  tx.balance[t] + Liabilities(st2, t) + Credit(x, store, t) <=
                  tx.balance[t] + Liabilities(st, t) + Debit(x, t)
  <2>0. Liabilities(st, t) \in Nat /\ Liabilities(st2, t) \in Nat /\ tx.balance[t] \in Nat
    BY <1>14
  <2>1. CASE MapOf(a) = "notes"
    <3> DEFINE d == IF a[3] = t THEN decode_note_amount(v, a[4]) ELSE 0
    <3>1. Liabilities(st2, t) <= Liabilities(st, t) + d
      BY <1>4, <1>11, <1>12, <2>1, NoteWorth
    <3>2. Credit(x, store, t) = 0 /\ Debit(x, t) = d
      BY <1>8, <2>1 DEF Credit, Debit, Writes, IsWriteOnce, a, v
    <3>3. d \in Nat
      <4>1. Debit(x, t) \in Amount
        BY <1>1, <1>3, <1>9, AmountOf DEF a
      <4> QED BY <3>2, <4>1, PoolDataAssumption DEF Amount
    <3> HIDE DEF d
    <3> QED BY <2>0, <3>1, <3>2, <3>3
  <2>2. CASE MapOf(a) = "nullifiers"
    <3> DEFINE n == NoteOf(a)
               d == IF a[3] = t THEN decode_note_amount(st[n], a[4]) ELSE 0
    <3>1. Writes(x, "nullifiers") /\ ~Writes(x, "notes") /\ a \in Nullifier
      BY <1>6, <1>8, <2>2, KindOf DEF Writes, IsWriteOnce, a
    <3>2. n \in NotesOf(st) /\ st[n] = store[n]
      BY <1>7, <1>9, <3>1, NoteOfFacts DEF ContinuesFrom, NotesOf
    <3>3. ~IsSpent(st, n)
      <4> SUFFICES ASSUME NEW m \in DOMAIN st, MapOf(m) = "nullifiers",
                          m[2] = n[2], m[3] = n[3], m[4] = n[4]
                   PROVE  FALSE
        BY DEF IsSpent
      <4>1. m \in Nullifier
        BY <1>3, KindOf DEF TypedStore
      <4>2. m[2] = a[2] /\ m[3] = a[3] /\ m[4] = a[4]
        BY <3>1, NoteOfFacts
      <4>3. WellFormed(m) /\ WellFormed(a)
        BY <1>9, <3>1
      <4>4. /\ m[5] \in PrivateKey /\ a[5] \in PrivateKey
            /\ is_canonical_key(m[5]) /\ is_canonical_key(a[5])
            /\ derive_public_key(m[5]) = derive_public_key(a[5])
        BY <2>2, <3>1, <4>1, <4>2, <4>3 DEF WellFormed, Nullifier
      <4>5. m[5] = a[5]
        BY <4>4, CanonicalKeyInjective
      <4>6. m = a
        BY <3>1, <4>1, <4>2, <4>5 DEF Nullifier
      <4> QED BY <1>11, <4>6 DEF Adds
    <3>4. Liabilities(st, t) = Liabilities(st2, t) + d
      BY <1>3, <1>11, <1>12, <3>1, <3>2, <3>3, SpentWorth
    <3>5. Credit(x, store, t) = d /\ Debit(x, t) = 0
      BY <1>8, <3>1, <3>2 DEF Credit, Debit, a
    <3>6. d \in Nat
      <4>1. Credit(x, store, t) \in Amount
        BY <1>1, <1>3, <1>9, AmountOf DEF a
      <4> QED BY <3>5, <4>1, PoolDataAssumption DEF Amount
    <3> HIDE DEF d
    <3> QED BY <2>0, <3>4, <3>5, <3>6
  <2>3. CASE MapOf(a) # "notes" /\ MapOf(a) # "nullifiers"
    <3>1. Liabilities(st2, t) = Liabilities(st, t)
      BY <1>11, <2>3, OtherWorth
    <3>2. Credit(x, store, t) = 0 /\ Debit(x, t) = 0
      BY <1>8, <2>3 DEF Credit, Debit, Writes, a
    <3> QED BY <2>0, <3>1, <3>2
  <2> QED BY <2>1, <2>2, <2>3
<1> QED BY <1>1, <1>2, <1>3, <1>12, <1>13, <1>15, TxStep DEF st, st2

\* A deposit into an open note keeps the books.
LEMMA ApplyDepositBooks ==
    ASSUME TypeOK, PoolInv, EntriesInv, BooksInv,
           NEW n \in NotesOf(tx.store), NEW token \in Token, NEW amount \in Amount,
           deposit_to_open_note(n, token, amount)
    PROVE  TxBooks'
PROOF
<1> DEFINE s == tx.proof.actions
           st == tx.store
           st2 == tx'.store
<1>t. tx = [proof |-> tx.proof, pc |-> tx.pc, store |-> tx.store, channels |-> tx.channels,
            balance |-> tx.balance, undeposited |-> tx.undeposited, subject |-> tx.subject,
            screened |-> tx.screened, depositor |-> tx.depositor, deposits |-> tx.deposits]
  BY DEF TypeOK, TypedTx
<1>1. /\ mode = "apply" /\ applyUnchanged /\ st[n].salt = OPEN_NOTE_SALT /\ st[n].amount = 0
      /\ st[n].token = token
  BY DEF deposit_to_open_note
<1>2. /\ tx'.proof = tx.proof /\ tx'.pc = tx.pc
      /\ tx'.balance = [tx.balance EXCEPT ![token] = @ + amount]
      /\ st2 = [st EXCEPT ![n].amount = amount] /\ store' = store
  BY <1>t, <1>1 DEF deposit_to_open_note, applyUnchanged, chainVars
<1>3. /\ TypedStore(st) /\ IsFiniteSet(DOMAIN st) /\ OpenTokens(st) /\ TypedActions(s)
      /\ tx.balance \in [Token -> Nat] /\ tx.pc \in Nat
  BY <1>1, TxFacts
<1>4. n \in DOMAIN st /\ st[n] \in Note /\ n[3] = token
  BY <1>1, <1>3, StoredAmount DEF OpenTokens, NotesOf
<1>5. /\ DOMAIN st2 = DOMAIN st /\ (\A m \in DOMAIN st : m # n => st2[m] = st[m])
      /\ st2[n] = [st[n] EXCEPT !.amount = amount]
  BY <1>2, <1>3, <1>4 DEF TypedStore
<1>6. st2[n].token = token
  BY <1>1, <1>4, <1>5 DEF Note
<1>7. OpenTokens(st2)
  BY <1>3, <1>4, <1>5, <1>6 DEF OpenTokens, NotesOf
<1>8. amount \in Nat
  BY PoolDataAssumption DEF Amount
<1>9. \A t \in Token : tx'.balance[t] = tx.balance[t] + (IF t = token THEN amount ELSE 0)
  BY <1>2, <1>3
<1>f. IsFiniteSet(DOMAIN st2) /\ n \in NotesOf(st)
  BY <1>3, <1>5
<1> HIDE DEF s, st, st2
<1>10. ASSUME NEW t \in Token
       PROVE  tx'.balance[t] + Credits(s, store, t, tx.pc) >=
                  Liabilities(st2, t) + Debits(s, t, tx.pc)
  <2> DEFINE C == Credits(s, store, t, tx.pc)
             D == Debits(s, t, tx.pc)
             b == tx.balance[t]
             b2 == tx'.balance[t]
             v == Liabilities(st, t)
             v2 == Liabilities(st2, t)
             d == IF t = token THEN amount ELSE 0
  <2>1. v2 <= v + (IF n[3] = t THEN amount ELSE 0)
    BY <1>1, <1>3, <1>5, <1>f, DepositWorth
  <2>2. v2 <= v + d
    BY <1>4, <2>1
  <2>3. v \in Nat /\ v2 \in Nat
    BY <1>3, <1>f, LiabilitiesTyped
  <2>4. C \in Nat /\ D \in Nat
    BY <1>3, BooksTyped
  <2>5. b + C >= v + D
    BY <1>1 DEF BooksInv, TxBooks, s, st
  <2>6. b \in Nat /\ d \in Nat /\ b2 = b + d
    BY <1>3, <1>8, <1>9
  <2>7. b2 + C >= v2 + D
    <3> HIDE DEF C, D, b, b2, v, v2, d
    <3> QED BY <2>2, <2>3, <2>4, <2>5, <2>6
  <2> QED BY <2>7
<1> QED BY <1>2, <1>7, <1>10, <1>f DEF TxBooks, s, st, st2

\* Every step of apply_actions keeps the books.
LEMMA ApplyBooks ==
    ASSUME TypeOK, TypeOK', PoolInv, EntriesInv, BooksInv, apply_step
    PROVE  BooksInv'
PROOF
<1> DEFINE s == tx.proof.actions
<1>t. /\ tx = [proof |-> tx.proof, pc |-> tx.pc, store |-> tx.store, channels |-> tx.channels,
               balance |-> tx.balance, undeposited |-> tx.undeposited, subject |-> tx.subject,
               screened |-> tx.screened, depositor |-> tx.depositor, deposits |-> tx.deposits]
      /\ tx.pc \in Nat \ {0} /\ Len(s) \in Nat /\ tx'.balance \in [Token -> Nat]
      /\ tx.balance \in [Token -> Nat]
  <2>1. TypedTx /\ TypedTx'
    BY DEF TypeOK
  <2>2. s \in Seq(ServerAction)
    BY <2>1 DEF TypedTx, TypedProof, TypedActions
  <2>3. Len(s) \in Nat
    BY <2>2
  <2> QED BY <2>1, <2>3 DEF TypedTx
<1>k. ASSUME applyUnchanged, mode = "apply", TxBooks'
      PROVE  BooksInv'
  BY <1>k DEF BooksInv, StoreBooks, SessionBooks, ProofBooks, applyUnchanged, chainVars, timeVars
\* An action that leaves the notes alone.
<1>n. ASSUME NEW type, AtAction(type), applyUnchanged,
             tx'.proof = tx.proof, tx'.pc = tx.pc + 1, tx'.store = tx.store,
             \A t \in Token : tx.balance[t] + Credit(CurrentAction, store, t) <=
                                  tx'.balance[t] + Debit(CurrentAction, t)
      PROVE  BooksInv'
  <2>1. mode = "apply" /\ tx.pc \in 1 .. Len(s) /\ store' = store
    BY <1>n, <1>t DEF AtAction, applyUnchanged, chainVars
  <2>2. /\ IsFiniteSet(DOMAIN tx.store) /\ OpenTokens(tx.store) /\ TypedAction(CurrentAction)
        /\ TypedStore(store) /\ SpendsFrom(s, store)
    BY <2>1, TxFacts DEF CurrentAction
  <2>3. ASSUME NEW t \in Token
        PROVE  tx.balance[t] + Liabilities(tx'.store, t) + Credit(CurrentAction, store, t) <=
                   tx'.balance[t] + Liabilities(tx.store, t) + Debit(CurrentAction, t)
    <3> DEFINE st == tx.store
               x == CurrentAction
               b == tx.balance[t]
               b2 == tx'.balance[t]
               v == Liabilities(st, t)
               c == Credit(x, store, t)
               d == Debit(x, t)
    <3>1. v \in Nat
      <4> HIDE DEF st
      <4> QED BY <2>2, LiabilitiesTyped DEF st
    <3>2. c \in Amount /\ d \in Amount
      <4>1. Writes(x, "nullifiers") => NoteOf(x.address) \in DOMAIN store
        BY <2>1, <2>2 DEF SpendsFrom, CurrentAction
      <4> HIDE DEF x
      <4> QED BY <2>2, <4>1, AmountOf DEF x
    <3>3. c \in Nat /\ d \in Nat /\ b \in Nat /\ b2 \in Nat /\ b + c <= b2 + d
      BY <1>n, <1>t, <3>2, PoolDataAssumption DEF Amount
    <3>4. Liabilities(tx'.store, t) = v
      BY <1>n
    <3>5. b + v + c <= b2 + v + d
      <4> HIDE DEF b, b2, v, c, d
      <4> QED BY <3>1, <3>3
    <3> QED BY <3>4, <3>5
  <2>4. TxBooks'
    BY <1>n, <1>t, <2>1, <2>2, <2>3, TxStep
  <2> QED BY <1>k, <1>n, <2>1, <2>4
\* The action a transaction is at is of its type and of no other.
<1>c. ASSUME NEW type, AtAction(type), type # "WriteOnce"
      PROVE  /\ CurrentAction.type = type /\ TypedAction(CurrentAction)
             /\ ~Writes(CurrentAction, "nullifiers") /\ ~Writes(CurrentAction, "notes")
  BY <1>c, CurrentActionTyped DEF Writes, IsWriteOnce
<1>b. \A t \in Token : tx.balance[t] + 0 <= tx.balance[t] + 0
  BY <1>t
<1>1. ASSUME NEW p \in proofs, start_apply(p) PROVE BooksInv'
  <2>1. /\ tx'.proof = p /\ tx'.pc = 1 /\ tx'.store = store /\ tx'.balance = pool_balance
        /\ UNCHANGED <<chainVars, timeVars, admin, proofs, session>> /\ mode' = "apply"
        /\ store' = store
    BY <1>1 DEF start_apply, NoTx, chainVars
  <2>2. /\ IsFiniteSet(DOMAIN store) /\ OpenTokens(store) /\ Balanced(p.actions, store)
        /\ \A t \in Token : pool_balance[t] >= Liabilities(store, t)
    BY DEF BooksInv, StoreBooks, ProofBooks
  <2>3. TypedActions(p.actions) /\ pool_balance \in [Token -> Nat]
    BY DEF TypeOK, TypedChain, TypedProof
  <2>4. ASSUME NEW t \in Token
        PROVE  pool_balance[t] + Credits(p.actions, store, t, 1) >=
                   Liabilities(store, t) + Debits(p.actions, t, 1)
    <3>1. Credits(p.actions, store, t, 1) = Debits(p.actions, t, 1)
      BY <2>2 DEF Balanced
    <3>2. Debits(p.actions, t, 1) \in Nat /\ Liabilities(store, t) \in Nat
      BY <2>2, <2>3, BooksTyped, LiabilitiesTyped
    <3> QED BY <2>2, <2>3, <3>1, <3>2
  <2>5. TxBooks'
    BY <2>1, <2>2, <2>4 DEF TxBooks
  <2>6. StoreBooks' /\ ProofBooks'
    BY <2>1 DEF BooksInv, StoreBooks, ProofBooks, chainVars
  <2> QED BY <2>1, <2>5, <2>6 DEF BooksInv, SessionBooks
<1>2. CASE apply_write_once
  <2>1. applyUnchanged /\ mode = "apply"
    BY <1>2 DEF apply_write_once, AtAction
  <2> QED BY <1>2, <1>k, <2>1, ApplyWriteBooks
<1>3. CASE apply_append
  <2>1. /\ AtAction("Append") /\ applyUnchanged /\ tx'.proof = tx.proof /\ tx'.pc = tx.pc + 1
        /\ tx'.store = tx.store /\ tx'.balance = tx.balance
    BY <1>3, <1>t DEF apply_append
  <2>2. \A t \in Token : Credit(CurrentAction, store, t) = 0 /\ Debit(CurrentAction, t) = 0
    BY <1>c, <2>1 DEF Credit, Debit
  <2> QED BY <1>b, <1>n, <2>1, <2>2
<1>4. CASE apply_transfer_from
  <2> DEFINE x == CurrentAction
  <2>1. /\ AtAction("TransferFrom") /\ applyUnchanged /\ tx'.proof = tx.proof
        /\ tx'.pc = tx.pc + 1 /\ tx'.store = tx.store
        /\ tx'.balance = [tx.balance EXCEPT ![x.token] = @ + x.amount]
    BY <1>4, <1>t DEF apply_transfer_from
  <2>2. /\ x.type = "TransferFrom" /\ x.token \in Token /\ x.amount \in Amount
        /\ ~Writes(x, "notes")
    BY <1>c, <2>1 DEF TypedAction, ServerAction
  <2>3. x.amount \in Nat
    BY <2>2, PoolDataAssumption DEF Amount
  <2>4. ASSUME NEW t \in Token
        PROVE  tx.balance[t] + Credit(x, store, t) <= tx'.balance[t] + Debit(x, t)
    <3>1. Debit(x, t) = 0
      BY <2>2 DEF Debit
    <3>2. CASE t = x.token
      <4>1. Credit(x, store, t) = x.amount /\ tx'.balance[t] = tx.balance[t] + x.amount
        BY <1>t, <2>1, <2>2, <3>2 DEF Credit
      <4> HIDE DEF x
      <4> QED BY <1>t, <2>3, <3>1, <4>1
    <3>3. CASE t # x.token
      <4>1. Credit(x, store, t) = 0 /\ tx'.balance[t] = tx.balance[t]
        BY <1>c, <1>t, <2>1, <2>2, <3>3 DEF Credit
      <4> QED BY <1>b, <3>1, <4>1
    <3> QED BY <3>2, <3>3
  <2> QED BY <1>n, <2>1, <2>4
<1>5. CASE apply_transfer_to
  <2> DEFINE x == CurrentAction
  <2>1. /\ AtAction("TransferTo") /\ applyUnchanged /\ tx'.proof = tx.proof
        /\ tx'.pc = tx.pc + 1 /\ tx'.store = tx.store
        /\ tx'.balance = [tx.balance EXCEPT ![x.token] =
                              IF x.to_addr = PoolAddress THEN @ ELSE @ - x.amount]
    BY <1>5, <1>t DEF apply_transfer_to
  <2>2. /\ x.type = "TransferTo" /\ x.token \in Token /\ x.amount \in Amount
        /\ ~Writes(x, "nullifiers")
    BY <1>c, <2>1 DEF TypedAction, ServerAction
  <2>3. x.amount \in Nat
    BY <2>2, PoolDataAssumption DEF Amount
  <2>4. ASSUME NEW t \in Token
        PROVE  tx.balance[t] + Credit(x, store, t) <= tx'.balance[t] + Debit(x, t)
    <3>1. Credit(x, store, t) = 0
      BY <2>2 DEF Credit
    <3>2. CASE t = x.token
      <4>1. Debit(x, t) = x.amount
        BY <2>2, <3>2 DEF Debit
      <4>2. tx'.balance[t] = tx.balance[t] \/ tx'.balance[t] = tx.balance[t] - x.amount
        BY <1>t, <2>1, <2>2, <3>2
      <4> HIDE DEF x
      <4> QED BY <1>t, <2>3, <3>1, <4>1, <4>2
    <3>3. CASE t # x.token
      <4>1. Debit(x, t) = 0 /\ tx'.balance[t] = tx.balance[t]
        BY <1>c, <1>t, <2>1, <2>2, <3>3 DEF Debit
      <4> QED BY <1>b, <3>1, <4>1
    <3> QED BY <3>2, <3>3
  <2> QED BY <1>n, <2>1, <2>4
<1>6. CASE emit_open_note_created
  <2>1. /\ AtAction("EmitOpenNoteCreated") /\ applyUnchanged /\ tx'.proof = tx.proof
        /\ tx'.pc = tx.pc + 1 /\ tx'.store = tx.store /\ tx'.balance = tx.balance
    BY <1>6, <1>t DEF emit_open_note_created
  <2>2. \A t \in Token : Credit(CurrentAction, store, t) = 0 /\ Debit(CurrentAction, t) = 0
    BY <1>c, <2>1 DEF Credit, Debit
  <2> QED BY <1>b, <1>n, <2>1, <2>2
<1>7. CASE invoke_without_deposits
  <2>1. /\ AtAction("Invoke") \/ AtAction("InvokeWithComputation")
        /\ applyUnchanged /\ tx'.proof = tx.proof
        /\ tx'.pc = tx.pc + 1 /\ tx'.store = tx.store /\ tx'.balance = tx.balance
    BY <1>7, <1>t DEF invoke_without_deposits, AtInvoke
  <2>2. \A t \in Token : Credit(CurrentAction, store, t) = 0 /\ Debit(CurrentAction, t) = 0
    BY <1>c, <2>1 DEF Credit, Debit
  <2> QED BY <1>b, <1>n, <2>1, <2>2
<1>8. ASSUME NEW associated \in SUBSET ContractAddress, invoke_with_deposits(associated)
      PROVE  BooksInv'
  <2>1. /\ mode = "apply" /\ applyUnchanged /\ tx'.proof = tx.proof /\ tx'.pc = tx.pc
        /\ tx'.store = tx.store /\ tx'.balance = tx.balance
    BY <1>8, <1>t DEF invoke_with_deposits, AtInvoke, AtAction
  <2>2. store' = store
    BY <2>1 DEF applyUnchanged, chainVars
  <2>3. TxBooks'
    BY <2>1, <2>2 DEF BooksInv, TxBooks
  <2> QED BY <1>k, <2>1, <2>3
<1>9. ASSUME NEW n \in NotesOf(tx.store), NEW token \in Token, NEW amount \in Amount,
             deposit_to_open_note(n, token, amount)
      PROVE  BooksInv'
  <2>1. applyUnchanged /\ mode = "apply"
    BY <1>9 DEF deposit_to_open_note
  <2> QED BY <1>9, <1>k, <2>1, ApplyDepositBooks
<1>10. CASE end_deposits
  <2>1. /\ mode = "apply" /\ applyUnchanged /\ tx'.proof = tx.proof /\ tx'.pc = tx.pc + 1
        /\ tx'.store = tx.store /\ tx'.balance = tx.balance /\ tx.depositor # ZeroAddr
    BY <1>10, <1>t DEF end_deposits
  <2>2. tx.pc \in 1 .. Len(s) /\ ~IsWriteOnce(CurrentAction)
        /\ NextAction.type \in {"Invoke", "InvokeWithComputation"} /\ store' = store
    BY <2>1 DEF PoolInv, TxInv, EntriesInv, OpenNotesCounted, applyUnchanged, chainVars
  <2>3. CurrentAction.type \in {"Invoke", "InvokeWithComputation"}
    BY <1>t, <2>2 DEF NextAction
  <2>4. \A t \in Token : Credit(CurrentAction, store, t) = 0 /\ Debit(CurrentAction, t) = 0
    BY <2>2, <2>3 DEF Credit, Debit, Writes
  <2>5. IsFiniteSet(DOMAIN tx.store) /\ OpenTokens(tx.store)
    BY <2>1, TxFacts
  <2>6. \A t \in Token :
           tx.balance[t] + Liabilities(tx'.store, t) + Credit(CurrentAction, store, t) <=
               tx'.balance[t] + Liabilities(tx.store, t) + Debit(CurrentAction, t)
    <3> DEFINE st == tx.store
    <3>1. \A t \in Token : Liabilities(st, t) \in Nat
      <4> HIDE DEF st
      <4> QED BY <2>5, LiabilitiesTyped DEF st
    <3>2. \A t \in Token : tx.balance[t] \in Nat
      BY <1>t
    <3>3. \A t \in Token : tx.balance[t] + Liabilities(st, t) + 0 <=
                               tx.balance[t] + Liabilities(st, t) + 0
      <4> HIDE DEF st
      <4> QED BY <3>1, <3>2
    <3> QED BY <2>1, <2>4, <3>3
  <2>7. TxBooks'
    BY <1>t, <2>1, <2>2, <2>5, <2>6, TxStep
  <2> QED BY <1>k, <2>1, <2>7
<1>11. CASE finish_apply
  <2>1. /\ mode = "apply" /\ mode' = "idle" /\ store' = tx.store /\ pool_balance' = tx.balance
        /\ tx.pc > Len(s) /\ proofs' = proofs
    BY <1>11 DEF finish_apply
  <2>2. /\ IsFiniteSet(DOMAIN tx.store) /\ OpenTokens(tx.store)
        /\ \A t \in Token : tx.balance[t] + Credits(s, store, t, tx.pc) >=
                                Liabilities(tx.store, t) + Debits(s, t, tx.pc)
    BY <2>1 DEF BooksInv, TxBooks
  <2>3. tx.pc .. Len(s) = {}
    BY <1>t, <2>1
  <2>4. \A t \in Token : Credits(s, store, t, tx.pc) = 0 /\ Debits(s, t, tx.pc) = 0
    <3> DEFINE pc == tx.pc
    <3> HIDE DEF s, pc
    <3> QED BY <2>3, BooksEnd DEF pc
  <2>5. \A t \in Token : Liabilities(tx.store, t) \in Nat /\ tx.balance[t] \in Nat
    <3> DEFINE st == tx.store
    <3>1. \A t \in Token : Liabilities(st, t) \in Nat
      <4> HIDE DEF st
      <4> QED BY <2>2, LiabilitiesTyped DEF st
    <3> QED BY <1>t, <3>1
  <2>6. ASSUME NEW t \in Token PROVE tx.balance[t] >= Liabilities(tx.store, t)
    <3>1. tx.balance[t] + 0 >= Liabilities(tx.store, t) + 0
      BY <2>2, <2>4
    <3> QED BY <2>5, <3>1
  <2>7. StoreBooks'
    BY <2>1, <2>2, <2>6 DEF StoreBooks
  <2>8. ContinuesFrom(tx.store, store)
    BY <2>1 DEF EntriesInv, TxEntries
  <2>9. ASSUME NEW p \in proofs
        PROVE  SpendsFrom(p.actions, tx.store) /\ WithdrawsLast(p.actions)
               /\ Balanced(p.actions, tx.store)
    <3> DEFINE st == tx.store
    <3>1. SpendsFrom(p.actions, store) /\ WithdrawsLast(p.actions) /\ Balanced(p.actions, store)
      BY DEF BooksInv, ProofBooks
    <3>2. ContinuesFrom(st, store)
      BY <2>8
    <3> HIDE DEF st
    <3>3. \A t : Credits(p.actions, st, t, 1) = Credits(p.actions, store, t, 1)
                 /\ SpendsFrom(p.actions, st)
      BY <3>1, <3>2, CreditsMore
    <3>4. SpendsFrom(p.actions, st) /\ Balanced(p.actions, st)
      BY <3>1, <3>3 DEF Balanced
    <3> QED BY <3>1, <3>4 DEF st
  <2>10. ProofBooks'
    BY <2>1, <2>9 DEF ProofBooks
  <2> QED BY <2>1, <2>7, <2>10 DEF BooksInv, SessionBooks, TxBooks
<1>12. CASE revert_apply
  <2>1. mode' = "idle" /\ UNCHANGED <<chainVars, timeVars, admin, proofs, session>>
    BY <1>12 DEF revert_apply
  <2> QED BY <2>1 DEF BooksInv, StoreBooks, ProofBooks, SessionBooks, TxBooks, chainVars
<1> QED
  BY <1>1, <1>2, <1>3, <1>4, <1>5, <1>6, <1>7, <1>8, <1>9, <1>10, <1>11, <1>12 DEF apply_step

-----------------------------------------------------------------------------
\* An empty pool owes nothing.
LEMMA BooksInit == Init => BooksInv
PROOF
<1> SUFFICES ASSUME Init PROVE BooksInv
  OBVIOUS
<1>1. /\ mode = "idle" /\ store = EmptyStore /\ proofs = {}
      /\ pool_balance = [t \in Token |-> 0]
  BY DEF Init, InitWith
<1>2. DOMAIN store = {}
  BY <1>1 DEF EmptyStore
<1>3. IsFiniteSet(DOMAIN store) /\ OpenTokens(store)
  BY <1>2, FS_EmptySet DEF OpenTokens, NotesOf
<1>4. \A t \in Token : Liabilities(store, t) = 0
  <2>1. \A t \in Token : UnspentNotes(store, t) = {}
    BY <1>2 DEF UnspentNotes, NotesOf
  <2>2. \A t \in Token : Total([n \in UnspentNotes(store, t) |->
                                    decode_note_amount(store[n], n[4])]) = 0
    BY <2>1, TotalZero
  <2> QED BY <2>2 DEF Liabilities
<1>5. StoreBooks
  BY <1>1, <1>3, <1>4 DEF StoreBooks
<1> QED BY <1>1, <1>5 DEF BooksInv, SessionBooks, ProofBooks, TxBooks

\* Every step of the pool keeps the books.
LEMMA BooksKept ==
    ASSUME TypeOK, TypeOK', PoolInv, EntriesInv, BooksInv, [Next]_vars
    PROVE  BooksInv'
PROOF
<1>1. CASE \E c \in AdminCalls : admin_call(c)
  <2>1. UNCHANGED <<mode, chainVars, timeVars, proofs, session, tx>>
    BY <1>1 DEF admin_call
  <2> QED BY <2>1 DEF BooksInv, StoreBooks, SessionBooks, ProofBooks, TxBooks, chainVars, timeVars
<1>2. CASE \E seconds \in BlockTimes : new_block(seconds)
  <2>1. mode = "idle" /\ UNCHANGED <<mode, chainVars, admin, proofs, session, tx>>
    BY <1>2 DEF new_block
  <2> QED BY <2>1 DEF BooksInv, StoreBooks, SessionBooks, ProofBooks, TxBooks, chainVars
<1>3. CASE UNCHANGED vars
  BY <1>3 DEF vars, BooksInv, StoreBooks, SessionBooks, ProofBooks, TxBooks, chainVars, timeVars
<1> QED BY <1>1, <1>2, <1>3, CompileBooks, ApplyBooks DEF Next

\* A withdrawal is covered: nothing is credited after it and it is the next debit.
LEMMA WithdrawalCovered ==
    ASSUME TypeOK, PoolInv, BooksInv, AtAction("TransferTo")
    PROVE  CurrentAction.amount <= tx.balance[CurrentAction.token]
PROOF
<1> DEFINE s == tx.proof.actions
           pc == tx.pc
           x == CurrentAction
           t == x.token
<1>1. /\ mode = "apply" /\ TypedActions(s) /\ IsFiniteSet(DOMAIN tx.store) /\ TypedStore(store)
      /\ WithdrawsLast(s) /\ tx.balance \in [Token -> Nat] /\ pc \in Nat /\ Len(s) \in Nat
  BY TxFacts DEF AtAction
<1>2. pc \in 1 .. Len(s)
  BY <1>1 DEF AtAction, TypeOK, TypedTx
<1>3. /\ x.type = "TransferTo" /\ x = s[pc] /\ t \in Token /\ x.amount \in Amount
  BY CurrentActionTyped DEF TypedAction, ServerAction, CurrentAction
<1>4. \A i \in pc .. Len(s) : s[i].type \in LastTypes
  <2> SUFFICES ASSUME NEW i \in pc .. Len(s) PROVE s[i].type \in LastTypes
    OBVIOUS
  <2>1. i \in 1 .. Len(s) /\ (i = pc \/ pc < i)
    BY <1>1, <1>2
  <2> QED BY <1>2, <1>3, <2>1, <1>1 DEF WithdrawsLast, LastTypes
<1>5. Credits(s, store, t, pc) = 0
  <2>1. \A i \in pc .. Len(s) : Credit(s[i], store, t) = 0
    BY <1>4 DEF Credit, LastTypes, Writes, IsWriteOnce
  <2> DEFINE f == [i \in pc .. Len(s) |-> Credit(s[i], store, t)]
  <2>2. \A i \in DOMAIN f : f[i] = 0
    BY <2>1
  <2>3. Total(f) = 0
    <3> HIDE DEF f
    <3> QED BY <2>2, TotalZero
  <2> QED BY <2>3 DEF Credits
<1>6. Debits(s, t, pc) = Debits(s, t, pc + 1) + x.amount
  <2>1. Debit(s[pc], t) = x.amount /\ Credit(s[pc], store, t) = 0
    BY <1>3 DEF Debit, Credit, Writes, IsWriteOnce
  <2>2. 0 \in Amount
    BY PoolDataAssumption DEF Amount
  <2>3. Debit(s[pc], t) \in Amount /\ Credit(s[pc], store, t) \in Amount
    BY <1>3, <2>1, <2>2
  <2> HIDE DEF s, pc, t
  <2>4. Debits(s, t, pc) = Debits(s, t, pc + 1) + Debit(s[pc], t)
    BY <1>1, <1>2, <2>3, BooksNext
  <2> QED BY <2>1, <2>4
<1>7. Debits(s, t, pc + 1) \in Nat
  <2>1. pc + 1 \in Nat
    BY <1>1
  <2> HIDE DEF s, pc, t
  <2> QED BY <1>1, <2>1, BooksTyped
<1>8. Liabilities(tx.store, t) \in Nat
  <2> DEFINE st == tx.store
  <2> HIDE DEF st, t
  <2>1. Liabilities(st, t) \in Nat
    BY <1>1, LiabilitiesTyped DEF st
  <2> QED BY <2>1 DEF st
<1>9. tx.balance[t] + Credits(s, store, t, pc) >= Liabilities(tx.store, t) + Debits(s, t, pc)
  BY <1>1, <1>3 DEF BooksInv, TxBooks
<1> DEFINE b == tx.balance[t]
           v == Liabilities(tx.store, t)
           D1 == Debits(s, t, pc + 1)
           m == x.amount
<1>10. b \in Nat /\ m \in Nat /\ b + 0 >= v + (D1 + m) /\ v \in Nat /\ D1 \in Nat
  <2>1. b + 0 >= v + (D1 + m)
    BY <1>5, <1>6, <1>9
  <2>2. b \in Nat /\ m \in Nat
    BY <1>1, <1>3, PoolDataAssumption DEF Amount
  <2> QED BY <1>7, <1>8, <2>1, <2>2
<1>11. m <= b
  <2> HIDE DEF b, v, D1, m
  <2> QED BY <1>10
<1> QED BY <1>11

(***************************************************************************)
(* The pool is solvent in every reachable state, for any users, tokens and *)
(* interleaving of compilations, transactions and blocks: it holds what    *)
(* its unspent notes are worth, and a transaction that reaches a           *)
(* withdrawal has the tokens for it (_apply_transfer_to never finds the    *)
(* pool short).                                                            *)
(***************************************************************************)
THEOREM PoolIsSolvent == Spec => []Solvency
PROOF
<1>1. Init => BooksInv
  BY BooksInit
<1>2. TypeOK /\ TypeOK' /\ PoolInv /\ EntriesInv /\ BooksInv /\ [Next]_vars => BooksInv'
  BY BooksKept
<1>3. TypeOK /\ PoolInv /\ BooksInv => Solvency
  BY WithdrawalCovered DEF Solvency, BooksInv, StoreBooks
<1> QED BY <1>1, <1>2, <1>3, EntriesHold, PTL DEF Spec
=============================================================================
