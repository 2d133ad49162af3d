-------------------------- MODULE ActionClassifier --------------------------
(***************************************************************************)
(* What the history shows of one pool transaction: the SDK builds the      *)
(* cursor of subchannels to read, the discovery service returns the notes  *)
(* found there with the public events of the transaction, the SDK          *)
(* classifies them into actions, and the demo sums the actions into a      *)
(* balance update per token.                                               *)
(*                                                                         *)
(* A pool transaction is                                                   *)
(*   [sender, notes: <<[to, token, amount]>>, open: <<[depositor, to,      *)
(*    token, amount]>>, deposits: <<[token, amount]>>,                     *)
(*    withdrawals: <<[toAddress, token, amount]>>, registered].            *)
(***************************************************************************)
EXTENDS Integers, Sequences, FiniteSets, SequencesExt

Each(s, F(_)) == [i \in DOMAIN s |-> F(s[i])]

Total(s) == FoldLeft(LAMBDA sum, e : sum + e.amount, 0, s)

OfToken(s, t) == SelectSeq(s, LAMBDA e : e.token = t)

\* The keys of a Map that is filled in the order of s.
Keys(s) == FoldLeft(LAMBDA ks, k : IF Contains(ks, k) THEN ks ELSE Append(ks, k), <<>>, s)

-----------------------------------------------------------------------------
(* The cursor.  incoming holds [sender, token, noteIndex] of the notes     *)
(* cursor, outgoing [recipient, key, token, noteNonce] of the channels.    *)

\* The index of the last note of a subchannel, none when it is empty.
lastIndex(count) == IF count > 0 THEN {count - 1} ELSE {}

buildHistoryCursor_self(user, incoming, outgoing) ==
    {[channelKey   |-> <<c.sender, user>>,
      token        |-> c.token,
      channelKind  |-> IF c.sender = user THEN "self_channel" ELSE "incoming",
      counterparty |-> c.sender,
      nextIndex    |-> lastIndex(c.noteIndex)] : c \in incoming}
    \cup
    {[channelKey   |-> <<user, c.recipient>>,
      token        |-> c.token,
      channelKind  |-> "outgoing",
      counterparty |-> c.recipient,
      nextIndex    |-> lastIndex(c.noteNonce)] : c \in {c \in outgoing : c.key}}

\* The user's channel to itself is in both cursors; it is read once.
buildHistoryCursor(user, incoming, outgoing) ==
    {[channelKey   |-> <<c.sender, user>>,
      token        |-> c.token,
      channelKind  |-> IF c.sender = user THEN "self_channel" ELSE "incoming",
      counterparty |-> c.sender,
      nextIndex    |-> lastIndex(c.noteIndex)] : c \in incoming}
    \cup
    {[channelKey   |-> <<user, c.recipient>>,
      token        |-> c.token,
      channelKind  |-> "outgoing",
      counterparty |-> c.recipient,
      nextIndex    |-> lastIndex(c.noteNonce)] : c \in {c \in outgoing : c.key /\ c.recipient # user}}

-----------------------------------------------------------------------------
(* The discovery service.                                                  *)

\* The notes of the transaction in one subchannel, an open one with the
\* amount it was filled with.
NotesIn(act, key, token) ==
    IF key[1] # act.sender THEN <<>>
    ELSE OfToken(SelectSeq(act.notes \o act.open, LAMBDA n : n.to = key[2]), token)

\* The notes the viewer's subchannels hold of the transaction.
matchedNotes(act, subchannels) ==
    UNION {{[channelKind |-> sc.channelKind, counterparty |-> sc.counterparty, token |-> sc.token,
             noteIndex |-> i, amount |-> NotesIn(act, sc.channelKey, sc.token)[i + 1].amount] :
                i \in UNION {0..last : last \in sc.nextIndex}} : sc \in subchannels}

\* A transaction is listed for its notes.  Deposits are filtered by the
\* viewer; withdrawals and open note deposits are attached whoever made them.
fetch_aggregated_block_events(act, viewer, notes) ==
    IF notes = {} THEN {}
    ELSE {[notes            |-> SetToSeq(notes),
           deposits         |-> IF viewer = act.sender THEN act.deposits ELSE <<>>,
           withdrawals      |-> act.withdrawals,
           openNoteDeposits |-> act.open,
           registered       |-> FALSE]}

\* Without a note of the viewer, the withdrawals to its address are listed.
fetch_aggregated_withdrawal_events(act, viewer, notes) ==
    LET own == SelectSeq(act.withdrawals, LAMBDA w : w.toAddress = viewer)
    IN  IF notes # {} \/ own = <<>> THEN {}
        ELSE {[notes |-> <<>>, deposits |-> <<>>, withdrawals |-> own, openNoteDeposits |-> <<>>,
               registered |-> FALSE]}

\* The registration is listed on its own.
fetch_registration(act, viewer) ==
    IF act.registered /\ viewer = act.sender
    THEN {[notes |-> <<>>, deposits |-> <<>>, withdrawals |-> <<>>, openNoteDeposits |-> <<>>,
           registered |-> TRUE]}
    ELSE {}

fetchHistory(act, viewer, subchannels) ==
    LET notes == matchedNotes(act, subchannels)
    IN  fetch_aggregated_block_events(act, viewer, notes)
        \cup fetch_aggregated_withdrawal_events(act, viewer, notes)
        \cup fetch_registration(act, viewer)

-----------------------------------------------------------------------------
(* The classifier.                                                         *)

\* Open note deposits, grouped by depositor, are what a swap received; the
\* withdrawals to the depositor are what it was given.
swaps(tx) ==
    Each(Keys(Each(tx.openNoteDeposits, LAMBDA d : d.depositor)),
         LAMBDA e : [type     |-> "swap",
                     executor |-> e,
                     sent     |-> SelectSeq(tx.withdrawals, LAMBDA w : w.toAddress = e),
                     received |-> SelectSeq(tx.openNoteDeposits, LAMBDA d : d.depositor = e)])

\* Deposits, and the withdrawals no swap took.
movements(tx, feeRecipients) ==
    LET executors == {d.depositor : d \in ToSet(tx.openNoteDeposits)}
    IN  Each(tx.deposits, LAMBDA d : [type |-> "deposit", token |-> d.token, amount |-> d.amount])
        \o Each(SelectSeq(tx.withdrawals, LAMBDA w : w.toAddress \notin executors),
                LAMBDA w : [type      |-> IF w.toAddress \in feeRecipients THEN "fee" ELSE "withdrawal",
                            toAddress |-> w.toAddress, token |-> w.token, amount |-> w.amount])

\* One action per counterparty and token of the notes of others.
noteAggregates(tx) ==
    LET others == SelectSeq(tx.notes, LAMBDA n : n.channelKind # "self_channel")
        key(n) == <<n.channelKind, n.counterparty, n.token>>
    IN  Each(Keys(Each(others, key)),
             LAMBDA k : LET ns == SelectSeq(others, LAMBDA n : key(n) = k)
                        IN  [type         |-> IF k[1] = "outgoing" THEN "transferSent" ELSE "transferReceived",
                             counterparty |-> k[2], token |-> k[3],
                             amount       |-> Total(ns), noteCount |-> Len(ns)])

selfChannelAggregates(tx) ==
    LET own == SelectSeq(tx.notes, LAMBDA n : n.channelKind = "self_channel")
    IN  Each(Keys(Each(own, LAMBDA n : n.token)),
             LAMBDA t : [type |-> "transferSelf", token |-> t, amount |-> Total(OfToken(own, t)),
                         noteCount |-> Len(OfToken(own, t))])

Has(actions, type) == \E i \in DOMAIN actions : actions[i].type = type

\* The sender paid the fee of an incoming transfer, not the viewer.
stripFees(actions) ==
    IF Has(actions, "transferReceived") /\ ~Has(actions, "transferSent")
    THEN SelectSeq(actions, LAMBDA a : a.type # "fee")
    ELSE actions

\* Own notes are shown only when nothing but a fee happened besides.
classifyTransaction(tx, feeRecipients) ==
    IF tx.registered THEN <<[type |-> "register"]>>
    ELSE LET actions    == swaps(tx) \o movements(tx, feeRecipients) \o noteAggregates(tx)
             meaningful == SelectSeq(actions, LAMBDA a : a.type # "fee")
         IN  stripFees(IF meaningful = <<>> THEN actions \o selfChannelAggregates(tx) ELSE actions)

-----------------------------------------------------------------------------
(* The demo's history panel.                                               *)

\* What an action adds to the viewer's holdings of a token.
effectOf(a, viewer, t) ==
    CASE a.type = "swap" -> Total(OfToken(a.received, t)) - Total(OfToken(a.sent, t))
      [] a.type \in {"fee", "transferSent"} -> IF a.token = t THEN -a.amount ELSE 0
      [] a.type = "withdrawal" -> IF a.token = t /\ a.toAddress # viewer THEN -a.amount ELSE 0
      [] a.type = "transferReceived" -> IF a.token = t THEN a.amount ELSE 0
      [] OTHER -> 0

computeBalanceUpdates(actions, viewer, t) ==
    FoldLeft(LAMBDA net, a : net + effectOf(a, viewer, t), 0, actions)

\* The label names the tokens, the counterparty and the amounts of the
\* action; a swap through a known executor carries its name.
formatActionLabel(a, executorNames) ==
    [type |-> a.type, isFee |-> a.type = "fee",
     chipLabel |-> IF a.type = "swap" THEN {a.executor} \cap executorNames ELSE {}]

ACTION_ORDER == <<"register", "deposit", "transferReceived", "transferSelf",
                  "transferSent", "swap", "withdrawal", "fee">>

toDisplayTransactions(tx, viewer, tokens, executorNames, feeRecipients) ==
    LET actions == classifyTransaction(tx, feeRecipients)
    IN  [actions |-> FlattenSeq(Each(ACTION_ORDER, LAMBDA type :
                        Each(SelectSeq(actions, LAMBDA a : a.type = type),
                             LAMBDA a : formatActionLabel(a, executorNames)))),
         balanceUpdates |-> [t \in tokens |-> computeBalanceUpdates(actions, viewer, t)]]

-----------------------------------------------------------------------------
(* What really happened to the viewer's holdings, in the pool and outside. *)

Sum(s, t) == Total(OfToken(s, t))

Change(act, viewer, t) ==
    IF viewer = act.sender
    THEN Sum(SelectSeq(act.open, LAMBDA n : n.to = viewer), t)
         - Sum(SelectSeq(act.notes, LAMBDA n : n.to # viewer), t)
         - Sum(SelectSeq(act.withdrawals, LAMBDA w : w.toAddress # viewer), t)
    ELSE Sum(SelectSeq(act.notes \o act.open, LAMBDA n : n.to = viewer), t)
         + Sum(SelectSeq(act.withdrawals, LAMBDA w : w.toAddress = viewer), t)
=============================================================================
