---------------------------- MODULE PoolSimulator ----------------------------
(***************************************************************************)
(* The synchronous half of the SDK's compiler.  The simulator counts       *)
(* channels, subchannels and notes from what the registry and discovery    *)
(* say; transformToClientActions runs the request through it, so that      *)
(* every action of the batch carries the index the pool expects next.      *)
(*                                                                         *)
(* The pool is reduced to what the user's batches touch: the user's        *)
(* outgoing channels with their subchannels and note counts, and the       *)
(* user's unspent notes.  Module PrivacyPool is the whole of it.           *)
(***************************************************************************)
EXTENDS TransferBuilder, EarlyReturns

(***************************************************************************)
(* The pool, for the batches of one user.  A note is [from, token, idx,    *)
(* amount]; notes are the unspent ones that the user owns.                 *)
(***************************************************************************)

EmptyLedger ==
    [keys  |-> Others,
     out   |-> <<>>,
     subs  |-> [r \in Users |-> <<>>],
     made  |-> [r \in Users |-> [t \in Tokens |-> 0]],
     paid  |-> [t \in Tokens |-> 0],
     notes |-> {}]

\* One client action on a running batch p: the ledger so far, the balance per
\* token, the open notes to fill, and whether everything so far was accepted.
applyAction(p, a) ==
    LET l == p.ledger
        bal(d) == [p EXCEPT !.balance[a.token] = @ + d, !.ok = p.ok /\ p.balance[a.token] + d >= 0]
        note == [from |-> Me, token |-> a.token, idx |-> a.index, amount |-> a.amount]
    IN  CASE a.type = "SetViewingKey" ->
               [p EXCEPT !.ok = p.ok /\ Me \notin l.keys, !.ledger.keys = @ \cup {Me}]
          [] a.type = "OpenChannel" ->
               [p EXCEPT !.ok = /\ p.ok
                                /\ {Me, a.recipient} \subseteq l.keys
                                /\ a.index = Len(l.out)
                                /\ a.recipient \notin SetOf(l.out),
                         !.ledger.out = Append(@, a.recipient)]
          [] a.type = "OpenSubchannel" ->
               [p EXCEPT !.ok = /\ p.ok
                                /\ a.recipient \in SetOf(l.out)
                                /\ a.index = Len(l.subs[a.recipient])
                                /\ a.token \notin SetOf(l.subs[a.recipient]),
                         !.ledger.subs[a.recipient] = Append(@, a.token)]
          [] a.type = "Deposit" -> bal(a.amount)
          [] a.type = "UseNote" ->
               [bal(a.amount) EXCEPT !.ok = p.ok /\ a.note \in l.notes,
                                     !.ledger.notes = @ \ {a.note}]
          [] a.type = "CreateNote" ->
               LET q == IF a.amount = Open THEN [p EXCEPT !.fill = @ \cup {note}] ELSE bal(-a.amount)
               IN  [q EXCEPT !.ok = /\ q.ok
                                    /\ a.token \in SetOf(l.subs[a.recipient])
                                    /\ a.index = l.made[a.recipient][a.token],
                             !.ledger.made[a.recipient][a.token] = @ + 1,
                             !.ledger.notes = @ \cup IF a.recipient = Me /\ a.amount # Open
                                                     THEN {note} ELSE {}]
          [] a.type = "Withdraw" -> bal(-a.amount)
          [] a.type = "Invoke" ->
               [p EXCEPT !.ledger.notes = @ \cup {[n EXCEPT !.amount = 1] : n \in p.fill},
                         !.fill = {}]

applyBatch(l, batch) ==
    FoldLeft(applyAction,
             [ledger |-> l, balance |-> [t \in Tokens |-> 0], fill |-> {}, ok |-> TRUE], batch)

\* The pool accepts the batch: every check of every action, no balance left
\* over and no open note left unfilled.
Accepts(l, batch) ==
    LET p == applyBatch(l, batch)
    IN  p.ok /\ p.fill = {} /\ \A t \in Tokens : p.balance[t] = 0

\* What is still missing before the user can pay r in token t.
discoverRequirement(l, r, t) ==
    FirstOf(<< <<Me \notin l.keys, "Register">>,
               <<r \notin SetOf(l.out), "SetupChannel">>,
               <<t \notin SetOf(l.subs[r]), "SetupToken">> >>, "Ready")

\* The channels of l to the recipients asked for: the open ones with their
\* counters, the others only if the recipient is registered.
discoverChannels(l, recipients) ==
    [r \in recipients \cap l.keys |->
        IF r \in SetOf(l.out) THEN [key |-> TRUE, tokens |-> [t \in SetOf(l.subs[r]) |-> l.made[r][t]]]
        ELSE [key |-> FALSE, tokens |-> Empty]]

allOpen(channels, recipients) ==
    \A r \in recipients : r \in DOMAIN channels /\ channels[r].key

-----------------------------------------------------------------------------
(***************************************************************************)
(* The simulator.  A channel is [key, tokens]: whether it is open, and the *)
(* next note index of each of its subchannels.                             *)
(***************************************************************************)

\* Only an open channel brings its subchannels along.
setupChannel(ch) == IF ch.key THEN ch ELSE [key |-> FALSE, tokens |-> Empty]

\* What discovery found wins over what the registry holds.
createPool(reg, channels, total) ==
    [channels |-> [r \in DOMAIN channels \cup DOMAIN reg.channels |->
                      setupChannel(IF r \in DOMAIN channels THEN channels[r] ELSE reg.channels[r])],
     notes    |-> reg.notes,
     next     |-> total,
     open |-> <<>>, subs |-> <<>>, deposits |-> <<>>, uses |-> <<>>, creates |-> <<>>,
     withdraws |-> <<>>, register |-> <<>>, invoke |-> <<>>,
     failed   |-> FALSE]

Opened(sim, r) == r \in DOMAIN sim.channels /\ sim.channels[r].key
NotesOf(notes, t) == IF t \in DOMAIN notes THEN notes[t] ELSE {}

\* A failed assertion ends the compilation.
Require(sim, cond, then) == IF sim.failed \/ ~cond THEN [sim EXCEPT !.failed = TRUE] ELSE then

handleSetViewingKey(sim) ==
    Require(sim, Me \notin DOMAIN sim.channels,
           [sim EXCEPT !.channels = Put(@, Me, [key |-> FALSE, tokens |-> Empty]),
                       !.register = Append(@, [type |-> "SetViewingKey"])])

\* Mutant: the next channel's index is not advanced.
handleOpenChannel_stuck(sim, r) ==
    Require(sim, r \in DOMAIN sim.channels,
           [sim EXCEPT !.channels[r].key = TRUE,
                       !.open = Append(@, [type |-> "OpenChannel", recipient |-> r,
                                           index |-> sim.next])])

handleOpenChannel(sim, r) ==
    Require(sim, r \in DOMAIN sim.channels,
           [sim EXCEPT !.channels[r].key = TRUE,
                       !.next = @ + 1,
                       !.open = Append(@, [type |-> "OpenChannel", recipient |-> r,
                                           index |-> sim.next])])

\* The next subchannel of r is for t, with no notes yet.
handleOpenSubchannel(sim, r, t) ==
    LET known == sim.channels[r].tokens
    IN  [sim EXCEPT !.channels[r].tokens = Put(known, t, 0),
                    !.subs = Append(@, [type |-> "OpenSubchannel", recipient |-> r,
                                        token |-> t, index |-> Cardinality(DOMAIN known)])]

\* Opens the subchannel of r for t if the simulator does not know it.  Without
\* force (a note is about to be created) only autoSetup opens it.
transformOpenSubchannel(sim, r, t, force, autoSetup) ==
    Require(sim, r \in DOMAIN sim.channels,
            IF t \in DOMAIN sim.channels[r].tokens \/ ~(force \/ autoSetup) THEN sim
            ELSE handleOpenSubchannel(sim, r, t))

\* Mutant: a used note stays among the tracked ones.
handleUseNote_kept(sim, n) ==
    Require(sim, TRUE, [sim EXCEPT !.uses = Append(@, [type |-> "UseNote", token |-> n.token,
                                                       note |-> n, amount |-> n.amount])])

handleUseNote(sim, n) ==
    Require(sim, TRUE,
           [sim EXCEPT !.notes = Put(@, n.token, NotesOf(@, n.token) \ {n}),
                       !.uses = Append(@, [type |-> "UseNote", token |-> n.token, note |-> n,
                                           amount |-> n.amount])])

\* The note's index is the channel's counter for the token, zero when the
\* subchannel is not known; a note to the user is tracked at once, an open one
\* only by its index.
handleCreateNote(sim0, c, autoSetup) ==
    LET sim == transformOpenSubchannel(sim0, c.recipient, c.token, FALSE, autoSetup)
        known == sim.channels[c.recipient].tokens
        index == IF c.token \in DOMAIN known THEN known[c.token] ELSE 0
        note == [from |-> Me, token |-> c.token, idx |-> index, amount |-> c.amount]
        sent == [sim EXCEPT !.channels[c.recipient].tokens = Put(known, c.token, index + 1),
                            !.creates = Append(@, [type |-> "CreateNote", recipient |-> c.recipient,
                                          token |-> c.token, index |-> index, amount |-> c.amount])]
    IN  Require(sim, TRUE,
               IF c.recipient = Me /\ c.amount # Open
               THEN [sent EXCEPT !.notes = Put(@, c.token, NotesOf(@, c.token) \cup {note})]
               ELSE sent)

\* The open notes of the batch are handed to the callee by their channel's key.
handleInvoke(sim) ==
    Require(sim, \A i \in DOMAIN sim.creates :
                    sim.creates[i].amount = Open => Opened(sim, sim.creates[i].recipient),
           [sim EXCEPT !.invoke = Append(@, [type |-> "Invoke"])])

getRecipientsNeeded(acts) ==
    {Me} \cup SetOf(acts.open)
         \cup {x.recipient : x \in SetOf(acts.openTokens) \cup SetOf(acts.creates)
                                     \cup SetOf(acts.surpluses)}

addOpenChannel(open, r) == IF r \in SetOf(open) THEN open ELSE Append(open, r)

\* The request with the registration and the channels that the options add.
autoActions(acts, sim, opts) ==
    LET reg == acts.register \/ (opts.autoRegister /\ Me \notin DOMAIN sim.channels)
        self == IF reg /\ opts.autoSetup THEN addOpenChannel(acts.open, Me) ELSE acts.open
        missing == IF opts.autoSetup
                   THEN {r \in getRecipientsNeeded(acts) : ~Opened(sim, r)} ELSE {}
    IN  [acts EXCEPT !.register = reg,
                     !.open = FoldLeft(addOpenChannel, self, SetToSeq(missing))]

\* The request run through the simulator, stage by stage.
transformToClientActions(acts0, pool, opts) ==
    LET acts == autoActions(acts0, pool, opts)
        opens == FoldLeft(addOpenChannel, <<>>, acts.open)
        s1 == IF acts.register THEN handleSetViewingKey(pool) ELSE pool
        s2 == FoldLeft(handleOpenChannel, s1, opens)
        s3 == FoldLeft(LAMBDA s, a : transformOpenSubchannel(s, a.recipient, a.token, TRUE,
                                                             opts.autoSetup), s2, acts.openTokens)
        s4 == [s3 EXCEPT !.deposits = [i \in DOMAIN acts.deposits |->
                  [type |-> "Deposit", token |-> acts.deposits[i].token,
                   amount |-> acts.deposits[i].amount]]]
        s5 == FoldLeft(handleUseNote, s4, acts.uses)
        s6 == FoldLeft(LAMBDA s, c : handleCreateNote(s, c, opts.autoSetup), s5, acts.creates)
        s7 == [s6 EXCEPT !.withdraws = [i \in DOMAIN acts.withdraws |->
                  [type |-> "Withdraw", token |-> acts.withdraws[i].token,
                   amount |-> acts.withdraws[i].amount]]]
    IN  IF acts.invoke THEN handleInvoke(s7) ELSE s7

\* The batch in the order of the pool's phases, not in the order in which the
\* simulator met the actions.
clientActions(sim) ==
    sim.register \o sim.open \o sim.subs \o sim.deposits \o sim.uses \o sim.creates
        \o sim.withdraws \o sim.invoke

\* What the simulator tracked goes back into the registry.
updateRegistry(sim, reg) ==
    [reg EXCEPT !.channels = [r \in DOMAIN @ \cup DOMAIN sim.channels |->
                    IF r \in DOMAIN sim.channels THEN sim.channels[r] ELSE @[r]],
                !.notes = [t \in DOMAIN @ \cup DOMAIN sim.notes |->
                    IF t \in DOMAIN sim.notes THEN sim.notes[t] ELSE @[t]]]
=============================================================================
