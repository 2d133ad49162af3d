------------------------------- MODULE Wallet -------------------------------
(***************************************************************************)
(* The SDK of one user on one device: the compiler that turns a request    *)
(* into the batch of client actions the pool proves, and the registry      *)
(* (channels, notes, discovery cursor) that it reads and writes.           *)
(*                                                                         *)
(* A compilation asks the discovery service for channels and for notes     *)
(* concurrently.  The answers arrive in any order and from different       *)
(* blocks, the chain moves between them, and a reorganisation makes one of *)
(* them throw: the compilation then starts again on the same request       *)
(* object, while the other question of the first attempt is under way.     *)
(* The registry is written when the batch is compiled, before it is proved *)
(* and submitted, which may still fail.                                    *)
(***************************************************************************)
EXTENDS NoteSelection

CONSTANTS Requests,      \* the requests the user makes: a builder and options
          InputOptions,  \* the options of requests that name a note to spend
          PaidAmounts,   \* the amounts that others pay to the user
          MaxCalls,      \* bound: compilations
          MaxBlocks,     \* bound: blocks
          MaxReorgs      \* bound: reorganisations

ASSUME WalletBounds == MaxCalls \in Nat /\ MaxBlocks \in Nat /\ MaxReorgs \in Nat

VARIABLES ledger,    \* the pool at the tip of the chain
          below,     \* the pool one block below the tip
          tip,       \* the identity of the tip block
          orphaned,  \* the blocks that a reorganisation removed
          registry,  \* options.registry of the user's calls
          call,      \* the compilation under way or just made
          tasks,     \* the questions to the discovery service under way
          calls,     \* compilations made
          insync     \* ghost: all that happened to the user's channels and
                     \* notes went through this registry
chainVars == <<ledger, below, tip, orphaned>>
sdkVars == <<registry, call, tasks>>
walletVars == <<chainVars, sdkVars, calls, insync>>

EmptyRegistry == [channels |-> Empty, notes |-> Empty, cursor |-> {}]

NoCall == [phase |-> "idle"]

-----------------------------------------------------------------------------
(***************************************************************************)
(* A step of the compiler is a function on s = [call, registry, tasks].    *)
(* With registryConst a call works on a copy, without the cursor.          *)
(***************************************************************************)

cloneRegistry(reg) == [reg EXCEPT !.cursor = {}]

Working(s) == IF s.call.opts.registryConst THEN s.call.clone ELSE s.registry

Write(s, reg) == IF s.call.opts.registryConst THEN [s EXCEPT !.call.clone = reg]
                 ELSE [s EXCEPT !.registry = reg]

\* What the question k belongs to: the attempt that waits for it, an earlier
\* attempt of the same call, or a call that has ended.
Awaited(s, k) == s.call.phase = "running" /\ k.owner = <<s.call.id, s.call.attempt>>
SharesActions(s, k) == s.call.phase = "running" /\ k.owner[1] = s.call.id

throw(s, err) == [s EXCEPT !.call.phase = "failed", !.call.error = err]

(***************************************************************************)
(* Channels.                                                               *)
(***************************************************************************)

recipientsToDiscover(acts, opts, reg) ==
    LET needed == getRecipientsNeeded(acts)
    IN  CASE opts.channels = "refresh" -> needed
          [] opts.channels = "none" /\ acts.open = <<>> /\ ~opts.autoSetup -> {}
          [] OTHER -> needed \ DOMAIN reg.channels

found(s, channels, total) == [s EXCEPT !.call.found = {[channels |-> channels, total |-> total]}]

resolveRecipientChannels(s) ==
    LET want == recipientsToDiscover(s.call.acts, s.call.opts, Working(s))
    IN  IF want = {} THEN found(s, Empty, 0)
        ELSE [s EXCEPT !.tasks = @ \cup {[kind |-> "channels", want |-> want, at |-> {},
                                          owner |-> <<s.call.id, s.call.attempt>>]}]

\* An answer.  The count of channels is asked for separately when a channel is
\* missing and the provider's answer did not count them.
channelsAnswered(s, k, l) ==
    LET channels == discoverChannels(l, k.want)
    IN  CASE allOpen(channels, k.want) -> found(s, channels, 0)
          [] s.call.opts.counted -> found(s, channels, Len(l.out))
          [] OTHER -> [s EXCEPT !.tasks = @ \cup {[kind |-> "total", channels |-> channels,
                                                   at |-> {}, owner |-> k.owner]}]

(***************************************************************************)
(* Notes.                                                                  *)
(***************************************************************************)

\* What resolveNotes knows before it asks for notes, if it has to ask: the
\* balances and the used notes of the request as it is now.
resolveNotes(s) ==
    LET acts == s.call.acts
        reg == Working(s)
        want == tokensToDiscover(acts, s.call.opts, reg)
    IN  IF ~AmountsPositive(acts) THEN throw(s, "assert")
        ELSE [s EXCEPT !.tasks = @ \cup {[kind |-> IF want = {} THEN "settle" ELSE "notes",
                  want |-> want, at |-> {}, balances |-> balances(acts),
                  used |-> SetOf(acts.uses), cursor |-> reg.cursor,
                  const |-> s.call.opts.registryConst, owner |-> <<s.call.id, s.call.attempt>>]}]

\* The unspent notes that an incoming session of the service reports: all of
\* them, or with a cursor only those past the indices it holds.
Past(cur, n) ==
    \A c \in cur : n.token \notin DOMAIN c.upto \/ n.idx >= c.upto[n.token][n.from]
unspent(l, k) == {n \in l.notes : n.token \in k.want /\ Past(k.cursor, n)}
cursorAt(b, tokens) ==
    {[block |-> b.id, upto |-> [t \in tokens |-> [u \in Users |->
         IF u = Me THEN b.ledger.made[Me][t] ELSE b.ledger.paid[t]]]]}

\* Mutant: a token that the registry knows keeps its notes.
notesAnswered_known(s, k, b, notes) ==
    LET replace(reg) ==
            [reg EXCEPT !.notes = [t \in DOMAIN @ \cup {n.token : n \in notes} |->
                           IF t \in DOMAIN @ THEN @[t] ELSE {n \in notes : n.token = t}],
                        !.cursor = cursorAt(b, k.want)]
        kept == IF ~k.const THEN [s EXCEPT !.registry = replace(s.registry)]
                ELSE IF Awaited(s, k) THEN [s EXCEPT !.call.clone = replace(s.call.clone)]
                ELSE s
        seen == IF Awaited(s, k) /\ k.cursor = {} THEN [kept EXCEPT !.call.asof = {b.ledger}] ELSE kept
    IN  IF SharesActions(s, k) THEN [seen EXCEPT !.tasks = @ \cup {[k EXCEPT !.kind = "settle"]}]
        ELSE seen

\* An answer.  The notes of every token that it mentions are replaced; a token
\* without a note in the answer is not mentioned.
notesAnswered(s, k, b, notes) ==
    LET replace(reg) ==
            [reg EXCEPT !.notes = [t \in DOMAIN @ \cup {n.token : n \in notes} |->
                           IF \E n \in notes : n.token = t THEN {n \in notes : n.token = t} ELSE @[t]],
                        !.cursor = cursorAt(b, k.want)]
        kept == IF ~k.const THEN [s EXCEPT !.registry = replace(s.registry)]
                ELSE IF Awaited(s, k) THEN [s EXCEPT !.call.clone = replace(s.call.clone)]
                ELSE s
        seen == IF Awaited(s, k) /\ k.cursor = {} THEN [kept EXCEPT !.call.asof = {b.ledger}] ELSE kept
    IN  IF SharesActions(s, k) THEN [seen EXCEPT !.tasks = @ \cup {[k EXCEPT !.kind = "settle"]}]
        ELSE seen

(***************************************************************************)
(* The call.                                                               *)
(***************************************************************************)

Sdk == [call |-> call, registry |-> registry, tasks |-> tasks]
Take(s) == call' = s.call /\ registry' = s.registry /\ tasks' = s.tasks

\* A request is made.  The user registers, and sets channels up by hand, only as
\* far as discoverRequirement says it is missing.
compile(b, opts) ==
    LET acts == collectActions(b)
        reg == IF b.clear THEN [registry EXCEPT !.notes = Empty] ELSE registry
    IN  /\ call.phase = "idle" /\ calls < MaxCalls
        /\ acts.register => Me \notin ledger.keys
        /\ ~(acts.register \/ opts.autoRegister) => Me \in ledger.keys
        /\ \A r \in SetOf(acts.open) : r \notin SetOf(ledger.out)
        /\ ~opts.autoSetup => \A x \in SetOf(acts.creates) \cup SetOf(acts.surpluses)
                                      \cup {[recipient |-> Me, token |-> d.token]
                                            : d \in SetOf(acts.deposits)} :
               \/ discoverRequirement(ledger, x.recipient, x.token) = "Ready"
               \/ [recipient |-> x.recipient, token |-> x.token] \in SetOf(acts.openTokens)
        /\ calls' = calls + 1
        /\ call' = [phase |-> "starting", id |-> calls + 1, attempt |-> 1, acts |-> acts,
                    request |-> acts, opts |-> opts, clone |-> reg, found |-> {},
                    resolved |-> FALSE, batch |-> <<>>, error |-> "none", asof |-> {},
                    start |-> ledger, stateless |-> registry = EmptyRegistry /\ tasks = {},
                    keyless |-> \E r \in DOMAIN reg.channels : ~reg.channels[r].key]
        /\ registry' = reg
        /\ UNCHANGED <<chainVars, tasks, insync>>

\* An attempt starts: both resolutions run until they have to wait.
compileOnce ==
    /\ call.phase = "starting"
    /\ Take(resolveNotes(resolveRecipientChannels(
              [Sdk EXCEPT !.call.phase = "running", !.call.found = {}, !.call.resolved = FALSE,
                          !.call.clone = cloneRegistry(registry)])))
    /\ UNCHANGED <<chainVars, calls, insync>>

\* The rest of resolveNotes once the notes are known, with the balances and the
\* used notes computed before they were asked for.  An earlier attempt that still
\* runs changes the same request.
settleNotes(k) ==
    /\ k.kind = "settle"
    /\ LET r == FoldLeft(LAMBDA acc, t : settleToken(acc, t, k.balances[t], k.used, Working(Sdk), call.opts),
                         [acts |-> call.acts, error |-> "none"], SetToSeq(DOMAIN k.balances))
           awaited == Awaited(Sdk, k)
       IN  call' = [call EXCEPT !.acts = r.acts,
                                !.resolved = @ \/ (awaited /\ r.error = "none"),
                                !.phase = IF awaited /\ r.error # "none" THEN "failed" ELSE @,
                                !.error = IF awaited THEN r.error ELSE @]
    /\ tasks' = tasks \ {k}
    /\ UNCHANGED <<chainVars, registry, calls, insync>>

\* Both resolutions are done: simulate, emit the batch, update the registry.
Resolved == call.phase = "running" /\ call.found # {} /\ call.resolved
compileDone ==
    /\ Resolved
    /\ \E f \in call.found :
         \E sim \in {transformToClientActions(call.acts,
                         createPool(Working(Sdk), f.channels, f.total), call.opts)} :
             Take(IF sim.failed THEN throw(Sdk, "assert")
                  ELSE Write([Sdk EXCEPT !.call.phase = "compiled", !.call.batch = clientActions(sim)],
                             updateRegistry(sim, Working(Sdk))))
    /\ UNCHANGED <<chainVars, calls, insync>>

\* The event loop runs a started attempt and what follows an answer before it
\* takes the next event.
Busy == call.phase = "starting" \/ Resolved \/ \E k \in tasks : k.kind = "settle"

\* A ReorgError that the running attempt meets: the first time the registry is
\* cleared and everything is asked again.
reorgCaught(s) ==
    IF s.call.attempt = 2 THEN throw(s, "reorg")
    ELSE [s EXCEPT !.registry = EmptyRegistry, !.call.attempt = 2, !.call.phase = "starting"]

\* The service pins the block of the question.  It refuses a cursor taken at a
\* block that is no longer on the chain.
pin(k) ==
    /\ ~Busy /\ k.at = {}
    /\ IF k.kind = "notes" /\ \E c \in k.cursor : c.block \in orphaned
       THEN LET s == [Sdk EXCEPT !.tasks = @ \ {k}]
            IN  Take(IF Awaited(s, k) THEN reorgCaught(s) ELSE s)
       ELSE /\ tasks' = (tasks \ {k}) \cup {[k EXCEPT !.at = {[id |-> tip, ledger |-> ledger]}]}
            /\ UNCHANGED <<call, registry>>
    /\ UNCHANGED <<chainVars, calls, insync>>

\* The answer arrives.  An incremental session may leave out some of the notes
\* (see module IncomingSync).
answer(k) ==
    \E b \in k.at :
        LET s == [Sdk EXCEPT !.tasks = @ \ {k}]
        IN  /\ ~Busy
            /\ \/ k.kind = "channels" /\ Take(IF Awaited(s, k) THEN channelsAnswered(s, k, b.ledger) ELSE s)
               \/ k.kind = "total" /\ Take(IF Awaited(s, k) THEN found(s, k.channels, Len(b.ledger.out)) ELSE s)
               \/ /\ k.kind = "notes"
                  /\ \E omitted \in SUBSET {n \in unspent(b.ledger, k) : k.cursor # {}} :
                         Take(notesAnswered(s, k, b, unspent(b.ledger, k) \ omitted))
            /\ insync' = (insync /\ (k.kind = "notes" => Awaited(s, k) \/ k.const))
            /\ UNCHANGED <<chainVars, calls>>

\* A later page of the answer finds the pinned block gone, or the request fails.
fails(k) ==
    \E b \in k.at :
        LET s == [Sdk EXCEPT !.tasks = @ \ {k}]
        IN  /\ ~Busy
            /\ Take(IF ~Awaited(s, k) THEN s
                    ELSE IF b.id \in orphaned THEN reorgCaught(s) ELSE throw(s, "http"))
            /\ UNCHANGED <<chainVars, calls, insync>>

\* The user reads the error.
give_up ==
    /\ call.phase = "failed"
    /\ call' = NoCall
    /\ UNCHANGED <<chainVars, registry, tasks, calls, insync>>

\* The batch is proved and applied.  Only now is the registry that a call with
\* registryConst returned put to use.
land ==
    /\ call.phase = "compiled" /\ tip < MaxBlocks /\ Accepts(ledger, call.batch)
    /\ ledger' = applyBatch(ledger, call.batch).ledger
    /\ below' = ledger /\ tip' = tip + 1
    /\ registry' = IF call.opts.registryConst THEN call.clone ELSE registry
    /\ call' = NoCall
    /\ UNCHANGED <<orphaned, tasks, calls, insync>>

\* The batch is never applied: refused by the pool or the prover, or dropped.
lose ==
    /\ call.phase = "compiled"
    /\ insync' = (insync /\ call.opts.registryConst)
    /\ call' = NoCall
    /\ UNCHANGED <<chainVars, registry, tasks, calls>>

(***************************************************************************)
(* The chain around the wallet.                                            *)
(***************************************************************************)

NewBlock(l) == ~Busy /\ tip < MaxBlocks /\ ledger' = l /\ below' = ledger /\ tip' = tip + 1

\* Somebody pays the user.
pay ==
    /\ Me \in ledger.keys
    /\ \E t \in Tokens, amt \in PaidAmounts :
         NewBlock([ledger EXCEPT !.paid[t] = @ + 1,
                      !.notes = @ \cup {[from |-> CHOOSE o \in Others : TRUE, token |-> t,
                                         idx |-> ledger.paid[t], amount |-> amt]}])
    /\ UNCHANGED <<orphaned, sdkVars, calls, insync>>

\* The user spends a note, or opens a channel, from another device.
elsewhere ==
    /\ \/ \E n \in ledger.notes : NewBlock([ledger EXCEPT !.notes = @ \ {n}])
       \/ \E r \in Users \ SetOf(ledger.out) :
              /\ Me \in ledger.keys
              /\ NewBlock([ledger EXCEPT !.out = Append(@, r)])
    /\ insync' = FALSE
    /\ UNCHANGED <<orphaned, sdkVars, calls>>

\* The tip block is replaced by one without its transaction.
reorg ==
    /\ ~Busy /\ Cardinality(orphaned) < MaxReorgs /\ tip < MaxBlocks /\ ledger # below
    /\ orphaned' = orphaned \cup {tip}
    /\ tip' = tip + 1 /\ ledger' = below
    /\ insync' = FALSE
    /\ UNCHANGED <<below, sdkVars, calls>>

WalletInit ==
    /\ ledger = EmptyLedger /\ below = EmptyLedger /\ tip = 0 /\ orphaned = {}
    /\ registry = EmptyRegistry /\ call = NoCall /\ tasks = {} /\ calls = 0 /\ insync = TRUE

\* A request that names the note it spends.
compileWithInput(n, opts) ==
    compile(PrivateTransfersBuilder(<<withdraw(inputs(TokenOperationsBuilder(n.token), {n}),
                                               n.amount, Me)>>), opts)

WalletNext ==
    \/ \E q \in Requests : compile(q.builder, q.options)
    \/ \E t \in DOMAIN registry.notes : \E n \in registry.notes[t], opts \in InputOptions :
           compileWithInput(n, opts)
    \/ \E k \in tasks : pin(k) \/ answer(k) \/ fails(k)
    \/ compileOnce \/ (\E k \in tasks : settleNotes(k)) \/ compileDone
    \/ give_up \/ land \/ lose
    \/ pay \/ elsewhere \/ reorg

WalletSpec == WalletInit /\ [][WalletNext]_walletVars

-----------------------------------------------------------------------------

\* A compiled batch is one that the pool accepts, indices, phases, balances and
\* all, if the chain has not moved since the call began, no reorganisation made
\* the call start over, and the registry was either empty (and no question of an
\* earlier call was left to write to it) or kept up with everything that the user
\* did.  With a registry that is kept up, no channel of it may be known only by
\* its recipient's public key, unless channels are refreshed: the count of
\* channels is asked for with a missing channel only.
CompiledAccepted ==
    call.phase = "compiled" /\ call.attempt = 1 /\ ledger = call.start
        /\ \/ call.stateless
           \/ insync /\ (call.keyless => call.opts.channels = "refresh")
        => Accepts(ledger, call.batch)

\* While nothing is under way, a registry that kept up holds only notes that are
\* unspent and channels with the counters of the chain.
RegistrySound ==
    insync /\ call.phase = "idle" /\ tasks = {} =>
        /\ \A t \in DOMAIN registry.notes : registry.notes[t] \subseteq ledger.notes
        /\ \A r \in DOMAIN registry.channels :
              LET ch == registry.channels[r]
              IN  /\ ch.key = (r \in SetOf(ledger.out))
                  /\ DOMAIN ch.tokens = SetOf(ledger.subs[r])
                  /\ \A t \in DOMAIN ch.tokens : ch.tokens[t] = ledger.made[r][t]

\* A call that selects notes reports an insufficient balance only when the notes
\* the service knew unspent do not cover the request, if it was asked without a
\* cursor.
FundsFound ==
    call.phase = "failed" /\ call.error = "insufficient" /\ call.opts.select # "none" =>
        \A l \in call.asof : \E t \in Tokens :
            LET bal == balances([call.request EXCEPT !.uses = <<>>])
            IN  t \in DOMAIN bal /\ bal[t] + SumOf(SetToSeq({n \in l.notes : n.token = t}), Amount) < 0

\* Every note that a call with refreshed notes spends was unspent in the block the
\* refresh was answered from.
RefreshedUnspent ==
    call.phase = "compiled" /\ call.opts.notes = "refresh" /\ call.opts.select # "none" =>
        \A l \in call.asof, i \in DOMAIN call.batch :
            call.batch[i].type = "UseNote" => call.batch[i].note \in l.notes
=============================================================================
