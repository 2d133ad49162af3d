------------------------------ MODULE Execution ------------------------------
(***************************************************************************)
(* The dapp client's submissions through one SdkWallet: quote the fee,     *)
(* fold it in, compile, sign, prove with retries, save the registry, sign  *)
(* the approval, broadcast.  Submissions run concurrently over one stored  *)
(* registry, one nonce cache and one OHTTP client; the paymaster, the      *)
(* prover, the node and the chain answer when they like, and may fail.     *)
(***************************************************************************)
EXTENDS NoteSelection, ClientBuilder, CallSetSigners, FiniteSetsExt

CONSTANTS
    Subs,          \* the submissions, numbers from 1
    Configs,       \* the configurations of the wallet
    Programs,      \* the builder calls a dapp makes
    Ledgers,       \* the pool at first, as far as the user's batches touch it
    FeeToken, Paymaster,
    FeeAmounts,    \* what the paymaster may quote
    EvmChains,     \* the chains it may put into the typed data
    MaxRetries, BaseDelay, MaxBackoff, RequestTimeout,
    MaxKeys,       \* bound: keys of the OHTTP gateway
    MaxNonce       \* bound: nonces of the pool account

ASSUME ExecutionBounds ==
    /\ Subs \subseteq Nat \ {0} /\ {MaxRetries, BaseDelay, MaxBackoff, MaxKeys, MaxNonce} \subseteq Nat
    /\ RequestTimeout \in Nat \ {0}

VARIABLES
    config,    \* [signer, transport, pinned, node]
    sub,       \* the submissions
    stored,    \* the registry in storage
    nonce,     \* the cached nonce, if any
    ohttp,     \* the key of the OHTTP client, if there is a client
    ledger,    \* the pool: the user's key, outgoing channels and unspent notes
    gateway,   \* the key the gateway has
    poolNonce, \* the nonce of the pool account
    txs        \* what was broadcast: pending, accepted or reverted
clientVars == <<stored, nonce, ohttp>>
worldVars == <<ledger, gateway, poolNonce, txs>>
execVars == <<config, sub, clientVars, worldVars>>

Ended == {"idle", "done", "failed"}

\* A submission is a record; what it no longer needs is dropped when it ends.
NoSubmission == [pc |-> "idle", error |-> "none"]
fail(s, why) == sub' = [sub EXCEPT ![s] = [pc |-> "failed", error |-> why]]
At(s, pc) == sub[s].pc = pc
Go(s, pc) == sub' = [sub EXCEPT ![s].pc = pc]

-----------------------------------------------------------------------------
(***************************************************************************)
(* PrivacyClient.submit and the quote.                                     *)
(***************************************************************************)

Deposits(actions) == SelectSeq(actions, LAMBDA a : a.type = "deposit")

\* The approve of each deposit, for the pool.
approveCalls(actions) ==
    LET d == Deposits(actions)
    IN  [i \in DOMAIN d |-> [to |-> d[i].token, selector |-> "approve", data |-> d[i].amount]]

\* With calls around it, or to estimate a fee, the transaction is only prepared.
submit(s, program, mode) ==
    LET b == Build(program)
    IN  /\ At(s, "idle")
        /\ ~b.thrown
        /\ sub' = [sub EXCEPT ![s] =
               [pc |-> IF mode = "combined" THEN "quoting" ELSE "loading", error |-> "none",
                mode |-> mode, actions |-> b.actions, approve |-> approveCalls(b.actions),
                quote |-> {}, typedData |-> {}, reg |-> stored, acts |-> {}, nonce |-> 0,
                signature |-> {}, attempt |-> 0, waited |-> 0, elapsed |-> 0, key |-> 0,
                abandoned |-> FALSE, output |-> TRUE]]
        /\ UNCHANGED <<config, clientVars, worldVars>>

\* Mutant: the fee is quoted, but not part of what is proved.
foldFee_dropped(actions, amt) == actions

foldFee(actions, amt) == Append(actions, Strk20Action("withdraw", FeeToken, amt, Paymaster))

\* The paymaster's answer to buildTransaction: an error, or a fee and, with
\* calls to run as the user, the typed data of their outside execution.
buildTransaction(s) ==
    /\ At(s, "quoting")
    /\ \/ fail(s, "paymaster")
       \/ \E amt \in FeeAmounts, chain \in EvmChains, given \in BOOLEAN :
            LET td == outsideExecutionTypedData(Account, SnChain, chain,
                          [calls |-> sub[s].approve, caller |-> Paymaster, nonce |-> s,
                           execute_after |-> 0, execute_before |-> 1])
            IN  /\ sub[s].approve = <<>> => ~given /\ chain = CHOOSE c \in EvmChains : TRUE
                /\ sub' = [sub EXCEPT ![s].pc = "loading", ![s].quote = {amt},
                                      ![s].actions = foldFee(@, amt),
                                      ![s].typedData = IF given THEN {td} ELSE {}]
    /\ UNCHANGED <<config, clientVars, worldVars>>

(***************************************************************************)
(* CorePrivateTransfersProver.prove: load, compile, sign, prove, save.     *)
(***************************************************************************)

loadRegistry(s) ==
    /\ At(s, "loading")
    /\ sub' = [sub EXCEPT ![s].pc = "compiling", ![s].reg = stored]
    /\ UNCHANGED <<config, clientVars, worldVars>>

\* What a refresh may answer: every unspent note, or with a cursor some of those
\* past it.
Discovered(reg) == IF reg.seen = {} THEN {ledger.notes} ELSE SUBSET (ledger.notes \ reg.seen)

\* The registry after the answer: only the tokens it mentions are replaced.
Refreshed(reg, found, want) ==
    LET of(t) == {n \in found : n.token = t}
        mentioned == {t \in want : of(t) # {}}
    IN  [reg EXCEPT !.notes = [t \in DOMAIN @ \cup mentioned |-> IF t \in mentioned THEN of(t) ELSE @[t]],
                    !.seen = IF want = {} THEN @ ELSE @ \cup ledger.notes]

\* The options the prover compiles with: the user is registered, channels and
\* subchannels are opened, and notes are chosen, as needed.
ProverOptions ==
    [notes |-> "refresh", channels |-> "refresh", select |-> "naive", autoRegister |-> TRUE, autoSetup |-> TRUE]

settled(acts, reg) ==
    LET bal == balances(acts)
    IN  FoldLeft(LAMBDA r, t : settleToken(r, t, bal[t], SetOf(acts.uses), reg, ProverOptions),
                 [acts |-> acts, error |-> "none"], SetToSeq(DOMAIN bal))

\* The request run through the simulator of the pool, with the channels as they are on
\* chain; they are counted only if one is missing.
simulated(acts, reg) ==
    LET needed == getRecipientsNeeded(acts)
        channels == discoverChannels(ledger, needed)
        total == IF allOpen(channels, needed) THEN 0 ELSE Len(ledger.out)
    IN  transformToClientActions(acts, createPool(reg, channels, total), ProverOptions)

\* Translation, discovery and compilation, up to the client actions.  Its questions
\* are answered at one block (module Wallet has them apart).
compileActions(s) ==
    /\ At(s, "compiling")
    /\ LET r == translate(sub[s].actions)
           acts == collectActions(r.builder)
           want == tokensToDiscover(acts, ProverOptions, sub[s].reg)
       IN  IF r.thrown THEN fail(s, "one invoke")
           ELSE \E found \in IF want = {} THEN {{}} ELSE Discovered(sub[s].reg) :
                \E reg \in {Refreshed(sub[s].reg, found, want)} :
                \E done \in {settled(acts, reg)} :
                \E sim \in {simulated(done.acts, reg)} :
                    CASE done.error # "none" -> fail(s, done.error)
                      [] sim.failed -> fail(s, "assert")
                      [] ~InRange(r.calldata, invokeBuilderArgs(done.acts.creates)) ->
                             fail(s, "out of range")
                      [] OTHER ->
                             sub' = [sub EXCEPT ![s].pc = "details",
                                 ![s].reg = updateRegistry(sim, reg),
                                 ![s].acts = {[batch |-> clientActions(sim),
                                     withdraws |-> done.acts.withdraws,
                                     deposits |-> done.acts.deposits,
                                     notes |-> substitute(r.calldata,
                                                   invokeBuilderArgs(done.acts.creates))]}]
    /\ UNCHANGED <<config, clientVars, worldVars>>

\* getDefaultDetails: without a node the nonce is 0; a cached one is used as it
\* is; otherwise the node is asked, and the answer is cached when it arrives.
getDefaultDetails(s) ==
    /\ At(s, "details")
    /\ \/ ~config.node /\ Go(s, "signing") /\ UNCHANGED nonce
       \/ config.node /\ nonce # {} /\ UNCHANGED nonce
          /\ sub' = [sub EXCEPT ![s].pc = "signing", ![s].nonce = CHOOSE n \in nonce : TRUE]
       \/ config.node /\ nonce = {} /\ UNCHANGED nonce
          /\ sub' = [sub EXCEPT ![s].pc = "nonce", ![s].nonce = poolNonce]
    /\ UNCHANGED <<config, stored, ohttp, worldVars>>

nonceAnswered(s) ==
    /\ At(s, "nonce")
    /\ \/ nonce' = {sub[s].nonce} /\ Go(s, "signing")
       \/ fail(s, "node") /\ UNCHANGED nonce
    /\ UNCHANGED <<config, stored, ohttp, worldVars>>

\* ProofInvocationFactory.create: the call to the pool is signed for the nonce.
PoolCall(s) == <<[to |-> "pool", selector |-> "compile_actions", data |-> sub[s].acts]>>

create(s) ==
    /\ At(s, "signing")
    /\ LET sigs == signTransaction(config.signer, PoolCall(s))
       IN  \/ fail(s, "signer")
           \/ /\ sigs # {}
              /\ sub' = [sub EXCEPT ![s].signature = sigs,
                            ![s].pc = IF sub[s].mode = "simulate" THEN "simulating" ELSE "calling"]
    /\ UNCHANGED <<config, clientVars, worldVars>>

\* simulate reads the chain, proves with calls to the node instead of the prover,
\* and keeps nothing; the wallet then refuses to estimate the fee.
simulate(s) ==
    /\ At(s, "simulating")
    /\ Go(s, "mocking") \/ fail(s, "node")
    /\ UNCHANGED <<config, clientVars, worldVars>>

\* The signature is not checked: the node runs the pool's compile_actions view.
mockProve(s) ==
    /\ At(s, "mocking")
    /\ Go(s, "estimating") \/ fail(s, "node")
    /\ UNCHANGED <<config, clientVars, worldVars>>

estimateInvokeFee(s) ==
    /\ At(s, "estimating")
    /\ fail(s, "unsupported")
    /\ UNCHANGED <<config, clientVars, worldVars>>

-----------------------------------------------------------------------------
(***************************************************************************)
(* ProvingService: one attempt, and the retries.                           *)
(***************************************************************************)

\* An attempt starts.  Over OHTTP it needs a client: the one there is, one made
\* from the pinned key, or one made from the key the gateway answers with.
callOnce(s) ==
    /\ At(s, "calling")
    /\ \/ /\ config.transport = "plain"
          /\ sub' = [sub EXCEPT ![s].pc = "proving", ![s].waited = 0]
          /\ UNCHANGED ohttp
       \/ /\ config.transport = "ohttp" /\ (ohttp # {} \/ config.pinned)
          /\ ohttp' = IF ohttp # {} THEN ohttp ELSE {1}
          /\ sub' = [sub EXCEPT ![s].pc = "proving", ![s].key = CHOOSE k \in ohttp' : TRUE]
       \/ /\ config.transport = "ohttp" /\ ohttp = {} /\ ~config.pinned
          /\ sub' = [sub EXCEPT ![s].pc = "keys", ![s].key = gateway]
          /\ UNCHANGED ohttp
    /\ UNCHANGED <<config, stored, nonce, worldVars>>

ensureClient(s) ==
    /\ At(s, "keys")
    /\ \/ ohttp' = {sub[s].key} /\ Go(s, "proving")
       \/ fail(s, "keys") /\ UNCHANGED ohttp
    /\ UNCHANGED <<config, stored, nonce, worldVars>>

\* The gateway cannot open a request made for another key.
Undecryptable(s) == config.transport = "ohttp" /\ sub[s].key # gateway

\* Mutant: the client is kept.
decapsulationFailed_kept(s) ==
    /\ At(s, "proving") /\ Undecryptable(s)
    /\ sub' = [sub EXCEPT ![s] = [pc |-> "failed", error |-> "decapsulation", key |-> gateway]]
    /\ UNCHANGED <<config, clientVars, worldVars>>

\* The client is dropped; the error is not retried.  (The record keeps the key
\* the gateway had.)
decapsulationFailed(s) ==
    /\ At(s, "proving") /\ Undecryptable(s)
    /\ ohttp' = {}
    /\ sub' = [sub EXCEPT ![s] = [pc |-> "failed", error |-> "decapsulation", key |-> gateway]]
    /\ UNCHANGED <<config, stored, nonce, worldVars>>

\* The relay or the network fails, whatever the key.
relayFailed(s) ==
    /\ At(s, "proving") /\ config.transport = "ohttp"
    /\ fail(s, "relay")
    /\ UNCHANGED <<config, clientVars, worldVars>>

\* What the interceptor and the prover may answer.
RejectReasons == {"address_blocked", "screening_unavailable", "screening_policy_unavailable",
                  "multiple_screening_subjects", "fault"}

screeningErrorFromProvingError(reason) ==
    CASE reason \in {"screening_unavailable", "screening_policy_unavailable"} -> "ScreeningUnavailable"
      [] reason = "address_blocked" -> "ScreeningRejected"
      [] OTHER -> "proving"

\* Mutant: a timeout of one attempt is retried as well.
isTransientError_timeout(error) ==
    error \in {"busy", "timeout"} \/ (error = "http503" /\ config.transport = "plain")

\* Over OHTTP a 503 is an error like any other.
isTransientError(error) == error = "busy" \/ (error = "http503" /\ config.transport = "plain")

Delay(attempt) == Min({BaseDelay * 2 ^ attempt, MaxBackoff})

\* The attempt of s in f failed.
callWithRetry(f, s, error) ==
    IF f[s].attempt < MaxRetries /\ isTransientError(error)
    THEN sub' = [f EXCEPT ![s].pc = "sleeping", ![s].waited = 0]
    ELSE fail(s, IF error \in RejectReasons THEN screeningErrorFromProvingError(error) ELSE error)

attemptFailed(s) ==
    /\ At(s, "proving") /\ ~Undecryptable(s)
    /\ \E error \in {"busy", "http503", "invalid"} \cup RejectReasons : callWithRetry(sub, s, error)
    /\ UNCHANGED <<config, clientVars, worldVars>>

\* The abort signal of a plain request.
timedOut(s) ==
    /\ At(s, "proving") /\ config.transport = "plain" /\ sub[s].waited = RequestTimeout
    /\ callWithRetry([sub EXCEPT ![s].abandoned = TRUE], s, "timeout")
    /\ UNCHANGED <<config, clientVars, worldVars>>

wakeUp(s) ==
    /\ At(s, "sleeping") /\ sub[s].waited = Delay(sub[s].attempt)
    /\ sub' = [sub EXCEPT ![s].pc = "calling", ![s].attempt = @ + 1]
    /\ UNCHANGED <<config, clientVars, worldVars>>

\* The prover runs the transaction on the latest block: its nonce must be the pool
\* account's; __execute__ compiles the batch (registration, indices, notes, balances)
\* and then checks the signature.
Validates(s) == sub[s].nonce = poolNonce
Executes(s) ==
    /\ \A a \in sub[s].acts : Accepts(ledger, a.batch)
    /\ \A sig \in sub[s].signature : is_valid_call_set(config.signer.kind, PoolCall(s), sig)

\* The output is the message of the pool, if there is one.
proveTransaction(s) ==
    /\ At(s, "proving") /\ ~Undecryptable(s)
    /\ CASE ~Validates(s) -> fail(s, "validation")
         [] ~Executes(s) -> fail(s, "proving")
         [] OTHER -> \E message \in BOOLEAN :
                sub' = [sub EXCEPT ![s].pc = "saving", ![s].output = message, ![s].signature = {}]
    /\ UNCHANGED <<config, clientVars, worldVars>>

invalidateNonceCache ==
    /\ \E s \in Subs : sub[s].error = "validation"
    /\ nonce # {} /\ nonce' = {}
    /\ UNCHANGED <<config, sub, stored, ohttp, worldVars>>

\* Time passes while an attempt is under way or a retry is due, never past a timer.
Waits(s) == At(s, "sleeping") \/ (At(s, "proving") /\ config.transport = "plain")
Due(s) == IF At(s, "sleeping") THEN Delay(sub[s].attempt) ELSE RequestTimeout

tick ==
    /\ \E s \in Subs : Waits(s)
    /\ \A s \in Subs : Waits(s) => sub[s].waited < Due(s)
    /\ sub' = [s \in Subs |-> IF Waits(s) THEN [sub[s] EXCEPT !.waited = @ + 1, !.elapsed = @ + 1]
                              ELSE sub[s]]
    /\ UNCHANGED <<config, clientVars, worldVars>>

-----------------------------------------------------------------------------
(***************************************************************************)
(* The rest of strk20InvokeTransaction.                                    *)
(***************************************************************************)

\* The registry is saved once the proof is there.  A transaction that was only
\* prepared cannot be broadcast by this wallet.
saveRegistry(s) ==
    /\ At(s, "saving")
    /\ stored' = sub[s].reg
    /\ IF sub[s].mode = "combined" THEN Go(s, "sending") ELSE fail(s, "unsupported")
    /\ UNCHANGED <<config, nonce, ohttp, worldVars>>

\* The signature of the outside execution, if it is sent as one.
Signed(s) == UNION {signMessage(config.signer, td) : td \in sub[s].typedData}

\* The paymaster broadcasts, and answers unless the answer is lost.
executeTransaction(s) ==
    /\ At(s, "sending")
    /\ \/ fail(s, "paymaster") /\ UNCHANGED txs
       \/ sub[s].typedData # {} /\ fail(s, "signer") /\ UNCHANGED txs
       \/ /\ sub[s].typedData # {} => Signed(s) # {}
          /\ txs' = txs \cup {[sub |-> s, status |-> "pending", mishap |-> "none", quote |-> sub[s].quote,
                               acts |-> IF sub[s].output THEN sub[s].acts ELSE {},
                               approve |-> sub[s].approve, outside |-> sub[s].typedData,
                               signature |-> Signed(s)]}
          /\ \/ sub' = [sub EXCEPT ![s] = [pc |-> "done", error |-> "none"]]
             \/ fail(s, "paymaster")
    /\ UNCHANGED <<config, clientVars, ledger, gateway, poolNonce>>

\* What may happen to a transaction that is not the wallet's doing: more than
\* proof_validity_blocks blocks have passed since the block it was proved on, or the
\* contract it invokes fails or leaves an open note empty.
Mishaps(tx) ==
    {"none", "expired"} \cup
        IF \E a \in tx.acts : \E i \in DOMAIN a.batch : a.batch[i].type = "Invoke" THEN {"callee"} ELSE {}

\* apply_actions: the proof is of the actions and recent, every address is written
\* once (the key, the channel, the subchannel, the note, the nullifier), and a deposit
\* needs the approvals that the account verified.  As the batch was compiled on an
\* earlier state, an address is free exactly if compiling it again would succeed.
Applies(tx) ==
    /\ tx.acts # {} /\ tx.mishap = "none"
    /\ \A a \in tx.acts :
          /\ Accepts(ledger, a.batch)
          /\ a.deposits # <<>> =>
                /\ tx.outside # {}
                /\ \A td \in tx.outside : td.message.calls = tx.approve
    /\ \A td \in tx.outside, sig \in tx.signature :
          is_valid_outside_execution(config.signer.kind, td, sig)

include(tx, mishap) ==
    LET t == [tx EXCEPT !.mishap = mishap]
    IN  /\ tx.status = "pending"
        /\ txs' = (txs \ {tx}) \cup {[t EXCEPT !.status = IF Applies(t) THEN "accepted" ELSE "reverted"]}
        /\ ledger' \in IF Applies(t) THEN {applyBatch(ledger, a.batch).ledger : a \in tx.acts} ELSE {ledger}
        /\ UNCHANGED <<config, sub, clientVars, gateway, poolNonce>>

\* The gateway gets a new key; the pool account a new nonce.
rotateKey ==
    /\ gateway < MaxKeys /\ config.transport = "ohttp"
    /\ gateway' = gateway + 1
    /\ UNCHANGED <<config, sub, clientVars, ledger, poolNonce, txs>>
newNonce ==
    /\ poolNonce < MaxNonce /\ config.node
    /\ poolNonce' = poolNonce + 1
    /\ UNCHANGED <<config, sub, clientVars, ledger, gateway, txs>>

-----------------------------------------------------------------------------
ExecInit ==
    /\ config \in Configs
    /\ sub = [s \in Subs |-> NoSubmission]
    /\ stored = [channels |-> Empty, notes |-> Empty, seen |-> {}]
    /\ nonce = {} /\ ohttp = {}
    /\ ledger \in Ledgers /\ gateway = 1 /\ poolNonce = 0 /\ txs = {}

ExecNext ==
    \/ \E s \in Subs :
          \/ \E program \in Programs, mode \in {"combined", "wrapped", "simulate"} :
                 submit(s, program, mode)
          \/ buildTransaction(s)
          \/ loadRegistry(s)
          \/ compileActions(s)
          \/ getDefaultDetails(s)
          \/ nonceAnswered(s)
          \/ create(s)
          \/ simulate(s) \/ mockProve(s) \/ estimateInvokeFee(s)
          \/ callOnce(s)
          \/ ensureClient(s)
          \/ decapsulationFailed(s)
          \/ relayFailed(s)
          \/ attemptFailed(s)
          \/ timedOut(s)
          \/ wakeUp(s)
          \/ proveTransaction(s)
          \/ saveRegistry(s)
          \/ executeTransaction(s)
    \/ invalidateNonceCache
    \/ tick
    \/ \E tx \in txs : \E mishap \in Mishaps(tx) : include(tx, mishap)
    \/ rotateKey
    \/ newNonce

ExecSpec == ExecInit /\ [][ExecNext]_execVars

-----------------------------------------------------------------------------
(***************************************************************************)
(* Properties.                                                             *)
(***************************************************************************)

\* A transaction that the chain accepted pays the paymaster what it quoted for
\* this submission, once: the fee is part of what was compiled and proved.
FeeCovered ==
    \A tx \in txs : tx.status = "accepted" =>
        \A a \in tx.acts :
            {SumOf(SelectSeq(a.withdraws, LAMBDA w : w.recipient = Paymaster), Amount)} = tx.quote

\* The addresses that a batch writes, each of them once.
Written(batch) ==
    LET of(a) == CASE a.type = "SetViewingKey" -> {<<"key">>}
                   [] a.type = "OpenChannel" -> {<<"channel", a.recipient>>, <<"outgoing", a.index>>}
                   [] a.type = "OpenSubchannel" ->
                          {<<"subchannel", a.recipient, a.token>>, <<"token", a.recipient, a.index>>}
                   [] a.type = "CreateNote" -> {<<"note", a.recipient, a.token, a.index>>}
                   [] a.type = "UseNote" -> {<<"nullifier", a.note>>}
                   [] OTHER -> {}
    IN  UNION {of(batch[i]) : i \in DOMAIN batch}


\* The time of n pauses between attempts, and of all attempts and pauses.
Pauses(n) == {p \in (0 .. n - 1) \X (1 .. MaxBackoff) : p[2] <= Delay(p[1])}
ProveBudget == (MaxRetries + 1) * RequestTimeout + Cardinality(Pauses(MaxRetries))

\* A request that was given up, on which the prover may still be working, is never
\* sent again: two proofs of one submission are never under way together.  Over
\* plain HTTP a proof is there, or has failed, in the time of all attempts.
ProvedOnce ==
    \A s \in Subs :
        /\ At(s, "proving") => ~sub[s].abandoned
        /\ sub[s].pc \notin Ended => sub[s].elapsed <= ProveBudget

\* The gateway refused the request of s: only then the record keeps a key.
Refused(s) == At(s, "failed") /\ "key" \in DOMAIN sub[s]

\* Once the gateway refused a request for its key, the key is forgotten, also when
\* other requests were under way: as long as the gateway keeps its key, no client is
\* left that would be refused again.  (A request that the relay lost cannot tell.)
StaleKeyForgotten ==
    \A s \in Subs :
        /\ Refused(s) /\ sub[s].key = gateway /\ ~config.pinned
        /\ \A t \in Subs : /\ sub[t].error # "relay"
                           /\ sub[t].pc \in {"keys", "proving"} => sub[t].key = gateway
        => ohttp \subseteq {gateway}

\* A payment that the chosen notes cover is compiled: note selection is automatic.
CoveredSubmits == \A s \in Subs : sub[s].error # "surplus"

\* The Nth placeholder of an invoke stands for the Nth open note the dapp created.
OpenNoteOrder ==
    \A s \in Subs : sub[s].pc \notin Ended \cup {"quoting", "loading", "compiling"} =>
        \A a \in sub[s].acts :
            LET opened == SelectSeq(sub[s].actions, LAMBDA x : x.amount = Open)
            IN  \A i \in DOMAIN a.notes : a.notes[i].token = opened[i].token

=============================================================================
