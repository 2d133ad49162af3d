-------------------------- MODULE ProofInterceptor --------------------------
(***************************************************************************)
(* The proof interceptor: the prover asks it, by JSON-RPC, whether a       *)
(* transaction may be proved.  A transaction of the pool is checked for    *)
(* the one address the pool will want screened, and that address is put to *)
(* the screening service (module Screener), with retries under a deadline. *)
(* Which address it is may depend on the pool's policy for a depositor,    *)
(* which is read from a node, shared between the requests that need it at  *)
(* the same time, and kept for a while.                                    *)
(*                                                                         *)
(* A request goes on by itself between two awaits; the clock moves only    *)
(* when no request can go on and no timer is overdue.                      *)
(***************************************************************************)
EXTENDS Screener, EarlyReturns, FiniteSets, FiniteSetsExt

CONSTANTS
    Tx,             \* requests in flight
    Requests,       \* requests explored
    Envs,           \* environments the server may be started in
    Pool,           \* the pool's address
    canonical,      \* [Felt -> Address]: how normalizeFelt spells an address
    shadowOf,       \* [Felt -> Felt]: the shadow account of a user
    Policies,       \* the pool's policies explored
    MaxChanges,     \* bound: changes of a policy by governance
    Arrivals        \* bound: when a request may arrive

OpenNoteScreeningPolicy == {"Required", "Exempt", "Delegated"}

\* The actions of a transaction, as far as they are decoded.
Action ==
    [variant : {"Deposit", "CreateOpenNote", "other"}] \cup
    [variant : {"InvokeExternal"}, contract_address : Address] \cup
    [variant : {"ComputeAndInvoke"}, contract_address : Address, computeDecodes : BOOLEAN,
     invokeDecodes : BOOLEAN, openNotes : Nat]

ASSUME ProofInterceptorAssumption ==
    /\ canonical \in [Felt -> Address]
    /\ \A f \in Felt : feltOf[canonical[f]] = f
    /\ shadowOf \in [Felt -> Felt] /\ Pool \in Felt
    /\ Policies \subseteq [Felt -> OpenNoteScreeningPolicy \cup {"absent"}]
    /\ Requests # {}
    /\ \A r \in Requests : /\ r.tx.to \in Address /\ r.tx.user \in Address
                            /\ r.tx.actions \in Seq(Action)
    /\ \A env \in Envs :
          /\ {env.timeoutMs, env.maxRetries, env.totalTimeoutMs} \subseteq Nat
          /\ {env.policyTtlMs, env.policyTimeoutMs} \subseteq Nat
          /\ Tx \X (0 .. env.maxRetries) \subseteq Call

VARIABLES
    config,         \* the configuration the server started with
    policies,       \* the pool's policies; "absent" in a pool that has no such entrypoint
    changes,        \* when governance changed them
    cachedPolicies, \* the policy cached per address, and since when: none, or one
    pendingReads,   \* the read in flight per address: none, or one
    txs             \* the requests

vars == <<now, screens, config, policies, changes, cachedPolicies, pendingReads, txs>>

-----------------------------------------------------------------------------
(***************************************************************************)
(* Configuration and validation.                                           *)
(***************************************************************************)
\* loadConfig: screening is on when its URL is set, and then needs all its parameters.
loadConfig(env) ==
    FirstOf(<< <<env.maxBodyBytes <= 0, {}>>,
               <<env.tlsCert # env.tlsKey, {}>>,
               <<~env.screening, {[screening |-> FALSE, maxBodyBytes |-> env.maxBodyBytes]}>>,
               <<~env.complete, {}>> >>,
            {[screening |-> TRUE, maxBodyBytes |-> env.maxBodyBytes,
              blockNonPoolTx |-> env.blockNonPoolTx, timeoutMs |-> env.timeoutMs,
              maxRetries |-> env.maxRetries, totalTimeoutMs |-> env.totalTimeoutMs,
              policyTtlMs |-> env.policyTtlMs, policyTimeoutMs |-> env.policyTimeoutMs]})

Refused(type) == [action |-> "error", type |-> type]
Block(reason) == [action |-> "block", reason |-> reason]
Allow == [action |-> "allow", signature |-> {}]
AllowSigned(signature) == [action |-> "allow", signature |-> {signature}]
NoVerdict == [action |-> "none"]

\* validateCheckTransaction: the first complaint about the parameters.
validateCheckTransaction(defects) ==
    FirstOf(<< <<"params" \in defects, "invalid_request">>,
               <<"pending" \in defects, "block_not_found">>,
               <<"not_object" \in defects, "invalid_request">>,
               <<"type" \in defects \/ "version" \in defects, "unsupported_tx_version">>,
               <<"transaction" \in defects, "invalid_request">> >>, "ok")

\* validateRpcRequest: the error of a request, or "ok".
validateRpcRequest(defects) ==
    FirstOf(<< <<"json" \in defects, "parse_error">>,
               <<"envelope" \in defects, "invalid_request">>,
               <<"method" \in defects, "method_not_found">> >>,
            validateCheckTransaction(defects))

\* createHandler, before the interceptors run.
Refusal(request) ==
    FirstOf(<< <<request.size > config.maxBodyBytes, "payload_too_large">>,
               <<"aborted" \in request.defects, "payload_too_large">>,
               <<"not_post_json" \in request.defects, "invalid_request">> >>,
            validateRpcRequest(request.defects))

-----------------------------------------------------------------------------
(***************************************************************************)
(* The address to screen.                                                  *)
(***************************************************************************)
normalizeFelt(address) ==
    IF feltOf[address] = Invalid THEN address ELSE canonical[feltOf[address]]

isSinglePoolCall(tx) == tx.calls = 1 /\ normalizeFelt(tx.to) = canonical[Pool]

Variants(tx) == {tx.actions[i].variant : i \in DOMAIN tx.actions}

\* The first action that invokes a contract: none, or one.
FirstInvoke(tx) ==
    LET invokes == {i \in DOMAIN tx.actions :
                       tx.actions[i].variant \in {"InvokeExternal", "ComputeAndInvoke"}}
    IN  IF invokes = {} THEN {} ELSE {tx.actions[Min(invokes)]}

\* getOpenNoteDepositor: the invoke that is taken to fund the open notes.
getOpenNoteDepositor(tx) == IF "CreateOpenNote" \in Variants(tx) THEN FirstInvoke(tx) ELSE {}

createsOpenNotes(action) == action.invokeDecodes /\ action.openNotes > 0

\* getShadowAccountInteraction: the first compute-invoke of the anonymizer, if it decodes.
getShadowAccountInteraction(tx, anonymizer) ==
    LET targets == {i \in DOMAIN tx.actions :
                       /\ tx.actions[i].variant = "ComputeAndInvoke"
                       /\ normalizeFelt(tx.actions[i].contract_address) = anonymizer}
    IN  IF targets = {} THEN {}
        ELSE {action \in {tx.actions[Min(targets)]} : action.computeDecodes}

\* The shadow account: none, or one.
getShadowAccountAddress(tx, anonymizer) ==
    IF tx.viewingKeyParses /\ feltOf[tx.user] # Invalid
    THEN {canonical[shadowOf[feltOf[tx.user]]] :
             i \in getShadowAccountInteraction(tx, anonymizer)}
    ELSE {}

getDelegatedAddress(tx, action) ==
    LET shadow == getShadowAccountAddress(tx, normalizeFelt(action.contract_address))
    IN  FirstOf(<< <<action.variant # "ComputeAndInvoke" \/ ~createsOpenNotes(action),
                     [kind |-> "none"]>>,
                   <<shadow = {}, [kind |-> "undeterminedShadowAccount"]>> >>,
                [kind |-> "one", address |-> CHOOSE a \in shadow : TRUE])

One(addresses) ==
    CASE Cardinality(addresses) > 1 -> [kind |-> "conflict"]
      [] addresses = {} -> [kind |-> "none"]
      [] OTHER -> [kind |-> "one", address |-> CHOOSE a \in addresses : TRUE]

\* getScreenedAddress, once the policy (or "null") of the open-note depositor is known.
getScreenedAddress(tx, policy) ==
    LET own == IF "Deposit" \in Variants(tx) THEN {normalizeFelt(tx.user)} ELSE {}
        action == CHOOSE a \in getOpenNoteDepositor(tx) : TRUE
        delegated == getDelegatedAddress(tx, action)
    IN  IF ~tx.decodes THEN [kind |-> "none"]
        ELSE IF getOpenNoteDepositor(tx) = {} \/ policy = "Exempt" THEN One(own)
        ELSE IF policy = "Required" THEN One(own \cup {normalizeFelt(action.contract_address)})
        ELSE IF policy # "Delegated" THEN [kind |-> "unreadablePolicy"]
        ELSE IF delegated.kind = "one" THEN One(own \cup {delegated.address})
        ELSE IF delegated.kind = "none" THEN One(own)
        ELSE delegated

UNRESOLVED_SUBJECT_REASONS ==
    [conflict |-> "multiple_screening_subjects",
     unreadablePolicy |-> "screening_policy_unavailable",
     undeterminedShadowAccount |-> "shadow_account_undetermined"]

-----------------------------------------------------------------------------
(***************************************************************************)
(* Requests.                                                               *)
(***************************************************************************)
FreeTx ==
    [pc |-> "free", request |-> CHOOSE r \in Requests : TRUE, arrived |-> 0,
     subject |-> CHOOSE a \in Address : TRUE, attempt |-> 0, deadline |-> 0, due |-> 0,
     verdict |-> NoVerdict, answered |-> 0]

Done(t, verdict) ==
    [t EXCEPT !.pc = "done", !.verdict = verdict, !.answered = now,
              !.attempt = 0, !.deadline = 0, !.due = 0]

\* intercept, once the address is known: a verdict, or the first call of the service.
Resolved(t, screened) ==
    IF screened.kind = "none" THEN Done(t, Allow)
    ELSE IF screened.kind # "one"
         THEN Done(t, Block(UNRESOLVED_SUBJECT_REASONS[screened.kind]))
    ELSE [t EXCEPT !.pc = "calling", !.subject = screened.address,
                   !.deadline = now + config.totalTimeoutMs]

\* Mutant: an expired entry is served.
Cached_stale(address) == cachedPolicies[address]

\* The cached policy, if it has not expired: none, or one.
Cached(address) == {c \in cachedPolicies[address] : now - c.at <= config.policyTtlMs}

\* intercept up to its first await: getPolicy may have the policy, or join a read, or start one.
Intercepted(t) ==
    LET tx == t.request.tx
        depositor == getOpenNoteDepositor(tx)
        address == normalizeFelt((CHOOSE a \in depositor : TRUE).contract_address)
    IN  IF ~isSinglePoolCall(tx)
        THEN [tx |-> Done(t, IF config.blockNonPoolTx THEN Block("non_pool_tx") ELSE Allow),
              waitsFor |-> {}]
        ELSE IF ~tx.decodes \/ depositor = {}
        THEN [tx |-> Resolved(t, getScreenedAddress(tx, "null")), waitsFor |-> {}]
        ELSE IF Cached(address) # {}
        THEN LET c == CHOOSE x \in Cached(address) : TRUE
             IN  [tx |-> Resolved(t, getScreenedAddress(tx, c.policy)), waitsFor |-> {}]
        ELSE [tx |-> [t EXCEPT !.pc = "policy"], waitsFor |-> {address}]

\* runInterceptors: without one, every transaction is allowed.
runInterceptors(t) ==
    IF ~config.screening THEN [tx |-> Done(t, Allow), waitsFor |-> {}] ELSE Intercepted(t)

\* A request arrives, its body read.
receive(t, request) ==
    /\ txs[t].pc = "free" /\ now \in Arrivals
    /\ LET arrived == [FreeTx EXCEPT !.request = request, !.arrived = now]
           started == IF Refusal(request) # "ok"
                      THEN [tx |-> Done(arrived, Refused(Refusal(request))), waitsFor |-> {}]
                      ELSE runInterceptors(arrived)
       IN  /\ txs' = [txs EXCEPT ![t] = started.tx]
           /\ pendingReads' = [a \in Address |->
                 IF a \in started.waitsFor /\ pendingReads[a] = {}
                 THEN {[began |-> now, got |-> {}]} ELSE pendingReads[a]]
    /\ UNCHANGED <<now, screens, config, policies, changes, cachedPolicies>>

\* The node evaluates get_open_note_screening_policy in its latest block.
read_policy(a) ==
    /\ \E read \in pendingReads[a] :
          /\ read.got = {}
          /\ pendingReads' = [pendingReads EXCEPT ![a] =
                {[read EXCEPT !.got = {policies[feltOf[a]]}]}]
    /\ UNCHANGED <<now, screens, config, policies, changes, cachedPolicies, txs>>

\* readPolicy's result: a pool without the entrypoint exempts every depositor.
parsePolicy(answer) == IF answer = "absent" THEN "Exempt" ELSE answer

\* The requests waiting for a read of a.
Waiting(a) ==
    {t \in Tx : /\ txs[t].pc = "policy"
                /\ \E action \in getOpenNoteDepositor(txs[t].request.tx) :
                      normalizeFelt(action.contract_address) = a}

\* The read settles, with an answer or not: everyone who waits for it goes on.
settle(a) ==
    /\ \E read \in pendingReads[a] :
          \/ \E got \in read.got :
                LET policy == parsePolicy(got)
                IN  /\ txs' = [t \in Tx |->
                          IF t \in Waiting(a)
                          THEN Resolved(txs[t], getScreenedAddress(txs[t].request.tx, policy))
                          ELSE txs[t]]
                    /\ cachedPolicies' = [cachedPolicies EXCEPT ![a] =
                          {[policy |-> policy, at |-> now]}]
          \/ /\ txs' = [t \in Tx |->
                   IF t \in Waiting(a)
                   THEN Resolved(txs[t], getScreenedAddress(txs[t].request.tx, "null"))
                   ELSE txs[t]]
             /\ UNCHANGED cachedPolicies
    /\ pendingReads' = [pendingReads EXCEPT ![a] = {}]
    /\ UNCHANGED <<now, screens, config, policies, changes>>

exponentialBackoff(attempt) == Min({2 ^ (attempt - 1), 5})

Remaining(t) == txs[t].deadline - now

Unavailable(t) == Done(t, Block("screening_unavailable"))

\* Mutant: every attempt has the whole timeout.
perCallTimeout_whole(t) == config.timeoutMs

perCallTimeout(t) == Min({config.timeoutMs, Remaining(t)})

\* screenAndSign: one more call, if there is time for one.
callScreenEndpoint(t) ==
    /\ txs[t].pc = "calling"
    /\ IF Remaining(t) <= 0
       THEN /\ txs' = [txs EXCEPT ![t] = Unavailable(@)]
            /\ UNCHANGED screens
       ELSE /\ txs' = [txs EXCEPT ![t].pc = "screening", ![t].due = now + perCallTimeout(t)]
            /\ OpenScreen(<<t, txs[t].attempt>>, txs[t].subject)
    /\ UNCHANGED <<now, config, policies, changes, cachedPolicies, pendingReads>>

\* The service answers a call.  An answer to a call that was given up is read by nobody.
service_answers(t) ==
    /\ txs[t].pc = "screening"
    /\ AnswerScreen(<<t, txs[t].attempt>>)
    /\ UNCHANGED <<now, config, policies, changes, cachedPolicies, pendingReads, txs>>

\* An attempt failed: the next one after a pause that ends at the deadline, or none.
Failed(t) ==
    LET next == txs[t].attempt + 1
    IN  IF next > config.maxRetries \/ Remaining(t) <= 0 THEN Unavailable(txs[t])
        ELSE [txs[t] EXCEPT !.pc = "backoff", !.attempt = next,
                            !.due = now + Min({exponentialBackoff(next), Remaining(t)})]

\* The answer reaches the interceptor, which retries after an error.
screen_answered(t) ==
    /\ txs[t].pc = "screening"
    /\ LET screen == screens[<<t, txs[t].attempt>>]
       IN  /\ screen.state = "answered"
           /\ txs' = [txs EXCEPT ![t] =
                 CASE screen.answer.verdict = "allowed" ->
                         Done(@, AllowSigned([depositor |-> screen.answer.depositor,
                                              issued_at |-> screen.answer.issued_at]))
                   [] screen.answer.verdict = "blocked" -> Done(@, Block("address_blocked"))
                   [] OTHER -> Failed(t)]
    /\ UNCHANGED <<now, screens, config, policies, changes, cachedPolicies, pendingReads>>

\* The timeout of the call; a transport error counts among the service's errors.
call_timed_out(t) ==
    /\ txs[t].pc = "screening" /\ now >= txs[t].due
    /\ txs' = [txs EXCEPT ![t] = Failed(t)]
    /\ UNCHANGED <<now, screens, config, policies, changes, cachedPolicies, pendingReads>>

wake(t) ==
    /\ txs[t].pc = "backoff" /\ now >= txs[t].due
    /\ txs' = [txs EXCEPT ![t].pc = "calling"]
    /\ UNCHANGED <<now, screens, config, policies, changes, cachedPolicies, pendingReads>>

\* Governance sets a policy, or upgrades the pool to one that has policies.
set_policy ==
    /\ Len(changes) < MaxChanges
    /\ \E p \in Policies : /\ \A f \in Felt : p[f] # "absent"
                           /\ p # policies /\ policies' = p
    /\ changes' = Append(changes, now)
    /\ UNCHANGED <<now, screens, config, cachedPolicies, pendingReads, txs>>

tick ==
    /\ Tick
    /\ \A t \in Tx : /\ txs[t].pc # "calling"
                     /\ txs[t].pc \in {"screening", "backoff"} => now < txs[t].due
    /\ \A a \in Address : \A read \in pendingReads[a] :
          now < read.began + config.policyTimeoutMs
    /\ UNCHANGED <<screens, config, policies, changes, cachedPolicies, pendingReads, txs>>

InterceptorInit ==
    /\ ScreenerInit
    /\ \E env \in Envs : config \in loadConfig(env)
    /\ policies \in Policies
    /\ changes = <<>>
    /\ cachedPolicies = [a \in Address |-> {}]
    /\ pendingReads = [a \in Address |-> {}]
    /\ txs = [t \in Tx |-> FreeTx]

\* The end of the time explored.  In no other state does everything stand still.
halt == now = MaxTime /\ (\A t \in Tx : txs[t].pc \in {"free", "done"}) /\ UNCHANGED vars

InterceptorNext ==
    \/ \E t \in Tx, r \in Requests : receive(t, r)
    \/ \E a \in Address : read_policy(a) \/ settle(a)
    \/ \E t \in Tx : \/ callScreenEndpoint(t) \/ service_answers(t) \/ screen_answered(t)
                     \/ call_timed_out(t) \/ wake(t)
    \/ set_policy
    \/ tick
    \/ halt

InterceptorSpec == InterceptorInit /\ [][InterceptorNext]_vars
-----------------------------------------------------------------------------
Accepted(t) == txs[t].pc = "done" /\ txs[t].verdict.action = "allow"

\* What the pool can apply: its open notes are funded by the one invoke it has, in the
\* transaction itself, and a shadow account's deposits are those its calldata announces.
Executable(tx) ==
    /\ tx.calls = 1 /\ feltOf[tx.to] = Pool /\ tx.decodes
    /\ feltOf[tx.user] # Invalid /\ tx.viewingKeyParses
    /\ Cardinality({i \in DOMAIN tx.actions :
           tx.actions[i].variant \in {"InvokeExternal", "ComputeAndInvoke"}}) <= 1
    /\ "CreateOpenNote" \in Variants(tx) => FirstInvoke(tx) # {}
    /\ \A action \in FirstInvoke(tx) :
          /\ feltOf[action.contract_address] # Invalid
          /\ action.variant = "ComputeAndInvoke" =>
                /\ action.computeDecodes /\ action.invokeDecodes
                /\ (action.openNotes > 0) <=> ("CreateOpenNote" \in Variants(tx))

\* The subjects apply_actions finds: of a deposit, and of an invoke that returns deposits,
\* under these policies.
PoolSubjects(tx, policy) ==
    (IF "Deposit" \in Variants(tx) THEN {feltOf[tx.user]} ELSE {})
    \cup UNION {CASE policy[feltOf[action.contract_address]] = "Required" ->
                        {feltOf[action.contract_address]}
                  [] /\ policy[feltOf[action.contract_address]] = "Delegated"
                     /\ action.variant = "ComputeAndInvoke" -> {shadowOf[feltOf[tx.user]]}
                  [] OTHER -> {} :
                  action \in {a \in FirstInvoke(tx) : "CreateOpenNote" \in Variants(tx)}}

\* No change of a policy that the interceptor may not have seen when t arrived, nor a later one.
Settled(t) ==
    \A i \in DOMAIN changes :
        changes[i] + config.policyTimeoutMs + config.policyTtlMs < txs[t].arrived

(***************************************************************************)
(* What the interceptor allows, the pool takes: unless a policy changed    *)
(* after the request arrived, or within one read and one lifetime of the   *)
(* cache before, an allowed transaction that can execute has at most one   *)
(* screening subject and carries an attestation of exactly that address,   *)
(* neither missing (SCREENING_REQUIRED) nor unasked for                    *)
(* (UNEXPECTED_SCREENING), and no address that is always denied passes     *)
(* (getScreenedAddress, and the contract of getPolicy).                    *)
(***************************************************************************)
AllowedAccepted ==
    config.screening =>
        \A t \in Tx :
            (Accepted(t) /\ Settled(t) /\ Executable(txs[t].request.tx)) =>
                /\ PoolSubjects(txs[t].request.tx, policies) =
                      {s.depositor : s \in txs[t].verdict.signature}
                /\ PoolSubjects(txs[t].request.tx, policies) \cap Denied = {}

(***************************************************************************)
(* A request is answered within the policy read's deadline and then the    *)
(* screening budget, whichever reads it shared and however many attempts   *)
(* failed ("additive to the screening budget", DEFAULT_POLICY_TIMEOUT_MS). *)
(***************************************************************************)
AnsweredInTime ==
    config.screening =>
        \A t \in Tx :
            txs[t].pc # "free" =>
                (IF txs[t].pc = "done" THEN txs[t].answered ELSE now)
                    <= txs[t].arrived + config.policyTimeoutMs + config.totalTimeoutMs
=============================================================================
