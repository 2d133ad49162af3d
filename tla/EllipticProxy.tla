--------------------------- MODULE EllipticProxy ----------------------------
(***************************************************************************)
(* The screening service: a cloud function that authenticates a partner,   *)
(* limits its rate, decides on an address from the operator's lists, from  *)
(* the addresses it remembers as blocked, or from Elliptic's answer, and   *)
(* signs every allow.                                                      *)
(*                                                                         *)
(* Requests run concurrently and interleave where the handler awaits: the  *)
(* configuration and Elliptic's answer.  One step is what a request does   *)
(* between two awaits.  The configuration is a secret that its operator    *)
(* replaces; the loader keeps a copy for a while.                          *)
(***************************************************************************)
EXTENDS EllipticScoring, EarlyReturns, FiniteSets, FiniteSetsExt

CONSTANTS
    Call, Address, Felt, Invalid, feltOf,
    Configs,            \* the versions of the secret, in the order they are stored
    Requests,           \* requests explored
    Bodies,             \* bodies of Elliptic's successful answers
    WINDOW, MAX_PARTNERS, MAX_ENTRIES, MAX_TIMESTAMP_DRIFT,
    SECRET_TIMEOUT,     \* the Secret Manager client gives up after this time
    MaxTime             \* bound: ticks of the clock

Version == 1 .. Len(Configs)
None == -1

ASSUME EllipticProxyAssumption ==
    /\ Invalid \notin Felt /\ feltOf \in [Address -> Felt \cup {Invalid}]
    /\ Len(Configs) \in Nat \ {0}
    /\ \A v \in Version :
          /\ Configs[v].configCacheTtl \in Nat /\ Configs[v].timeout \in Nat
          /\ Configs[v].rateLimitPerMinute \in Nat /\ Configs[v].blockedCacheTtl \in Nat
    /\ Requests # {} /\ \A r \in Requests : r.address \in Address
    /\ \A b \in Bodies : \A e \in ToSet(b.source) \cup ToSet(b.destination) :
          e.risk_score \in Int /\ e.matched_elements \in Seq(MatchedElement)
    /\ WINDOW \in Nat \ {0} /\ MAX_PARTNERS \in Nat \ {0} /\ MAX_ENTRIES \in Nat \ {0}
    /\ SECRET_TIMEOUT \in Nat /\ MaxTime \in Nat

VARIABLES
    now,            \* the clock
    secret,         \* the version in the Secret Manager
    replacedAt,     \* when each version was replaced (history)
    loader,         \* ConfigLoader: the version cached, since when, for how long
    windows,        \* RateLimiter: the partners' windows, least recently used first
    blockedCache,   \* the blocked addresses, least recently set first, and their lifetime
    calls           \* the requests

vars == <<now, secret, replacedAt, loader, windows, blockedCache, calls>>

NoAnswer == [status |-> 0, verdict |-> "none"]

FreeCall ==
    [pc |-> "free", request |-> CHOOSE r \in Requests : TRUE, began |-> 0, read |-> None,
     version |-> None, accepted |-> None, since |-> 0, scored |-> {}, answer |-> NoAnswer]

Init ==
    /\ now = 0
    /\ secret = 1
    /\ replacedAt = [v \in Version |-> None]
    /\ loader = [version |-> None, cachedAt |-> 0]
    /\ windows = <<>>
    /\ blockedCache = [ttl |-> None, entries |-> <<>>]
    /\ calls = [c \in Call |-> FreeCall]

-----------------------------------------------------------------------------
(***************************************************************************)
(* An LRU cache is a sequence of entries, the next one to evict first.     *)
(***************************************************************************)
\* lru-cache: sets an entry, and evicts the least recently used one when it is full.
LruSet(entries, entry, max) ==
    LET others == RemoveFirstMatch(entries, LAMBDA e : e.key = entry.key)
    IN  Append(IF Len(others) >= max THEN Tail(others) ELSE others, entry)

isBlocked(cache, address) ==
    \E e \in ToSet(cache.entries) : e.key = address /\ now - e.at <= cache.ttl

markBlocked(cache, address) ==
    [cache EXCEPT !.entries = LruSet(@, [key |-> address, at |-> now], MAX_ENTRIES)]

\* Mutant: every configuration that is loaded starts a new cache.
CacheFor_reset(config) == [ttl |-> config.blockedCacheTtl, entries |-> <<>>]

\* A change of the lifetime replaces the cache by an empty one.
CacheFor(config) ==
    IF blockedCache.ttl = config.blockedCacheTtl THEN blockedCache
    ELSE [ttl |-> config.blockedCacheTtl, entries |-> <<>>]

\* The partner's current window: none, or one.
Windows(partner) == {w \in ToSet(windows) : w.key = partner /\ now - w.windowStart < WINDOW}

\* Mutant: one request too many.
OverLimit_late(partner, limit) == \E w \in Windows(partner) : w.count > limit

OverLimit(partner, limit) == \E w \in Windows(partner) : w.count >= limit

\* The partner's window after a request that is counted.
CountedWindow(partner) ==
    IF Windows(partner) = {} THEN [key |-> partner, count |-> 1, windowStart |-> now]
    ELSE LET w == CHOOSE x \in Windows(partner) : TRUE IN [w EXCEPT !.count = @ + 1]

\* RateLimiter.check: reading a window, too, makes it the most recently used.
check(partner, limit) ==
    IF OverLimit(partner, limit)
    THEN [ok |-> FALSE,
          windows |-> LruSet(windows, CHOOSE w \in Windows(partner) : TRUE, MAX_PARTNERS)]
    ELSE [ok |-> TRUE, windows |-> LruSet(windows, CountedWindow(partner), MAX_PARTNERS)]

-----------------------------------------------------------------------------
(***************************************************************************)
(* Configuration.                                                          *)
(***************************************************************************)
validateConfig(config) ==
    /\ config.timeout > 0 /\ config.rateLimitPerMinute > 0 /\ config.maxBodyBytes > 0
    /\ config.configCacheTtl > 0 /\ config.blockedCacheTtl > 0
    /\ config.signingKey # "" /\ config.listsParse
    /\ ~(config.url = "mock" /\ config.chainId = "SN_MAIN")

\* Mutant: a configuration stays in use as long as requests come.
Fresh_while_used ==
    /\ loader.version # None
    /\ \E c \in Call : calls[c].version = loader.version
                         /\ now - calls[c].began <= Configs[loader.version].configCacheTtl

\* ConfigLoader: the copy may be used.
Fresh ==
    /\ loader.version # None
    /\ now - loader.cachedAt < Configs[loader.version].configCacheTtl

authenticateRequest(call, config) ==
    LET request == call.request
        drift == now - (call.began - request.age)
    IN  /\ request.headers
        /\ drift <= MAX_TIMESTAMP_DRIFT /\ -drift <= MAX_TIMESTAMP_DRIFT
        /\ request.partner \in DOMAIN config.partners
        /\ request.hmac = config.partners[request.partner]

-----------------------------------------------------------------------------
(***************************************************************************)
(* The handler.                                                            *)
(***************************************************************************)
Failure(status) == [status |-> status, verdict |-> "error"]

sendBlocked(source) == [status |-> 200, verdict |-> "blocked", source |-> source]

\* sendAllowed: signs under the configuration the request began with, dated now.
Signed(call, config, source) ==
    [status |-> 200, verdict |-> "allowed", source |-> source,
     depositor |-> feltOf[call.request.address], issued_at |-> now,
     signer |-> config.signingKey, chainId |-> config.chainId]

\* Mutant: a verdict without a signature when signing fails.
sendAllowed_unsigned(call, config, source) ==
    {Signed(call, config, source),
     [status |-> 200, verdict |-> "allowed", source |-> source, depositor |-> Invalid,
      issued_at |-> 0, signer |-> "", chainId |-> ""]}

sendAllowed(call, config, source) == {Signed(call, config, source), Failure(503)}

\* The verdict without Elliptic's help, in the order of the handler's checks.
Verdict(call, config, cache, allowed) ==
    LET felt == feltOf[call.request.address]
    IN  FirstOf(<< <<call.request.size > config.maxBodyBytes, "payload_too_large">>,
                   <<~authenticateRequest(call, config), "unauthorized">>,
                   <<~allowed, "too_many_requests">>,
                   <<felt = Invalid, "invalid_address">>,
                   <<felt \in config.blockOverrideAddresses, "allowlist">>,
                   <<felt \in config.additionalBlockedAddresses, "blocklist">>,
                   <<isBlocked(cache, call.request.address), "cache">> >>, "forward")

StatusOf == [payload_too_large |-> 413, unauthorized |-> 401, too_many_requests |-> 429,
             invalid_address |-> 400]

\* The handler from the configuration to its answer or to the call of Elliptic.
handle(c, call, version) ==
    LET config == Configs[version]
        cache == CacheFor(config)
        limit == check(call.request.partner, config.rateLimitPerMinute)
        verdict == Verdict(call, config, cache, limit.ok)
        counted == verdict \notin {"payload_too_large", "unauthorized"}
        done(answer) == [call EXCEPT !.pc = "done", !.version = version, !.since = now,
                                     !.accepted = IF counted /\ limit.ok THEN now ELSE None,
                                     !.answer = answer]
    IN  /\ windows' = IF counted THEN limit.windows ELSE windows
        /\ blockedCache' = IF verdict = "payload_too_large" THEN blockedCache ELSE cache
        /\ calls' \in
              CASE verdict \in DOMAIN StatusOf ->
                      {[calls EXCEPT ![c] = done(Failure(StatusOf[verdict]))]}
                [] verdict = "allowlist" ->
                      {[calls EXCEPT ![c] = done(a)] : a \in sendAllowed(call, config, "allowlist")}
                [] verdict \in {"blocklist", "cache"} ->
                      {[calls EXCEPT ![c] = done(sendBlocked(verdict))]}
                [] verdict = "forward" ->
                      {[calls EXCEPT ![c] = [done(NoAnswer) EXCEPT !.pc = "forwarding"]]}

\* A request arrives: configSource.get() has a copy to give, or asks the Secret Manager.
receive(c, request) ==
    /\ calls[c].pc = "free"
    /\ calls' = [calls EXCEPT ![c] =
                    [FreeCall EXCEPT !.pc = IF Fresh THEN "resuming" ELSE "fetching",
                                     !.request = request, !.began = now,
                                     !.version = IF Fresh THEN loader.version ELSE None]]
    /\ UNCHANGED <<now, secret, replacedAt, loader, windows, blockedCache>>

resume(c) ==
    /\ calls[c].pc = "resuming"
    /\ handle(c, calls[c], calls[c].version)
    /\ UNCHANGED <<now, secret, replacedAt, loader>>

\* The Secret Manager reads the secret for this request.
access_secret(c) ==
    /\ calls[c].pc = "fetching" /\ calls[c].read = None
    /\ calls' = [calls EXCEPT ![c].read = secret]
    /\ UNCHANGED <<now, secret, replacedAt, loader, windows, blockedCache>>

\* Its answer arrives, in any order with those to other requests.
config_loaded(c) ==
    /\ calls[c].pc = "fetching" /\ calls[c].read # None
    /\ validateConfig(Configs[calls[c].read])
    /\ loader' = [version |-> calls[c].read, cachedAt |-> now]
    /\ handle(c, calls[c], calls[c].read)
    /\ UNCHANGED <<now, secret, replacedAt>>

\* No answer, or a configuration that does not validate: the copy kept stays expired.
config_load_failed(c) ==
    /\ calls[c].pc = "fetching"
    /\ calls[c].read # None => ~validateConfig(Configs[calls[c].read])
    /\ calls' = [calls EXCEPT ![c].pc = "done", ![c].answer = Failure(503)]
    /\ UNCHANGED <<now, secret, replacedAt, loader, windows, blockedCache>>

source(config) == IF config.url = "mock" THEN "mock" ELSE "elliptic"

\* Elliptic's answer: the mock knows no address at all.
Upstream(config) ==
    IF config.url = "mock" THEN {[status |-> 404]}
    ELSE {[status |-> 404], [status |-> 500]} \cup {[status |-> 200, body |-> b] : b \in Bodies}

\* The request resumes with Elliptic's answer; the blocked cache is the one of this moment.
elliptic_answered(c) ==
    LET call == calls[c]
        config == Configs[call.version]
        done(answers) == calls' \in {[calls EXCEPT ![c].pc = "done", ![c].since = now,
                                                   ![c].answer = a] : a \in answers}
        scored(body, answers) == calls' \in {[calls EXCEPT ![c].pc = "done", ![c].since = now,
                                                           ![c].scored = {body}, ![c].answer = a] :
                                                a \in answers}
    IN  /\ call.pc = "forwarding"
        /\ \E result \in Upstream(config) :
              \/ /\ result.status = 404
                 /\ done(sendAllowed(call, config, source(config)))
                 /\ UNCHANGED blockedCache
              \/ /\ result.status = 500
                 /\ done({Failure(502)})
                 /\ UNCHANGED blockedCache
              \/ /\ result.status = 200
                 /\ LET score == scoreResponse(result.body)
                    IN  /\ scored(result.body,
                               IF score.reason = "malformed_json" THEN {Failure(502)}
                               ELSE IF score.blocked THEN {sendBlocked(source(config))}
                               ELSE sendAllowed(call, config, source(config)))
                        /\ blockedCache' =
                              IF score.blocked /\ score.reason # "malformed_json"
                              THEN markBlocked(blockedCache, call.request.address)
                              ELSE blockedCache
        /\ UNCHANGED <<now, secret, replacedAt, loader, windows>>

\* A transport error, or the timeout of the fetch.
elliptic_unreachable(c) ==
    /\ calls[c].pc = "forwarding"
    /\ Configs[calls[c].version].url # "mock"
    /\ calls' = [calls EXCEPT ![c].pc = "done", ![c].answer = Failure(504)]
    /\ UNCHANGED <<now, secret, replacedAt, loader, windows, blockedCache>>

\* The operator stores the next version of the secret.
rotate ==
    /\ secret < Len(Configs)
    /\ secret' = secret + 1
    /\ replacedAt' = [replacedAt EXCEPT ![secret] = now]
    /\ UNCHANGED <<now, loader, windows, blockedCache, calls>>

\* A request with nothing to wait for goes on; a fetch does not outlive its timeout.
tick ==
    /\ now < MaxTime
    /\ \A c \in Call :
          /\ calls[c].pc # "resuming"
          /\ calls[c].pc = "fetching" => now - calls[c].began < SECRET_TIMEOUT
          /\ calls[c].pc = "forwarding" =>
                 now - calls[c].since < Configs[calls[c].version].timeout
    /\ now' = now + 1
    /\ UNCHANGED <<secret, replacedAt, loader, windows, blockedCache, calls>>

Next ==
    \/ \E c \in Call, r \in Requests : receive(c, r)
    \/ \E c \in Call :
          \/ resume(c) \/ access_secret(c) \/ config_loaded(c) \/ config_load_failed(c)
          \/ elliptic_answered(c) \/ elliptic_unreachable(c)
    \/ rotate
    \/ tick

Spec == Init /\ [][Next]_vars
-----------------------------------------------------------------------------
Limit == Max({Configs[v].rateLimitPerMinute : v \in Version})

AcceptedIn(partner, from, to) ==
    {c \in Call : /\ calls[c].accepted # None /\ calls[c].request.partner = partner
                  /\ from <= calls[c].accepted /\ calls[c].accepted < to}

(***************************************************************************)
(* The fixed window of the rate limiter begins with a request, so however  *)
(* requests fall around its end, a partner is served less than twice its   *)
(* limit in any stretch as long as a window; and it is refused for its     *)
(* rate only if its own requests used the limit up within the last window, *)
(* whatever other partners do (RateLimiter.check).                         *)
(***************************************************************************)
RateLimited ==
    \A c \in Call :
        /\ calls[c].pc # "free" =>
              \A t \in 0 .. now : Cardinality(AcceptedIn(calls[c].request.partner, t, t + WINDOW)) < 2 * Limit
        /\ calls[c].answer.status = 429 =>
              Cardinality(AcceptedIn(calls[c].request.partner, calls[c].since - WINDOW + 1, calls[c].since + 1))
                  >= Configs[calls[c].version].rateLimitPerMinute

(***************************************************************************)
(* An address Elliptic had blocked is not signed for while the block is    *)
(* remembered, although Elliptic's answer may have changed, whatever       *)
(* requests were in flight and however often the configuration was loaded  *)
(* meanwhile; only the operator's allow list overrides it (markBlocked).   *)
(***************************************************************************)
BlockRemembered ==
    \A c, d \in Call :
        (/\ calls[c].answer.verdict = "blocked" /\ calls[c].answer.source = "elliptic"
         /\ calls[d].request.address = calls[c].request.address
         /\ calls[d].answer.verdict = "allowed" /\ calls[d].accepted > calls[c].since
         /\ \A e \in Call : calls[e].version # None =>
                Configs[calls[e].version].blockedCacheTtl = blockedCache.ttl)
        => \/ calls[d].answer.source = "allowlist"
           \/ calls[d].accepted > calls[c].since + blockedCache.ttl

(***************************************************************************)
(* What the operator replaces goes out of use: a request is answered under *)
(* a configuration only if it began within the lifetime of a copy that was *)
(* read before the configuration was replaced, although a slow read may    *)
(* put an old configuration back over a newer one (ConfigLoader.get).      *)
(***************************************************************************)
RevocationTakesEffect ==
    \A c \in Call :
        (calls[c].version # None /\ replacedAt[calls[c].version] # None) =>
            \/ calls[c].began <= replacedAt[calls[c].version]
            \/ calls[c].began < replacedAt[calls[c].version] + SECRET_TIMEOUT
                                   + Configs[calls[c].version].configCacheTtl

\* b has at least the exposure of a: the same evaluations, with no smaller elements.
Covers(b, a) ==
    /\ a.process_status = "complete" /\ b.process_status = "complete"
    /\ \A e \in ToSet(a.source) : \E f \in ToSet(b.source) :
          /\ f.rule_id = e.rule_id /\ f.risk_score = e.risk_score
          /\ Len(e.matched_elements) <= Len(f.matched_elements)
          /\ \A i \in DOMAIN e.matched_elements :
                \A x \in DOMAIN e.matched_elements[i] :
                    e.matched_elements[i][x] <= f.matched_elements[i][x]
    /\ ToSet(a.destination) \subseteq ToSet(b.destination)

BlockedBodies == {b \in Bodies : scoreResponse(b).blocked}

(***************************************************************************)
(* No allow is signed over an answer of Elliptic whose exposure includes   *)
(* that of an answer that blocks, or that reaches the hard limit of a rule *)
(* that has one, whatever score Elliptic gave (scoreResponse); and none of *)
(* the main network under the mock, whatever the operator stored           *)
(* (validateConfig).                                                       *)
(***************************************************************************)
AllowedIsClean ==
    \A c \in Call :
        calls[c].answer.verdict = "allowed" =>
            /\ ~(Configs[calls[c].version].url = "mock" /\ Configs[calls[c].version].chainId = "SN_MAIN")
            /\ \A body \in calls[c].scored :
                  /\ \A b \in BlockedBodies : ~Covers(body, b)
                  /\ body.process_status = "complete" =>
                        \A e \in ToSet(body.source) :
                            e.rule_id \in HARD_BLOCK_RULES =>
                                TotalOf([i \in DOMAIN e.matched_elements |->
                                            e.matched_elements[i].contribution_usd]) < hardBlockUsd

\* The answer that the interceptor reads: an attestation, or none.
AnswerSeen(answer) ==
    IF answer.verdict = "allowed"
    THEN [verdict |-> "allowed", depositor |-> answer.depositor, issued_at |-> answer.issued_at]
    ELSE [verdict |-> answer.verdict]

\* A call as the interceptor sees it.
Screen(call) ==
    [state |-> CASE call.pc = "free" -> "free"
                 [] call.pc = "done" -> "answered"
                 [] OTHER -> "open",
     address |-> IF call.pc = "free" THEN CHOOSE a \in Address : TRUE ELSE call.request.address,
     answer |-> AnswerSeen(call.answer)]

screens == [c \in Call |-> Screen(calls[c])]

Denied == {f \in Felt : \A v \in Version : f \in Configs[v].additionalBlockedAddresses
                                                \ Configs[v].blockOverrideAddresses}

\* The abstract specification; its parameters keep their values.
Promise == INSTANCE Screener WITH now <- now, screens <- screens, Denied <- Denied

(***************************************************************************)
(* The service keeps the promise of Screener: every call is answered once; *)
(* an allow attests the address that was asked about, dated when it is     *)
(* given; what every configuration denies is never attested (sendAllowed). *)
(***************************************************************************)
KeepsPromise == Promise!Spec
=============================================================================
