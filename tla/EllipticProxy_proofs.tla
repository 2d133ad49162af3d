------------------------ MODULE EllipticProxy_proofs ------------------------
(***************************************************************************)
(* The screening service implements Screener, a configuration that was     *)
(* replaced goes out of use, a partner is held to its rate, a block is     *)
(* remembered, and an allow is signed only over an answer that is clean:   *)
(* the inductive invariants of the service, of its two caches and of what  *)
(* it signs, for every number of calls, every sequence of configurations,  *)
(* every timeout and every answer of Elliptic.                             *)
(***************************************************************************)
EXTENDS EllipticProxy, FiniteSetTheorems, SequenceTheorems, WellFoundedInduction, TLAPS

-----------------------------------------------------------------------------
(***************************************************************************)
(* The inductive invariant.                                                *)
(***************************************************************************)
Sources == {"allowlist", "blocklist", "cache", "mock", "elliptic"}

Answers ==
    [status : Nat, verdict : {"none", "error"}]
    \cup [status : {200}, verdict : {"blocked"}, source : Sources]
    \cup [status : {200}, verdict : {"allowed"}, source : Sources, depositor : Felt,
          issued_at : Nat, signer : {Configs[v].signingKey : v \in Version},
          chainId : {Configs[v].chainId : v \in Version}]

CallRecord ==
    [pc : {"free", "resuming", "fetching", "forwarding", "done"}, request : Requests,
     began : Nat, read : Version \cup {None}, version : Version \cup {None},
     accepted : Nat \cup {None}, since : Nat, scored : SUBSET Bodies, answer : Answers]

\* What is stored, the two caches of the limiter and of the blocked addresses aside.
ServiceTyped ==
    /\ now \in Nat
    /\ secret \in Version
    /\ replacedAt \in [Version -> Nat \cup {None}]
    /\ loader \in [version : Version \cup {None}, cachedAt : Nat]
    /\ calls \in [Call -> CallRecord]

\* A request that is not answered yet has no answer, and one that is sent to Elliptic
\* asks about an address that its configuration does not deny.
Handled(call) ==
    /\ call.pc \in {"free", "resuming", "fetching", "forwarding"} => call.answer = NoAnswer
    /\ call.pc \in {"resuming", "forwarding"} => call.version \in Version
    /\ call.pc = "forwarding" =>
          feltOf[call.request.address] \in Felt \ Configs[call.version].additionalBlockedAddresses

\* Versions are replaced in their order.
Replaced == \A v \in Version : replacedAt[v] # None <=> v < secret

\* A version was read before it was replaced, and the read is not older than its timeout.
ReadInTime(call) ==
    /\ call.began <= now
    /\ call.pc = "fetching" => now <= call.began + SECRET_TIMEOUT
    /\ (call.read # None /\ replacedAt[call.read] # None) => call.began <= replacedAt[call.read]

\* So the copy of a version that was replaced is not much younger than its replacement.
CopyInTime ==
    (loader.version # None /\ replacedAt[loader.version] # None) =>
        loader.cachedAt <= replacedAt[loader.version] + SECRET_TIMEOUT

ServiceInv ==
    /\ ServiceTyped
    /\ \A c \in Call : Handled(calls[c]) /\ ReadInTime(calls[c])
    /\ Replaced
    /\ loader.cachedAt <= now
    /\ CopyInTime
    /\ RevocationTakesEffect

-----------------------------------------------------------------------------
(***************************************************************************)
(* The handler.                                                            *)
(***************************************************************************)

\* A list of at most seven checks that hit has a first one.
LEMMA FirstHit ==
    ASSUME NEW hits, hits \subseteq 1 .. 7, hits # {}
    PROVE  \E i \in hits : \A j \in hits : i <= j
PROOF
<1>1. CASE 1 \in hits
  BY <1>1, SMT
<1>2. CASE 1 \notin hits /\ 2 \in hits
  BY <1>2, SMT
<1>3. CASE 1 \notin hits /\ 2 \notin hits /\ 3 \in hits
  BY <1>3, SMT
<1>4. CASE 1 \notin hits /\ 2 \notin hits /\ 3 \notin hits /\ 4 \in hits
  BY <1>4, SMT
<1>5. CASE 1 \notin hits /\ 2 \notin hits /\ 3 \notin hits /\ 4 \notin hits
  <2>1. CASE 5 \in hits
    BY <1>5, <2>1, SMT
  <2>2. CASE 5 \notin hits /\ 6 \in hits
    BY <1>5, <2>2, SMT
  <2>3. CASE 5 \notin hits /\ 6 \notin hits
    <3>1. \A i \in hits : i = 7
      BY <1>5, <2>3, SMT
    <3>2. PICK h \in hits : TRUE
      OBVIOUS
    <3>3. \A j \in hits : h <= j
      BY <3>1, <3>2, SMT
    <3> QED BY <3>2, <3>3
  <2> QED BY <2>1, <2>2, <2>3
<1> QED BY <1>1, <1>2, <1>3, <1>4, <1>5

\* FirstOf gives the outcome of a check that holds while those before it do not.
LEMMA FirstOfFacts ==
    ASSUME NEW p1, NEW p2, NEW p3, NEW p4, NEW p5, NEW p6, NEW p7,
           NEW o1, NEW o2, NEW o3, NEW o4, NEW o5, NEW o6, NEW o7, NEW otherwise
    PROVE  LET first == FirstOf(<< <<p1, o1>>, <<p2, o2>>, <<p3, o3>>, <<p4, o4>>,
                                   <<p5, o5>>, <<p6, o6>>, <<p7, o7>> >>, otherwise)
           IN  \/ first = o1
               \/ first = o2
               \/ p3 /\ first = o3
               \/ ~p3 /\ first = o4
               \/ ~p3 /\ ~p4 /\ p5 /\ first = o5
               \/ ~p3 /\ ~p4 /\ ~p5 /\ p6 /\ first = o6
               \/ ~p3 /\ ~p4 /\ ~p5 /\ ~p6 /\ p7 /\ first = o7
               \/ ~p3 /\ ~p4 /\ ~p5 /\ ~p6 /\ ~p7 /\ first = otherwise
PROOF
<1> DEFINE checks == << <<p1, o1>>, <<p2, o2>>, <<p3, o3>>, <<p4, o4>>,
                        <<p5, o5>>, <<p6, o6>>, <<p7, o7>> >>
           hits == {i \in DOMAIN checks : checks[i][1]}
           first == CHOOSE i \in hits : \A j \in hits : i <= j
<1>1. DOMAIN checks = 1 .. 7
  OBVIOUS
<1>2. /\ 1 \in hits <=> p1
      /\ 2 \in hits <=> p2
      /\ 3 \in hits <=> p3
      /\ 4 \in hits <=> p4
      /\ 5 \in hits <=> p5
      /\ 6 \in hits <=> p6
      /\ 7 \in hits <=> p7
  BY <1>1
<1>3. /\ checks[1][2] = o1 /\ checks[2][2] = o2 /\ checks[3][2] = o3 /\ checks[4][2] = o4
      /\ checks[5][2] = o5 /\ checks[6][2] = o6 /\ checks[7][2] = o7
  OBVIOUS
<1>4. FirstOf(checks, otherwise) = IF hits = {} THEN otherwise ELSE checks[first][2]
  BY DEF FirstOf
<1>5. hits \subseteq 1 .. 7
  BY <1>1
<1>6. hits # {} => first \in hits /\ \A j \in hits : first <= j
  BY <1>5, FirstHit
<1> HIDE DEF checks, hits, first
<1>7. CASE hits = {}
  BY <1>2, <1>4, <1>7, Zenon DEF checks
<1>8. CASE hits # {}
  <2>1. first \in {1, 2, 3, 4, 5, 6, 7}
    <3>1. first \in 1 .. 7
      BY <1>5, <1>6, <1>8
    <3> QED BY <3>1, SMT
  <2>2. \A j \in 1 .. 7 : j < first => j \notin hits
    BY <1>6, <1>8, <2>1
  <2>3. FirstOf(checks, otherwise) = checks[first][2]
    BY <1>4, <1>8
  <2>4. CASE first \in {1, 2}
    BY <1>3, <2>3, <2>4 DEF checks
  <2>8. CASE first = 3
    <3>1. 3 \in hits
      BY <1>6, <1>8, <2>8
    <3> QED BY <1>2, <1>3, <2>3, <2>8, <3>1, Zenon DEF checks
  <2>9. CASE first = 4
    <3>1. 3 \notin hits
      BY <1>6, <1>8, <2>2, <2>9
    <3> QED BY <1>2, <1>3, <2>3, <2>9, <3>1, Zenon DEF checks
  <2>5. CASE first = 5
    <3>1. 3 \notin hits /\ 4 \notin hits /\ 5 \in hits
      BY <1>6, <1>8, <2>2, <2>5
    <3> QED BY <1>2, <1>3, <2>3, <2>5, <3>1, Zenon DEF checks
  <2>6. CASE first = 6
    <3>1. 3 \notin hits /\ 4 \notin hits /\ 5 \notin hits /\ 6 \in hits
      BY <1>6, <1>8, <2>2, <2>6
    <3> QED BY <1>2, <1>3, <2>3, <2>6, <3>1, Zenon DEF checks
  <2>7. CASE first = 7
    <3>1. 3 \notin hits /\ 4 \notin hits /\ 5 \notin hits /\ 6 \notin hits /\ 7 \in hits
      BY <1>6, <1>8, <2>2, <2>7
    <3> QED BY <1>2, <1>3, <2>3, <2>7, <3>1, Zenon DEF checks
  <2> QED BY <2>1, <2>4, <2>5, <2>6, <2>7, <2>8, <2>9
<1> QED BY <1>7, <1>8

\* The answer that a request about this address may be given at this moment.
Due(answer, address) ==
    \/ answer.verdict \in {"error", "blocked"}
    \/ /\ answer.verdict = "allowed"
       /\ answer.depositor = feltOf[address] /\ answer.issued_at = now
       /\ feltOf[address] \in Felt \ Denied

\* A request after a step of its handler: answered, or sent to Elliptic.
Stepped(call, old) ==
    /\ call \in CallRecord
    /\ call.request = old.request /\ call.began = old.began /\ call.read = old.read
    /\ \/ call.pc = "done" /\ Due(call.answer, call.request.address)
       \/ call.pc = "forwarding" /\ Handled(call)

\* An allow that is signed for an address which the configuration does not deny is due.
LEMMA AllowedIsDue ==
    ASSUME ServiceTyped, NEW call \in CallRecord, NEW v \in Version, NEW from \in Sources,
           feltOf[call.request.address] \in Felt,
           \/ feltOf[call.request.address] \in Configs[v].blockOverrideAddresses
           \/ feltOf[call.request.address] \notin Configs[v].additionalBlockedAddresses,
           NEW answer \in sendAllowed(call, Configs[v], from)
    PROVE  answer \in Answers /\ Due(answer, call.request.address)
PROOF
<1>1. feltOf[call.request.address] \notin Denied
  BY DEF Denied
<1>2. CASE answer = Failure(503)
  BY <1>2 DEF Failure, Answers, Due
<1>3. CASE answer = Signed(call, Configs[v], from)
  <2>1. answer \in Answers
    BY <1>3 DEF Signed, Answers, ServiceTyped
  <2>2. Due(answer, call.request.address)
    BY <1>1, <1>3 DEF Signed, Due
  <2> QED BY <2>1, <2>2
<1> QED BY <1>2, <1>3 DEF sendAllowed

\* What the verdict of the handler's checks says about the address.
LEMMA VerdictFacts ==
    ASSUME NEW call, NEW config, NEW cache, NEW allowed
    PROVE  LET felt == feltOf[call.request.address]
               verdict == Verdict(call, config, cache, allowed)
           IN  \/ verdict = "payload_too_large"
               \/ verdict = "unauthorized"
               \/ verdict = "too_many_requests" /\ ~allowed
               \/ verdict = "invalid_address" /\ allowed
               \/ /\ verdict = "allowlist" /\ allowed
                  /\ felt # Invalid /\ felt \in config.blockOverrideAddresses
               \/ verdict = "blocklist" /\ allowed
               \/ verdict = "cache" /\ allowed
               \/ /\ verdict = "forward" /\ allowed
                  /\ felt # Invalid /\ felt \notin config.additionalBlockedAddresses
                  /\ ~isBlocked(cache, call.request.address)
PROOF
<1> DEFINE p1 == call.request.size > config.maxBodyBytes
           p2 == ~authenticateRequest(call, config)
           p3 == ~allowed
           p4 == feltOf[call.request.address] = Invalid
           p5 == feltOf[call.request.address] \in config.blockOverrideAddresses
           p6 == feltOf[call.request.address] \in config.additionalBlockedAddresses
           p7 == isBlocked(cache, call.request.address)
           verdict == Verdict(call, config, cache, allowed)
<1>1. verdict = FirstOf(<< <<p1, "payload_too_large">>, <<p2, "unauthorized">>,
                           <<p3, "too_many_requests">>, <<p4, "invalid_address">>,
                           <<p5, "allowlist">>, <<p6, "blocklist">>, <<p7, "cache">> >>, "forward")
  BY DEF Verdict
<1> HIDE DEF p1, p2, p3, p4, p5, p6, p7
<1>2. \/ verdict = "payload_too_large"
      \/ verdict = "unauthorized"
      \/ p3 /\ verdict = "too_many_requests"
      \/ ~p3 /\ verdict = "invalid_address"
      \/ ~p3 /\ ~p4 /\ p5 /\ verdict = "allowlist"
      \/ ~p3 /\ ~p4 /\ ~p5 /\ p6 /\ verdict = "blocklist"
      \/ ~p3 /\ ~p4 /\ ~p5 /\ ~p6 /\ p7 /\ verdict = "cache"
      \/ ~p3 /\ ~p4 /\ ~p5 /\ ~p6 /\ ~p7 /\ verdict = "forward"
  BY <1>1, FirstOfFacts
<1> QED BY <1>2 DEF p3, p4, p5, p6, p7

\* The request after the handler's first part, with the answer that was given.
HandledBy(call, v, accepted, pc, answer) ==
    [call EXCEPT !.pc = pc, !.version = v, !.since = now, !.accepted = accepted,
                 !.answer = answer]

\* The fields of that record.
LEMMA HandledByFields ==
    ASSUME ServiceTyped, NEW call \in CallRecord, NEW v \in Version,
           NEW accepted \in Nat \cup {None}, NEW pc \in {"done", "forwarding"},
           NEW answer \in Answers
    PROVE  LET after == HandledBy(call, v, accepted, pc, answer)
           IN  /\ after \in CallRecord
               /\ after.pc = pc /\ after.version = v /\ after.answer = answer
               /\ after.request = call.request /\ after.began = call.began
               /\ after.read = call.read /\ after.since = now /\ after.accepted = accepted
               /\ after.scored = call.scored
PROOF
BY DEF HandledBy, CallRecord, ServiceTyped

\* What the limiter and the checks say of this request under this version.
Admits(c, v) == check(calls[c].request.partner, Configs[v].rateLimitPerMinute)

VerdictOn(c, v) == Verdict(calls[c], Configs[v], CacheFor(Configs[v]), Admits(c, v).ok)

Counted(c, v) == VerdictOn(c, v) \notin {"payload_too_large", "unauthorized"}

AcceptedAt(c, v) == IF Counted(c, v) /\ Admits(c, v).ok THEN now ELSE None

\* The request as the verdict leaves it.
Outcome(call, verdict) ==
    \/ /\ call.pc = "done" /\ verdict \in DOMAIN StatusOf
       /\ call.answer = Failure(StatusOf[verdict])
    \/ /\ call.pc = "done" /\ verdict = "allowlist"
       /\ call.answer.verdict = "allowed" => call.answer.source = "allowlist"
       /\ call.answer.verdict \in {"allowed", "error"} /\ call.answer.status \in {200, 503}
    \/ call.pc = "done" /\ verdict \in {"blocklist", "cache"} /\ call.answer = sendBlocked(verdict)
    \/ call.pc = "forwarding" /\ verdict = "forward" /\ call.answer = NoAnswer

\* The handler answers the request, or sends it on to Elliptic.
LEMMA HandleSteps ==
    ASSUME ServiceTyped, NEW c \in Call, NEW v \in Version, handle(c, calls[c], v)
    PROVE  \E call : /\ Stepped(call, calls[c]) /\ call.version = v
                     /\ call.since = now /\ call.accepted = AcceptedAt(c, v)
                     /\ call.scored = calls[c].scored
                     /\ Outcome(call, VerdictOn(c, v))
                     /\ calls' = [calls EXCEPT ![c] = call]
PROOF
<1> DEFINE old == calls[c]
           config == Configs[v]
           felt == feltOf[old.request.address]
           limit == Admits(c, v)
           verdict == VerdictOn(c, v)
           accepted == AcceptedAt(c, v)
           after(pc, answer) == HandledBy(old, v, accepted, pc, answer)
           Goal == \E call : /\ Stepped(call, calls[c]) /\ call.version = v
                             /\ call.since = now /\ call.accepted = AcceptedAt(c, v)
                             /\ call.scored = calls[c].scored
                             /\ Outcome(call, VerdictOn(c, v))
                             /\ calls' = [calls EXCEPT ![c] = call]
<1>1. old \in CallRecord /\ accepted \in Nat \cup {None}
  BY DEF ServiceTyped, AcceptedAt
<1>2. felt \in Felt \cup {Invalid} /\ Invalid \notin Felt
  BY <1>1, EllipticProxyAssumption DEF CallRecord
<1>3. calls' \in
         CASE verdict \in DOMAIN StatusOf ->
                 {[calls EXCEPT ![c] = after("done", Failure(StatusOf[verdict]))]}
           [] verdict = "allowlist" ->
                 {[calls EXCEPT ![c] = after("done", a)] : a \in sendAllowed(old, config, "allowlist")}
           [] verdict \in {"blocklist", "cache"} ->
                 {[calls EXCEPT ![c] = after("done", sendBlocked(verdict))]}
           [] verdict = "forward" ->
                 {[calls EXCEPT ![c] = [after("done", NoAnswer) EXCEPT !.pc = "forwarding"]]}
  BY DEF handle, HandledBy, AcceptedAt, Counted, VerdictOn, Admits
<1>4. \/ verdict \in {"payload_too_large", "unauthorized", "too_many_requests", "invalid_address"}
      \/ verdict = "allowlist" /\ felt # Invalid /\ felt \in config.blockOverrideAddresses
      \/ verdict = "blocklist"
      \/ verdict = "cache"
      \/ verdict = "forward" /\ felt # Invalid /\ felt \notin config.additionalBlockedAddresses
  BY VerdictFacts, Zenon DEF VerdictOn
<1>5. DOMAIN StatusOf = {"payload_too_large", "unauthorized", "too_many_requests", "invalid_address"}
  BY DEF StatusOf
<1>6. ASSUME NEW answer \in Answers, Due(answer, old.request.address),
             calls' = [calls EXCEPT ![c] = after("done", answer)],
             \A call : call.pc = "done" /\ call.answer = answer => Outcome(call, verdict)
      PROVE  Goal
  <2>1. /\ after("done", answer) \in CallRecord
        /\ after("done", answer).pc = "done" /\ after("done", answer).version = v
        /\ after("done", answer).answer = answer
        /\ after("done", answer).request = old.request /\ after("done", answer).began = old.began
        /\ after("done", answer).read = old.read
        /\ after("done", answer).since = now /\ after("done", answer).accepted = accepted
        /\ after("done", answer).scored = old.scored
    <3> HIDE DEF old, accepted
    <3>1. "done" \in {"done", "forwarding"} /\ answer \in Answers
      OBVIOUS
    <3> QED BY <1>1, <3>1, HandledByFields, SMTT(60)
  <2>2. Stepped(after("done", answer), old)
    <3> HIDE DEF old, after
    <3> QED BY <1>6, <2>1 DEF Stepped
  <2>3. Outcome(after("done", answer), verdict)
    <3> HIDE DEF verdict, after
    <3> QED BY <1>6, <2>1
  <2> HIDE DEF after
  <2> QED BY <1>6, <2>1, <2>2, <2>3
<1> SUFFICES Goal
  OBVIOUS
<1> HIDE DEF Goal
<1>7. CASE verdict \in DOMAIN StatusOf
  <2>1. calls' = [calls EXCEPT ![c] = after("done", Failure(StatusOf[verdict]))]
    <3> HIDE DEF verdict, after
    <3> QED BY <1>3, <1>5, <1>7
  <2>2. StatusOf[verdict] \in Nat
    <3> HIDE DEF verdict
    <3> QED BY <1>7, <1>5 DEF StatusOf
  <2>3. Failure(StatusOf[verdict]) \in Answers /\ Due(Failure(StatusOf[verdict]), old.request.address)
    <3> HIDE DEF verdict, old
    <3> QED BY <2>2 DEF Failure, Answers, Due
  <2>4. \A call : call.pc = "done" /\ call.answer = Failure(StatusOf[verdict]) => Outcome(call, verdict)
    <3> HIDE DEF verdict
    <3> QED BY <1>7, Zenon DEF Outcome
  <2> HIDE DEF after, verdict
  <2> QED BY <1>6, <2>1, <2>3, <2>4
<1>8. CASE verdict = "allowlist"
  <2>1. PICK a \in sendAllowed(old, config, "allowlist") :
            calls' = [calls EXCEPT ![c] = after("done", a)]
    <3> HIDE DEF verdict, after, old, config
    <3> QED BY <1>3, <1>5, <1>8
  <2>2. felt \in Felt /\ felt \in config.blockOverrideAddresses
    <3> HIDE DEF verdict, felt, config
    <3> QED BY <1>2, <1>4, <1>8
  <2>3. a \in Answers /\ Due(a, old.request.address)
    <3>1. "allowlist" \in Sources
      BY DEF Sources
    <3> HIDE DEF old
    <3> QED BY <1>1, <2>1, <2>2, <3>1, AllowedIsDue
  <2>4. /\ a.verdict = "allowed" => a.source = "allowlist"
        /\ a.verdict \in {"allowed", "error"} /\ a.status \in {200, 503}
    <3> HIDE DEF old, config
    <3> QED BY <2>1 DEF sendAllowed, Signed, Failure
  <2>5. \A call : call.pc = "done" /\ call.answer = a => Outcome(call, verdict)
    <3> HIDE DEF verdict
    <3> QED BY <1>8, <2>4, ZenonT(40) DEF Outcome
  <2> HIDE DEF after, old
  <2> QED BY <1>6, <2>1, <2>3, <2>5
<1>9. CASE verdict \in {"blocklist", "cache"}
  <2>1. calls' = [calls EXCEPT ![c] = after("done", sendBlocked(verdict))]
    <3> HIDE DEF verdict, after, old, config
    <3> QED BY <1>3, <1>5, <1>9
  <2>2. sendBlocked(verdict) \in Answers /\ Due(sendBlocked(verdict), old.request.address)
    <3> HIDE DEF verdict, old
    <3> QED BY <1>9 DEF sendBlocked, Answers, Due, Sources
  <2>3. \A call : call.pc = "done" /\ call.answer = sendBlocked(verdict) => Outcome(call, verdict)
    <3> HIDE DEF verdict
    <3> QED BY <1>9, Zenon DEF Outcome
  <2> HIDE DEF after, verdict
  <2> QED BY <1>6, <2>1, <2>2, <2>3
<1>10. CASE verdict = "forward"
  <2> DEFINE sent == after("forwarding", NoAnswer)
  <2>1. calls' = [calls EXCEPT ![c] = [after("done", NoAnswer) EXCEPT !.pc = "forwarding"]]
    <3> HIDE DEF verdict, after, old, config
    <3> QED BY <1>3, <1>5, <1>10
  <2>2. [after("done", NoAnswer) EXCEPT !.pc = "forwarding"] = sent
    <3> HIDE DEF old, accepted
    <3> QED BY <1>1 DEF HandledBy, CallRecord
  <2>3. felt \in Felt \ config.additionalBlockedAddresses
    <3> HIDE DEF verdict, felt, config
    <3> QED BY <1>2, <1>4, <1>10
  <2>4. NoAnswer \in Answers
    BY DEF NoAnswer, Answers
  <2>5. /\ sent \in CallRecord /\ sent.pc = "forwarding" /\ sent.version = v
        /\ sent.answer = NoAnswer /\ sent.request = old.request
        /\ sent.began = old.began /\ sent.read = old.read
        /\ sent.since = now /\ sent.accepted = accepted /\ sent.scored = old.scored
    <3> HIDE DEF old, accepted
    <3> QED BY <1>1, <2>4, HandledByFields
  <2>6. Handled(sent)
    <3> HIDE DEF sent
    <3> QED BY <2>3, <2>5, Zenon DEF Handled
  <2>7. calls' = [calls EXCEPT ![c] = sent]
    BY <2>1, <2>2
  <2>8. Stepped(sent, old)
    <3> HIDE DEF sent, old
    <3> QED BY <2>5, <2>6 DEF Stepped
  <2>9. Outcome(sent, verdict)
    <3> HIDE DEF sent, verdict
    <3> QED BY <1>10, <2>5, Zenon DEF Outcome
  <2> HIDE DEF sent
  <2> QED BY <2>5, <2>7, <2>8, <2>9 DEF Goal
<1> QED
  <2> HIDE DEF verdict, felt, config
  <2> QED BY <1>4, <1>5, <1>7, <1>8, <1>9, <1>10

\* A request goes on under version v, to its answer or to Elliptic; the others stay.
Moves(c, v) ==
    /\ calls' \in [Call -> CallRecord]
    /\ \A d \in Call : d # c => calls'[d] = calls[d]
    /\ Stepped(calls'[c], calls[c]) /\ calls'[c].version = v

\* What HandleSteps shows, field by field.
LEMMA HandleMoves ==
    ASSUME ServiceTyped, NEW c \in Call, NEW v \in Version, handle(c, calls[c], v)
    PROVE  /\ Moves(c, v)
           /\ calls'[c].since = now /\ calls'[c].accepted = AcceptedAt(c, v)
           /\ calls'[c].scored = calls[c].scored
           /\ Outcome(calls'[c], VerdictOn(c, v))
PROOF
<1>1. PICK call : /\ Stepped(call, calls[c]) /\ call.version = v
                  /\ call.since = now /\ call.accepted = AcceptedAt(c, v)
                  /\ call.scored = calls[c].scored
                  /\ Outcome(call, VerdictOn(c, v))
                  /\ calls' = [calls EXCEPT ![c] = call]
  BY HandleSteps
<1>2. call \in CallRecord /\ calls \in [Call -> CallRecord]
  BY <1>1 DEF Stepped, ServiceTyped
<1>3. calls' \in [Call -> CallRecord] /\ calls'[c] = call
  BY <1>1, <1>2
<1>4. \A d \in Call : d # c => calls'[d] = calls[d]
  BY <1>1, <1>2
<1> QED BY <1>1, <1>3, <1>4 DEF Moves

\* A request that ended with this answer.
EndedWith(call, old, answer) ==
    /\ call \in CallRecord /\ call.request = old.request /\ call.began = old.began
    /\ call.read = old.read /\ call.version = old.version
    /\ call.pc = "done" /\ call.answer = answer /\ call.accepted = old.accepted

\* A request that is given an answer that is due.
LEMMA GivenAnswer ==
    ASSUME ServiceTyped, NEW c \in Call, NEW answer, NEW call,
           EndedWith(call, calls[c], answer), Due(answer, calls[c].request.address),
           calls' = [calls EXCEPT ![c] = call]
    PROVE  Moves(c, calls[c].version) /\ calls'[c] = call
PROOF
<1>1. calls \in [Call -> CallRecord] /\ call \in CallRecord
  BY DEF ServiceTyped, EndedWith
<1>2. calls' \in [Call -> CallRecord] /\ calls'[c] = call
  BY <1>1
<1>3. \A d \in Call : d # c => calls'[d] = calls[d]
  BY <1>1
<1>4. Stepped(call, calls[c]) /\ call.version = calls[c].version
  BY DEF Stepped, EndedWith
<1> QED BY <1>2, <1>3, <1>4 DEF Moves

\* Elliptic cannot be reached, or the configuration could not be loaded.
LEMMA FailureMoves ==
    ASSUME ServiceTyped, NEW c \in Call, elliptic_unreachable(c) \/ config_load_failed(c)
    PROVE  /\ Moves(c, calls[c].version)
           /\ \E status \in {503, 504} : EndedWith(calls'[c], calls[c], Failure(status))
           /\ calls'[c].since = calls[c].since /\ calls'[c].scored = calls[c].scored
PROOF
<1> DEFINE old == calls[c]
<1>1. calls \in [Call -> CallRecord] /\ old \in CallRecord
  BY DEF ServiceTyped
<1>2. PICK answer \in {Failure(503), Failure(504)} :
          calls' = [calls EXCEPT ![c].pc = "done", ![c].answer = answer]
  BY DEF elliptic_unreachable, config_load_failed
<1> DEFINE call == [old EXCEPT !.pc = "done", !.answer = answer]
<1>3. answer \in Answers /\ Due(answer, old.request.address)
  BY <1>2 DEF Failure, Answers, Due
<1>4. calls' = [calls EXCEPT ![c] = call]
  BY <1>1, <1>2
<1>5. EndedWith(call, old, answer) /\ call.since = old.since /\ call.scored = old.scored
  <2> HIDE DEF old
  <2> QED BY <1>1, <1>3, ZenonT(40) DEF EndedWith, CallRecord
<1> HIDE DEF call
<1>6. Moves(c, old.version) /\ calls'[c] = call
  BY <1>3, <1>4, <1>5, GivenAnswer, ZenonT(40)
<1>7. \E status \in {503, 504} : answer = Failure(status)
  BY <1>2
<1> QED BY <1>5, <1>6, <1>7

\* What Elliptic's answer leads to: a block is remembered, and an allow is given for a body
\* that does not block.
Judged(c, call) ==
    /\ EndedWith(call, calls[c], call.answer) /\ call.since = now
    /\ call.answer.status \in {200, 502, 503}
    /\ blockedCache' \in {blockedCache, markBlocked(blockedCache, calls[c].request.address)}
    /\ call.answer.verdict = "blocked" =>
          blockedCache' = markBlocked(blockedCache, calls[c].request.address)
    /\ call.answer.verdict = "allowed" =>
          \/ call.scored = calls[c].scored
          \/ \E body \in Bodies : call.scored = {body} /\ ~scoreResponse(body).blocked

\* Elliptic answers.
LEMMA AnswerMoves ==
    ASSUME ServiceTyped, NEW c \in Call, Handled(calls[c]), elliptic_answered(c)
    PROVE  Moves(c, calls[c].version) /\ Judged(c, calls'[c])
PROOF
<1> DEFINE old == calls[c]
           config == Configs[old.version]
           allows == sendAllowed(old, config, source(config))
           done(answers) ==
               calls' \in {[calls EXCEPT ![c].pc = "done", ![c].since = now,
                                         ![c].answer = a] : a \in answers}
           scored(body, answers) ==
               calls' \in {[calls EXCEPT ![c].pc = "done", ![c].since = now,
                                         ![c].scored = {body}, ![c].answer = a] : a \in answers}
           answersTo(body) ==
               IF scoreResponse(body).reason = "malformed_json" THEN {Failure(502)}
               ELSE IF scoreResponse(body).blocked THEN {sendBlocked(source(config))}
               ELSE allows
           marked == markBlocked(blockedCache, old.request.address)
           Good(answers) == \A a \in answers :
               a \in Answers /\ Due(a, old.request.address) /\ a.status \in {200, 502, 503}
           Kept(answers) == blockedCache' = blockedCache /\ \A a \in answers : a.verdict # "blocked"
           Scores(body, answers) ==
               /\ blockedCache' \in {blockedCache, marked}
               /\ \A a \in answers : a.verdict = "blocked" => blockedCache' = marked
               /\ \A a \in answers : a.verdict = "allowed" => ~scoreResponse(body).blocked
<1>1. calls \in [Call -> CallRecord] /\ old \in CallRecord /\ now \in Nat
  BY DEF ServiceTyped
<1>2. PICK result \in Upstream(config) :
          \/ /\ result.status = 404
             /\ done(allows)
             /\ UNCHANGED blockedCache
          \/ /\ result.status = 500
             /\ done({Failure(502)})
             /\ UNCHANGED blockedCache
          \/ /\ result.status = 200
             /\ LET score == scoreResponse(result.body)
                IN  /\ scored(result.body, answersTo(result.body))
                    /\ blockedCache' = IF score.blocked /\ score.reason # "malformed_json"
                                       THEN marked ELSE blockedCache
  <2>1. elliptic_answered(c)
    OBVIOUS
  <2> QED BY ONLY <2>1, Zenon DEF elliptic_answered
<1>3. /\ old.version \in Version
      /\ feltOf[old.request.address] \in Felt \ config.additionalBlockedAddresses
  BY DEF elliptic_answered, Handled
<1>4. source(config) \in Sources
  BY DEF source, Sources
<1>5. Good(allows) /\ \A a \in allows : a.verdict \in {"allowed", "error"}
  <2>1. \A a \in allows : a.status \in {200, 502, 503} /\ a.verdict \in {"allowed", "error"}
    <3> HIDE DEF old, config
    <3> QED BY DEF sendAllowed, Signed, Failure
  <2>2. \A a \in allows : a \in Answers /\ Due(a, old.request.address)
    <3> HIDE DEF old
    <3> QED BY <1>1, <1>3, <1>4, AllowedIsDue
  <2> QED BY <2>1, <2>2
<1>6. Good({Failure(502)}) /\ \A a \in {Failure(502)} : a.verdict = "error"
  BY DEF Failure, Answers, Due
<1>7. Good({sendBlocked(source(config))})
  <2> HIDE DEF config, old
  <2> QED BY <1>4 DEF sendBlocked, Answers, Due
<1>8. Good(answersTo(result.body))
  <2> HIDE DEF allows, Good
  <2> QED BY <1>5, <1>6, <1>7
<1>12. result.status = 200 => Scores(result.body, answersTo(result.body))
  <2> SUFFICES ASSUME result.status = 200 PROVE Scores(result.body, answersTo(result.body))
    OBVIOUS
  <2> DEFINE score == scoreResponse(result.body)
  <2>1. blockedCache' = IF score.blocked /\ score.reason # "malformed_json" THEN marked ELSE blockedCache
    BY <1>2
  <2>2. CASE score.reason = "malformed_json"
    <3>1. \A a \in answersTo(result.body) : a.verdict = "error"
      BY <1>6, <2>2
    <3> HIDE DEF answersTo, marked, score
    <3> QED BY <2>1, <3>1 DEF score
  <2>3. CASE score.reason # "malformed_json" /\ score.blocked
    <3>1. \A a \in answersTo(result.body) : a.verdict = "blocked"
      BY <2>3 DEF sendBlocked
    <3> HIDE DEF answersTo, marked
    <3> QED BY <2>1, <2>3, <3>1
  <2>4. CASE score.reason # "malformed_json" /\ ~score.blocked
    <3>1. \A a \in answersTo(result.body) : a.verdict \in {"allowed", "error"}
      BY <1>5, <2>4
    <3> HIDE DEF answersTo, marked
    <3> QED BY <2>1, <2>4, <3>1
  <2> QED BY <2>2, <2>3, <2>4
<1>9. result.status = 200 => {result.body} \in SUBSET Bodies
  BY <1>2 DEF Upstream
<1>10. ASSUME NEW answers, done(answers), Good(answers), Kept(answers)
       PROVE  Moves(c, calls[c].version) /\ Judged(c, calls'[c])
  <2>1. PICK a \in answers :
            calls' = [calls EXCEPT ![c].pc = "done", ![c].since = now, ![c].answer = a]
    BY <1>10
  <2> DEFINE call == [old EXCEPT !.pc = "done", !.since = now, !.answer = a]
  <2>2. calls' = [calls EXCEPT ![c] = call]
    BY <1>1, <2>1
  <2>3. EndedWith(call, old, a) /\ call.since = now /\ call.scored = old.scored
    <3> HIDE DEF old
    <3>1. a \in Answers
      BY <1>10, <2>1
    <3> QED BY <1>1, <3>1, ZenonT(40) DEF EndedWith, CallRecord
  <2>4. Due(a, old.request.address)
    BY <1>10, <2>1
  <2>5. Judged(c, call)
    <3> HIDE DEF call
    <3>1. a.status \in {200, 502, 503} /\ blockedCache' = blockedCache /\ a.verdict # "blocked"
      BY <1>10, <2>1, ZenonT(40)
    <3>2. call.answer = a
      BY <2>3 DEF EndedWith
    <3> QED BY <2>3, <3>1, <3>2, ZenonT(40) DEF Judged
  <2> HIDE DEF call
  <2> QED BY <2>2, <2>3, <2>4, <2>5, GivenAnswer
<1>11. ASSUME NEW answers, NEW body, {body} \in SUBSET Bodies, scored(body, answers),
              Good(answers), Scores(body, answers)
       PROVE  Moves(c, calls[c].version) /\ Judged(c, calls'[c])
  <2>1. PICK a \in answers :
            calls' = [calls EXCEPT ![c].pc = "done", ![c].since = now, ![c].scored = {body},
                                   ![c].answer = a]
    BY <1>11
  <2> DEFINE call == [old EXCEPT !.pc = "done", !.since = now, !.scored = {body}, !.answer = a]
  <2>2. calls' = [calls EXCEPT ![c] = call]
    BY <1>1, <2>1
  <2>3. EndedWith(call, old, a) /\ call.since = now /\ call.scored = {body}
    <3> HIDE DEF old
    <3>1. a \in Answers /\ {body} \in SUBSET Bodies
      BY <1>11, <2>1
    <3>2. call \in CallRecord
      BY <1>1, <3>1 DEF CallRecord
    <3> QED BY <1>1, <3>2, ZenonT(40) DEF EndedWith, CallRecord
  <2>4. Due(a, old.request.address)
    BY <1>11, <2>1
  <2>5. Judged(c, call)
    <3> HIDE DEF call
    <3>1. body \in Bodies
      BY <1>11
    <3> HIDE DEF scored, marked, answersTo
    <3>2. /\ a.status \in {200, 502, 503} /\ blockedCache' \in {blockedCache, marked}
          /\ a.verdict = "blocked" => blockedCache' = marked
          /\ a.verdict = "allowed" => ~scoreResponse(body).blocked
      BY <1>11, <2>1, ZenonT(40)
    <3>3. call.answer = a
      BY <2>3 DEF EndedWith
    <3>4. marked = markBlocked(blockedCache, calls[c].request.address)
      BY DEF marked
    <3>5. EndedWith(call, calls[c], call.answer) /\ call.since = now
      BY <2>3, <3>3
    <3>6. \E b \in Bodies : call.scored = {b} /\ (a.verdict = "allowed" => ~scoreResponse(b).blocked)
      BY <2>3, <3>1, <3>2
    <3>7. call.answer.verdict = "allowed" =>
              \E b \in Bodies : call.scored = {b} /\ ~scoreResponse(b).blocked
      BY <3>3, <3>6
    <3>8. /\ call.answer.status \in {200, 502, 503}
          /\ call.answer.verdict = "blocked" => blockedCache' = marked
      BY <3>2, <3>3
    <3> QED BY ONLY <3>2, <3>4, <3>5, <3>7, <3>8, Zenon DEF Judged
  <2> HIDE DEF call
  <2> QED BY <2>2, <2>3, <2>4, <2>5, GivenAnswer
<1>13. result.status = 404 => Kept(allows)
  <2> HIDE DEF allows
  <2> QED BY <1>2, <1>5
<1>14. result.status = 500 => Kept({Failure(502)})
  BY <1>2, <1>6
<1> HIDE DEF done, scored, allows, answersTo, Good, Kept, Scores
<1> QED BY <1>2, <1>5, <1>6, <1>8, <1>9, <1>10, <1>11, <1>12, <1>13, <1>14

-----------------------------------------------------------------------------
(***************************************************************************)
(* The invariant is inductive.                                             *)
(***************************************************************************)

\* Version 1 exists, and a version is a positive number.
LEMMA VersionFacts == 1 \in Version /\ Version \subseteq Nat /\ None \notin Version /\ None \notin Nat
PROOF
BY EllipticProxyAssumption DEF Version, None

\* A call that has not begun.
LEMMA FreeCallFacts ==
    /\ FreeCall \in CallRecord /\ FreeCall.pc = "free" /\ FreeCall.answer = NoAnswer
    /\ FreeCall.began = 0 /\ FreeCall.read = None /\ FreeCall.version = None
    /\ FreeCall.accepted = None /\ FreeCall.since = 0 /\ FreeCall.scored = {}
PROOF
<1>1. (CHOOSE r \in Requests : TRUE) \in Requests
  BY EllipticProxyAssumption
<1>2. NoAnswer \in Answers
  BY DEF NoAnswer, Answers
<1> QED BY <1>1, <1>2 DEF FreeCall, CallRecord

\* The service starts in the invariant.
LEMMA ServiceInit == Init => ServiceInv
PROOF
<1> SUFFICES ASSUME Init PROVE ServiceInv
  OBVIOUS
<1>1. ServiceTyped
  BY VersionFacts, FreeCallFacts DEF Init, ServiceTyped
<1>2. ASSUME NEW c \in Call PROVE calls[c] = FreeCall
  BY DEF Init
<1>3. ASSUME NEW c \in Call PROVE Handled(calls[c]) /\ ReadInTime(calls[c])
  <2>1. Handled(FreeCall)
    BY FreeCallFacts, Zenon DEF Handled
  <2>2. ReadInTime(FreeCall)
    BY FreeCallFacts DEF ReadInTime, Init
  <2> QED BY <1>2, <2>1, <2>2
<1>4. Replaced
  BY VersionFacts DEF Replaced, Init, Version
<1>5. loader.cachedAt <= now /\ CopyInTime
  BY DEF Init, CopyInTime
<1>6. RevocationTakesEffect
  BY <1>2, FreeCallFacts DEF RevocationTakesEffect
<1> QED BY <1>1, <1>3, <1>4, <1>5, <1>6 DEF ServiceInv

\* A replaced version is out of use for a request that began after its copy's lifetime.
Revoked(call) ==
    (call.version # None /\ replacedAt[call.version] # None) =>
        \/ call.began <= replacedAt[call.version]
        \/ call.began < replacedAt[call.version] + SECRET_TIMEOUT
                            + Configs[call.version].configCacheTtl

\* A move of a request keeps what the invariant says about the requests.
LEMMA MovesKeep ==
    ASSUME ServiceInv, NEW c \in Call, NEW v, Moves(c, v),
           UNCHANGED <<now, secret, replacedAt>>, loader' \in [version : Version \cup {None}, cachedAt : Nat],
           v # None /\ replacedAt[v] # None =>
              \/ calls[c].began <= replacedAt[v]
              \/ calls[c].began < replacedAt[v] + SECRET_TIMEOUT + Configs[v].configCacheTtl
    PROVE  /\ ServiceTyped'
           /\ \A d \in Call : Handled(calls[d])' /\ ReadInTime(calls[d])'
           /\ Replaced'
           /\ RevocationTakesEffect'
PROOF
<1>1. ServiceTyped'
  BY DEF ServiceInv, ServiceTyped, Moves
<1>2. ASSUME NEW d \in Call PROVE Handled(calls[d])' /\ ReadInTime(calls[d])'
  <2>1. CASE d # c
    <3>1. calls'[d] = calls[d] /\ Handled(calls[d]) /\ ReadInTime(calls[d])
      BY <2>1 DEF Moves, ServiceInv
    <3> QED BY <3>1 DEF Handled, ReadInTime
  <2>2. CASE d = c
    <3>1. Stepped(calls'[c], calls[c]) /\ ReadInTime(calls[c])
      BY DEF Moves, ServiceInv
    <3>2. calls'[c].pc \in {"done", "forwarding"}
      BY <3>1 DEF Stepped
    <3>3. Handled(calls[c])'
      BY <3>1 DEF Stepped, Handled
    <3>4. ReadInTime(calls[c])'
      BY <3>1, <3>2 DEF Stepped, ReadInTime
    <3> QED BY <2>2, <3>3, <3>4
  <2> QED BY <2>1, <2>2
<1>3. Replaced'
  BY DEF ServiceInv, Replaced
<1>4. ASSUME NEW d \in Call PROVE Revoked(calls[d])'
  <2>1. CASE d # c
    <3>1. calls'[d] = calls[d] /\ Revoked(calls[d])
      BY <2>1 DEF Moves, ServiceInv, RevocationTakesEffect, Revoked
    <3> QED BY <3>1 DEF Revoked
  <2>2. CASE d = c
    <3>1. calls'[c].version = v /\ calls'[c].began = calls[c].began
      BY DEF Moves, Stepped
    <3> QED BY <2>2, <3>1 DEF Revoked
  <2> QED BY <2>1, <2>2
<1> QED BY <1>1, <1>2, <1>3, <1>4 DEF RevocationTakesEffect, Revoked

\* A step that only moves a request on keeps the invariant.
LEMMA MovesInv ==
    ASSUME ServiceInv, NEW c \in Call, Moves(c, calls[c].version),
           UNCHANGED <<now, secret, replacedAt, loader>>
    PROVE  ServiceInv'
PROOF
<1>1. Revoked(calls[c])
  BY DEF ServiceInv, RevocationTakesEffect, Revoked
<1>2. loader' \in [version : Version \cup {None}, cachedAt : Nat]
  BY DEF ServiceInv, ServiceTyped
<1>3. /\ ServiceTyped' /\ Replaced' /\ RevocationTakesEffect'
      /\ \A d \in Call : Handled(calls[d])' /\ ReadInTime(calls[d])'
  <2> DEFINE v == calls[c].version
  <2>1. v # None /\ replacedAt[v] # None =>
            \/ calls[c].began <= replacedAt[v]
            \/ calls[c].began < replacedAt[v] + SECRET_TIMEOUT + Configs[v].configCacheTtl
    BY <1>1 DEF Revoked
  <2>2. Moves(c, v)
    OBVIOUS
  <2> HIDE DEF v
  <2> QED BY <1>2, <2>1, <2>2, MovesKeep
<1>4. (loader.cachedAt <= now)' /\ CopyInTime'
  BY DEF ServiceInv, CopyInTime
<1> QED BY <1>3, <1>4 DEF ServiceInv

\* A request that arrives.
LEMMA ReceiveInv ==
    ASSUME ServiceInv, NEW c \in Call, NEW r \in Requests, receive(c, r)
    PROVE  ServiceInv'
PROOF
<1> DEFINE call == calls'[c]
<1>1. /\ now \in Nat /\ calls \in [Call -> CallRecord]
      /\ loader \in [version : Version \cup {None}, cachedAt : Nat]
      /\ replacedAt \in [Version -> Nat \cup {None}]
  BY DEF ServiceInv, ServiceTyped
<1>2. /\ calls' = [calls EXCEPT ![c] =
                      [FreeCall EXCEPT !.pc = IF Fresh THEN "resuming" ELSE "fetching",
                                       !.request = r, !.began = now,
                                       !.version = IF Fresh THEN loader.version ELSE None]]
      /\ UNCHANGED <<now, secret, replacedAt, loader>>
  BY DEF receive
<1>3. /\ call \in CallRecord /\ call.answer = NoAnswer /\ call.began = now /\ call.read = None
      /\ call.pc = IF Fresh THEN "resuming" ELSE "fetching"
      /\ call.version = IF Fresh THEN loader.version ELSE None
  <2>1. call = [FreeCall EXCEPT !.pc = IF Fresh THEN "resuming" ELSE "fetching",
                                !.request = r, !.began = now,
                                !.version = IF Fresh THEN loader.version ELSE None]
    BY <1>1, <1>2
  <2> HIDE DEF call
  <2> QED BY <1>1, <2>1, FreeCallFacts DEF CallRecord
<1>4. calls' \in [Call -> CallRecord] /\ \A d \in Call : d # c => calls'[d] = calls[d]
  <2> HIDE DEF call
  <2>1. calls' = [calls EXCEPT ![c] = call]
    BY <1>1, <1>2 DEF call
  <2> QED BY <1>1, <1>3, <2>1
<1> HIDE DEF call
<1>5. Fresh => /\ loader.version \in Version
               /\ now - loader.cachedAt < Configs[loader.version].configCacheTtl
               /\ Configs[loader.version].configCacheTtl \in Nat
  BY <1>1, VersionFacts, EllipticProxyAssumption DEF Fresh
<1>6. ServiceTyped'
  BY <1>2, <1>4 DEF ServiceInv, ServiceTyped
<1>7. ASSUME NEW d \in Call
      PROVE  Handled(calls[d])' /\ ReadInTime(calls[d])' /\ Revoked(calls[d])'
  <2>1. CASE d # c
    <3>1. /\ calls'[d] = calls[d] /\ Handled(calls[d]) /\ ReadInTime(calls[d])
          /\ Revoked(calls[d])
      BY <1>4, <2>1 DEF ServiceInv, RevocationTakesEffect, Revoked
    <3> QED BY <1>2, <3>1 DEF Handled, ReadInTime, Revoked
  <2>2. CASE d = c
    <3>1. Handled(call)
      BY <1>3, <1>5 DEF Handled
    <3>2. call.began <= now /\ now <= call.began + SECRET_TIMEOUT
      BY <1>1, <1>3, EllipticProxyAssumption
    <3>3. ReadInTime(call)
      BY <1>3, <3>2 DEF ReadInTime
    <3>4. Revoked(call)
      <4> SUFFICES ASSUME call.version # None, replacedAt[call.version] # None
                   PROVE  call.began < replacedAt[call.version] + SECRET_TIMEOUT
                                           + Configs[call.version].configCacheTtl
        BY DEF Revoked
      <4>1. Fresh /\ call.version = loader.version
        BY <1>3
      <4>2. loader.cachedAt <= replacedAt[loader.version] + SECRET_TIMEOUT
        BY <1>5, <4>1, VersionFacts DEF ServiceInv, CopyInTime
      <4>3. replacedAt[loader.version] \in Nat /\ SECRET_TIMEOUT \in Nat /\ loader.cachedAt \in Nat
        BY <1>1, <1>5, <4>1, EllipticProxyAssumption
      <4> QED BY <1>1, <1>3, <1>5, <4>1, <4>2, <4>3
    <3> QED BY <1>2, <2>2, <3>1, <3>3, <3>4 DEF Handled, ReadInTime, Revoked, call
  <2> QED BY <2>1, <2>2
<1>8. Replaced' /\ (loader.cachedAt <= now)' /\ CopyInTime'
  BY <1>2 DEF ServiceInv, Replaced, CopyInTime
<1> QED BY <1>6, <1>7, <1>8 DEF ServiceInv, RevocationTakesEffect, Revoked

\* The Secret Manager reads the version that is stored.
LEMMA AccessInv ==
    ASSUME ServiceInv, NEW c \in Call, access_secret(c)
    PROVE  ServiceInv'
PROOF
<1> DEFINE call == calls'[c]
           old == calls[c]
<1>1. /\ secret \in Version /\ calls \in [Call -> CallRecord] /\ old \in CallRecord
  BY DEF ServiceInv, ServiceTyped
<1>2. calls' = [calls EXCEPT ![c].read = secret] /\ UNCHANGED <<now, secret, replacedAt, loader>>
  BY DEF access_secret
<1>3. call = [old EXCEPT !.read = secret]
  BY <1>1, <1>2
<1>4. /\ call \in CallRecord /\ call.pc = old.pc /\ call.answer = old.answer
      /\ call.began = old.began /\ call.version = old.version /\ call.request = old.request
      /\ call.read = secret
  <2> HIDE DEF call, old
  <2> QED BY <1>1, <1>3 DEF CallRecord
<1>5. calls' \in [Call -> CallRecord] /\ \A d \in Call : d # c => calls'[d] = calls[d]
  <2> HIDE DEF call, old
  <2>1. calls' = [calls EXCEPT ![c] = call]
    BY <1>1, <1>2 DEF call
  <2> QED BY <1>1, <1>4, <2>1
<1> HIDE DEF call, old
<1>6. ServiceTyped'
  BY <1>2, <1>5 DEF ServiceInv, ServiceTyped
<1>7. ASSUME NEW d \in Call
      PROVE  Handled(calls[d])' /\ ReadInTime(calls[d])' /\ Revoked(calls[d])'
  <2>0. Handled(calls[d]) /\ ReadInTime(calls[d]) /\ Revoked(calls[d])
    BY DEF ServiceInv, RevocationTakesEffect, Revoked
  <2>1. CASE d # c
    BY <1>2, <1>5, <2>0, <2>1 DEF Handled, ReadInTime, Revoked
  <2>2. CASE d = c
    <3>1. replacedAt[secret] = None
      BY <1>1, VersionFacts DEF ServiceInv, Replaced
    <3>2. Handled(old) /\ ReadInTime(old) /\ Revoked(old)
      BY <2>0, <2>2 DEF old
    <3>3. Handled(call)
      BY <1>4, <3>2 DEF Handled
    <3>4. ReadInTime(call)
      BY <1>4, <3>1, <3>2 DEF ReadInTime
    <3>5. Revoked(call)
      BY <1>4, <3>2 DEF Revoked
    <3> QED BY <1>2, <2>2, <3>3, <3>4, <3>5 DEF Handled, ReadInTime, Revoked, call
  <2> QED BY <2>1, <2>2
<1>8. Replaced' /\ (loader.cachedAt <= now)' /\ CopyInTime'
  BY <1>2 DEF ServiceInv, Replaced, CopyInTime
<1> QED BY <1>6, <1>7, <1>8 DEF ServiceInv, RevocationTakesEffect, Revoked

\* A configuration arrives: the copy is as old as the read of this request.
LEMMA LoadedInv ==
    ASSUME ServiceInv, NEW c \in Call, config_loaded(c)
    PROVE  ServiceInv'
PROOF
<1> DEFINE v == calls[c].read
<1>1. /\ v \in Version /\ now \in Nat /\ calls[c].began \in Nat
      /\ replacedAt \in [Version -> Nat \cup {None}]
  BY DEF ServiceInv, ServiceTyped, CallRecord, config_loaded
<1>2. /\ loader' = [version |-> v, cachedAt |-> now] /\ UNCHANGED <<now, secret, replacedAt>>
      /\ handle(c, calls[c], v)
  BY DEF config_loaded
<1>3. ReadInTime(calls[c]) /\ calls[c].pc = "fetching"
  BY DEF ServiceInv, config_loaded
<1>4. replacedAt[v] # None => calls[c].began <= replacedAt[v]
  BY <1>1, <1>3, VersionFacts DEF ReadInTime
<1>5. Moves(c, v)
  <2> HIDE DEF v
  <2> QED BY <1>1, <1>2, HandleMoves DEF ServiceInv
<1>6. loader' \in [version : Version \cup {None}, cachedAt : Nat]
  BY <1>1, <1>2
<1>7. /\ ServiceTyped' /\ Replaced' /\ RevocationTakesEffect'
      /\ \A d \in Call : Handled(calls[d])' /\ ReadInTime(calls[d])'
  <2> HIDE DEF v
  <2> QED BY <1>2, <1>4, <1>5, <1>6, MovesKeep
<1>8. (loader.cachedAt <= now)'
  BY <1>1, <1>2
<1>9. CopyInTime'
  <2> SUFFICES ASSUME replacedAt[v] # None PROVE now <= replacedAt[v] + SECRET_TIMEOUT
    BY <1>2 DEF CopyInTime
  <2>1. now <= calls[c].began + SECRET_TIMEOUT
    BY <1>3 DEF ReadInTime
  <2>2. replacedAt[v] \in Nat /\ SECRET_TIMEOUT \in Nat
    BY <1>1, EllipticProxyAssumption
  <2> QED BY <1>1, <1>4, <2>1, <2>2
<1> QED BY <1>7, <1>8, <1>9 DEF ServiceInv

\* The version that is replaced was read, copied and used before this moment.
LEMMA RotateInv ==
    ASSUME ServiceInv, rotate
    PROVE  ServiceInv'
PROOF
<1>1. /\ now \in Nat /\ secret \in Version /\ replacedAt \in [Version -> Nat \cup {None}]
      /\ loader \in [version : Version \cup {None}, cachedAt : Nat] /\ calls \in [Call -> CallRecord]
  BY DEF ServiceInv, ServiceTyped
<1>2. /\ secret < Len(Configs) /\ secret' = secret + 1
      /\ replacedAt' = [replacedAt EXCEPT ![secret] = now]
      /\ UNCHANGED <<now, loader, calls>>
  BY DEF rotate
<1>3. secret' \in Version
  BY <1>1, <1>2, EllipticProxyAssumption DEF Version
<1>4. ServiceTyped'
  BY <1>1, <1>2, <1>3 DEF ServiceTyped
<1>5. \A v \in Version : replacedAt'[v] = IF v = secret THEN now ELSE replacedAt[v]
  BY <1>1, <1>2
<1>6. Replaced'
  <2>1. \A v \in Version : v < secret + 1 <=> (v < secret \/ v = secret)
    BY <1>1, VersionFacts
  <2> QED BY <1>1, <1>2, <1>5, <2>1, VersionFacts DEF ServiceInv, Replaced
<1>7. ASSUME NEW c \in Call
      PROVE  Handled(calls[c])' /\ ReadInTime(calls[c])' /\ Revoked(calls[c])'
  <2> DEFINE call == calls[c]
  <2>1. call \in CallRecord /\ Handled(call) /\ ReadInTime(call) /\ Revoked(call)
    BY <1>1 DEF ServiceInv, RevocationTakesEffect, Revoked
  <2>2. call.read \in Version \cup {None} /\ call.version \in Version \cup {None}
    BY <2>1 DEF CallRecord
  <2> HIDE DEF call
  <2>3. Handled(call)'
    BY <1>2, <2>1 DEF Handled, call
  <2>4. ReadInTime(call)'
    BY <1>2, <1>5, <2>1, <2>2 DEF ReadInTime, call
  <2>5. Revoked(call)'
    <3>1. call.began <= now
      BY <2>1 DEF ReadInTime
    <3> QED BY <1>2, <1>5, <2>1, <2>2, <3>1 DEF Revoked, call
  <2> QED BY <2>3, <2>4, <2>5 DEF call
<1>8. (loader.cachedAt <= now)'
  BY <1>2 DEF ServiceInv
<1>9. CopyInTime'
  <2>1. loader.version \in Version \cup {None} /\ loader.cachedAt \in Nat /\ SECRET_TIMEOUT \in Nat
    BY <1>1, EllipticProxyAssumption
  <2>2. loader.cachedAt <= now + SECRET_TIMEOUT
    BY <1>1, <2>1 DEF ServiceInv
  <2> QED BY <1>2, <1>5, <2>1, <2>2 DEF ServiceInv, CopyInTime
<1> QED BY <1>4, <1>6, <1>7, <1>8, <1>9 DEF ServiceInv, RevocationTakesEffect, Revoked

\* A fetch does not outlive its timeout.
LEMMA TickInv ==
    ASSUME ServiceInv, tick
    PROVE  ServiceInv'
PROOF
<1>1. now \in Nat /\ calls \in [Call -> CallRecord] /\ loader.cachedAt \in Nat
  BY DEF ServiceInv, ServiceTyped
<1>2. now' = now + 1 /\ UNCHANGED <<secret, replacedAt, loader, calls>>
  BY DEF tick
<1>3. ServiceTyped' /\ Replaced' /\ CopyInTime'
  BY <1>2 DEF ServiceInv, ServiceTyped, Replaced, CopyInTime
<1>4. ASSUME NEW c \in Call
      PROVE  Handled(calls[c])' /\ ReadInTime(calls[c])'
  <2>1. Handled(calls[c]) /\ ReadInTime(calls[c]) /\ calls[c].began \in Nat
    BY <1>1 DEF ServiceInv, CallRecord
  <2>2. calls[c].pc = "fetching" => now - calls[c].began < SECRET_TIMEOUT
    BY DEF tick
  <2>3. Handled(calls[c])'
    BY <1>2, <2>1 DEF Handled
  <2>4. calls[c].began <= now + 1
    BY <1>1, <2>1 DEF ReadInTime
  <2>5. calls[c].pc = "fetching" => now + 1 <= calls[c].began + SECRET_TIMEOUT
    BY <1>1, <2>1, <2>2, EllipticProxyAssumption
  <2>6. ReadInTime(calls[c])'
    BY <1>2, <2>1, <2>4, <2>5 DEF ReadInTime
  <2> QED BY <2>3, <2>6
<1>5. (loader.cachedAt <= now)'
  BY <1>1, <1>2 DEF ServiceInv
<1>6. RevocationTakesEffect'
  BY <1>2 DEF ServiceInv, RevocationTakesEffect
<1> QED BY <1>3, <1>4, <1>5, <1>6 DEF ServiceInv

\* Every step keeps the invariant.
LEMMA ServiceKept == ServiceInv /\ [Next]_vars => ServiceInv'
PROOF
<1> SUFFICES ASSUME ServiceInv, [Next]_vars PROVE ServiceInv'
  OBVIOUS
<1>1. CASE \E c \in Call, r \in Requests : receive(c, r)
  BY <1>1, ReceiveInv
<1>2. ASSUME NEW c \in Call, resume(c) PROVE ServiceInv'
  <2>1. calls[c].version \in Version /\ handle(c, calls[c], calls[c].version)
    BY <1>2 DEF resume, ServiceInv, Handled
  <2>2. Moves(c, calls[c].version)
    <3> DEFINE v == calls[c].version
    <3> HIDE DEF v
    <3>1. v \in Version /\ handle(c, calls[c], v)
      BY <2>1 DEF v
    <3> QED BY <3>1, HandleMoves DEF ServiceInv, v
  <2> QED BY <1>2, <2>2, MovesInv DEF resume
<1>3. ASSUME NEW c \in Call, access_secret(c) PROVE ServiceInv'
  BY <1>3, AccessInv
<1>4. ASSUME NEW c \in Call, config_loaded(c) PROVE ServiceInv'
  BY <1>4, LoadedInv
<1>5. ASSUME NEW c \in Call, config_load_failed(c) \/ elliptic_unreachable(c) PROVE ServiceInv'
  <2>1. Moves(c, calls[c].version)
    BY <1>5, FailureMoves DEF ServiceInv
  <2> QED BY <1>5, <2>1, MovesInv DEF config_load_failed, elliptic_unreachable
<1>6. ASSUME NEW c \in Call, elliptic_answered(c) PROVE ServiceInv'
  <2>1. Moves(c, calls[c].version)
    BY <1>6, AnswerMoves DEF ServiceInv
  <2>2. UNCHANGED <<now, secret, replacedAt, loader>>
    BY <1>6 DEF elliptic_answered
  <2> QED BY <2>1, <2>2, MovesInv
<1>7. CASE rotate
  BY <1>7, RotateInv
<1>8. CASE tick
  BY <1>8, TickInv
<1>9. CASE UNCHANGED vars
  <2>1. UNCHANGED <<now, secret, replacedAt, loader, calls>>
    BY <1>9 DEF vars
  <2> QED BY <2>1 DEF ServiceInv, ServiceTyped, Handled, ReadInTime, Replaced, CopyInTime,
                      RevocationTakesEffect
<1> QED BY <1>1, <1>2, <1>3, <1>4, <1>5, <1>6, <1>7, <1>8, <1>9 DEF Next

\* The invariant holds in every state of the service, whatever requests arrive and in
\* whichever order their configurations and Elliptic's answers do.
THEOREM ServiceHolds == Spec => []ServiceInv
PROOF
BY ServiceInit, ServiceKept, PTL DEF Spec

\* However the loads of the configuration overlap, also when a slow read puts an old
\* version back over a newer one, a request that begins a read's timeout and a copy's
\* lifetime after a version was replaced is not answered under it (ConfigLoader.get).
THEOREM RevocationsTakeEffect == Spec => []RevocationTakesEffect
PROOF
<1>1. ServiceInv => RevocationTakesEffect
  BY DEF ServiceInv
<1> QED BY <1>1, ServiceHolds, PTL

-----------------------------------------------------------------------------
(***************************************************************************)
(* The service implements Screener.                                        *)
(***************************************************************************)

\* Calls that have not begun are free.
LEMMA PromiseInit == Init => Promise!ScreenerInit
PROOF
<1> SUFFICES ASSUME Init PROVE Promise!ScreenerInit
  OBVIOUS
<1>1. AnswerSeen(FreeCall.answer) = [verdict |-> "none"]
  BY FreeCallFacts DEF AnswerSeen, NoAnswer
<1>2. Screen(FreeCall) = Promise!NoScreen
  BY <1>1, FreeCallFacts DEF Screen, Promise!NoScreen, Promise!NoAnswer
<1>3. screens = [c \in Call |-> Promise!NoScreen]
  BY <1>2 DEF Init, screens
<1> QED BY <1>3 DEF Init, Promise!ScreenerInit

\* A request that is under way, as the interceptor sees it.
LEMMA OpenSeen ==
    ASSUME NEW call, call.pc \in {"resuming", "fetching", "forwarding"}, Handled(call)
    PROVE  Screen(call) = [state |-> "open", address |-> call.request.address,
                           answer |-> Promise!NoAnswer]
PROOF
<1>1. AnswerSeen(call.answer) = Promise!NoAnswer
  BY DEF Handled, AnswerSeen, NoAnswer, Promise!NoAnswer
<1> QED BY <1>1 DEF Screen

\* An answer that is due is one that Screener allows.
LEMMA DueIsPromised ==
    ASSUME NEW answer, NEW address, Due(answer, address)
    PROVE  AnswerSeen(answer) \in
               {Promise!Error, Promise!Blocked} \cup
               (IF feltOf[address] \in Felt \ Denied THEN {Promise!Allowed(feltOf[address], now)} ELSE {})
PROOF
<1>1. CASE answer.verdict = "error"
  BY <1>1 DEF AnswerSeen, Promise!Error
<1>2. CASE answer.verdict = "blocked"
  BY <1>2 DEF AnswerSeen, Promise!Blocked
<1>3. CASE answer.verdict = "allowed"
  BY <1>3 DEF Due, AnswerSeen, Promise!Allowed
<1> QED BY <1>1, <1>2, <1>3 DEF Due

\* A step of a request under way answers it or is not seen at all.
LEMMA MovesPromised ==
    ASSUME ServiceInv, NEW c \in Call, NEW v, Moves(c, v), now' = now,
           calls[c].pc \in {"resuming", "fetching", "forwarding"}
    PROVE  [Promise!Next]_(Promise!screenerVars)
PROOF
<1> DEFINE address == calls[c].request.address
           answer == AnswerSeen(calls'[c].answer)
<1>1. Screen(calls[c]) = [state |-> "open", address |-> address, answer |-> Promise!NoAnswer]
  BY OpenSeen DEF ServiceInv
<1>2. \A d \in Call : d # c => Screen(calls'[d]) = Screen(calls[d])
  BY DEF Moves
<1>3. Stepped(calls'[c], calls[c]) /\ calls'[c].request.address = address
  BY DEF Moves, Stepped
<1>4. screens' = [d \in Call |-> Screen(calls'[d])] /\ screens[c] = Screen(calls[c])
  BY DEF screens
<1>5. CASE calls'[c].pc = "forwarding"
  <2>1. Handled(calls'[c])
    BY <1>3, <1>5 DEF Stepped
  <2>2. Screen(calls'[c]) = Screen(calls[c])
    BY <1>1, <1>3, <1>5, <2>1, OpenSeen
  <2>3. screens' = screens
    BY <1>2, <1>4, <2>2 DEF screens
  <2> QED BY <2>3 DEF Promise!screenerVars
<1>6. CASE calls'[c].pc = "done"
  <2>1. Screen(calls'[c]) = [state |-> "answered", address |-> address, answer |-> answer]
    BY <1>3, <1>6 DEF Screen
  <2>2. screens' = [screens EXCEPT ![c].state = "answered", ![c].answer = answer]
    <3> HIDE DEF answer, address
    <3>1. [screens[c] EXCEPT !.state = "answered", !.answer = answer] = Screen(calls'[c])
      <4> DEFINE seen == screens[c]
      <4>1. seen = [state |-> "open", address |-> address, answer |-> Promise!NoAnswer]
        BY <1>1, <1>4
      <4> DEFINE Type == [state : {"answered"}, address : {address}, answer : {answer}]
                 after == [seen EXCEPT !.state = "answered", !.answer = answer]
                 record == [state |-> "answered", address |-> address, answer |-> answer]
      <4> HIDE DEF seen
      <4>2. seen \in [state : {"open"}, address : {address}, answer : {Promise!NoAnswer}]
        BY <4>1
      <4>3. after \in Type
        BY <4>2
      <4>4. record \in Type
        OBVIOUS
      <4>5. \A x, y \in Type : x = y
        OBVIOUS
      <4>6. after = record
        <5> HIDE DEF Type, after, record
        <5> QED BY <4>3, <4>4, <4>5
      <4> QED BY <2>1, <4>6 DEF seen
    <3>2. [screens EXCEPT ![c] = Screen(calls'[c])] = [d \in Call |-> Screen(calls'[d])]
      BY <1>2 DEF screens
    <3> QED BY <1>4, <3>1, <3>2
  <2>3. answer \in Promise!MayAnswer(c)
    <3>1. Due(calls'[c].answer, address)
      BY <1>3, <1>6 DEF Stepped
    <3>2. screens[c].address = address
      BY <1>1, <1>4
    <3> QED BY <3>1, <3>2, DueIsPromised DEF Promise!MayAnswer
  <2>4. Promise!AnswerScreen(c)
    <3> HIDE DEF answer
    <3>1. screens[c].state = "open"
      BY <1>1, <1>4
    <3>2. \E a \in Promise!MayAnswer(c) :
              screens' = [screens EXCEPT ![c].state = "answered", ![c].answer = a]
      <4> WITNESS answer \in Promise!MayAnswer(c)
      <4> QED BY <2>2
    <3> QED BY <3>1, <3>2, Zenon DEF Promise!AnswerScreen
  <2> QED BY <2>4 DEF Promise!Next
<1> QED BY <1>3, <1>5, <1>6 DEF Stepped

\* Every step of the service is a step of Screener or is not seen.
LEMMA PromiseStep == ServiceInv /\ [Next]_vars => [Promise!Next]_(Promise!screenerVars)
PROOF
<1> SUFFICES ASSUME ServiceInv, [Next]_vars PROVE [Promise!Next]_(Promise!screenerVars)
  OBVIOUS
<1> USE DEF Promise!screenerVars
<1>1. ASSUME NEW c \in Call, NEW r \in Requests, receive(c, r)
      PROVE  [Promise!Next]_(Promise!screenerVars)
  <2> DEFINE call == calls'[c]
             old == calls[c]
  <2>1. /\ calls \in [Call -> CallRecord] /\ old \in CallRecord /\ old.pc = "free"
        /\ r.address \in Address /\ now' = now
    BY <1>1, EllipticProxyAssumption DEF receive, ServiceInv, ServiceTyped
  <2>2. calls' = [calls EXCEPT ![c] =
                     [FreeCall EXCEPT !.pc = IF Fresh THEN "resuming" ELSE "fetching",
                                      !.request = r, !.began = now,
                                      !.version = IF Fresh THEN loader.version ELSE None]]
    BY <1>1 DEF receive
  <2>3. call = [FreeCall EXCEPT !.pc = IF Fresh THEN "resuming" ELSE "fetching",
                                !.request = r, !.began = now,
                                !.version = IF Fresh THEN loader.version ELSE None]
    BY <2>1, <2>2
  <2>4. call.pc \in {"resuming", "fetching"} /\ call.request = r /\ call.answer = NoAnswer
    <3> HIDE DEF call
    <3> QED BY <2>3, FreeCallFacts DEF CallRecord
  <2>5. Screen(call) = [state |-> "open", address |-> r.address, answer |-> Promise!NoAnswer]
    <3> HIDE DEF call
    <3> QED BY <2>4 DEF Screen, AnswerSeen, NoAnswer, Promise!NoAnswer
  <2>6. screens[c].state = "free"
    BY <2>1 DEF screens, Screen
  <2>7. screens' = [screens EXCEPT ![c] = Screen(call)]
    <3>1. \A d \in Call : d # c => calls'[d] = calls[d]
      BY <2>1, <2>2
    <3>2. screens' = [d \in Call |-> Screen(calls'[d])]
      BY DEF screens
    <3> QED BY <3>1, <3>2 DEF screens
  <2>8. Promise!OpenScreen(c, r.address)
    BY <2>5, <2>6, <2>7 DEF Promise!OpenScreen
  <2> QED BY <2>1, <2>8 DEF Promise!Next
<1>2. ASSUME NEW c \in Call, resume(c) PROVE [Promise!Next]_(Promise!screenerVars)
  <2> DEFINE v == calls[c].version
  <2>1. v \in Version /\ handle(c, calls[c], v)
    BY <1>2 DEF resume, ServiceInv, Handled
  <2>2. now' = now /\ calls[c].pc = "resuming"
    BY <1>2 DEF resume
  <2> HIDE DEF v
  <2>3. Moves(c, v)
    BY <2>1, HandleMoves DEF ServiceInv
  <2> QED BY <2>2, <2>3, MovesPromised
<1>3. ASSUME NEW c \in Call, access_secret(c) PROVE [Promise!Next]_(Promise!screenerVars)
  <2> DEFINE call == calls'[c]
             old == calls[c]
  <2>1. /\ calls \in [Call -> CallRecord] /\ old \in CallRecord
        /\ calls' = [calls EXCEPT ![c].read = secret] /\ now' = now
    BY <1>3 DEF access_secret, ServiceInv, ServiceTyped
  <2>2. call = [old EXCEPT !.read = secret]
    BY <2>1
  <2>3. call.pc = old.pc /\ call.request = old.request /\ call.answer = old.answer
    <3> HIDE DEF call, old
    <3> QED BY <2>1, <2>2 DEF CallRecord
  <2>4. Screen(call) = Screen(old)
    BY <2>3 DEF Screen
  <2>5. \A d \in Call : d # c => calls'[d] = calls[d]
    BY <2>1
  <2>6. screens' = screens
    <3>1. screens' = [d \in Call |-> Screen(calls'[d])]
      BY DEF screens
    <3> QED BY <2>4, <2>5, <3>1 DEF screens
  <2> QED BY <2>1, <2>6
<1>4. ASSUME NEW c \in Call, config_loaded(c) PROVE [Promise!Next]_(Promise!screenerVars)
  <2> DEFINE v == calls[c].read
  <2>1. v \in Version /\ handle(c, calls[c], v)
    BY <1>4 DEF config_loaded, ServiceInv, ServiceTyped, CallRecord
  <2>2. now' = now /\ calls[c].pc = "fetching"
    BY <1>4 DEF config_loaded
  <2> HIDE DEF v
  <2>3. Moves(c, v)
    BY <2>1, HandleMoves DEF ServiceInv
  <2> QED BY <2>2, <2>3, MovesPromised
<1>5. ASSUME NEW c \in Call,
             config_load_failed(c) \/ elliptic_unreachable(c) \/ elliptic_answered(c)
      PROVE  [Promise!Next]_(Promise!screenerVars)
  <2> DEFINE v == calls[c].version
  <2>1. Moves(c, v)
    BY <1>5, FailureMoves, AnswerMoves DEF ServiceInv
  <2>2. now' = now /\ calls[c].pc \in {"fetching", "forwarding"}
    BY <1>5 DEF config_load_failed, elliptic_unreachable, elliptic_answered
  <2> HIDE DEF v
  <2> QED BY <2>1, <2>2, MovesPromised
<1>6. CASE rotate
  <2>1. now' = now /\ calls' = calls
    BY <1>6 DEF rotate
  <2> QED BY <2>1 DEF screens
<1>7. CASE tick
  <2>1. now < MaxTime /\ now' = now + 1 /\ calls' = calls
    BY <1>7 DEF tick
  <2>2. screens' = screens
    BY <2>1 DEF screens
  <2> QED BY <2>1, <2>2 DEF Promise!Next, Promise!Tick
<1>8. CASE UNCHANGED vars
  <2>1. now' = now /\ calls' = calls
    BY <1>8 DEF vars
  <2> QED BY <2>1 DEF screens
<1> QED BY <1>1, <1>2, <1>3, <1>4, <1>5, <1>6, <1>7, <1>8 DEF Next

\* The service implements the specification that the proof interceptor relies on: each
\* call is answered once, an allow attests the address that was asked about and is dated
\* when it is given, and no address that every configuration denies is attested, with any
\* number of calls in flight and whatever is rotated meanwhile (handler, sendAllowed).
THEOREM ServiceKeepsPromise == Spec => KeepsPromise
PROOF
<1>1. Init => Promise!ScreenerInit
  BY PromiseInit
<1>2. ServiceInv /\ [Next]_vars => [Promise!Next]_(Promise!screenerVars)
  BY PromiseStep
<1> QED BY <1>1, <1>2, ServiceHolds, PTL DEF Spec, KeepsPromise, Promise!Spec

-----------------------------------------------------------------------------
(***************************************************************************)
(* The rate limit and the memory of blocked addresses.                     *)
(*                                                                         *)
(* Both rest on caches of a bounded size, so what is proved of them is     *)
(* proved for the capacities that the code is deployed with: no more       *)
(* partners than windows, no more addresses than entries.                  *)
(***************************************************************************)
Partners == {r.partner : r \in Requests}
Addresses == {r.address : r \in Requests}

\* The limiter has a window for every partner, and some version admits requests at all.
PartnersFit ==
    /\ IsFiniteSet(Call)
    /\ IsFiniteSet(Partners) /\ Cardinality(Partners) <= MAX_PARTNERS
    /\ \E v \in Version : Configs[v].rateLimitPerMinute > 0

\* The cache of the blocked addresses has room for every address that is asked about.
AddressesFit == IsFiniteSet(Addresses) /\ Cardinality(Addresses) <= MAX_ENTRIES

\* No two entries of a cache have the same key.
OncePerKey(entries) ==
    \A i, j \in DOMAIN entries : entries[i].key = entries[j].key => i = j

\* A request is accepted when it is handled, never before and at most once.
Accepting(call) ==
    /\ call.pc \in {"free", "resuming", "fetching"} => call.accepted = None
    /\ call.accepted <= now /\ call.since <= now

\* The partner's requests that were accepted at this moment or later.
AcceptedSince(partner, from) ==
    {c \in Call : /\ calls[c].accepted # None /\ calls[c].request.partner = partner
                  /\ from <= calls[c].accepted}

\* A window begins with an accepted request and counts those since then; the ones just
\* before it belong to a window that had begun earlier, with a request that is too old.
WindowTrue(w) ==
    /\ w.windowStart <= now
    /\ 0 < w.count /\ w.count <= Limit
    /\ w.count = Cardinality(AcceptedSince(w.key, w.windowStart))
    /\ \E c \in AcceptedSince(w.key, w.windowStart) : calls[c].accepted = w.windowStart
    /\ \A c \in AcceptedSince(w.key, w.windowStart) : calls[c].accepted < w.windowStart + WINDOW
    /\ \A t \in Nat : t > w.windowStart - WINDOW =>
          Cardinality(AcceptedIn(w.key, t, w.windowStart)) < Limit

WindowRecord == [key : Partners, count : Nat, windowStart : Nat]

\* Whoever was served has a window.
WindowsKept ==
    \A c \in Call : calls[c].accepted # None =>
        \E w \in ToSet(windows) : w.key = calls[c].request.partner

\* What RateLimited says, of every partner.
Served ==
    \A p \in Partners, t \in Nat : Cardinality(AcceptedIn(p, t, t + WINDOW)) < 2 * Limit

Refused(call) ==
    call.answer.status = 429 =>
        /\ call.version \in Version
        /\ Cardinality(AcceptedIn(call.request.partner, call.since - WINDOW + 1, call.since + 1))
              >= Configs[call.version].rateLimitPerMinute

LimiterInv ==
    /\ windows \in Seq(WindowRecord)
    /\ OncePerKey(windows)
    /\ \A c \in Call : Accepting(calls[c]) /\ Refused(calls[c])
    /\ \A w \in ToSet(windows) : WindowTrue(w)
    /\ WindowsKept
    /\ Served

\* A request that Elliptic's answer blocked, and one that Elliptic is or was asked about.
BlockedBy(call) == call.answer.verdict = "blocked" /\ call.answer.source = "elliptic"

Asked(call) == call.pc = "forwarding" \/ BlockedBy(call)

\* The lifetime of the cache is one that some request has used; a request can have been
\* sent to Elliptic only since then.
LifetimeTrue ==
    /\ blockedCache.ttl # None =>
          \E c \in Call : /\ calls[c].version # None /\ calls[c].pc \in {"forwarding", "done"}
                          /\ Configs[calls[c].version].blockedCacheTtl = blockedCache.ttl
    /\ \A c \in Call : Asked(calls[c]) => blockedCache.ttl # None
    /\ \A c \in Call : calls[c].pc \in {"free", "fetching"} => calls[c].version = None

\* Every request was made under the lifetime of the cache.
OneLifetime ==
    \A e \in Call : calls[e].version # None =>
        Configs[calls[e].version].blockedCacheTtl = blockedCache.ttl

\* A request that Elliptic was or will be trusted about.
Passed(call) ==
    \/ call.pc = "forwarding"
    \/ call.answer.verdict = "allowed" /\ call.answer.source # "allowlist"

\* What Elliptic blocked is in the cache since then or later, and who was passed on to
\* Elliptic after that came when it was no longer remembered.
Remembered(c) ==
    /\ \E e \in ToSet(blockedCache.entries) :
          e.key = calls[c].request.address /\ calls[c].since <= e.at
    /\ \A d \in Call :
          (/\ calls[d].request.address = calls[c].request.address
           /\ Passed(calls[d]) /\ calls[d].accepted > calls[c].since)
          => calls[d].accepted > calls[c].since + blockedCache.ttl

BlockEntry == [key : Addresses, at : Nat]

BlockInv ==
    /\ blockedCache \in [ttl : Nat \cup {None}, entries : Seq(BlockEntry)]
    /\ OncePerKey(blockedCache.entries)
    /\ \A c \in Call : Accepting(calls[c])
    /\ LifetimeTrue
    /\ OneLifetime => \A c \in Call : BlockedBy(calls[c]) => Remembered(c)

-----------------------------------------------------------------------------
(***************************************************************************)
(* The caches.                                                             *)
(***************************************************************************)

\* A set of natural numbers that is not empty has a least one.
LEMMA LeastOf ==
    ASSUME NEW S, S \subseteq Nat, S # {}
    PROVE  \E x \in S : \A y \in S : x <= y
PROOF
<1> DEFINE R == {ss \in Nat \X Nat : ss[1] < ss[2]}
<1>1. IsWellFoundedOn(R, Nat)
  BY NatLessThanWellFounded DEF OpToRel
<1> HIDE DEF R
<1>2. PICK x \in S : \A y \in S : <<y, x>> \notin R
  BY <1>1, WFMin
<1>3. \A y \in S : <<y, x>> \in R \/ x <= y
  BY DEF R
<1> QED BY <1>2, <1>3

\* The highest limit of all versions is the limit of one of them.
LEMMA LimitFacts ==
    ASSUME PartnersFit
    PROVE  /\ Limit \in Nat \ {0}
           /\ \A v \in Version : Configs[v].rateLimitPerMinute <= Limit
PROOF
<1> DEFINE rate(v) == Configs[v].rateLimitPerMinute
           rates == {rate(v) : v \in Version}
           N == Len(Configs)
           Bounds(n) == {b \in Nat : \A v \in 1 .. n : rate(v) <= b}
           unbounded == {n \in 0 .. N : Bounds(n) = {}}
<1>1. N \in Nat \ {0} /\ Version = 1 .. N /\ \A v \in 1 .. N : rate(v) \in Nat
  BY EllipticProxyAssumption DEF Version
<1> HIDE DEF rate, N
<1>2. unbounded = {}
  <2> SUFFICES ASSUME unbounded # {} PROVE FALSE
    OBVIOUS
  <2>1. unbounded \subseteq Nat
    BY <1>1
  <2>2. PICK n \in unbounded : \A m \in unbounded : n <= m
    <3> HIDE DEF unbounded
    <3> QED BY <2>1, LeastOf
  <2>3. n \in 0 .. N /\ Bounds(n) = {}
    BY <2>2
  <2>4. 0 \in Bounds(0)
    OBVIOUS
  <2>5. n - 1 \in 0 .. N /\ n - 1 \notin unbounded /\ n \in 1 .. N
    <3>1. n # 0
      BY <2>3, <2>4
    <3>2. n - 1 \in 0 .. N /\ n \in 1 .. N
      BY <1>1, <2>3, <3>1
    <3> HIDE DEF unbounded
    <3> QED BY <1>1, <2>2, <3>2
  <2>6. PICK b \in Nat : \A v \in 1 .. (n - 1) : rate(v) <= b
    BY <2>5
  <2> DEFINE m == IF rate(n) <= b THEN b ELSE rate(n)
  <2>7. m \in Nat /\ b <= m /\ rate(n) <= m
    <3>1. rate(n) \in Nat
      BY <1>1, <2>5
    <3> QED BY <2>6, <3>1
  <2>8. \A v \in 1 .. n : rate(v) <= m
    <3> SUFFICES ASSUME NEW v \in 1 .. n PROVE rate(v) <= m
      OBVIOUS
    <3>1. rate(v) \in Nat
      BY <1>1, <2>5, SMTT(30)
    <3>2. CASE v = n
      BY <2>7, <3>2
    <3>3. CASE v # n
      <4>1. rate(v) <= b
        BY <1>1, <2>5, <2>6, <3>3
      <4> HIDE DEF m
      <4> QED BY <2>6, <2>7, <3>1, <4>1
    <3> QED BY <3>2, <3>3
  <2> HIDE DEF m
  <2> QED BY <2>3, <2>7, <2>8
<1>3. Bounds(N) \subseteq Nat /\ Bounds(N) # {}
  <2>1. N \in 0 .. N
    BY <1>1
  <2>2. Bounds(N) # {}
    <3> HIDE DEF Bounds
    <3> QED BY <1>2, <2>1
  <2> QED BY <2>2
<1>4. PICK b \in Bounds(N) : \A x \in Bounds(N) : b <= x
  <2> HIDE DEF Bounds
  <2> QED BY <1>3, LeastOf
<1>5. b \in Nat /\ \A v \in 1 .. N : rate(v) <= b
  BY <1>4
<1>6. PICK w \in 1 .. N : rate(w) > 0
  BY <1>1 DEF PartnersFit, rate
<1>7. b > 0
  BY <1>1, <1>5, <1>6
<1>8. \E v \in 1 .. N : rate(v) = b
  <2> SUFFICES ASSUME \A v \in 1 .. N : rate(v) # b PROVE FALSE
    OBVIOUS
  <2>1. \A v \in 1 .. N : rate(v) <= b - 1
    BY <1>1, <1>5
  <2>2. b - 1 \in Bounds(N)
    BY <1>5, <1>7, <2>1
  <2> HIDE DEF Bounds
  <2> QED BY <1>4, <1>5, <2>2
<1>9. b \in rates /\ \A y \in rates : b >= y
  BY <1>1, <1>5, <1>8
<1>10. \A x \in rates : (\A y \in rates : x >= y) => x = b
  BY <1>1, <1>5, <1>9
<1>11. Limit = Max(rates)
  BY DEF Limit, rate
<1>12. Limit = b
  <2> HIDE DEF rates
  <2> QED BY <1>9, <1>10, <1>11 DEF Max
<1> QED BY <1>1, <1>5, <1>7, <1>12 DEF rate

\* The elements of a sequence.
LEMMA MemberOf ==
    ASSUME NEW S, NEW s \in Seq(S), NEW x \in ToSet(s)
    PROVE  x \in S
PROOF
<1>1. PICK i \in DOMAIN s : x = s[i]
  BY DEF ToSet
<1> QED BY <1>1

\* A sequence without its i-th element.
LEMMA RemovedAt ==
    ASSUME NEW S, NEW s \in Seq(S), NEW i \in 1 .. Len(s)
    PROVE  /\ RemoveAt(s, i) \in Seq(S)
           /\ Len(RemoveAt(s, i)) = Len(s) - 1
           /\ \A k \in 1 .. Len(s) - 1 : RemoveAt(s, i)[k] = IF k < i THEN s[k] ELSE s[k + 1]
PROOF
<1> DEFINE a == SubSeq(s, 1, i - 1)
           b == SubSeq(s, i + 1, Len(s))
<1>1. /\ a \in Seq(S) /\ Len(a) = i - 1 /\ \A k \in 1 .. i - 1 : a[k] = s[k]
  OBVIOUS
<1>2. /\ b \in Seq(S) /\ Len(b) = Len(s) - i /\ \A k \in 1 .. Len(s) - i : b[k] = s[k + i]
  OBVIOUS
<1>3. RemoveAt(s, i) = a \o b
  BY DEF RemoveAt
<1> HIDE DEF a, b
<1>4. /\ a \o b \in Seq(S) /\ Len(a \o b) = Len(s) - 1
      /\ \A k \in 1 .. Len(s) - 1 : (a \o b)[k] = IF k < i THEN a[k] ELSE b[k - (i - 1)]
  <2>1. /\ a \o b \in Seq(S) /\ Len(a \o b) = Len(a) + Len(b)
        /\ \A k \in 1 .. Len(a) + Len(b) : (a \o b)[k] = IF k <= Len(a) THEN a[k] ELSE b[k - Len(a)]
    BY <1>1, <1>2, ConcatProperties
  <2>2. Len(s) \in Nat /\ i \in Nat
    OBVIOUS
  <2> QED BY <1>1, <1>2, <2>1, <2>2
<1>5. \A k \in 1 .. Len(s) - 1 : ~(k < i) => b[k - (i - 1)] = s[k + 1]
  BY <1>2
<1>6. \A k \in 1 .. Len(s) - 1 : k < i => a[k] = s[k]
  BY <1>1
<1> QED BY <1>3, <1>4, <1>5, <1>6

\* What an LRU cache holds after a key was set: as there is room for every key, nothing is
\* evicted, and the entry replaces the one that had its key.
LEMMA LruSetFacts ==
    ASSUME NEW E, NEW K, \A e \in E : e.key \in K, IsFiniteSet(K),
           NEW max \in Nat, Cardinality(K) <= max,
           NEW entries \in Seq(E), OncePerKey(entries), NEW entry \in E
    PROVE  LET after == LruSet(entries, entry, max)
           IN  /\ after \in Seq(E)
               /\ OncePerKey(after)
               /\ ToSet(after) = {e \in ToSet(entries) : e.key # entry.key} \cup {entry}
PROOF
<1> DEFINE n == Len(entries)
           same == {i \in 1 .. n : entries[i].key = entry.key}
           others == RemoveFirstMatch(entries, LAMBDA e : e.key = entry.key)
           left == {e \in ToSet(entries) : e.key # entry.key}
           Good == /\ others \in Seq(E)
                   /\ OncePerKey(others)
                   /\ \A k \in 1 .. Len(others) : others[k].key # entry.key
                   /\ ToSet(others) = left
<1>1. n \in Nat /\ DOMAIN entries = 1 .. n /\ \A i \in 1 .. n : entries[i] \in E
  OBVIOUS
<1>2. ToSet(entries) = {entries[i] : i \in 1 .. n}
  BY <1>1 DEF ToSet
<1>3. \A i, j \in 1 .. n : entries[i].key = entries[j].key => i = j
  BY <1>1 DEF OncePerKey
<1>4. Good
  <2>1. CASE same = {}
    <3>1. others = entries
      BY <2>1 DEF RemoveFirstMatch
    <3> HIDE DEF others
    <3> QED BY <1>1, <1>2, <2>1, <3>1
  <2>2. CASE same # {}
    <3> DEFINE i == Min(same)
    <3>1. same \subseteq Nat
      BY <1>1
    <3>2. i \in same
      <4> HIDE DEF same
      <4> QED BY <2>2, <3>1, LeastOf DEF Min
    <3>3. others = RemoveAt(entries, i)
      BY <2>2 DEF RemoveFirstMatch, SelectInSeq
    <3> HIDE DEF i, others
    <3>4. i \in 1 .. n /\ entries[i].key = entry.key
      BY <3>2
    <3>5. /\ others \in Seq(E) /\ Len(others) = n - 1
          /\ \A k \in 1 .. n - 1 : others[k] = IF k < i THEN entries[k] ELSE entries[k + 1]
      BY <3>3, <3>4, RemovedAt
    <3> DEFINE from(k) == IF k < i THEN k ELSE k + 1
    <3>6. \A k \in 1 .. n - 1 : from(k) \in 1 .. n /\ from(k) # i /\ others[k] = entries[from(k)]
      BY <1>1, <3>4, <3>5
    <3>7. \A k, l \in 1 .. n - 1 : from(k) = from(l) => k = l
      BY <1>1, <3>4
    <3>8. \A j \in 1 .. n : j # i => \E k \in 1 .. n - 1 : from(k) = j
      <4> SUFFICES ASSUME NEW j \in 1 .. n, j # i PROVE \E k \in 1 .. n - 1 : from(k) = j
        OBVIOUS
      <4>1. CASE j < i
        BY <1>1, <3>4, <4>1
      <4>2. CASE j > i
        <5>1. j - 1 \in 1 .. n - 1 /\ from(j - 1) = j
          BY <1>1, <3>4, <4>2
        <5> QED BY <5>1
      <4> QED BY <3>4, <4>1, <4>2
    <3> HIDE DEF from
    <3>9. DOMAIN others = 1 .. n - 1
      BY <3>5
    <3>10. \A k \in 1 .. n - 1 : others[k].key # entry.key
      BY <1>3, <3>4, <3>6
    <3>11. OncePerKey(others)
      BY <1>3, <3>6, <3>7, <3>9 DEF OncePerKey
    <3>12. \A j \in 1 .. n : entries[j].key # entry.key <=> j # i
      BY <1>3, <3>4
    <3>13. ToSet(others) = {others[k] : k \in 1 .. n - 1}
      BY <3>9 DEF ToSet
    <3>14. ToSet(others) \subseteq left
      BY <1>2, <3>6, <3>10, <3>13
    <3>15. left \subseteq ToSet(others)
      <4> SUFFICES ASSUME NEW j \in 1 .. n, entries[j].key # entry.key
                   PROVE  entries[j] \in ToSet(others)
        BY <1>2
      <4>1. PICK k \in 1 .. n - 1 : from(k) = j
        BY <3>8, <3>12
      <4> QED BY <3>6, <3>13, <4>1
    <3> QED BY <3>5, <3>10, <3>11, <3>14, <3>15
  <2> QED BY <2>1, <2>2
<1> HIDE DEF others
<1>5. Len(others) < max
  <2> DEFINE m == Len(others)
             f == [k \in 1 .. m |-> others[k].key]
             T == K \ {entry.key}
  <2>1. m \in Nat /\ DOMAIN others = 1 .. m /\ \A k \in 1 .. m : others[k] \in E
    BY <1>4
  <2>2. f \in [1 .. m -> T]
    BY <1>4, <2>1
  <2>3. \A k, l \in 1 .. m : f[k] = f[l] => k = l
    BY <1>4, <2>1 DEF OncePerKey
  <2>4. f \in Injection(1 .. m, T)
    <3> HIDE DEF f, T
    <3> QED BY <2>2, <2>3 DEF Injection, IsInjective
  <2>5. IsFiniteSet(T) /\ Cardinality(T) = Cardinality(K) - 1
    <3>1. entry.key \in K /\ IsFiniteSet(K)
      OBVIOUS
    <3> QED BY ONLY <3>1, FS_RemoveElement, Zenon
  <2>6. Cardinality(1 .. m) <= Cardinality(T)
    <3> HIDE DEF f, T
    <3> QED BY <2>4, <2>5, FS_Injection
  <2>7. Cardinality(1 .. m) = m
    <3>1. 1 \in Int /\ m \in Int
      BY <2>1
    <3> HIDE DEF m
    <3>2. Cardinality(1 .. m) = IF 1 > m THEN 0 ELSE m - 1 + 1
      BY ONLY <3>1, FS_Interval, Zenon
    <3> QED BY <2>1, <3>2
  <2>8. Cardinality(K) \in Nat
    BY FS_CardinalityType
  <2> QED BY <2>1, <2>5, <2>6, <2>7, <2>8
<1> DEFINE after == Append(others, entry)
           m == Len(others)
<1>6. LruSet(entries, entry, max) = after
  <2>1. others \in Seq(E) /\ m \in Nat
    BY <1>4
  <2>2. ~(Len(others) >= max)
    BY <1>5, <2>1
  <2> QED BY <2>2 DEF LruSet, others
<1>7. /\ after \in Seq(E) /\ DOMAIN after = 1 .. (m + 1) /\ m \in Nat
      /\ \A k \in 1 .. m : after[k] = others[k]
      /\ after[m + 1] = entry
  BY <1>4
<1> HIDE DEF after
<1>8. OncePerKey(after)
  <2>1. \A k, l \in 1 .. m : others[k].key = others[l].key => k = l
    BY <1>4 DEF OncePerKey
  <2>2. \A k \in 1 .. (m + 1) : k \in 1 .. m \/ k = m + 1
    BY <1>7
  <2> QED BY <1>4, <1>7, <2>1, <2>2 DEF OncePerKey
<1>9. ToSet(after) = ToSet(others) \cup {entry}
  <2>1. ToSet(others) = {others[k] : k \in 1 .. m}
    BY <1>4 DEF ToSet
  <2>2. ToSet(after) = {after[k] : k \in 1 .. (m + 1)}
    BY <1>7 DEF ToSet
  <2>3. \A k \in 1 .. (m + 1) : k \in 1 .. m \/ k = m + 1
    BY <1>7
  <2>4. \A k \in 1 .. m : k \in 1 .. (m + 1)
    BY <1>7
  <2>5. m + 1 \in 1 .. (m + 1)
    BY <1>7, SMTT(30)
  <2> QED BY <1>7, <2>1, <2>2, <2>3, <2>4, <2>5
<1> QED BY <1>4, <1>6, <1>7, <1>8, <1>9

-----------------------------------------------------------------------------
(***************************************************************************)
(* The rate limiter.                                                       *)
(***************************************************************************)

\* The handler's effect on the two caches.
LEMMA HandleCaches ==
    ASSUME NEW c \in Call, NEW v \in Version, handle(c, calls[c], v)
    PROVE  /\ windows' = IF Counted(c, v) THEN Admits(c, v).windows ELSE windows
           /\ blockedCache' = IF VerdictOn(c, v) = "payload_too_large" THEN blockedCache
                              ELSE CacheFor(Configs[v])
PROOF
BY DEF handle, Counted, VerdictOn, Admits

\* The limiter does not count a request, refuses it, or counts and accepts it.
LEMMA RateCases ==
    ASSUME ServiceTyped, NEW c \in Call, NEW v \in Version, handle(c, calls[c], v)
    PROVE  LET partner == calls[c].request.partner
               limit == Configs[v].rateLimitPerMinute
               call == calls'[c]
           IN  \/ windows' = windows /\ call.accepted = None /\ call.answer.status # 429
               \/ /\ OverLimit(partner, limit) /\ call.accepted = None
                  /\ windows' = LruSet(windows, CHOOSE w \in Windows(partner) : TRUE, MAX_PARTNERS)
               \/ /\ ~OverLimit(partner, limit) /\ call.accepted = now /\ call.answer.status # 429
                  /\ windows' = LruSet(windows, CountedWindow(partner), MAX_PARTNERS)
PROOF
<1> DEFINE partner == calls[c].request.partner
           limit == Configs[v].rateLimitPerMinute
           verdict == VerdictOn(c, v)
           ok == Admits(c, v).ok
<1>1. /\ ok <=> ~OverLimit(partner, limit)
      /\ Admits(c, v).windows =
             IF OverLimit(partner, limit)
             THEN LruSet(windows, CHOOSE w \in Windows(partner) : TRUE, MAX_PARTNERS)
             ELSE LruSet(windows, CountedWindow(partner), MAX_PARTNERS)
  BY DEF Admits, check
<1>2. calls'[c].accepted = AcceptedAt(c, v) /\ Outcome(calls'[c], verdict)
  BY HandleMoves
<1>3. windows' = IF Counted(c, v) THEN Admits(c, v).windows ELSE windows
  BY HandleCaches
<1>4. \/ verdict = "payload_too_large" \/ verdict = "unauthorized"
      \/ verdict = "too_many_requests" /\ ~ok
      \/ verdict \in {"invalid_address", "allowlist", "blocklist", "cache", "forward"} /\ ok
  BY VerdictFacts DEF VerdictOn
<1> HIDE DEF verdict, ok, limit, partner
<1>5. calls'[c].answer.status = 429 => verdict = "too_many_requests"
  BY <1>2, <1>4 DEF Outcome, StatusOf, Failure, sendBlocked, NoAnswer
<1>6. Counted(c, v) <=> verdict \notin {"payload_too_large", "unauthorized"}
  BY DEF Counted, verdict
<1>7. CASE verdict \in {"payload_too_large", "unauthorized"}
  <2>1. calls'[c].accepted = None /\ windows' = windows
    BY <1>2, <1>3, <1>6, <1>7 DEF AcceptedAt
  <2> QED BY <1>5, <1>7, <2>1 DEF partner, limit
<1>8. CASE verdict = "too_many_requests" /\ ~ok
  <2>1. calls'[c].accepted = None
    BY <1>2, <1>8 DEF AcceptedAt, ok
  <2>2. OverLimit(partner, limit) /\ windows' = Admits(c, v).windows
    BY <1>1, <1>3, <1>6, <1>8
  <2> QED BY <1>1, <2>1, <2>2 DEF partner, limit
<1>9. CASE verdict \in {"invalid_address", "allowlist", "blocklist", "cache", "forward"} /\ ok
  <2>1. calls'[c].accepted = now
    BY <1>2, <1>6, <1>9 DEF AcceptedAt, ok
  <2>2. ~OverLimit(partner, limit) /\ windows' = Admits(c, v).windows
    BY <1>1, <1>3, <1>6, <1>9
  <2> QED BY <1>1, <1>5, <1>9, <2>1, <2>2 DEF partner, limit
<1> QED BY <1>4, <1>7, <1>8, <1>9

\* Who was accepted when is decided by the requests' fields alone.
LEMMA SameAccepted ==
    ASSUME \A d \in Call : /\ calls'[d].accepted = calls[d].accepted
                           /\ calls[d].accepted # None => calls'[d].request = calls[d].request
    PROVE  /\ \A p, f, t : AcceptedIn(p, f, t)' = AcceptedIn(p, f, t)
           /\ \A p, f : AcceptedSince(p, f)' = AcceptedSince(p, f)
PROOF
BY DEF AcceptedIn, AcceptedSince

\* There are finitely many requests.
LEMMA AcceptedFinite ==
    ASSUME PartnersFit
    PROVE  /\ \A p, f, t : /\ IsFiniteSet(AcceptedIn(p, f, t))
                           /\ Cardinality(AcceptedIn(p, f, t)) \in Nat
           /\ \A p, f : /\ IsFiniteSet(AcceptedSince(p, f))
                        /\ Cardinality(AcceptedSince(p, f)) \in Nat
PROOF
<1>1. IsFiniteSet(Call)
  BY DEF PartnersFit
<1>2. \A p, f, t : AcceptedIn(p, f, t) \in SUBSET Call /\ AcceptedSince(p, f) \in SUBSET Call
  BY DEF AcceptedIn, AcceptedSince
<1> QED BY <1>1, <1>2, FS_Subset, FS_CardinalityType

\* A step that accepts no request and keeps the windows.
LEMMA LimiterQuiet ==
    ASSUME LimiterInv, ServiceTyped, now' \in Nat, now <= now',
           windows' \in Seq(WindowRecord), OncePerKey(windows'), ToSet(windows') = ToSet(windows),
           \A d \in Call : /\ calls'[d].accepted = calls[d].accepted
                           /\ calls[d].accepted # None => calls'[d].request = calls[d].request,
           \A d \in Call : \/ calls'[d] = calls[d]
                           \/ Accepting(calls[d])' /\ Refused(calls[d])'
    PROVE  LimiterInv'
PROOF
<1>1. /\ \A p, f, t : AcceptedIn(p, f, t)' = AcceptedIn(p, f, t)
      /\ \A p, f : AcceptedSince(p, f)' = AcceptedSince(p, f)
  BY SameAccepted
<1>2. \A d \in Call : /\ calls[d].accepted \in Nat \cup {None} /\ calls[d].since \in Nat
                      /\ now \in Nat
  BY DEF ServiceTyped, CallRecord
<1>3. ASSUME NEW d \in Call PROVE Accepting(calls[d])' /\ Refused(calls[d])'
  <2>1. CASE calls'[d] = calls[d]
    <3>1. Accepting(calls[d]) /\ Refused(calls[d])
      BY DEF LimiterInv
    <3>2. Accepting(calls[d])'
      BY <1>2, <2>1, <3>1, VersionFacts DEF Accepting, None
    <3>3. Refused(calls[d])'
      BY <1>1, <2>1, <3>1 DEF Refused
    <3> QED BY <3>2, <3>3
  <2> QED BY <2>1
<1>4. ASSUME NEW w \in ToSet(windows) PROVE WindowTrue(w)'
  <2>1. WindowTrue(w)
    BY DEF LimiterInv
  <2>2. w.windowStart \in Nat
    <3>1. windows \in Seq(WindowRecord)
      BY DEF LimiterInv
    <3>2. w \in WindowRecord
      BY <3>1, MemberOf
    <3> QED BY <3>2 DEF WindowRecord
  <2>3. w.windowStart <= now'
    BY <1>2, <2>1, <2>2 DEF WindowTrue, ServiceTyped
  <2>4. \A d \in AcceptedSince(w.key, w.windowStart) : calls'[d].accepted = calls[d].accepted
    BY DEF AcceptedSince
  <2> QED BY <1>1, <2>1, <2>3, <2>4 DEF WindowTrue
<1>5. WindowsKept'
  BY DEF LimiterInv, WindowsKept
<1>6. Served'
  BY <1>1 DEF LimiterInv, Served
<1> QED BY <1>3, <1>4, <1>5, <1>6 DEF LimiterInv

\* A partner has one window at most, and a current one is less than WINDOW old.
LEMMA WindowFacts ==
    ASSUME LimiterInv, NEW p, NEW w \in ToSet(windows), w.key = p
    PROVE  /\ w \in WindowRecord /\ WindowTrue(w)
           /\ \A x \in ToSet(windows) : x.key = p => x = w
           /\ Windows(p) = IF now - w.windowStart < WINDOW THEN {w} ELSE {}
PROOF
<1>1. w \in WindowRecord /\ WindowTrue(w)
  BY MemberOf DEF LimiterInv
<1>2. \A x \in ToSet(windows) : x.key = p => x = w
  BY DEF LimiterInv, OncePerKey, ToSet
<1>3. Windows(p) = IF now - w.windowStart < WINDOW THEN {w} ELSE {}
  BY <1>2 DEF Windows
<1> QED BY <1>1, <1>2, <1>3

\* A window is put back, or replaced by the next one, among those of the other partners.
LEMMA WindowsSet ==
    ASSUME PartnersFit, LimiterInv, NEW w \in WindowRecord
    PROVE  LET after == LruSet(windows, w, MAX_PARTNERS)
           IN  /\ after \in Seq(WindowRecord) /\ OncePerKey(after)
               /\ ToSet(after) = {x \in ToSet(windows) : x.key # w.key} \cup {w}
PROOF
<1>1. \A x \in WindowRecord : x.key \in Partners
  BY DEF WindowRecord
<1>2. IsFiniteSet(Partners) /\ Cardinality(Partners) <= MAX_PARTNERS /\ MAX_PARTNERS \in Nat
  BY EllipticProxyAssumption DEF PartnersFit
<1>3. windows \in Seq(WindowRecord) /\ OncePerKey(windows)
  BY DEF LimiterInv
<1> QED BY <1>1, <1>2, <1>3, LruSetFacts

\* Who is over the limit used it up within the last window; its window is kept.
LEMMA RefusedRightly ==
    ASSUME PartnersFit, ServiceTyped, LimiterInv, NEW p, NEW limit \in Nat, OverLimit(p, limit)
    PROVE  LET w == CHOOSE x \in Windows(p) : TRUE
               after == LruSet(windows, w, MAX_PARTNERS)
           IN  /\ after \in Seq(WindowRecord) /\ OncePerKey(after)
               /\ ToSet(after) = ToSet(windows)
               /\ Cardinality(AcceptedIn(p, now - WINDOW + 1, now + 1)) >= limit
PROOF
<1> DEFINE w == CHOOSE x \in Windows(p) : TRUE
           after == LruSet(windows, w, MAX_PARTNERS)
<1>1. PICK u \in Windows(p) : u.count >= limit
  BY DEF OverLimit
<1>2. u \in ToSet(windows) /\ u.key = p
  BY <1>1 DEF Windows
<1>3. /\ u \in WindowRecord /\ WindowTrue(u)
      /\ \A x \in ToSet(windows) : x.key = p => x = u
      /\ Windows(p) = IF now - u.windowStart < WINDOW THEN {u} ELSE {}
  BY <1>2, WindowFacts
<1>4. w = u /\ now - u.windowStart < WINDOW
  BY <1>1, <1>3
<1>5. /\ after \in Seq(WindowRecord) /\ OncePerKey(after)
      /\ ToSet(after) = {x \in ToSet(windows) : x.key # u.key} \cup {u}
  <2> HIDE DEF w
  <2> QED BY <1>3, <1>4, WindowsSet
<1>6. ToSet(after) = ToSet(windows)
  <2> HIDE DEF after
  <2> QED BY <1>2, <1>3, <1>5
<1>7. Cardinality(AcceptedIn(p, now - WINDOW + 1, now + 1)) >= limit
  <2> DEFINE recent == AcceptedIn(p, now - WINDOW + 1, now + 1)
             counted == AcceptedSince(p, u.windowStart)
  <2>1. now \in Nat /\ u.windowStart \in Nat /\ WINDOW \in Nat /\ u.count \in Nat
    BY <1>3, EllipticProxyAssumption DEF ServiceTyped, WindowRecord
  <2>2. \A c \in Call : calls[c].accepted \in Nat \cup {None} /\ calls[c].accepted <= now
    BY DEF ServiceTyped, CallRecord, LimiterInv, Accepting
  <2>3. \A a \in Nat : u.windowStart <= a /\ a <= now => now - WINDOW + 1 <= a /\ a < now + 1
    BY <1>4, <2>1
  <2>4. counted \subseteq recent
    BY <2>1, <2>2, <2>3 DEF AcceptedSince, AcceptedIn
  <2>5. Cardinality(counted) <= Cardinality(recent)
    <3>1. IsFiniteSet(recent) /\ counted \in SUBSET recent
      BY <2>4, AcceptedFinite
    <3> QED BY ONLY <3>1, FS_Subset, Zenon
  <2>6. Cardinality(counted) = u.count
    BY <1>2, <1>3 DEF WindowTrue
  <2>7. Cardinality(recent) \in Nat
    BY AcceptedFinite
  <2> HIDE DEF recent, counted
  <2> QED BY <1>1, <2>1, <2>5, <2>6, <2>7 DEF recent
<1> QED BY <1>5, <1>6, <1>7

\* The step of the limiter that accepts request c now.
Accepts(c) ==
    /\ calls[c].accepted = None /\ calls'[c].accepted = now
    /\ calls'[c].request = calls[c].request
    /\ \A d \in Call : d # c => calls'[d] = calls[d]
    /\ now' = now

\* It adds the request to the partner's sets that reach to this moment.
LEMMA OneAccepted ==
    ASSUME ServiceTyped, NEW c \in Call, Accepts(c)
    PROVE  LET p == calls[c].request.partner
           IN  /\ \A q, f, t : /\ c \notin AcceptedIn(q, f, t)
                               /\ AcceptedIn(q, f, t)' = AcceptedIn(q, f, t) \cup
                                      (IF q = p /\ f <= now /\ now < t THEN {c} ELSE {})
               /\ \A q, f : /\ c \notin AcceptedSince(q, f)
                            /\ AcceptedSince(q, f)' = AcceptedSince(q, f) \cup
                                   (IF q = p /\ f <= now THEN {c} ELSE {})
PROOF
<1>1. now # None
  BY VersionFacts DEF ServiceTyped
<1>2. ASSUME NEW q, NEW f, NEW t
      PROVE  /\ c \notin AcceptedIn(q, f, t)
             /\ AcceptedIn(q, f, t)' = AcceptedIn(q, f, t) \cup
                    (IF q = calls[c].request.partner /\ f <= now /\ now < t THEN {c} ELSE {})
  BY <1>1 DEF AcceptedIn, Accepts
<1>3. ASSUME NEW q, NEW f
      PROVE  /\ c \notin AcceptedSince(q, f)
             /\ AcceptedSince(q, f)' = AcceptedSince(q, f) \cup
                    (IF q = calls[c].request.partner /\ f <= now THEN {c} ELSE {})
  BY <1>1 DEF AcceptedSince, Accepts
<1> QED BY <1>2, <1>3

\* The window after a request that is accepted is true again.
LEMMA CountedTrue ==
    ASSUME PartnersFit, ServiceTyped, LimiterInv, NEW c \in Call, Accepts(c), NEW limit \in Nat,
           NEW p, p = calls[c].request.partner, limit <= Limit, ~OverLimit(p, limit),
           NEW w, w = CountedWindow(p), NEW n, n = now
    PROVE  w \in WindowRecord /\ w.key = p /\ WindowTrue(w)'
PROOF
<1>1. now \in Nat /\ n = now /\ WINDOW \in Nat \ {0} /\ Limit \in Nat \ {0} /\ p \in Partners
  BY LimitFacts, EllipticProxyAssumption DEF ServiceTyped, CallRecord, Partners
<1>2. /\ \A f, t : AcceptedIn(p, f, t)' = AcceptedIn(p, f, t) \cup
                       (IF f <= now /\ now < t THEN {c} ELSE {})
      /\ \A f : /\ c \notin AcceptedSince(p, f)
                /\ AcceptedSince(p, f)' = AcceptedSince(p, f) \cup (IF f <= now THEN {c} ELSE {})
  BY OneAccepted
<1>3. calls'[c].accepted = now /\ now' = now /\ \A d \in Call : d # c => calls'[d] = calls[d]
  BY DEF Accepts
<1>4. \A d \in Call : calls[d].accepted \in Nat \cup {None} /\ calls[d].accepted <= now
  BY DEF ServiceTyped, CallRecord, LimiterInv, Accepting
<1>5. /\ \A f, t : IsFiniteSet(AcceptedIn(p, f, t)) /\ Cardinality(AcceptedIn(p, f, t)) \in Nat
      /\ \A f : IsFiniteSet(AcceptedSince(p, f)) /\ Cardinality(AcceptedSince(p, f)) \in Nat
  BY AcceptedFinite
<1>6. ASSUME NEW t, NEW s \in Nat, s <= now
      PROVE  AcceptedIn(p, t, s)' = AcceptedIn(p, t, s)
  <2>1. ~(now < s)
    BY <1>1, <1>6
  <2>2. AcceptedIn(p, t, s)' = AcceptedIn(p, t, s) \cup (IF t <= now /\ now < s THEN {c} ELSE {})
    BY <1>2
  <2> QED BY <2>1, <2>2, Zenon
<1>7. CASE Windows(p) = {}
  <2> DEFINE fresh == [key |-> p, count |-> 1, windowStart |-> n]
  <2>1. w = fresh
    BY <1>7 DEF CountedWindow
  <2>2. fresh \in WindowRecord /\ fresh.key = p /\ fresh.count = 1 /\ fresh.windowStart = n
    BY <1>1 DEF WindowRecord
  <2>3. AcceptedSince(p, now) = {} /\ \A t \in Nat : t > now - WINDOW =>
            Cardinality(AcceptedIn(p, t, now)) < Limit
    <3>1. CASE \E u \in ToSet(windows) : u.key = p
      <4>1. PICK u \in ToSet(windows) : u.key = p
        BY <3>1
      <4>2. /\ u \in WindowRecord /\ WindowTrue(u)
            /\ Windows(p) = IF now - u.windowStart < WINDOW THEN {u} ELSE {}
        BY <4>1, WindowFacts
      <4> DEFINE s == u.windowStart
                 counted == AcceptedSince(p, s)
      <4>3. s \in Nat /\ u.count \in Nat /\ s <= now - WINDOW
        BY <1>1, <1>7, <4>2 DEF WindowRecord
      <4>4. /\ u.count <= Limit /\ u.count = Cardinality(counted)
            /\ \E d \in counted : calls[d].accepted = s
            /\ \A d \in counted : calls[d].accepted < s + WINDOW
        BY <4>1, <4>2 DEF WindowTrue
      <4> HIDE DEF s
      <4>5. AcceptedSince(p, now) = {}
        <5>1. ASSUME NEW d \in AcceptedSince(p, now) PROVE FALSE
          <6>1. d \in counted /\ calls[d].accepted >= now /\ calls[d].accepted \in Nat
            BY <1>1, <1>4, <4>3, <5>1, VersionFacts DEF AcceptedSince
          <6>2. calls[d].accepted < s + WINDOW
            BY <4>4, <6>1
          <6> QED BY <1>1, <4>3, <6>1, <6>2
        <5> QED BY <5>1
      <4>6. ASSUME NEW t \in Nat, t > now - WINDOW
            PROVE  Cardinality(AcceptedIn(p, t, now)) < Limit
        <5>1. PICK d \in counted : calls[d].accepted = s
          BY <4>4
        <5>2. AcceptedIn(p, t, now) \in SUBSET (counted \ {d})
          <6>1. d \notin AcceptedIn(p, t, now)
            BY <1>1, <4>3, <4>6, <5>1 DEF AcceptedIn
          <6>2. ASSUME NEW x \in AcceptedIn(p, t, now) PROVE x \in counted
            <7>1. x \in Call /\ calls[x].accepted \in Nat /\ t <= calls[x].accepted
                    /\ calls[x].accepted # None /\ calls[x].request.partner = p
              BY <1>4, <6>2 DEF AcceptedIn
            <7>2. s <= calls[x].accepted
              BY <1>1, <4>3, <4>6, <7>1
            <7> QED BY <7>1, <7>2 DEF AcceptedSince
          <6> QED BY <6>1, <6>2
        <5> HIDE DEF counted
        <5>3. IsFiniteSet(counted)
          BY <1>5 DEF counted
        <5>4. IsFiniteSet(counted \ {d}) /\ Cardinality(counted \ {d}) = Cardinality(counted) - 1
          BY <5>1, <5>3, FS_RemoveElement
        <5>5. Cardinality(AcceptedIn(p, t, now)) <= Cardinality(counted \ {d})
          BY <5>2, <5>4, FS_Subset
        <5>6. Cardinality(AcceptedIn(p, t, now)) \in Nat
          BY <1>5
        <5> QED BY <1>1, <4>3, <4>4, <5>4, <5>5, <5>6
      <4> QED BY <4>5, <4>6
    <3>2. CASE ~ \E u \in ToSet(windows) : u.key = p
      <4>1. AcceptedSince(p, now) = {} /\ \A t : AcceptedIn(p, t, now) = {}
        BY <3>2 DEF AcceptedSince, AcceptedIn, LimiterInv, WindowsKept
      <4>2. Cardinality({}) = 0
        BY FS_EmptySet
      <4> QED BY <1>1, <4>1, <4>2
    <3> QED BY <3>1, <3>2
  <2>4. AcceptedSince(p, n)' = {c}
    BY <1>1, <1>2, <2>3
  <2>5. Cardinality({c}) = 1
    BY FS_Singleton
  <2> HIDE DEF fresh
  <2>6. /\ fresh.windowStart <= now'
        /\ 0 < fresh.count /\ fresh.count <= Limit
        /\ fresh.count = Cardinality(AcceptedSince(fresh.key, fresh.windowStart)')
    BY <1>1, <1>3, <2>2, <2>4, <2>5
  <2>7. /\ \E d \in AcceptedSince(fresh.key, fresh.windowStart)' : calls'[d].accepted = fresh.windowStart
        /\ \A d \in AcceptedSince(fresh.key, fresh.windowStart)' :
              calls'[d].accepted < fresh.windowStart + WINDOW
    BY <1>1, <1>3, <2>2, <2>4
  <2>8. \A t \in Nat : t > fresh.windowStart - WINDOW =>
            Cardinality(AcceptedIn(fresh.key, t, fresh.windowStart)') < Limit
    <3>1. \A t \in Nat : AcceptedIn(p, t, n)' = AcceptedIn(p, t, n)
      BY <1>1, <1>6
    <3> QED BY <1>1, <2>2, <2>3, <3>1
  <2>9. WindowTrue(fresh)'
    BY <2>6, <2>7, <2>8 DEF WindowTrue
  <2> QED BY <2>1, <2>2, <2>9
<1>8. CASE Windows(p) # {}
  <2>1. PICK u \in Windows(p) : TRUE
    BY <1>8
  <2>2. u \in ToSet(windows) /\ u.key = p
    BY <2>1 DEF Windows
  <2>3. /\ u \in WindowRecord /\ WindowTrue(u)
        /\ Windows(p) = IF now - u.windowStart < WINDOW THEN {u} ELSE {}
    BY <2>2, WindowFacts
  <2> DEFINE s == u.windowStart
             next == [u EXCEPT !.count = @ + 1]
  <2>4. w = next
    <3>1. (CHOOSE x \in Windows(p) : TRUE) = u
      BY <2>1, <2>3
    <3> QED BY <1>8, <3>1 DEF CountedWindow
  <2>5. s \in Nat /\ u.count \in Nat /\ now - s < WINDOW
    BY <1>8, <2>3 DEF WindowRecord
  <2>6. next \in WindowRecord /\ next.key = p /\ next.count = u.count + 1 /\ next.windowStart = s
    BY <2>2, <2>3 DEF WindowRecord
  <2>7. u.count < limit
    BY <2>1, <2>5 DEF OverLimit
  <2>8. /\ s <= now /\ u.count = Cardinality(AcceptedSince(p, s))
        /\ \E d \in AcceptedSince(p, s) : calls[d].accepted = s
        /\ \A d \in AcceptedSince(p, s) : calls[d].accepted < s + WINDOW
        /\ \A t \in Nat : t > s - WINDOW => Cardinality(AcceptedIn(p, t, s)) < Limit
    BY <2>2, <2>3 DEF WindowTrue
  <2> HIDE DEF s, next
  <2>9. AcceptedSince(p, s)' = AcceptedSince(p, s) \cup {c} /\ c \notin AcceptedSince(p, s)
    BY <1>2, <2>8
  <2>10. Cardinality(AcceptedSince(p, s) \cup {c}) = u.count + 1
    <3>1. IsFiniteSet(AcceptedSince(p, s))
      BY <1>5
    <3> QED BY <2>8, <2>9, <3>1, FS_AddElement, ZenonT(40)
  <2>11. /\ next.windowStart <= now'
         /\ 0 < next.count /\ next.count <= Limit
         /\ next.count = Cardinality(AcceptedSince(next.key, next.windowStart)')
    BY <1>1, <1>3, <2>5, <2>6, <2>7, <2>8, <2>9, <2>10
  <2>12. \A d \in AcceptedSince(p, s) : d # c /\ calls'[d].accepted = calls[d].accepted
    BY <1>3, <2>9 DEF AcceptedSince
  <2>13. \E d \in AcceptedSince(next.key, next.windowStart)' : calls'[d].accepted = next.windowStart
    BY <2>6, <2>8, <2>9, <2>12
  <2>14. \A d \in AcceptedSince(next.key, next.windowStart)' :
              calls'[d].accepted < next.windowStart + WINDOW
    <3>1. now < s + WINDOW
      BY <1>1, <2>5
    <3> QED BY <1>3, <2>6, <2>8, <2>9, <2>12, <3>1
  <2>15. \A t \in Nat : t > next.windowStart - WINDOW =>
              Cardinality(AcceptedIn(next.key, t, next.windowStart)') < Limit
    <3>1. \A t : AcceptedIn(p, t, s)' = AcceptedIn(p, t, s)
      BY <1>6, <2>5, <2>8
    <3> QED BY <2>6, <2>8, <3>1
  <2>16. WindowTrue(next)'
    BY <2>11, <2>13, <2>14, <2>15 DEF WindowTrue
  <2> QED BY <2>4, <2>6, <2>16
<1> QED BY <1>7, <1>8

\* A request that is accepted keeps what the invariant says of the limiter.
LEMMA LimiterAdmit ==
    ASSUME PartnersFit, ServiceTyped, LimiterInv, NEW c \in Call, Accepts(c), NEW limit \in Nat,
           limit <= Limit, ~OverLimit(calls[c].request.partner, limit),
           windows' = LruSet(windows, CountedWindow(calls[c].request.partner), MAX_PARTNERS),
           Accepting(calls[c])', calls'[c].answer.status # 429
    PROVE  LimiterInv'
PROOF
<1>1. PICK p, w, n : p = calls[c].request.partner /\ w = CountedWindow(p) /\ n = now
  OBVIOUS
<1>2. w \in WindowRecord /\ w.key = p /\ WindowTrue(w)'
  BY <1>1, CountedTrue
<1>3. /\ windows' \in Seq(WindowRecord) /\ OncePerKey(windows')
      /\ ToSet(windows') = {x \in ToSet(windows) : x.key # p} \cup {w}
  <2>1. windows' = LruSet(windows, w, MAX_PARTNERS)
    BY <1>1
  <2> QED BY <1>2, <2>1, WindowsSet
<1>4. /\ \A q, f, t : AcceptedIn(q, f, t)' = AcceptedIn(q, f, t) \cup
                          (IF q = p /\ f <= now /\ now < t THEN {c} ELSE {})
      /\ \A q, f : /\ c \notin AcceptedSince(q, f)
                   /\ AcceptedSince(q, f)' = AcceptedSince(q, f) \cup
                          (IF q = p /\ f <= now THEN {c} ELSE {})
  BY <1>1, OneAccepted
<1>5. /\ calls'[c].accepted = now /\ now' = now /\ calls'[c].request = calls[c].request
      /\ \A d \in Call : d # c => calls'[d] = calls[d]
  BY DEF Accepts
<1>6. now \in Nat /\ WINDOW \in Nat \ {0} /\ Limit \in Nat \ {0}
  BY LimitFacts, EllipticProxyAssumption DEF ServiceTyped
<1>7. /\ \A q, f, t : IsFiniteSet(AcceptedIn(q, f, t)) /\ Cardinality(AcceptedIn(q, f, t)) \in Nat
      /\ \A q, f : IsFiniteSet(AcceptedSince(q, f)) /\ Cardinality(AcceptedSince(q, f)) \in Nat
  BY AcceptedFinite
<1>8. \A q, f, t : /\ AcceptedIn(q, f, t) \subseteq AcceptedIn(q, f, t)'
                   /\ IsFiniteSet(AcceptedIn(q, f, t)') /\ Cardinality(AcceptedIn(q, f, t)') \in Nat
                   /\ Cardinality(AcceptedIn(q, f, t)) <= Cardinality(AcceptedIn(q, f, t)')
  <2> SUFFICES ASSUME NEW q, NEW f, NEW t
               PROVE  /\ AcceptedIn(q, f, t) \subseteq AcceptedIn(q, f, t)'
                      /\ IsFiniteSet(AcceptedIn(q, f, t)') /\ Cardinality(AcceptedIn(q, f, t)') \in Nat
                      /\ Cardinality(AcceptedIn(q, f, t)) <= Cardinality(AcceptedIn(q, f, t)')
    OBVIOUS
  <2>1. PICK old, new : old = AcceptedIn(q, f, t) /\ new = AcceptedIn(q, f, t)'
    OBVIOUS
  <2>2. new = old \/ new = old \cup {c}
    BY <1>4, <2>1
  <2>3. IsFiniteSet(old) /\ IsFiniteSet(old \cup {c})
    BY <1>7, <2>1, FS_AddElement
  <2>4. IsFiniteSet(new) /\ old \in SUBSET new
    BY <2>2, <2>3
  <2>5. Cardinality(new) \in Nat /\ Cardinality(old) <= Cardinality(new)
    BY <2>4, FS_CardinalityType, FS_Subset
  <2> QED BY <2>1, <2>4, <2>5
<1>9. ASSUME NEW d \in Call PROVE Accepting(calls[d])' /\ Refused(calls[d])'
  <2>1. CASE d = c
    BY <2>1 DEF Refused
  <2>2. CASE d # c
    <3>1. Accepting(calls[d]) /\ Refused(calls[d]) /\ calls'[d] = calls[d]
      BY <1>5, <2>2 DEF LimiterInv
    <3>2. Accepting(calls[d])'
      BY <1>5, <3>1 DEF Accepting
    <3>3. Refused(calls[d])'
      <4> SUFFICES ASSUME calls[d].answer.status = 429
                   PROVE  /\ calls[d].version \in Version
                          /\ Cardinality(AcceptedIn(calls[d].request.partner, calls[d].since - WINDOW + 1,
                                                    calls[d].since + 1)')
                                >= Configs[calls[d].version].rateLimitPerMinute
        BY <3>1 DEF Refused
      <4>1. PICK q, since : q = calls[d].request.partner /\ since = calls[d].since
        OBVIOUS
      <4> DEFINE f == since - WINDOW + 1
                 t == since + 1
      <4>2. AcceptedIn(calls[d].request.partner, calls[d].since - WINDOW + 1, calls[d].since + 1)'
                = AcceptedIn(q, f, t)'
        BY <3>1, <4>1
      <4>3. /\ calls[d].version \in Version
            /\ Cardinality(AcceptedIn(q, f, t)) >= Configs[calls[d].version].rateLimitPerMinute
        BY <3>1, <4>1 DEF Refused
      <4>4. Configs[calls[d].version].rateLimitPerMinute \in Nat
        BY <4>3, EllipticProxyAssumption
      <4> QED BY <1>7, <1>8, <4>2, <4>3, <4>4
    <3> QED BY <3>2, <3>3
  <2> QED BY <2>1, <2>2
<1>10. ASSUME NEW x \in ToSet(windows') PROVE WindowTrue(x)'
  <2>1. CASE x = w
    BY <1>2, <2>1
  <2>2. CASE x # w
    <3>1. x \in ToSet(windows) /\ x.key # p /\ WindowTrue(x)
      BY <1>3, <2>2 DEF LimiterInv
    <3>2. \A f, t : /\ AcceptedIn(x.key, f, t)' = AcceptedIn(x.key, f, t)
                    /\ AcceptedSince(x.key, f)' = AcceptedSince(x.key, f)
      BY <1>4, <3>1
    <3>3. \A d \in AcceptedSince(x.key, x.windowStart) : calls'[d] = calls[d]
      BY <1>4, <1>5 DEF AcceptedSince
    <3> QED BY <1>5, <3>1, <3>2, <3>3 DEF WindowTrue
  <2> QED BY <2>1, <2>2
<1>11. WindowsKept'
  <2> SUFFICES ASSUME NEW d \in Call, calls'[d].accepted # None
               PROVE  \E x \in ToSet(windows') : x.key = calls'[d].request.partner
    BY DEF WindowsKept
  <2>1. CASE calls'[d].request.partner = p
    BY <1>2, <1>3, <2>1
  <2>2. CASE calls'[d].request.partner # p
    <3>1. d # c /\ calls'[d] = calls[d]
      BY <1>1, <1>5, <2>2
    <3>2. PICK x \in ToSet(windows) : x.key = calls[d].request.partner
      BY <3>1 DEF LimiterInv, WindowsKept
    <3> QED BY <1>3, <2>2, <3>1, <3>2
  <2> QED BY <2>1, <2>2
<1>12. Served'
  <2> SUFFICES ASSUME NEW q \in Partners, NEW t \in Nat
               PROVE  Cardinality(AcceptedIn(q, t, t + WINDOW)') < 2 * Limit
    BY DEF Served
  <2>1. CASE q # p \/ ~(now < t + WINDOW)
    <3>1. AcceptedIn(q, t, t + WINDOW)' = AcceptedIn(q, t, t + WINDOW)
      BY <1>4, <2>1
    <3> QED BY <3>1 DEF LimiterInv, Served
  <2>2. CASE q = p /\ now < t + WINDOW
    <3> DEFINE s == w.windowStart
    <3>1. s \in Nat /\ s <= now /\ w.count \in Nat
      BY <1>2, <1>5 DEF WindowRecord, WindowTrue
    <3>2. PICK all, before, since : /\ all = AcceptedIn(p, t, t + WINDOW)'
                                    /\ before = AcceptedIn(p, t, s)'
                                    /\ since = AcceptedSince(p, s)'
      OBVIOUS
    <3>3. w.count <= Limit /\ w.count = Cardinality(since)
      BY <1>2, <3>2 DEF WindowTrue
    <3>4. Cardinality(before) < Limit
      <4>1. t > s - WINDOW
        BY <1>6, <2>2, <3>1
      <4> QED BY <1>2, <3>2, <4>1 DEF WindowTrue
    <3>5. IsFiniteSet(all) /\ Cardinality(all) \in Nat /\ IsFiniteSet(before) /\ Cardinality(before) \in Nat
      BY <1>8, <3>2
    <3>6. IsFiniteSet(since)
      <4>1. since \subseteq AcceptedSince(p, s) \cup {c}
        BY <1>4, <3>2
      <4>2. IsFiniteSet(AcceptedSince(p, s) \cup {c})
        BY <1>7, FS_AddElement
      <4> QED BY <4>1, <4>2, FS_Subset
    <3>7. all \subseteq before \cup since
      <4>1. \A d \in Call : calls'[d].accepted \in Nat \cup {None}
        BY <1>5, <1>6 DEF ServiceTyped, CallRecord
      <4>2. \A a \in Nat : t <= a => (t <= a /\ a < s) \/ s <= a
        BY <3>1
      <4> HIDE DEF s
      <4> QED BY <3>2, <4>1, <4>2 DEF AcceptedIn, AcceptedSince
    <3>8. Cardinality(all) <= Cardinality(before) + Cardinality(since)
      <4>1. /\ IsFiniteSet(before \cup since)
            /\ Cardinality(before \cup since)
                 = Cardinality(before) + Cardinality(since) - Cardinality(before \cap since)
        BY <3>5, <3>6, FS_Union
      <4>2. Cardinality(before \cap since) \in Nat
        BY <3>5, FS_Intersection, FS_CardinalityType
      <4>3. Cardinality(all) <= Cardinality(before \cup since)
        BY <3>7, <4>1, FS_Subset
      <4>4. Cardinality(since) \in Nat
        BY <3>6, FS_CardinalityType
      <4> QED BY <3>5, <4>1, <4>2, <4>3, <4>4
    <3> HIDE DEF s
    <3>9. Cardinality(all) < 2 * Limit
      BY <1>6, <3>1, <3>3, <3>4, <3>5, <3>8
    <3> QED BY <2>2, <3>2, <3>9
  <2> QED BY <2>1, <2>2
<1> QED BY <1>3, <1>9, <1>10, <1>11, <1>12 DEF LimiterInv

\* The fields of a request that arrives.
LEMMA ReceivedFields ==
    ASSUME ServiceTyped, NEW c \in Call, NEW r \in Requests, receive(c, r)
    PROVE  LET call == calls'[c]
           IN  /\ call \in CallRecord /\ call.request = r /\ call.accepted = None
               /\ call.since = 0 /\ call.scored = {} /\ call.answer = NoAnswer
               /\ call.pc = IF Fresh THEN "resuming" ELSE "fetching"
               /\ call.version = IF Fresh THEN loader.version ELSE None
               /\ \A d \in Call : d # c => calls'[d] = calls[d]
PROOF
<1> DEFINE call == calls'[c]
<1>1. /\ now \in Nat /\ calls \in [Call -> CallRecord]
      /\ loader \in [version : Version \cup {None}, cachedAt : Nat]
  BY DEF ServiceTyped
<1>2. calls' = [calls EXCEPT ![c] =
                   [FreeCall EXCEPT !.pc = IF Fresh THEN "resuming" ELSE "fetching",
                                    !.request = r, !.began = now,
                                    !.version = IF Fresh THEN loader.version ELSE None]]
  BY DEF receive
<1>3. call = [FreeCall EXCEPT !.pc = IF Fresh THEN "resuming" ELSE "fetching",
                              !.request = r, !.began = now,
                              !.version = IF Fresh THEN loader.version ELSE None]
  BY <1>1, <1>2
<1>4. \A d \in Call : d # c => calls'[d] = calls[d]
  BY <1>1, <1>2
<1> HIDE DEF call
<1>5. call \in CallRecord /\ call.request = r /\ call.accepted = None /\ call.since = 0
  BY <1>1, <1>3, FreeCallFacts DEF CallRecord
<1>6. /\ call.scored = {} /\ call.answer = NoAnswer
      /\ call.pc = IF Fresh THEN "resuming" ELSE "fetching"
      /\ call.version = IF Fresh THEN loader.version ELSE None
  BY <1>1, <1>3, FreeCallFacts DEF CallRecord
<1> QED BY <1>4, <1>5, <1>6 DEF call

\* The fields of a request whose configuration is read.
LEMMA AccessFields ==
    ASSUME ServiceTyped, NEW c \in Call, access_secret(c)
    PROVE  LET call == calls'[c]
               old == calls[c]
           IN  /\ call \in CallRecord /\ call.request = old.request /\ call.accepted = old.accepted
               /\ call.since = old.since /\ call.scored = old.scored /\ call.answer = old.answer
               /\ call.pc = old.pc /\ call.version = old.version
               /\ \A d \in Call : d # c => calls'[d] = calls[d]
PROOF
<1> DEFINE call == calls'[c]
           old == calls[c]
<1>1. secret \in Version /\ calls \in [Call -> CallRecord] /\ old \in CallRecord
  BY DEF ServiceTyped
<1>2. calls' = [calls EXCEPT ![c].read = secret]
  BY DEF access_secret
<1>3. call = [old EXCEPT !.read = secret]
  BY <1>1, <1>2
<1>4. \A d \in Call : d # c => calls'[d] = calls[d]
  BY <1>1, <1>2
<1> HIDE DEF call, old
<1>5. /\ call \in CallRecord /\ call.request = old.request /\ call.accepted = old.accepted
      /\ call.since = old.since /\ call.scored = old.scored /\ call.answer = old.answer
      /\ call.pc = old.pc /\ call.version = old.version
  BY <1>1, <1>3 DEF CallRecord
<1> QED BY <1>4, <1>5 DEF call, old

\* The handler's first part keeps what the invariant says of the limiter.
LEMMA LimiterHandled ==
    ASSUME PartnersFit, ServiceTyped, LimiterInv, NEW c \in Call, NEW v \in Version,
           calls[c].pc \in {"resuming", "fetching"}, handle(c, calls[c], v), now' = now
    PROVE  LimiterInv'
PROOF
<1> DEFINE p == calls[c].request.partner
           limit == Configs[v].rateLimitPerMinute
           call == calls'[c]
<1>1. /\ call \in CallRecord /\ call.request = calls[c].request /\ call.version = v /\ call.since = now
      /\ \A d \in Call : d # c => calls'[d] = calls[d]
      /\ call.pc \in {"done", "forwarding"}
  BY HandleMoves DEF Moves, Stepped
<1>2. calls[c].accepted = None /\ now \in Nat /\ limit \in Nat /\ limit <= Limit
  BY LimitFacts, EllipticProxyAssumption DEF LimiterInv, Accepting, ServiceTyped
<1>3. windows \in Seq(WindowRecord) /\ OncePerKey(windows)
  BY DEF LimiterInv
<1>4. \/ windows' = windows /\ call.accepted = None /\ call.answer.status # 429
      \/ /\ OverLimit(p, limit) /\ call.accepted = None
         /\ windows' = LruSet(windows, CHOOSE w \in Windows(p) : TRUE, MAX_PARTNERS)
      \/ /\ ~OverLimit(p, limit) /\ call.accepted = now /\ call.answer.status # 429
         /\ windows' = LruSet(windows, CountedWindow(p), MAX_PARTNERS)
  BY RateCases
<1> HIDE DEF call, limit
<1>5. ASSUME call.accepted \in {None, now} PROVE Accepting(calls[c])'
  <2>1. call.accepted <= now /\ call.since <= now
    BY <1>1, <1>2, <1>5 DEF None
  <2> QED BY <1>1, <2>1 DEF Accepting, call
<1>6. CASE windows' = windows /\ call.accepted = None /\ call.answer.status # 429
  <2>1. Accepting(calls[c])' /\ Refused(calls[c])'
    BY <1>5, <1>6 DEF Refused, call
  <2>2. now' \in Nat /\ now <= now' /\ ToSet(windows') = ToSet(windows)
    BY <1>2, <1>6
  <2>3. \A d \in Call : /\ calls'[d].accepted = calls[d].accepted
                        /\ calls[d].accepted # None => calls'[d].request = calls[d].request
    BY <1>1, <1>2, <1>6 DEF call
  <2>4. ASSUME NEW d \in Call PROVE calls'[d] = calls[d] \/ (Accepting(calls[d])' /\ Refused(calls[d])')
    <3>1. CASE d = c
      BY <2>1, <3>1, Zenon
    <3>2. CASE d # c
      BY <1>1, <3>2
    <3> QED BY <3>1, <3>2
  <2> QED BY <1>3, <1>6, <2>2, <2>3, <2>4, LimiterQuiet
<1>7. CASE /\ OverLimit(p, limit) /\ call.accepted = None
           /\ windows' = LruSet(windows, CHOOSE w \in Windows(p) : TRUE, MAX_PARTNERS)
  <2>1. /\ windows' \in Seq(WindowRecord) /\ OncePerKey(windows') /\ ToSet(windows') = ToSet(windows)
        /\ Cardinality(AcceptedIn(p, now - WINDOW + 1, now + 1)) >= limit
    BY <1>2, <1>7, RefusedRightly
  <2>2. \A d \in Call : /\ calls'[d].accepted = calls[d].accepted
                        /\ calls[d].accepted # None => calls'[d].request = calls[d].request
    BY <1>1, <1>2, <1>7 DEF call
  <2>3. \A q, f, t : AcceptedIn(q, f, t)' = AcceptedIn(q, f, t)
    BY <2>2, SameAccepted
  <2>4. Refused(calls[c])'
    <3>1. PICK q, n : q = p /\ n = now
      OBVIOUS
    <3>2. AcceptedIn(calls[c].request.partner, calls[c].since - WINDOW + 1, calls[c].since + 1)'
              = AcceptedIn(q, n - WINDOW + 1, n + 1)'
      BY <1>1, <3>1 DEF call
    <3>3. AcceptedIn(q, n - WINDOW + 1, n + 1)' = AcceptedIn(q, n - WINDOW + 1, n + 1)
      BY <2>3
    <3>4. calls'[c].version = v
      BY <1>1 DEF call
    <3> QED BY <2>1, <3>1, <3>2, <3>3, <3>4 DEF Refused, limit
  <2>5. Accepting(calls[c])'
    BY <1>5, <1>7
  <2>6. ASSUME NEW d \in Call PROVE calls'[d] = calls[d] \/ (Accepting(calls[d])' /\ Refused(calls[d])')
    <3>1. CASE d = c
      BY <2>4, <2>5, <3>1, Zenon
    <3>2. CASE d # c
      BY <1>1, <3>2
    <3> QED BY <3>1, <3>2
  <2>7. now' \in Nat /\ now <= now'
    BY <1>2
  <2> QED BY <2>1, <2>2, <2>6, <2>7, LimiterQuiet
<1>8. CASE /\ ~OverLimit(p, limit) /\ call.accepted = now /\ call.answer.status # 429
           /\ windows' = LruSet(windows, CountedWindow(p), MAX_PARTNERS)
  <2>1. Accepts(c)
    BY <1>1, <1>2, <1>8 DEF Accepts, call
  <2>2. Accepting(calls[c])' /\ calls'[c].answer.status # 429
    BY <1>5, <1>8 DEF call
  <2> QED BY <1>2, <1>8, <2>1, <2>2, LimiterAdmit
<1> QED BY <1>4, <1>6, <1>7, <1>8

\* A step that leaves the limiter alone and changes one request at most.
LEMMA LimiterAside ==
    ASSUME ServiceTyped, LimiterInv, now' = now, windows' = windows, NEW c \in Call,
           \A d \in Call : d # c => calls'[d] = calls[d],
           calls'[c].accepted = calls[c].accepted,
           calls[c].accepted # None => calls'[c].request = calls[c].request,
           calls'[c].since \in {calls[c].since, now, 0}, calls'[c].answer.status # 429,
           calls'[c].pc \in {"free", "resuming", "fetching"} => calls[c].accepted = None
    PROVE  LimiterInv'
PROOF
<1>1. /\ now \in Nat /\ Accepting(calls[c])
      /\ windows \in Seq(WindowRecord) /\ OncePerKey(windows)
  BY DEF LimiterInv, ServiceTyped
<1>2. Accepting(calls[c])'
  <2>1. calls'[c].since <= now
    BY <1>1 DEF Accepting
  <2> QED BY <1>1, <2>1 DEF Accepting
<1>3. Refused(calls[c])'
  BY DEF Refused
<1>4. \A d \in Call : /\ calls'[d].accepted = calls[d].accepted
                      /\ calls[d].accepted # None => calls'[d].request = calls[d].request
  OBVIOUS
<1>6. ASSUME NEW d \in Call PROVE calls'[d] = calls[d] \/ (Accepting(calls[d])' /\ Refused(calls[d])')
  <2>1. CASE d = c
    BY <1>2, <1>3, <2>1, Zenon
  <2>2. CASE d # c
    BY <2>2
  <2> QED BY <2>1, <2>2
<1>5. now' \in Nat /\ now <= now' /\ ToSet(windows') = ToSet(windows)
  BY <1>1
<1> QED BY <1>1, <1>4, <1>5, <1>6, LimiterQuiet

\* Every step keeps what the invariant says of the limiter.
LEMMA LimiterKept ==
    ASSUME PartnersFit, ServiceInv, LimiterInv, [Next]_vars
    PROVE  LimiterInv'
PROOF
<1>0. ServiceTyped /\ \A c \in Call : Handled(calls[c]) /\ Accepting(calls[c]) /\ Refused(calls[c])
  BY DEF ServiceInv, LimiterInv
<1>1. ASSUME NEW c \in Call, NEW r \in Requests, receive(c, r) PROVE LimiterInv'
  <2>1. now' = now /\ windows' = windows /\ calls[c].pc = "free"
    BY <1>1 DEF receive
  <2>2. calls[c].accepted = None
    BY <1>0, <2>1 DEF Accepting
  <2>3. /\ calls'[c].accepted = None /\ calls'[c].since = 0 /\ calls'[c].answer = NoAnswer
        /\ \A d \in Call : d # c => calls'[d] = calls[d]
    BY <1>0, <1>1, ReceivedFields
  <2>4. calls'[c].answer.status # 429
    BY <2>3 DEF NoAnswer
  <2> QED BY <1>0, <2>1, <2>2, <2>3, <2>4, LimiterAside
<1>2. ASSUME NEW c \in Call, resume(c) PROVE LimiterInv'
  <2>1. PICK v : v = calls[c].version
    OBVIOUS
  <2>2. v \in Version /\ handle(c, calls[c], v) /\ calls[c].pc = "resuming" /\ now' = now
    BY <1>0, <1>2, <2>1 DEF resume, Handled
  <2> QED BY <1>0, <2>2, LimiterHandled
<1>3. ASSUME NEW c \in Call, access_secret(c) PROVE LimiterInv'
  <2>1. now' = now /\ windows' = windows /\ calls[c].pc = "fetching"
    BY <1>3 DEF access_secret
  <2>2. /\ calls'[c].accepted = calls[c].accepted /\ calls'[c].since = calls[c].since
        /\ calls'[c].request = calls[c].request /\ calls'[c].answer = calls[c].answer
        /\ \A d \in Call : d # c => calls'[d] = calls[d]
    BY <1>0, <1>3, AccessFields
  <2>3. calls[c].accepted = None /\ calls[c].answer = NoAnswer
    BY <1>0, <2>1 DEF Accepting, Handled
  <2>4. calls'[c].answer.status # 429
    BY <2>2, <2>3 DEF NoAnswer
  <2> QED BY <1>0, <2>1, <2>2, <2>3, <2>4, LimiterAside
<1>4. ASSUME NEW c \in Call, config_loaded(c) PROVE LimiterInv'
  <2>1. PICK v : v = calls[c].read
    OBVIOUS
  <2>2. v \in Version /\ handle(c, calls[c], v) /\ calls[c].pc = "fetching" /\ now' = now
    BY <1>0, <1>4, <2>1 DEF config_loaded, ServiceTyped, CallRecord
  <2> QED BY <1>0, <2>2, LimiterHandled
<1>5. ASSUME NEW c \in Call, config_load_failed(c) \/ elliptic_unreachable(c) PROVE LimiterInv'
  <2>1. now' = now /\ windows' = windows
    BY <1>5 DEF config_load_failed, elliptic_unreachable
  <2>2. /\ \A d \in Call : d # c => calls'[d] = calls[d]
        /\ \E status \in {503, 504} : EndedWith(calls'[c], calls[c], Failure(status))
        /\ calls'[c].since = calls[c].since
    BY <1>0, <1>5, FailureMoves DEF Moves
  <2>3. /\ calls'[c].accepted = calls[c].accepted /\ calls'[c].request = calls[c].request
        /\ calls'[c].pc = "done" /\ calls'[c].answer.status # 429
    BY <2>2 DEF EndedWith, Failure
  <2> QED BY <1>0, <2>1, <2>2, <2>3, LimiterAside
<1>6. ASSUME NEW c \in Call, elliptic_answered(c) PROVE LimiterInv'
  <2>1. now' = now /\ windows' = windows
    BY <1>6 DEF elliptic_answered
  <2>2. Judged(c, calls'[c]) /\ \A d \in Call : d # c => calls'[d] = calls[d]
    BY <1>0, <1>6, AnswerMoves DEF Moves
  <2>3. /\ calls'[c].accepted = calls[c].accepted /\ calls'[c].request = calls[c].request
        /\ calls'[c].pc = "done" /\ calls'[c].answer.status # 429 /\ calls'[c].since = now
    BY <2>2 DEF Judged, EndedWith
  <2> QED BY <1>0, <2>1, <2>2, <2>3, LimiterAside
<1>7. CASE rotate \/ tick \/ UNCHANGED vars
  <2>1. calls' = calls /\ windows' = windows /\ now' \in {now, now + 1}
    BY <1>7 DEF rotate, tick, vars
  <2>2. now' \in Nat /\ now <= now'
    BY <1>0, <2>1 DEF ServiceTyped
  <2>3. windows \in Seq(WindowRecord) /\ OncePerKey(windows)
    BY DEF LimiterInv
  <2> QED BY <1>0, <2>1, <2>2, <2>3, LimiterQuiet
<1> QED BY <1>1, <1>2, <1>3, <1>4, <1>5, <1>6, <1>7 DEF Next

\* Nobody was served yet.
LEMMA LimiterInit ==
    ASSUME PartnersFit, Init
    PROVE  LimiterInv
PROOF
<1>1. \A c \in Call : calls[c] = FreeCall
  BY DEF Init
<1>2. \A c \in Call : calls[c].accepted = None /\ calls[c].since = 0 /\ calls[c].answer = NoAnswer
  BY <1>1, FreeCallFacts
<1>3. windows \in Seq(WindowRecord) /\ OncePerKey(windows) /\ ToSet(windows) = {}
  BY DEF Init, OncePerKey, ToSet
<1>4. \A c \in Call : Accepting(calls[c]) /\ Refused(calls[c])
  BY <1>2 DEF Accepting, Refused, NoAnswer, Init, None
<1>5. Served
  <2>1. \A p, f, t : AcceptedIn(p, f, t) = {}
    BY <1>2 DEF AcceptedIn
  <2>2. Cardinality({}) = 0
    BY FS_EmptySet
  <2> QED BY <2>1, <2>2, LimitFacts DEF Served
<1>6. WindowsKept
  BY <1>2 DEF WindowsKept
<1> QED BY <1>3, <1>4, <1>5, <1>6 DEF LimiterInv

\* However requests fall around the end of a window and however many are in flight, a partner
\* is served less than twice its limit in any stretch as long as a window, and is refused only
\* if its own requests used the limit up within the last one, as long as the limiter has a
\* window for every partner (RateLimiter.check).
THEOREM RatesAreLimited ==
    ASSUME PartnersFit
    PROVE  Spec => []RateLimited
PROOF
<1>1. Init => LimiterInv
  BY LimiterInit
<1>2. ServiceInv /\ LimiterInv /\ [Next]_vars => LimiterInv'
  BY LimiterKept
<1>3. ServiceInv /\ LimiterInv => RateLimited
  <2> SUFFICES ASSUME ServiceInv, LimiterInv, NEW c \in Call
               PROVE  /\ \A t \in 0 .. now :
                            Cardinality(AcceptedIn(calls[c].request.partner, t, t + WINDOW)) < 2 * Limit
                      /\ calls[c].answer.status = 429 =>
                            Cardinality(AcceptedIn(calls[c].request.partner, calls[c].since - WINDOW + 1,
                                                   calls[c].since + 1))
                                >= Configs[calls[c].version].rateLimitPerMinute
    BY DEF RateLimited
  <2>1. calls[c].request.partner \in Partners
    BY DEF ServiceInv, ServiceTyped, CallRecord, Partners
  <2>2. Served /\ Refused(calls[c])
    BY DEF LimiterInv
  <2>3. \A t \in 0 .. now : t \in Nat
    OBVIOUS
  <2> QED BY <2>1, <2>2, <2>3 DEF Served, Refused
<1> QED BY <1>1, <1>2, <1>3, ServiceHolds, PTL DEF Spec

-----------------------------------------------------------------------------
(***************************************************************************)
(* The blocked addresses.                                                  *)
(***************************************************************************)

\* The cache that a configuration uses: the one there is, or an empty one.
LEMMA CacheForFacts ==
    ASSUME BlockInv, NEW v \in Version
    PROVE  LET cache == CacheFor(Configs[v])
           IN  /\ cache \in [ttl : Nat \cup {None}, entries : Seq(BlockEntry)]
               /\ OncePerKey(cache.entries)
               /\ cache.ttl = Configs[v].blockedCacheTtl /\ cache.ttl # None
               /\ cache = blockedCache \/ blockedCache.ttl # Configs[v].blockedCacheTtl
PROOF
<1> DEFINE ttl == Configs[v].blockedCacheTtl
<1>1. ttl \in Nat /\ ttl # None
  BY EllipticProxyAssumption, VersionFacts
<1> HIDE DEF ttl
<1>2. CASE blockedCache.ttl = ttl
  <2>1. CacheFor(Configs[v]) = blockedCache
    BY <1>2 DEF CacheFor, ttl
  <2> QED BY <1>1, <1>2, <2>1 DEF BlockInv, ttl
<1>3. CASE blockedCache.ttl # ttl
  <2>1. CacheFor(Configs[v]) = [ttl |-> ttl, entries |-> <<>>]
    BY <1>3 DEF CacheFor, ttl
  <2>2. <<>> \in Seq(BlockEntry) /\ OncePerKey(<<>>)
    BY DEF OncePerKey
  <2> QED BY <1>1, <1>3, <2>1, <2>2 DEF ttl
<1> QED BY <1>2, <1>3

\* The handler's first part blocks nothing by Elliptic's word, and passes on only what the
\* cache does not remember.
LEMMA HandledPasses ==
    ASSUME ServiceTyped, NEW c \in Call, NEW v \in Version, handle(c, calls[c], v)
    PROVE  LET call == calls'[c]
           IN  /\ ~BlockedBy(call)
               /\ Passed(call) => /\ call.accepted = now
                                  /\ blockedCache' = CacheFor(Configs[v])
                                  /\ ~isBlocked(CacheFor(Configs[v]), call.request.address)
               /\ call.pc = "forwarding" => blockedCache' = CacheFor(Configs[v])
               /\ blockedCache' \in {blockedCache, CacheFor(Configs[v])}
PROOF
<1> DEFINE verdict == VerdictOn(c, v)
           ok == Admits(c, v).ok
           call == calls'[c]
<1>1. /\ call.accepted = AcceptedAt(c, v) /\ Outcome(call, verdict)
      /\ call.request = calls[c].request
  BY HandleMoves DEF Moves, Stepped
<1>2. blockedCache' = IF verdict = "payload_too_large" THEN blockedCache ELSE CacheFor(Configs[v])
  BY HandleCaches
<1>3. verdict = "forward" => ok /\ ~isBlocked(CacheFor(Configs[v]), calls[c].request.address)
  BY VerdictFacts DEF VerdictOn
<1>4. Counted(c, v) <=> verdict \notin {"payload_too_large", "unauthorized"}
  BY DEF Counted
<1>5. verdict = "forward" => call.accepted = now
  BY <1>1, <1>3, <1>4 DEF AcceptedAt
<1> HIDE DEF verdict, ok, call
<1>6. ~BlockedBy(call) /\ (Passed(call) => verdict = "forward")
  BY <1>1 DEF Outcome, BlockedBy, Passed, Failure, sendBlocked, NoAnswer
<1> QED BY <1>1, <1>2, <1>3, <1>5, <1>6 DEF Passed, call

\* The handler's first part keeps what the invariant says of the blocked addresses.
LEMMA BlockHandled ==
    ASSUME ServiceTyped, BlockInv, NEW c \in Call, NEW v \in Version,
           calls[c].pc = "fetching" \/ (calls[c].pc = "resuming" /\ calls[c].version = v),
           handle(c, calls[c], v), now' = now
    PROVE  BlockInv'
PROOF
<1> DEFINE call == calls'[c]
           cache == CacheFor(Configs[v])
           ttl == Configs[v].blockedCacheTtl
<1>1. /\ call \in CallRecord /\ call.request = calls[c].request /\ call.version = v /\ call.since = now
      /\ \A d \in Call : d # c => calls'[d] = calls[d]
      /\ call.pc \in {"done", "forwarding"} /\ call.accepted \in {None, now}
  BY HandleMoves DEF Moves, Stepped, AcceptedAt
<1>2. /\ ~BlockedBy(call)
      /\ Passed(call) => /\ call.accepted = now /\ blockedCache' = cache
                         /\ ~isBlocked(cache, call.request.address)
      /\ call.pc = "forwarding" => blockedCache' = cache
      /\ blockedCache' \in {blockedCache, cache}
  BY HandledPasses
<1>3. /\ cache \in [ttl : Nat \cup {None}, entries : Seq(BlockEntry)]
      /\ OncePerKey(cache.entries) /\ cache.ttl = ttl /\ cache.ttl # None
      /\ cache = blockedCache \/ blockedCache.ttl # ttl
  BY CacheForFacts
<1>4. now \in Nat /\ v # None /\ v \in Version
  BY VersionFacts DEF ServiceTyped
<1>5. \A d \in Call : Accepting(calls[d])
  BY DEF BlockInv
<1> HIDE DEF call, cache, ttl
<1>6. ASSUME NEW d \in Call PROVE Accepting(calls[d])'
  <2>1. CASE d = c
    <3>1. call.accepted <= now /\ call.since <= now
      BY <1>1, <1>4 DEF None
    <3> QED BY <1>1, <2>1, <3>1 DEF Accepting, call
  <2>2. CASE d # c
    BY <1>1, <1>5, <2>2 DEF Accepting
  <2> QED BY <2>1, <2>2
<1>7. /\ (blockedCache \in [ttl : Nat \cup {None}, entries : Seq(BlockEntry)])'
      /\ OncePerKey(blockedCache.entries)'
  BY <1>2, <1>3 DEF BlockInv, OncePerKey
<1>8. LifetimeTrue'
  <2>1. blockedCache'.ttl # None =>
            \E d \in Call : /\ calls'[d].version # None /\ calls'[d].pc \in {"forwarding", "done"}
                            /\ Configs[calls'[d].version].blockedCacheTtl = blockedCache'.ttl
    <3>1. CASE blockedCache' = cache
      BY <1>1, <1>3, <1>4, <3>1 DEF call, ttl
    <3>2. CASE blockedCache' = blockedCache
      <4> SUFFICES ASSUME blockedCache.ttl # None
                   PROVE  \E d \in Call : /\ calls'[d].version # None
                                          /\ calls'[d].pc \in {"forwarding", "done"}
                                          /\ Configs[calls'[d].version].blockedCacheTtl = blockedCache.ttl
        BY <3>2
      <4>1. PICK d \in Call : /\ calls[d].version # None /\ calls[d].pc \in {"forwarding", "done"}
                              /\ Configs[calls[d].version].blockedCacheTtl = blockedCache.ttl
        BY DEF BlockInv, LifetimeTrue
      <4>2. d # c
        BY <4>1
      <4> QED BY <1>1, <4>1, <4>2
    <3> QED BY <1>2, <3>1, <3>2
  <2>2. ASSUME NEW d \in Call, Asked(calls'[d]) PROVE blockedCache'.ttl # None
    <3>1. CASE d = c
      BY <1>2, <1>3, <2>2, <3>1 DEF Asked, call
    <3>2. CASE d # c
      <4>1. blockedCache.ttl # None
        BY <1>1, <2>2, <3>2 DEF BlockInv, LifetimeTrue
      <4> QED BY <1>2, <1>3, <4>1
    <3> QED BY <3>1, <3>2
  <2>3. \A d \in Call : calls'[d].pc \in {"free", "fetching"} => calls'[d].version = None
    BY <1>1 DEF BlockInv, LifetimeTrue, call
  <2> QED BY <2>1, <2>2, <2>3 DEF LifetimeTrue
<1>9. ASSUME OneLifetime', NEW e \in Call, BlockedBy(calls[e])' PROVE Remembered(e)'
  <2>1. e # c /\ calls'[e] = calls[e] /\ BlockedBy(calls[e])
    BY <1>1, <1>2, <1>9 DEF call, BlockedBy
  <2>2. \A d \in Call : calls'[d].version # None =>
            Configs[calls'[d].version].blockedCacheTtl = blockedCache'.ttl
    BY <1>9 DEF OneLifetime
  <2>3. blockedCache' = blockedCache
    <3>1. blockedCache.ttl # None
      BY <2>1 DEF BlockInv, LifetimeTrue, Asked
    <3>2. PICK d \in Call : /\ calls[d].version # None /\ calls[d].pc \in {"forwarding", "done"}
                            /\ Configs[calls[d].version].blockedCacheTtl = blockedCache.ttl
      BY <3>1 DEF BlockInv, LifetimeTrue
    <3>3. d # c /\ calls'[d] = calls[d]
      BY <1>1, <3>2
    <3>4. blockedCache'.ttl = blockedCache.ttl
      BY <2>2, <3>2, <3>3
    <3> QED BY <1>2, <1>3, <3>4
  <2>4. OneLifetime
    <3> SUFFICES ASSUME NEW d \in Call, calls[d].version # None
                 PROVE  Configs[calls[d].version].blockedCacheTtl = blockedCache.ttl
      BY DEF OneLifetime
    <3>1. calls'[d].version = calls[d].version
      <4>1. calls[c].pc = "fetching" => calls[c].version = None
        BY DEF BlockInv, LifetimeTrue
      <4> QED BY <1>1, <4>1 DEF call
    <3> QED BY <2>2, <2>3, <3>1
  <2>5. Remembered(e)
    BY <2>1, <2>4 DEF BlockInv
  <2>6. PICK x \in ToSet(blockedCache.entries) :
            x.key = calls[e].request.address /\ calls[e].since <= x.at
    BY <2>5 DEF Remembered
  <2>7. ASSUME NEW d \in Call, calls'[d].request.address = calls[e].request.address,
               Passed(calls'[d]), calls'[d].accepted > calls[e].since
        PROVE  calls'[d].accepted > calls[e].since + blockedCache.ttl
    <3>1. CASE d # c
      BY <1>1, <2>5, <2>7, <3>1 DEF Remembered
    <3>2. CASE d = c
      <4>1. /\ call.accepted = now /\ cache = blockedCache
            /\ ~isBlocked(blockedCache, calls[e].request.address)
        BY <1>2, <2>3, <2>7, <3>2 DEF call
      <4>2. ~(now - x.at <= blockedCache.ttl)
        BY <2>6, <4>1 DEF isBlocked
      <4>3. x \in BlockEntry /\ blockedCache.ttl \in Nat \cup {None}
        <5>1. blockedCache.entries \in Seq(BlockEntry) /\ blockedCache.ttl \in Nat \cup {None}
          BY DEF BlockInv
        <5> QED BY <2>6, <5>1, MemberOf
      <4>4. x.at \in Nat /\ calls[e].since \in Nat
        BY <4>3 DEF BlockEntry, ServiceTyped, CallRecord
      <4>5. now > calls[e].since + blockedCache.ttl
        BY <1>4, <2>6, <4>2, <4>3, <4>4 DEF None
      <4> QED BY <3>2, <4>1, <4>5 DEF call
    <3> QED BY <3>1, <3>2
  <2> QED BY <2>1, <2>3, <2>6, <2>7 DEF Remembered
<1> QED BY <1>6, <1>7, <1>8, <1>9 DEF BlockInv

\* What the cache holds after an address was marked.
LEMMA MarkedFacts ==
    ASSUME AddressesFit, BlockInv, now \in Nat, NEW address \in Addresses
    PROVE  LET cache == markBlocked(blockedCache, address)
               entry == [key |-> address, at |-> now]
           IN  /\ cache \in [ttl : Nat \cup {None}, entries : Seq(BlockEntry)]
               /\ OncePerKey(cache.entries) /\ cache.ttl = blockedCache.ttl
               /\ ToSet(cache.entries) = {e \in ToSet(blockedCache.entries) : e.key # address} \cup {entry}
PROOF
<1> DEFINE entry == [key |-> address, at |-> now]
           after == LruSet(blockedCache.entries, entry, MAX_ENTRIES)
           cache == markBlocked(blockedCache, address)
<1>1. entry \in BlockEntry /\ entry.key = address
  BY DEF BlockEntry
<1>2. /\ blockedCache \in [ttl : Nat \cup {None}, entries : Seq(BlockEntry)]
      /\ OncePerKey(blockedCache.entries)
  BY DEF BlockInv
<1>3. cache = [blockedCache EXCEPT !.entries = after]
  BY <1>2 DEF markBlocked
<1>4. \A e \in BlockEntry : e.key \in Addresses
  BY DEF BlockEntry
<1>5. IsFiniteSet(Addresses) /\ Cardinality(Addresses) <= MAX_ENTRIES /\ MAX_ENTRIES \in Nat
  BY EllipticProxyAssumption DEF AddressesFit
<1> HIDE DEF entry
<1>6. /\ after \in Seq(BlockEntry) /\ OncePerKey(after)
      /\ ToSet(after) = {e \in ToSet(blockedCache.entries) : e.key # entry.key} \cup {entry}
  <2>1. blockedCache.entries \in Seq(BlockEntry)
    BY <1>2
  <2> QED BY <1>1, <1>2, <1>4, <1>5, <2>1, LruSetFacts
<1> HIDE DEF after, cache
<1>7. /\ cache \in [ttl : Nat \cup {None}, entries : Seq(BlockEntry)]
      /\ cache.entries = after /\ cache.ttl = blockedCache.ttl
  BY <1>2, <1>3, <1>6
<1> QED BY <1>1, <1>6, <1>7 DEF cache, entry

\* Elliptic's answer: a block is put into the cache that there is at this moment.
LEMMA BlockAnswered ==
    ASSUME AddressesFit, ServiceTyped, BlockInv, NEW c \in Call, Handled(calls[c]),
           elliptic_answered(c)
    PROVE  BlockInv'
PROOF
<1> DEFINE call == calls'[c]
           old == calls[c]
           address == calls[c].request.address
           marked == markBlocked(blockedCache, address)
<1>1. Judged(c, call) /\ \A d \in Call : d # c => calls'[d] = calls[d]
  BY AnswerMoves DEF Moves
<1>2. old.pc = "forwarding" /\ now' = now
  BY DEF elliptic_answered
<1>3. /\ call.request = old.request /\ call.version = old.version /\ call.accepted = old.accepted
      /\ call.pc = "done" /\ call.since = now
      /\ blockedCache' \in {blockedCache, marked}
      /\ call.answer.verdict = "blocked" => blockedCache' = marked
  BY <1>1 DEF Judged, EndedWith
<1>4. /\ now \in Nat /\ address \in Addresses
      /\ \A d \in Call : /\ calls[d].since \in Nat /\ calls[d].accepted \in Nat \cup {None}
                         /\ calls[d].accepted <= now /\ calls[d].since <= now
  BY DEF ServiceTyped, CallRecord, Addresses, BlockInv, Accepting
<1>5. /\ marked \in [ttl : Nat \cup {None}, entries : Seq(BlockEntry)]
      /\ OncePerKey(marked.entries) /\ marked.ttl = blockedCache.ttl
      /\ ToSet(marked.entries) = {e \in ToSet(blockedCache.entries) : e.key # address}
                                     \cup {[key |-> address, at |-> now]}
  <2> HIDE DEF address
  <2> QED BY <1>4, MarkedFacts
<1>6. blockedCache'.ttl = blockedCache.ttl
  BY <1>3, <1>5
<1> HIDE DEF call, old, marked, address
<1>7. ASSUME NEW d \in Call PROVE Accepting(calls[d])'
  <2>1. CASE d = c
    BY <1>2, <1>3, <1>4, <2>1 DEF Accepting, call, old
  <2>2. CASE d # c
    BY <1>1, <1>2, <2>2 DEF BlockInv, Accepting
  <2> QED BY <2>1, <2>2
<1>8. /\ (blockedCache \in [ttl : Nat \cup {None}, entries : Seq(BlockEntry)])'
      /\ OncePerKey(blockedCache.entries)'
  BY <1>3, <1>5 DEF BlockInv, OncePerKey
<1>9. \A d \in Call : /\ calls'[d].version = calls[d].version
                      /\ calls'[d].request = calls[d].request
                      /\ calls'[d].accepted = calls[d].accepted
  BY <1>1, <1>3 DEF call, old
<1>10. LifetimeTrue'
  <2>1. blockedCache.ttl # None
    BY <1>2 DEF BlockInv, LifetimeTrue, Asked, old
  <2>2. PICK d \in Call : /\ calls[d].version # None /\ calls[d].pc \in {"forwarding", "done"}
                          /\ Configs[calls[d].version].blockedCacheTtl = blockedCache.ttl
    BY <2>1 DEF BlockInv, LifetimeTrue
  <2>3. calls'[d].pc \in {"forwarding", "done"}
    BY <1>1, <1>3, <2>2 DEF call
  <2>4. \A e \in Call : calls'[e].pc \in {"free", "fetching"} => calls'[e].version = None
    BY <1>1, <1>3 DEF BlockInv, LifetimeTrue, call
  <2> QED BY <1>6, <1>9, <2>1, <2>2, <2>3, <2>4 DEF LifetimeTrue
<1>11. ASSUME OneLifetime', NEW e \in Call, BlockedBy(calls[e])' PROVE Remembered(e)'
  <2>1. OneLifetime
    BY <1>6, <1>9, <1>11 DEF OneLifetime
  <2>2. CASE e = c
    <3>1. blockedCache' = marked
      BY <1>3, <1>11, <2>2 DEF BlockedBy, call
    <3>2. \E x \in ToSet(blockedCache'.entries) :
              x.key = calls'[e].request.address /\ calls'[e].since <= x.at
      <4>1. [key |-> address, at |-> now] \in ToSet(blockedCache'.entries)
        BY <1>5, <3>1
      <4>2. calls'[e].request.address = address /\ calls'[e].since = now
        BY <1>3, <2>2 DEF call, address, old
      <4> QED BY <1>4, <4>1, <4>2
    <3>3. \A d \in Call : ~(calls'[d].accepted > calls'[e].since)
      BY <1>3, <1>4, <1>9, <2>2 DEF call, None
    <3> QED BY <3>2, <3>3 DEF Remembered
  <2>3. CASE e # c
    <3>1. calls'[e] = calls[e] /\ BlockedBy(calls[e])
      BY <1>1, <1>11, <2>3 DEF BlockedBy
    <3>2. Remembered(e)
      BY <2>1, <3>1 DEF BlockInv
    <3>3. PICK x \in ToSet(blockedCache.entries) :
              x.key = calls[e].request.address /\ calls[e].since <= x.at
      BY <3>2 DEF Remembered
    <3>4. \E y \in ToSet(blockedCache'.entries) :
              y.key = calls[e].request.address /\ calls[e].since <= y.at
      <4>1. CASE blockedCache' = blockedCache
        BY <3>3, <4>1
      <4>2. CASE blockedCache' = marked /\ x.key # address
        BY <1>5, <3>3, <4>2
      <4>3. CASE blockedCache' = marked /\ x.key = address
        <5>1. [key |-> address, at |-> now] \in ToSet(blockedCache'.entries)
          BY <1>5, <4>3
        <5>2. calls[e].since <= now
          BY <1>4
        <5> QED BY <3>3, <4>3, <5>1, <5>2
      <4> QED BY <1>3, <4>1, <4>2, <4>3
    <3>5. \A d \in Call : Passed(calls'[d]) => Passed(calls[d])
      BY <1>1, <1>2 DEF Passed, old
    <3> QED BY <1>6, <1>9, <3>1, <3>2, <3>4, <3>5 DEF Remembered
  <2> QED BY <2>2, <2>3
<1> QED BY <1>7, <1>8, <1>10, <1>11 DEF BlockInv

\* A step that leaves the cache alone, and blocks and passes on no request.
LEMMA BlockAside ==
    ASSUME ServiceTyped, BlockInv, now' \in Nat, now <= now', blockedCache' = blockedCache,
           \A d \in Call : \/ calls'[d] = calls[d]
                           \/ /\ ~Asked(calls'[d]) /\ ~Passed(calls'[d]) /\ Accepting(calls[d])'
                              /\ calls[d].version # None => calls'[d].version = calls[d].version
                              /\ calls[d].pc \in {"forwarding", "done"} => calls'[d].pc = "done"
                              /\ calls'[d].pc \in {"free", "fetching"} => calls'[d].version = None
    PROVE  BlockInv'
PROOF
<1>1. ASSUME NEW d \in Call PROVE Accepting(calls[d])'
  <2>1. CASE calls'[d] = calls[d]
    <3>1. /\ calls[d].accepted \in Nat \cup {None} /\ calls[d].since \in Nat /\ now \in Nat
          /\ Accepting(calls[d])
      BY DEF ServiceTyped, CallRecord, BlockInv
    <3> QED BY <2>1, <3>1 DEF Accepting, None
  <2> QED BY <2>1
<1>2. LifetimeTrue'
  <2>1. ASSUME blockedCache.ttl # None
        PROVE  \E d \in Call : /\ calls'[d].version # None /\ calls'[d].pc \in {"forwarding", "done"}
                               /\ Configs[calls'[d].version].blockedCacheTtl = blockedCache.ttl
    <3>1. PICK d \in Call : /\ calls[d].version # None /\ calls[d].pc \in {"forwarding", "done"}
                            /\ Configs[calls[d].version].blockedCacheTtl = blockedCache.ttl
      BY <2>1 DEF BlockInv, LifetimeTrue
    <3>2. calls'[d].version = calls[d].version /\ calls'[d].pc \in {"forwarding", "done"}
      BY <3>1
    <3> QED BY <3>1, <3>2
  <2>2. \A d \in Call : Asked(calls'[d]) => blockedCache.ttl # None
    BY DEF BlockInv, LifetimeTrue
  <2>3. \A d \in Call : calls'[d].pc \in {"free", "fetching"} => calls'[d].version = None
    BY DEF BlockInv, LifetimeTrue
  <2> QED BY <2>1, <2>2, <2>3 DEF LifetimeTrue
<1>3. ASSUME OneLifetime', NEW e \in Call, BlockedBy(calls[e])' PROVE Remembered(e)'
  <2>1. OneLifetime
    <3> SUFFICES ASSUME NEW d \in Call, calls[d].version # None
                 PROVE  Configs[calls[d].version].blockedCacheTtl = blockedCache.ttl
      BY DEF OneLifetime
    <3>1. calls'[d].version = calls[d].version
      OBVIOUS
    <3> QED BY <1>3, <3>1 DEF OneLifetime
  <2>2. calls'[e] = calls[e]
    BY <1>3 DEF Asked, BlockedBy
  <2>3. Remembered(e)
    BY <1>3, <2>1, <2>2 DEF BlockInv, BlockedBy
  <2>4. \A d \in Call : Passed(calls'[d]) => calls'[d] = calls[d]
    OBVIOUS
  <2> QED BY <2>2, <2>3, <2>4 DEF Remembered
<1> QED BY <1>1, <1>2, <1>3 DEF BlockInv, OncePerKey

\* Every step keeps what the invariant says of the blocked addresses.
LEMMA BlockKept ==
    ASSUME AddressesFit, ServiceInv, BlockInv, [Next]_vars
    PROVE  BlockInv'
PROOF
<1>0. /\ ServiceTyped /\ now \in Nat
      /\ \A c \in Call : Handled(calls[c]) /\ Accepting(calls[c])
  BY DEF ServiceInv, ServiceTyped, BlockInv
<1>1. ASSUME NEW c \in Call, NEW r \in Requests, receive(c, r) PROVE BlockInv'
  <2>1. now' = now /\ blockedCache' = blockedCache /\ calls[c].pc = "free"
    BY <1>1 DEF receive
  <2>2. /\ calls'[c].accepted = None /\ calls'[c].since = 0 /\ calls'[c].answer = NoAnswer
        /\ calls'[c].pc = IF Fresh THEN "resuming" ELSE "fetching"
        /\ calls'[c].version = IF Fresh THEN loader.version ELSE None
        /\ \A d \in Call : d # c => calls'[d] = calls[d]
    BY <1>0, <1>1, ReceivedFields
  <2>3. calls[c].version = None
    BY <2>1 DEF BlockInv, LifetimeTrue
  <2>4. ~Asked(calls'[c]) /\ ~Passed(calls'[c])
    BY <2>2 DEF Asked, Passed, BlockedBy, NoAnswer
  <2>5. Accepting(calls[c])'
    BY <1>0, <2>1, <2>2 DEF Accepting, None
  <2>6. calls'[c].pc \in {"free", "fetching"} => calls'[c].version = None
    BY <2>2
  <2> QED BY <1>0, <2>1, <2>2, <2>3, <2>4, <2>5, <2>6, BlockAside
<1>2. ASSUME NEW c \in Call, resume(c) PROVE BlockInv'
  <2>1. PICK v : v = calls[c].version
    OBVIOUS
  <2>2. v \in Version /\ handle(c, calls[c], v) /\ calls[c].pc = "resuming" /\ now' = now
    BY <1>0, <1>2, <2>1 DEF resume, Handled
  <2> QED BY <1>0, <2>1, <2>2, BlockHandled
<1>3. ASSUME NEW c \in Call, access_secret(c) PROVE BlockInv'
  <2>1. now' = now /\ blockedCache' = blockedCache /\ calls[c].pc = "fetching"
    BY <1>3 DEF access_secret
  <2>2. /\ calls'[c].accepted = calls[c].accepted /\ calls'[c].since = calls[c].since
        /\ calls'[c].answer = calls[c].answer /\ calls'[c].pc = calls[c].pc
        /\ calls'[c].version = calls[c].version
        /\ \A d \in Call : d # c => calls'[d] = calls[d]
    BY <1>0, <1>3, AccessFields
  <2>3. calls[c].version = None /\ calls[c].answer = NoAnswer
    BY <1>0, <2>1 DEF BlockInv, LifetimeTrue, Handled
  <2>4. ~Asked(calls'[c]) /\ ~Passed(calls'[c])
    BY <2>1, <2>2, <2>3 DEF Asked, Passed, BlockedBy, NoAnswer
  <2>5. Accepting(calls[c])'
    BY <1>0, <2>1, <2>2 DEF Accepting
  <2> QED BY <1>0, <2>1, <2>2, <2>3, <2>4, <2>5, BlockAside
<1>4. ASSUME NEW c \in Call, config_loaded(c) PROVE BlockInv'
  <2>1. PICK v : v = calls[c].read
    OBVIOUS
  <2>2. v \in Version /\ handle(c, calls[c], v) /\ calls[c].pc = "fetching" /\ now' = now
    BY <1>0, <1>4, <2>1 DEF config_loaded, ServiceTyped, CallRecord
  <2> QED BY <1>0, <2>2, BlockHandled
<1>5. ASSUME NEW c \in Call, config_load_failed(c) \/ elliptic_unreachable(c) PROVE BlockInv'
  <2>1. now' = now /\ blockedCache' = blockedCache
    BY <1>5 DEF config_load_failed, elliptic_unreachable
  <2>2. /\ \A d \in Call : d # c => calls'[d] = calls[d]
        /\ \E status \in {503, 504} : EndedWith(calls'[c], calls[c], Failure(status))
        /\ calls'[c].since = calls[c].since
    BY <1>0, <1>5, FailureMoves DEF Moves
  <2>3. /\ calls'[c].accepted = calls[c].accepted /\ calls'[c].version = calls[c].version
        /\ calls'[c].pc = "done" /\ calls'[c].answer.verdict = "error"
    BY <2>2 DEF EndedWith, Failure
  <2>4. ~Asked(calls'[c]) /\ ~Passed(calls'[c])
    BY <2>3 DEF Asked, Passed, BlockedBy
  <2>5. Accepting(calls[c])'
    BY <1>0, <2>1, <2>2, <2>3 DEF Accepting
  <2> QED BY <1>0, <2>1, <2>2, <2>3, <2>4, <2>5, BlockAside
<1>6. ASSUME NEW c \in Call, elliptic_answered(c) PROVE BlockInv'
  BY <1>0, <1>6, BlockAnswered
<1>7. CASE rotate \/ tick \/ UNCHANGED vars
  <2>1. calls' = calls /\ blockedCache' = blockedCache /\ now' \in {now, now + 1}
    BY <1>7 DEF rotate, tick, vars
  <2>2. now' \in Nat /\ now <= now'
    BY <1>0, <2>1
  <2> QED BY <1>0, <2>1, <2>2, BlockAside
<1> QED BY <1>1, <1>2, <1>3, <1>4, <1>5, <1>6, <1>7 DEF Next

\* Nothing is blocked yet.
LEMMA BlockInit == Init => BlockInv
PROOF
<1> SUFFICES ASSUME Init PROVE BlockInv
  OBVIOUS
<1>1. \A c \in Call : calls[c] = FreeCall
  BY DEF Init
<1>2. \A c \in Call : /\ calls[c].accepted = None /\ calls[c].since = 0 /\ calls[c].answer = NoAnswer
                      /\ calls[c].pc = "free" /\ calls[c].version = None
  BY <1>1, FreeCallFacts
<1>3. /\ blockedCache \in [ttl : Nat \cup {None}, entries : Seq(BlockEntry)]
      /\ OncePerKey(blockedCache.entries) /\ blockedCache.ttl = None
  BY DEF Init, OncePerKey
<1>4. \A c \in Call : Accepting(calls[c]) /\ ~Asked(calls[c]) /\ ~BlockedBy(calls[c])
  BY <1>2 DEF Accepting, Asked, BlockedBy, NoAnswer, Init, None
<1>5. LifetimeTrue
  BY <1>2, <1>3, <1>4 DEF LifetimeTrue
<1> QED BY <1>3, <1>4, <1>5 DEF BlockInv

\* While every request is made under one lifetime of the cache, an address that Elliptic had
\* blocked is not signed for before the block has expired, whatever requests were in flight,
\* unless the operator's list allows it, as long as the cache has room for the addresses
\* that are asked about (markBlocked, isBlocked).
THEOREM BlocksAreRemembered ==
    ASSUME AddressesFit
    PROVE  Spec => []BlockRemembered
PROOF
<1>1. ServiceInv /\ BlockInv /\ [Next]_vars => BlockInv'
  BY BlockKept
<1>2. BlockInv => BlockRemembered
  <2> SUFFICES ASSUME BlockInv, NEW c \in Call, NEW d \in Call,
                      calls[c].answer.verdict = "blocked", calls[c].answer.source = "elliptic",
                      calls[d].request.address = calls[c].request.address,
                      calls[d].answer.verdict = "allowed", calls[d].accepted > calls[c].since,
                      \A e \in Call : calls[e].version # None =>
                          Configs[calls[e].version].blockedCacheTtl = blockedCache.ttl,
                      calls[d].answer.source # "allowlist"
               PROVE  calls[d].accepted > calls[c].since + blockedCache.ttl
    BY DEF BlockRemembered
  <2>1. OneLifetime /\ BlockedBy(calls[c]) /\ Passed(calls[d])
    BY DEF OneLifetime, BlockedBy, Passed
  <2>2. Remembered(c)
    BY <2>1 DEF BlockInv
  <2> QED BY <2>1, <2>2 DEF Remembered
<1> QED BY <1>1, <1>2, BlockInit, ServiceHolds, PTL DEF Spec

-----------------------------------------------------------------------------
(***************************************************************************)
(* Scores: more exposure never makes an answer cleaner.                    *)
(***************************************************************************)

\* The sums that a total is made of.
LEMMA TotalFacts ==
    ASSUME NEW v \in Seq(Nat)
    PROVE  \E f \in [0 .. Len(v) -> Nat] :
               /\ f[0] = 0 /\ \A k \in 1 .. Len(v) : f[k] = f[k - 1] + v[k]
               /\ TotalOf(v) = f[Len(v)]
PROOF
<1> DEFINE N == Len(v)
           Sums(n, f) == /\ f \in [0 .. n -> Nat] /\ f[0] = 0
                         /\ \A k \in 1 .. n : f[k] = f[k - 1] + v[k]
           S == {n \in 0 .. N : ~\E f : Sums(n, f)}
           Step(f) == [n \in 0 .. N |-> IF n = 0 THEN 0 ELSE f[n - 1] + v[n]]
<1>1. N \in Nat /\ \A k \in 1 .. N : v[k] \in Nat
  OBVIOUS
<1> HIDE DEF N
<1>2. S = {}
  <2> SUFFICES ASSUME S # {} PROVE FALSE
    OBVIOUS
  <2>1. PICK m \in S : \A y \in S : m <= y
    <3>1. S \subseteq Nat
      BY <1>1
    <3> HIDE DEF S
    <3> QED BY <3>1, LeastOf
  <2>2. m \in 0 .. N /\ ~\E f : Sums(m, f)
    BY <2>1
  <2>3. m # 0
    <3>1. Sums(0, [k \in 0 .. 0 |-> 0])
      OBVIOUS
    <3> QED BY <2>2, <3>1
  <2>4. m - 1 \in 0 .. N /\ ~(m <= m - 1)
    BY <1>1, <2>2, <2>3
  <2>5. PICK f : Sums(m - 1, f)
    BY <2>1, <2>4
  <2> DEFINE g == [k \in 0 .. m |-> IF k = m THEN f[m - 1] + v[m] ELSE f[k]]
  <2>6. f[m - 1] \in Nat /\ v[m] \in Nat /\ m \in Nat /\ m # 0
    BY <1>1, <2>2, <2>3, <2>5
  <2>7. g \in [0 .. m -> Nat] /\ g[0] = 0
    BY <2>5, <2>6, SMTT(30)
  <2>8. \A k \in 1 .. m : g[k] = g[k - 1] + v[k]
    BY <2>5, <2>6, SMTT(30)
  <2>9. Sums(m, g)
    <3> HIDE DEF g
    <3> QED BY <2>7, <2>8
  <2> QED BY <2>2, <2>9
<1>3. PICK f : Sums(N, f)
  <2>1. N \in 0 .. N
    BY <1>1
  <2>2. N \notin S
    BY <1>2, Zenon
  <2> QED BY <2>1, <2>2, Zenon
<1>4. f = Step(f)
  <2>1. Step(f) \in [0 .. N -> Nat]
    BY <1>1, <1>3
  <2>2. \A n \in 0 .. N : f[n] = Step(f)[n]
    BY <1>1, <1>3
  <2> QED BY <1>3, <2>1, <2>2
<1> DEFINE total == CHOOSE sum : sum = Step(sum)
<1>5. total = Step(total)
  BY <1>4
<1> HIDE DEF total
<1>6. Sums(N, total)
  <2> DEFINE T == {n \in 0 .. N : total[n] # f[n]}
  <2>1. T = {}
    <3> SUFFICES ASSUME T # {} PROVE FALSE
      OBVIOUS
    <3>1. PICK m \in T : \A y \in T : m <= y
      <4>1. T \subseteq Nat
        BY <1>1
      <4> HIDE DEF T
      <4> QED BY <4>1, LeastOf
    <3>2. m \in 0 .. N /\ total[m] = IF m = 0 THEN 0 ELSE total[m - 1] + v[m]
      BY <1>5, <3>1
    <3>3. m # 0
      BY <1>3, <3>1, <3>2
    <3>4. m - 1 \in 0 .. N /\ m - 1 \notin T
      BY <1>1, <3>1, <3>2, <3>3
    <3>5. total[m - 1] = f[m - 1]
      BY <3>4
    <3>6. m \in 1 .. N
      BY <1>1, <3>2, <3>3
    <3> QED BY <1>3, <3>1, <3>2, <3>3, <3>5, <3>6
  <2>2. DOMAIN total = 0 .. N /\ total = [n \in 0 .. N |-> total[n]]
    BY <1>5
  <2>3. total = f
    BY <1>3, <2>1, <2>2
  <2> QED BY <1>3, <2>3
<1>7. TotalOf(v) = total[N]
  BY DEF TotalOf, total, N
<1> QED BY <1>6, <1>7 DEF N

\* A total is a natural number, and it does not shrink when its values grow or are more.
LEMMA TotalGrows ==
    ASSUME NEW v \in Seq(Nat), NEW w \in Seq(Nat), Len(v) <= Len(w),
           \A i \in 1 .. Len(v) : v[i] <= w[i]
    PROVE  TotalOf(v) \in Nat /\ TotalOf(w) \in Nat /\ TotalOf(v) <= TotalOf(w)
PROOF
<1>1. PICK f \in [0 .. Len(v) -> Nat] :
          /\ f[0] = 0 /\ \A k \in 1 .. Len(v) : f[k] = f[k - 1] + v[k]
          /\ TotalOf(v) = f[Len(v)]
  BY TotalFacts
<1>2. PICK g \in [0 .. Len(w) -> Nat] :
          /\ g[0] = 0 /\ \A k \in 1 .. Len(w) : g[k] = g[k - 1] + w[k]
          /\ TotalOf(w) = g[Len(w)]
  BY TotalFacts
<1> DEFINE M == Len(v)
           N == Len(w)
           S == {k \in 0 .. N : ~((IF k <= M THEN f[k] ELSE f[M]) <= g[k])}
<1>3. /\ M \in Nat /\ N \in Nat /\ M <= N
      /\ \A k \in 1 .. M : v[k] \in Nat /\ v[k] <= w[k]
      /\ \A k \in 1 .. N : w[k] \in Nat
  OBVIOUS
<1>4. S = {}
  <2> SUFFICES ASSUME S # {} PROVE FALSE
    OBVIOUS
  <2>1. PICK m \in S : \A y \in S : m <= y
    <3>1. S \subseteq Nat
      BY <1>3
    <3> HIDE DEF S
    <3> QED BY <3>1, LeastOf
  <2> HIDE DEF M, N
  <2>2. m \in 0 .. N /\ m \in Nat
    BY <1>3, <2>1
  <2>3. m # 0
    BY <1>1, <1>2, <1>3, <2>1
  <2>4. m - 1 \in 0 .. N /\ m - 1 \notin S /\ m \in 1 .. N
    BY <1>3, <2>1, <2>2, <2>3
  <2>5. (IF m - 1 <= M THEN f[m - 1] ELSE f[M]) <= g[m - 1]
    BY <2>4
  <2>6. g[m] = g[m - 1] + w[m] /\ g[m - 1] \in Nat /\ w[m] \in Nat
    BY <1>2, <1>3, <2>2, <2>4 DEF N
  <2>7. CASE m <= M
    <3>1. f[m] = f[m - 1] + v[m] /\ f[m - 1] \in Nat /\ v[m] \in Nat /\ v[m] <= w[m]
      <4>1. m \in 1 .. M /\ m - 1 \in 0 .. M
        BY <1>3, <2>2, <2>3, <2>7
      <4> QED BY <1>1, <1>3, <4>1 DEF M
    <3>2. f[m - 1] <= g[m - 1]
      <4>1. m - 1 <= M
        BY <1>3, <2>2, <2>7
      <4> QED BY <2>5, <4>1
    <3>3. f[m] <= g[m]
      <4>1. \A a, b, x, y \in Nat : a <= b /\ x <= y => a + x <= b + y
        OBVIOUS
      <4> HIDE DEF S
      <4>2. f[m - 1] + v[m] <= g[m - 1] + w[m]
        BY <2>6, <3>1, <3>2, <4>1, Zenon
      <4> QED BY <2>6, <3>1, <4>2, Zenon
    <3> QED BY <2>1, <2>7, <3>3
  <2>8. CASE ~(m <= M)
    <3>1. f[M] \in Nat
      <4>1. M \in 0 .. M
        BY <1>3
      <4> QED BY <4>1, Zenon DEF M
    <3>2. f[M] <= g[m - 1]
      <4>1. m - 1 <= M => m - 1 = M
        BY <1>3, <2>2, <2>8
      <4> QED BY <2>5, <4>1
    <3>3. f[M] <= g[m]
      BY <2>6, <3>1, <3>2
    <3> QED BY <2>1, <2>8, <3>3
  <2> QED BY <2>7, <2>8
<1>5. f[M] <= g[N]
  <2>1. N \in 0 .. N /\ N \notin S
    <3>1. N \in Nat
      BY <1>3
    <3> HIDE DEF S, M, N
    <3> QED BY <1>4, <3>1
  <2>2. (IF N <= M THEN f[N] ELSE f[M]) <= g[N]
    BY <2>1
  <2>3. N <= M => N = M
    BY <1>3
  <2> QED BY <2>2, <2>3
<1>6. f[M] \in Nat /\ g[N] \in Nat
  <2>1. M \in 0 .. M /\ N \in 0 .. N
    BY <1>3
  <2> QED BY <2>1, Zenon
<1> QED BY <1>1, <1>2, <1>5, <1>6 DEF M, N

\* The evaluation leads to a block.
Fires(e) ==
    LET total == aggregateElements(e.matched_elements)
    IN  /\ e.rule_id \in DOMAIN RULES => shouldFilter(e.rule_id, total)
        /\ riskScore(e, total) > ALLOWED_RISK_EXPOSURE

Evaluated(body) == ToSet(body.source) \cup ToSet(body.destination)

\* A complete answer blocks if one of its evaluations does.
LEMMA BlocksIfFires ==
    ASSUME NEW body, body.process_status = "complete"
    PROVE  scoreResponse(body).blocked <=> \E e \in Evaluated(body) : Fires(e)
PROOF
<1> DEFINE of(evaluations) == filterAndBuildTriggers(evaluations)
           fired == {t \in of(body.source) \cup of(body.destination) :
                         t.score > ALLOWED_RISK_EXPOSURE}
<1>1. scoreResponse(body).blocked <=> fired # {}
  BY DEF scoreResponse
<1>2. ASSUME NEW evaluations
      PROVE  (\E t \in of(evaluations) : t.score > ALLOWED_RISK_EXPOSURE)
                 <=> \E e \in ToSet(evaluations) : Fires(e)
  <2> DEFINE score(e) == riskScore(e, aggregateElements(e.matched_elements))
             passes(e) == e.rule_id \in DOMAIN RULES =>
                              shouldFilter(e.rule_id, aggregateElements(e.matched_elements))
             trigger(e) == [ruleId |-> e.rule_id, score |-> score(e)]
  <2>1. of(evaluations) = {trigger(e) : e \in {x \in ToSet(evaluations) : passes(x)}}
    BY DEF filterAndBuildTriggers
  <2>2. \A e : Fires(e) <=> passes(e) /\ score(e) > ALLOWED_RISK_EXPOSURE
    BY DEF Fires
  <2>3. \A e : trigger(e).score = score(e)
    OBVIOUS
  <2> HIDE DEF of, score, passes, trigger
  <2> QED BY <2>1, <2>2, <2>3
<1> HIDE DEF of
<1>3. fired # {} <=> \/ \E t \in of(body.source) : t.score > ALLOWED_RISK_EXPOSURE
                     \/ \E t \in of(body.destination) : t.score > ALLOWED_RISK_EXPOSURE
  OBVIOUS
<1> HIDE DEF fired
<1> QED BY <1>1, <1>2, <1>3 DEF Evaluated

\* A product of natural numbers grows with its factors.
LEMMA ProductGrows ==
    ASSUME NEW a \in Nat, NEW b \in Nat, NEW x \in Nat, NEW y \in Nat, a <= b, x <= y
    PROVE  a * x \in Nat /\ b * y \in Nat /\ a * x <= b * y
PROOF
<1>1. PICK j \in Nat : b = a + j
  <2>1. b - a \in Nat /\ b = a + (b - a)
    OBVIOUS
  <2> QED BY <2>1
<1>2. PICK k \in Nat : y = x + k
  <2>1. y - x \in Nat /\ y = x + (y - x)
    OBVIOUS
  <2> QED BY <2>1
<1>3. b * y = a * x + (a * k + (j * x + j * k))
  BY <1>1, <1>2
<1>4. a * x \in Nat /\ a * k \in Nat /\ j * x \in Nat /\ j * k \in Nat /\ b * y \in Nat
  BY <1>1, <1>2
<1> QED BY <1>3, <1>4

\* What an element adds to the totals does not shrink when the element grows.
LEMMA ElementGrows ==
    ASSUME NEW m \in MatchedElement, NEW n \in MatchedElement, \A x \in DOMAIN m : m[x] <= n[x]
    PROVE  /\ counterparty_share(m) \in Nat /\ counterparty_share(m) <= counterparty_share(n)
           /\ m.counterparty_usd \in Nat /\ m.counterparty_usd <= n.counterparty_usd
           /\ m.contribution_percentage * 10000 \in Nat
           /\ m.contribution_percentage * 10000 <= n.contribution_percentage * 10000
           /\ m.contribution_usd \in Nat /\ m.contribution_usd <= n.contribution_usd
PROOF
<1>1. /\ m.contribution_percentage \in Nat /\ m.contribution_usd \in Nat
      /\ m.counterparty_percentage \in Nat /\ m.counterparty_usd \in Nat
      /\ n.contribution_percentage \in Nat /\ n.counterparty_percentage \in Nat
  BY DEF MatchedElement
<1>2. DOMAIN m = {"contribution_percentage", "contribution_usd",
                  "counterparty_percentage", "counterparty_usd"}
  BY DEF MatchedElement
<1>3. /\ m.contribution_percentage <= n.contribution_percentage
      /\ m.contribution_usd <= n.contribution_usd
      /\ m.counterparty_percentage <= n.counterparty_percentage
      /\ m.counterparty_usd <= n.counterparty_usd
  BY <1>2
<1>4. /\ m.contribution_percentage * 10000 \in Nat
      /\ m.contribution_percentage * 10000 <= n.contribution_percentage * 10000
  BY <1>1, <1>3
<1>5. /\ m.contribution_percentage * m.counterparty_percentage \in Nat
      /\ m.contribution_percentage * m.counterparty_percentage
             <= n.contribution_percentage * n.counterparty_percentage
  BY <1>1, <1>3, ProductGrows
<1> QED BY <1>1, <1>3, <1>4, <1>5 DEF counterparty_share

\* The totals of the elements: they do not shrink when an element grows or is added.
LEMMA AggregateGrows ==
    ASSUME NEW d \in Seq(MatchedElement), NEW e \in Seq(MatchedElement), Len(d) <= Len(e),
           \A i \in DOMAIN d : \A x \in DOMAIN d[i] : d[i][x] <= e[i][x]
    PROVE  LET total == aggregateElements(d)
               more == aggregateElements(e)
           IN  /\ total.counterpartyPercentage \in Nat /\ more.counterpartyPercentage \in Nat
               /\ total.counterpartyPercentage <= more.counterpartyPercentage
               /\ total.counterpartyUsd \in Nat /\ more.counterpartyUsd \in Nat
               /\ total.counterpartyUsd <= more.counterpartyUsd
               /\ total.contributionPercentage \in Nat /\ more.contributionPercentage \in Nat
               /\ total.contributionPercentage <= more.contributionPercentage
               /\ total.contributionUsd \in Nat /\ more.contributionUsd \in Nat
               /\ total.contributionUsd <= more.contributionUsd
PROOF
<1> DEFINE shares(s) == [i \in DOMAIN s |-> counterparty_share(s[i])]
           usd(s) == [i \in DOMAIN s |-> s[i].counterparty_usd]
           parts(s) == [i \in DOMAIN s |-> s[i].contribution_percentage * 10000]
           dollars(s) == [i \in DOMAIN s |-> s[i].contribution_usd]
<1>1. \A s : /\ aggregateElements(s).counterpartyPercentage = TotalOf(shares(s))
             /\ aggregateElements(s).counterpartyUsd = TotalOf(usd(s))
             /\ aggregateElements(s).contributionPercentage = TotalOf(parts(s))
             /\ aggregateElements(s).contributionUsd = TotalOf(dollars(s))
  BY DEF aggregateElements
<1>3. /\ DOMAIN d = 1 .. Len(d) /\ DOMAIN e = 1 .. Len(e) /\ Len(d) \in Nat /\ Len(e) \in Nat
      /\ \A i \in DOMAIN d : i \in DOMAIN e
      /\ \A i \in DOMAIN d : d[i] \in MatchedElement
      /\ \A i \in DOMAIN e : e[i] \in MatchedElement
  OBVIOUS
<1>4. \A m \in MatchedElement :
          /\ counterparty_share(m) \in Nat /\ m.counterparty_usd \in Nat
          /\ m.contribution_percentage * 10000 \in Nat /\ m.contribution_usd \in Nat
  <2>1. \A m \in MatchedElement : \A x \in DOMAIN m : m[x] <= m[x]
    BY DEF MatchedElement
  <2> QED BY <2>1, ElementGrows
<1>5. ASSUME NEW i \in DOMAIN d
      PROVE  /\ counterparty_share(d[i]) <= counterparty_share(e[i])
             /\ d[i].counterparty_usd <= e[i].counterparty_usd
             /\ d[i].contribution_percentage * 10000 <= e[i].contribution_percentage * 10000
             /\ d[i].contribution_usd <= e[i].contribution_usd
  <2>1. d[i] \in MatchedElement /\ e[i] \in MatchedElement
    BY <1>3
  <2> QED BY <2>1, ElementGrows
<1>7. ASSUME NEW s \in {d, e}
      PROVE  /\ shares(s) \in Seq(Nat) /\ Len(shares(s)) = Len(s)
             /\ usd(s) \in Seq(Nat) /\ Len(usd(s)) = Len(s)
             /\ parts(s) \in Seq(Nat) /\ Len(parts(s)) = Len(s)
             /\ dollars(s) \in Seq(Nat) /\ Len(dollars(s)) = Len(s)
  <2>1. /\ DOMAIN s = 1 .. Len(s) /\ Len(s) \in Nat
        /\ \A i \in DOMAIN s : s[i] \in MatchedElement
    BY <1>3
  <2>2. ASSUME NEW v, DOMAIN v = 1 .. Len(s), v = [i \in 1 .. Len(s) |-> v[i]],
               \A i \in 1 .. Len(s) : v[i] \in Nat
        PROVE  v \in Seq(Nat) /\ Len(v) = Len(s)
    BY <2>1, <2>2
  <2>3. shares(s) \in Seq(Nat) /\ Len(shares(s)) = Len(s)
    <3>1. \A i \in 1 .. Len(s) : shares(s)[i] \in Nat
      BY <1>4, <2>1
    <3> QED BY <2>1, <2>2, <3>1
  <2>4. usd(s) \in Seq(Nat) /\ Len(usd(s)) = Len(s)
    <3>1. \A i \in 1 .. Len(s) : usd(s)[i] \in Nat
      BY <1>4, <2>1
    <3> QED BY <2>1, <2>2, <3>1
  <2>5. parts(s) \in Seq(Nat) /\ Len(parts(s)) = Len(s)
    <3>1. \A i \in 1 .. Len(s) : parts(s)[i] \in Nat
      BY <1>4, <2>1
    <3> QED BY <2>1, <2>2, <3>1
  <2>6. dollars(s) \in Seq(Nat) /\ Len(dollars(s)) = Len(s)
    <3>1. \A i \in 1 .. Len(s) : dollars(s)[i] \in Nat
      BY <1>4, <2>1
    <3> QED BY <2>1, <2>2, <3>1
  <2> QED BY <2>3, <2>4, <2>5, <2>6
<1>8. ASSUME NEW i \in 1 .. Len(d)
      PROVE  /\ shares(d)[i] <= shares(e)[i] /\ usd(d)[i] <= usd(e)[i]
             /\ parts(d)[i] <= parts(e)[i] /\ dollars(d)[i] <= dollars(e)[i]
  <2>1. i \in DOMAIN d /\ i \in DOMAIN e
    BY <1>3
  <2> QED BY <1>5, <2>1
<1> HIDE DEF shares, usd, parts, dollars
<1>9. /\ TotalOf(shares(d)) \in Nat /\ TotalOf(shares(e)) \in Nat
      /\ TotalOf(shares(d)) <= TotalOf(shares(e))
  BY <1>7, <1>8, TotalGrows
<1>10. TotalOf(usd(d)) \in Nat /\ TotalOf(usd(e)) \in Nat /\ TotalOf(usd(d)) <= TotalOf(usd(e))
  BY <1>7, <1>8, TotalGrows
<1>11. TotalOf(parts(d)) \in Nat /\ TotalOf(parts(e)) \in Nat /\ TotalOf(parts(d)) <= TotalOf(parts(e))
  BY <1>7, <1>8, TotalGrows
<1>12. /\ TotalOf(dollars(d)) \in Nat /\ TotalOf(dollars(e)) \in Nat
       /\ TotalOf(dollars(d)) <= TotalOf(dollars(e))
  BY <1>7, <1>8, TotalGrows
<1> QED BY <1>1, <1>9, <1>10, <1>11, <1>12

\* An evaluation leads to a block also when its exposure is greater.
LEMMA MoreFires ==
    ASSUME NEW e, NEW f, f.rule_id = e.rule_id, f.risk_score = e.risk_score,
           e.risk_score \in Int,
           e.matched_elements \in Seq(MatchedElement), f.matched_elements \in Seq(MatchedElement),
           Len(e.matched_elements) <= Len(f.matched_elements),
           \A i \in DOMAIN e.matched_elements : \A x \in DOMAIN e.matched_elements[i] :
               e.matched_elements[i][x] <= f.matched_elements[i][x],
           Fires(e)
    PROVE  Fires(f)
PROOF
<1> DEFINE total == aggregateElements(e.matched_elements)
           more == aggregateElements(f.matched_elements)
           rule == RULES[e.rule_id]
<1>1. /\ total.counterpartyPercentage \in Nat /\ more.counterpartyPercentage \in Nat
      /\ total.counterpartyPercentage <= more.counterpartyPercentage
      /\ total.counterpartyUsd \in Nat /\ more.counterpartyUsd \in Nat
      /\ total.counterpartyUsd <= more.counterpartyUsd
      /\ total.contributionPercentage \in Nat /\ more.contributionPercentage \in Nat
      /\ total.contributionPercentage <= more.contributionPercentage
      /\ total.contributionUsd \in Nat /\ more.contributionUsd \in Nat
      /\ total.contributionUsd <= more.contributionUsd
  BY AggregateGrows
<1>2. /\ e.rule_id \in DOMAIN RULES => shouldFilter(e.rule_id, total)
      /\ riskScore(e, total) > ALLOWED_RISK_EXPOSURE
  BY DEF Fires
<1>3. e.rule_id \in DOMAIN RULES =>
          /\ rule.contributionUsd \in Nat /\ rule.contributionPercentage \in Nat
          /\ rule.counterpartyUsd \in Nat /\ rule.counterpartyPercentage \in Nat
  BY DEF RULES, ONE_PERCENT
<1> HIDE DEF total, more, rule
<1>4. HardBlock(e.rule_id, total) => HardBlock(f.rule_id, more)
  BY <1>1 DEF HardBlock, hardBlockUsd
<1>5. e.rule_id \in DOMAIN RULES => shouldFilter(f.rule_id, more)
  <2> SUFFICES ASSUME e.rule_id \in DOMAIN RULES PROVE shouldFilter(f.rule_id, more)
    OBVIOUS
  <2>1. CASE HardBlock(e.rule_id, total)
    BY <1>4, <2>1 DEF shouldFilter
  <2>2. CASE /\ total.contributionUsd > rule.contributionUsd
             /\ total.contributionPercentage > rule.contributionPercentage
    <3>1. /\ more.contributionUsd > rule.contributionUsd
          /\ more.contributionPercentage > rule.contributionPercentage
      BY ONLY <1>1, <1>3, <2>2, e.rule_id \in DOMAIN RULES
    <3> QED BY <3>1 DEF shouldFilter, rule
  <2>3. CASE /\ total.counterpartyUsd > rule.counterpartyUsd
             /\ total.counterpartyPercentage > rule.counterpartyPercentage
    <3>1. /\ more.counterpartyUsd > rule.counterpartyUsd
          /\ more.counterpartyPercentage > rule.counterpartyPercentage
      BY ONLY <1>1, <1>3, <2>3, e.rule_id \in DOMAIN RULES
    <3> QED BY <3>1 DEF shouldFilter, rule
  <2> QED BY <1>2, <2>1, <2>2, <2>3 DEF shouldFilter, rule
<1>6. riskScore(f, more) > ALLOWED_RISK_EXPOSURE
  <2>1. CASE HardBlock(f.rule_id, more)
    BY <2>1 DEF riskScore, ALLOWED_RISK_EXPOSURE, ONE_PERCENT
  <2>2. CASE ~HardBlock(f.rule_id, more) /\ e.risk_score = NoScore
    <3>1. /\ riskScore(e, total) = total.contributionPercentage
          /\ riskScore(f, more) = more.contributionPercentage
      BY <1>4, <2>2 DEF riskScore
    <3> QED BY <1>1, <1>2, <3>1 DEF ALLOWED_RISK_EXPOSURE, ONE_PERCENT
  <2>3. CASE ~HardBlock(f.rule_id, more) /\ e.risk_score # NoScore
    BY <1>2, <1>4, <2>3 DEF riskScore
  <2> QED BY <2>1, <2>2, <2>3
<1> QED BY <1>5, <1>6 DEF Fires, more

\* An evaluation that reaches the hard limit of its rule leads to a block.
LEMMA HardLimitFires ==
    ASSUME NEW e, HardBlock(e.rule_id, aggregateElements(e.matched_elements))
    PROVE  Fires(e)
PROOF
BY DEF Fires, shouldFilter, riskScore, ALLOWED_RISK_EXPOSURE, ONE_PERCENT

\* What AllowedIsClean asks of a body that was scored.
CleanBody(body) ==
    /\ \A b \in BlockedBodies : ~Covers(body, b)
    /\ body.process_status = "complete" =>
          \A e \in ToSet(body.source) :
              e.rule_id \in HARD_BLOCK_RULES =>
                  TotalOf([i \in DOMAIN e.matched_elements |->
                              e.matched_elements[i].contribution_usd]) < hardBlockUsd

\* A body that does not block covers none that does, and is under the hard limit.
LEMMA UnblockedIsClean ==
    ASSUME NEW body \in Bodies, ~scoreResponse(body).blocked
    PROVE  CleanBody(body)
PROOF
<1>1. ASSUME NEW b \in BlockedBodies, Covers(body, b) PROVE FALSE
  <2>1. /\ b \in Bodies /\ scoreResponse(b).blocked
        /\ b.process_status = "complete" /\ body.process_status = "complete"
    BY <1>1 DEF BlockedBodies, Covers
  <2>2. PICK e \in Evaluated(b) : Fires(e)
    BY <2>1, BlocksIfFires
  <2>3. \E f \in Evaluated(body) : Fires(f)
    <3>1. CASE e \in ToSet(b.destination)
      BY <1>1, <2>2, <3>1 DEF Covers, Evaluated
    <3>2. CASE e \in ToSet(b.source)
      <4>1. PICK f \in ToSet(body.source) :
                /\ f.rule_id = e.rule_id /\ f.risk_score = e.risk_score
                /\ Len(e.matched_elements) <= Len(f.matched_elements)
                /\ \A i \in DOMAIN e.matched_elements :
                      \A x \in DOMAIN e.matched_elements[i] :
                          e.matched_elements[i][x] <= f.matched_elements[i][x]
        BY <1>1, <3>2 DEF Covers
      <4>2. /\ e.risk_score \in Int /\ e.matched_elements \in Seq(MatchedElement)
            /\ f.matched_elements \in Seq(MatchedElement)
        BY <2>1, <3>2, <4>1, EllipticProxyAssumption
      <4>3. Fires(f)
        BY <2>2, <4>1, <4>2, MoreFires
      <4> QED BY <4>1, <4>3 DEF Evaluated
    <3> QED BY <2>2, <3>1, <3>2 DEF Evaluated
  <2> QED BY <2>1, <2>3, BlocksIfFires
<1>2. ASSUME body.process_status = "complete", NEW e \in ToSet(body.source),
             e.rule_id \in HARD_BLOCK_RULES
      PROVE  TotalOf([i \in DOMAIN e.matched_elements |->
                         e.matched_elements[i].contribution_usd]) < hardBlockUsd
  <2> DEFINE total == TotalOf([i \in DOMAIN e.matched_elements |->
                                  e.matched_elements[i].contribution_usd])
  <2>1. aggregateElements(e.matched_elements).contributionUsd = total
    BY DEF aggregateElements
  <2>2. e.matched_elements \in Seq(MatchedElement)
    BY EllipticProxyAssumption
  <2>3. total \in Nat
    <3>1. \A m \in MatchedElement : \A x \in DOMAIN m : m[x] <= m[x]
      BY DEF MatchedElement
    <3>2. /\ Len(e.matched_elements) <= Len(e.matched_elements)
          /\ \A i \in DOMAIN e.matched_elements : e.matched_elements[i] \in MatchedElement
      BY <2>2
    <3> HIDE DEF total
    <3> QED BY <2>1, <2>2, <3>1, <3>2, AggregateGrows
  <2>4. ~Fires(e)
    BY <1>2, BlocksIfFires DEF Evaluated
  <2> HIDE DEF total
  <2>5. ~(total >= hardBlockUsd)
    BY <1>2, <2>1, <2>4, HardLimitFires DEF HardBlock
  <2>6. total < hardBlockUsd
    BY <2>3, <2>5 DEF hardBlockUsd
  <2> QED BY <2>6 DEF total
<1> QED BY <1>1, <1>2 DEF CleanBody

-----------------------------------------------------------------------------
(***************************************************************************)
(* What is signed.  Only a version that validates is in use; nothing is    *)
(* scored before Elliptic answers, and what was scored for an allow is     *)
(* clean.                                                                  *)
(***************************************************************************)
InUse(v) == v # None => validateConfig(Configs[v])

SignedRightly(call) ==
    /\ InUse(call.version)
    /\ call.pc # "done" => call.scored = {}
    /\ call.answer.verdict = "allowed" =>
          call.version # None /\ \A body \in call.scored : CleanBody(body)

CleanInv == InUse(loader.version) /\ \A c \in Call : SignedRightly(calls[c])

\* The handler's first part scores nothing.
LEMMA CleanHandled ==
    ASSUME ServiceTyped, CleanInv, NEW c \in Call, NEW v \in Version, InUse(v),
           calls[c].pc \in {"resuming", "fetching"}, handle(c, calls[c], v),
           InUse(loader.version)'
    PROVE  CleanInv'
PROOF
<1>1. /\ \A d \in Call : d # c => calls'[d] = calls[d]
      /\ calls'[c].version = v /\ calls'[c].scored = calls[c].scored
  BY HandleMoves DEF Moves
<1>2. calls[c].scored = {}
  BY DEF CleanInv, SignedRightly
<1>3. SignedRightly(calls'[c])
  BY <1>1, <1>2, VersionFacts DEF SignedRightly
<1> QED BY <1>1, <1>3 DEF CleanInv

\* Every step keeps what is said of what is signed.
LEMMA CleanKept ==
    ASSUME ServiceInv, CleanInv, [Next]_vars
    PROVE  CleanInv'
PROOF
<1>0. /\ ServiceTyped
      /\ \A c \in Call : Handled(calls[c]) /\ SignedRightly(calls[c])
      /\ InUse(loader.version)
  BY DEF ServiceInv, CleanInv
<1>1. ASSUME NEW c \in Call, NEW r \in Requests, receive(c, r) PROVE CleanInv'
  <2>1. loader' = loader
    BY <1>1 DEF receive
  <2>2. /\ calls'[c].scored = {} /\ calls'[c].answer = NoAnswer
        /\ calls'[c].version = IF Fresh THEN loader.version ELSE None
        /\ \A d \in Call : d # c => calls'[d] = calls[d]
    BY <1>0, <1>1, ReceivedFields
  <2>3. SignedRightly(calls'[c])
    BY <1>0, <2>2 DEF SignedRightly, InUse, NoAnswer
  <2> QED BY <1>0, <2>1, <2>2, <2>3 DEF CleanInv
<1>2. ASSUME NEW c \in Call, resume(c) PROVE CleanInv'
  <2>1. PICK v : v = calls[c].version
    OBVIOUS
  <2>2. v \in Version /\ handle(c, calls[c], v) /\ calls[c].pc = "resuming" /\ loader' = loader
    BY <1>0, <1>2, <2>1 DEF resume, Handled
  <2>3. InUse(v) /\ InUse(loader.version)'
    BY <1>0, <2>1, <2>2 DEF SignedRightly
  <2> QED BY <1>0, <2>2, <2>3, CleanHandled
<1>3. ASSUME NEW c \in Call, access_secret(c) PROVE CleanInv'
  <2>1. loader' = loader
    BY <1>3 DEF access_secret
  <2>2. /\ calls'[c].scored = calls[c].scored /\ calls'[c].answer = calls[c].answer
        /\ calls'[c].pc = calls[c].pc /\ calls'[c].version = calls[c].version
        /\ \A d \in Call : d # c => calls'[d] = calls[d]
    BY <1>0, <1>3, AccessFields
  <2>3. SignedRightly(calls'[c])
    BY <1>0, <2>2 DEF SignedRightly
  <2> QED BY <1>0, <2>1, <2>2, <2>3 DEF CleanInv
<1>4. ASSUME NEW c \in Call, config_loaded(c) PROVE CleanInv'
  <2>1. PICK v : v = calls[c].read
    OBVIOUS
  <2>2. /\ v \in Version /\ handle(c, calls[c], v) /\ calls[c].pc = "fetching"
        /\ validateConfig(Configs[v]) /\ loader' = [version |-> v, cachedAt |-> now]
    BY <1>0, <1>4, <2>1 DEF config_loaded, ServiceTyped, CallRecord
  <2>3. InUse(v) /\ InUse(loader.version)'
    BY <2>2 DEF InUse
  <2> QED BY <1>0, <2>2, <2>3, CleanHandled
<1>5. ASSUME NEW c \in Call, config_load_failed(c) \/ elliptic_unreachable(c) PROVE CleanInv'
  <2>1. loader' = loader
    BY <1>5 DEF config_load_failed, elliptic_unreachable
  <2>2. /\ \A d \in Call : d # c => calls'[d] = calls[d]
        /\ \E status \in {503, 504} : EndedWith(calls'[c], calls[c], Failure(status))
    BY <1>0, <1>5, FailureMoves DEF Moves
  <2>3. /\ calls'[c].version = calls[c].version /\ calls'[c].pc = "done"
        /\ calls'[c].answer.verdict = "error"
    BY <2>2 DEF EndedWith, Failure
  <2>4. SignedRightly(calls'[c])
    BY <1>0, <2>3 DEF SignedRightly
  <2> QED BY <1>0, <2>1, <2>2, <2>4 DEF CleanInv
<1>6. ASSUME NEW c \in Call, elliptic_answered(c) PROVE CleanInv'
  <2>1. loader' = loader /\ calls[c].pc = "forwarding"
    BY <1>6 DEF elliptic_answered
  <2>2. /\ \A d \in Call : d # c => calls'[d] = calls[d]
        /\ Judged(c, calls'[c])
    BY <1>0, <1>6, AnswerMoves DEF Moves
  <2>3. calls[c].version # None /\ calls[c].scored = {}
    BY <1>0, <2>1, VersionFacts DEF Handled, SignedRightly
  <2>4. /\ calls'[c].version = calls[c].version /\ calls'[c].pc = "done"
        /\ calls'[c].answer.verdict = "allowed" =>
              \/ calls'[c].scored = {}
              \/ \E body \in Bodies : calls'[c].scored = {body} /\ ~scoreResponse(body).blocked
    BY <2>2, <2>3 DEF Judged, EndedWith
  <2>5. calls'[c].answer.verdict = "allowed" => \A body \in calls'[c].scored : CleanBody(body)
    BY <2>4, UnblockedIsClean
  <2>6. SignedRightly(calls'[c])
    BY <1>0, <2>3, <2>4, <2>5 DEF SignedRightly
  <2> QED BY <1>0, <2>1, <2>2, <2>6 DEF CleanInv
<1>7. CASE rotate \/ tick \/ UNCHANGED vars
  <2>1. calls' = calls /\ loader' = loader
    BY <1>7 DEF rotate, tick, vars
  <2> QED BY <1>0, <2>1 DEF CleanInv
<1> QED BY <1>1, <1>2, <1>3, <1>4, <1>5, <1>6, <1>7 DEF Next

\* An allow is signed only under a configuration that validates, so never for the main
\* network under the mock, and over no answer of Elliptic whose exposure includes that of an
\* answer that blocks or that reaches the hard limit of its rule, whatever answers Elliptic
\* gives, with however many evaluations and elements (scoreResponse, validateConfig).
THEOREM AllowsAreClean == Spec => []AllowedIsClean
PROOF
<1>1. Init => CleanInv
  <2> SUFFICES ASSUME Init PROVE CleanInv
    OBVIOUS
  <2>1. loader.version = None /\ \A c \in Call : calls[c] = FreeCall
    BY DEF Init
  <2>2. FreeCall.version = None /\ FreeCall.scored = {} /\ FreeCall.answer = NoAnswer
    BY FreeCallFacts
  <2> QED BY <2>1, <2>2 DEF CleanInv, InUse, SignedRightly, NoAnswer
<1>2. ServiceInv /\ CleanInv /\ [Next]_vars => CleanInv'
  BY CleanKept
<1>3. CleanInv => AllowedIsClean
  <2> SUFFICES ASSUME CleanInv, NEW c \in Call, calls[c].answer.verdict = "allowed"
               PROVE  /\ ~(/\ Configs[calls[c].version].url = "mock"
                           /\ Configs[calls[c].version].chainId = "SN_MAIN")
                      /\ \A body \in calls[c].scored : CleanBody(body)
    BY Zenon DEF AllowedIsClean, CleanBody
  <2> QED BY DEF CleanInv, SignedRightly, InUse, validateConfig
<1> QED BY <1>1, <1>2, <1>3, ServiceHolds, PTL DEF Spec
=============================================================================
