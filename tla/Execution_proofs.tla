-------------------------- MODULE Execution_proofs --------------------------
(***************************************************************************)
(* A submission is proved once and in time, and a key that the gateway     *)
(* refused is forgotten: an inductive invariant of the dapp client's       *)
(* submissions, for every number of them, every number of retries, every   *)
(* delay and timeout, and every number of keys.                            *)
(***************************************************************************)
EXTENDS Execution, FiniteSetTheorems, TLAPS

-----------------------------------------------------------------------------
(***************************************************************************)
(* The inductive invariant.                                                *)
(***************************************************************************)
Fields == {"pc", "error", "mode", "actions", "approve", "quote", "typedData", "reg", "acts", "nonce",
           "signature", "attempt", "waited", "elapsed", "key", "abandoned", "output"}

Pcs == {"quoting", "loading", "compiling", "details", "nonce", "signing", "simulating", "mocking",
        "estimating", "calling", "keys", "proving", "sleeping", "saving", "sending"}

\* The time of n attempts and of the pause after each.
Spent(n) == n * RequestTimeout + Cardinality(Pauses(n))

\* The time a submission has used, by where it is.
InTime(r, transport) ==
    CASE r.pc = "proving" /\ transport = "plain" ->
             r.waited <= RequestTimeout /\ r.elapsed <= Spent(r.attempt) + r.waited
      [] r.pc = "sleeping" ->
             /\ r.attempt < MaxRetries
             /\ r.waited <= Delay(r.attempt) \/ r.waited = 0
             /\ r.elapsed <= Spent(r.attempt) + RequestTimeout + r.waited
      [] r.pc \in {"saving", "sending"} -> r.elapsed <= Spent(r.attempt) + RequestTimeout
      [] OTHER -> r.elapsed <= Spent(r.attempt)

\* A submission under way.
Active(r, transport, key) ==
    /\ DOMAIN r = Fields /\ r = [f \in Fields |-> r[f]]
    /\ r.pc \in Pcs /\ r.error = "none" /\ r.abandoned = FALSE
    /\ r.attempt \in 0 .. MaxRetries /\ r.waited \in Nat /\ r.elapsed \in Nat
    /\ r.pc = "keys" => transport = "ohttp"
    /\ r.pc \in {"keys", "proving"} /\ transport = "ohttp" => r.key \in 1 .. key
    /\ InTime(r, transport)

\* One that has not begun or is over: it keeps a key only if the gateway refused it.
Over(r, key) ==
    /\ r.pc \in Ended
    /\ r.pc = "idle" => r.error = "none"
    /\ "key" \in DOMAIN r => r.key \in 1 .. key

SubOK(r, transport, key) == Over(r, key) \/ Active(r, transport, key)

\* A client for a key that the gateway no longer has, after it refused one: the
\* request that brought it back is still under way, or the relay lost it.
Traced(s) == sub[s].error = "relay" \/ (At(s, "proving") /\ sub[s].key # gateway)

StaleTraced ==
    /\ ~config.pinned /\ ~(ohttp \subseteq {gateway})
    /\ \E s \in Subs : Refused(s) /\ sub[s].key = gateway
    => \E t \in Subs : Traced(t)

ExecInv ==
    /\ sub = [s \in Subs |-> sub[s]]
    /\ gateway \in Nat \ {0}
    /\ ohttp = {} \/ \E k \in 1 .. gateway : ohttp = {k}
    /\ config.transport # "ohttp" => ohttp = {}
    /\ \A s \in Subs : SubOK(sub[s], config.transport, gateway)
    /\ StaleTraced

-----------------------------------------------------------------------------
(***************************************************************************)
(* Time.                                                                   *)
(***************************************************************************)

\* The delay before a retry never exceeds the longest one.
LEMMA DelayType ==
    ASSUME NEW n \in Nat
    PROVE  Delay(n) \in Int /\ Delay(n) <= MaxBackoff
PROOF
<1>1. BaseDelay \in Nat /\ MaxBackoff \in Nat
  BY ExecutionBounds
<1>2. 2 ^ n \in Int
  OBVIOUS
<1> DEFINE x == BaseDelay * 2 ^ n
<1>3. x \in Int
  <2> DEFINE p == 2 ^ n
  <2>1. p \in Int
    BY <1>2
  <2> HIDE DEF p
  <2>2. BaseDelay * p \in Int
    BY <1>1, <2>1
  <2> QED BY <2>2 DEF p
<1> HIDE DEF x
<1>4. Min({x, MaxBackoff}) \in Int /\ Min({x, MaxBackoff}) <= MaxBackoff
  BY <1>1, <1>3 DEF Min
<1> QED BY <1>4 DEF Delay, x

\* Finitely many pauses take a finite time.
LEMMA PausesFinite ==
    ASSUME NEW n \in Nat
    PROVE  IsFiniteSet(Pauses(n)) /\ Cardinality(Pauses(n)) \in Nat
PROOF
<1> DEFINE m == n - 1
<1>1. m \in Int /\ MaxBackoff \in Nat
  BY ExecutionBounds
<1> HIDE DEF m
<1>2. IsFiniteSet(0 .. m) /\ IsFiniteSet(1 .. MaxBackoff)
  BY <1>1, FS_Interval
<1>3. IsFiniteSet((0 .. m) \X (1 .. MaxBackoff))
  BY <1>2, FS_Product
<1>4. IsFiniteSet(Pauses(n))
  BY <1>3, FS_Subset DEF Pauses, m
<1> QED BY <1>4, FS_CardinalityType

\* One more pause.
LEMMA PausesNext ==
    ASSUME NEW n \in Nat, Delay(n) \in Nat
    PROVE  Cardinality(Pauses(n + 1)) = Cardinality(Pauses(n)) + Delay(n)
PROOF
<1> DEFINE c == Delay(n)
           S == {n}
           A == 1 .. c
<1>1. c \in Nat /\ c <= MaxBackoff /\ MaxBackoff \in Nat
  BY DelayType, ExecutionBounds
<1>2. IsFiniteSet(S) /\ Cardinality(S) = 1
  BY FS_Singleton
<1>3. IsFiniteSet(A) /\ Cardinality(A) = c
  <2> HIDE DEF c
  <2>1. 1 \in Int /\ c \in Int
    BY <1>1
  <2>2. IsFiniteSet(1 .. c) /\ Cardinality(1 .. c) = IF 1 > c THEN 0 ELSE c - 1 + 1
    BY <2>1, FS_Interval
  <2> QED BY <1>1, <2>2
<1>4. IsFiniteSet(S \X A) /\ Cardinality(S \X A) = c
  <2> HIDE DEF S, A, c
  <2>1. IsFiniteSet(S \X A) /\ Cardinality(S \X A) = Cardinality(S) * Cardinality(A)
    BY <1>2, <1>3, FS_Product
  <2> QED BY <1>1, <1>2, <1>3, <2>1
<1>5. Pauses(n + 1) = Pauses(n) \cup (S \X A)
  <2>1. ASSUME NEW p \in Pauses(n + 1) PROVE p \in Pauses(n) \cup (S \X A)
    <3>1. /\ p = <<p[1], p[2]>> /\ p[1] \in 0 .. n + 1 - 1 /\ p[2] \in 1 .. MaxBackoff
          /\ p[2] <= Delay(p[1])
      BY DEF Pauses
    <3>2. CASE p[1] = n
      BY <1>1, <3>1, <3>2
    <3>3. CASE p[1] # n
      <4>1. p[1] \in 0 .. n - 1
        BY <3>1, <3>3
      <4> QED BY <3>1, <4>1 DEF Pauses
    <3> QED BY <3>2, <3>3
  <2>2. ASSUME NEW p \in Pauses(n) PROVE p \in Pauses(n + 1)
    <3>1. /\ p = <<p[1], p[2]>> /\ p[1] \in 0 .. n - 1 /\ p[2] \in 1 .. MaxBackoff
          /\ p[2] <= Delay(p[1])
      BY DEF Pauses
    <3>2. p[1] \in 0 .. n + 1 - 1
      BY <3>1
    <3> QED BY <3>1, <3>2 DEF Pauses
  <2>3. ASSUME NEW p \in S \X A PROVE p \in Pauses(n + 1)
    <3>1. p = <<p[1], p[2]>> /\ p[1] = n /\ p[2] \in 1 .. c
      OBVIOUS
    <3>2. p[1] \in 0 .. n + 1 - 1 /\ p[2] \in 1 .. MaxBackoff /\ p[2] <= c
      <4> HIDE DEF c
      <4> QED BY <1>1, <3>1
    <3> QED BY <3>1, <3>2 DEF Pauses
  <2> QED BY <2>1, <2>2, <2>3
<1>6. Pauses(n) \cap (S \X A) = {}
  <2>1. ASSUME NEW p \in Pauses(n) PROVE p[1] # n
    BY DEF Pauses
  <2> QED BY <2>1
<1>7. IsFiniteSet(Pauses(n)) /\ Cardinality(Pauses(n)) \in Nat
  BY PausesFinite
<1> HIDE DEF S, A, c
<1>8. Cardinality(Pauses(n) \cup (S \X A)) =
      Cardinality(Pauses(n)) + Cardinality(S \X A) - Cardinality(Pauses(n) \cap (S \X A))
  BY <1>4, <1>7, FS_Union
<1>9. Cardinality({}) = 0
  BY FS_EmptySet
<1>10. Cardinality(Pauses(n + 1)) = Cardinality(Pauses(n)) + c
  <2>1. Cardinality(Pauses(n) \cap (S \X A)) = 0
    BY <1>6, <1>9, Zenon
  <2>2. Cardinality(Pauses(n + 1)) = Cardinality(Pauses(n) \cup (S \X A))
    BY <1>5, Zenon
  <2>3. Cardinality(Pauses(n + 1)) = Cardinality(Pauses(n)) + c - 0
    BY <1>4, <1>8, <2>1, <2>2, Zenon
  <2> QED BY <1>1, <1>7, <2>3
<1> QED BY <1>10 DEF c

\* The time of the first attempts is a natural number, and one more fits the budget.
LEMMA SpentFacts ==
    ASSUME NEW n \in 0 .. MaxRetries
    PROVE  Spent(n) \in Nat /\ Spent(n) + RequestTimeout <= ProveBudget
PROOF
<1> DEFINE a == Cardinality(Pauses(n))
           b == Cardinality(Pauses(MaxRetries))
<1>1. MaxRetries \in Nat /\ RequestTimeout \in Nat /\ n \in Nat /\ n <= MaxRetries
  BY ExecutionBounds
<1>2. a \in Nat /\ b \in Nat /\ IsFiniteSet(Pauses(MaxRetries))
  BY <1>1, PausesFinite
<1>3. Pauses(n) \subseteq Pauses(MaxRetries)
  <2>1. 0 .. n - 1 \subseteq 0 .. MaxRetries - 1
    BY <1>1
  <2> QED BY <2>1 DEF Pauses
<1>4. a <= b
  BY <1>2, <1>3, FS_Subset
<1>5. n * RequestTimeout \in Nat /\ n * RequestTimeout + RequestTimeout <= (MaxRetries + 1) * RequestTimeout
  <2> DEFINE d == MaxRetries - n
  <2>1. d \in Nat /\ MaxRetries = n + d
    BY <1>1
  <2> HIDE DEF d
  <2>2. d * RequestTimeout \in Nat /\ n * RequestTimeout \in Nat
    BY <1>1, <2>1
  <2>3. (MaxRetries + 1) * RequestTimeout = n * RequestTimeout + d * RequestTimeout + RequestTimeout
    BY <1>1, <2>1
  <2> QED BY <1>1, <2>2, <2>3
<1> HIDE DEF a, b
<1>6. /\ n * RequestTimeout + a \in Nat
      /\ n * RequestTimeout + a + RequestTimeout <= (MaxRetries + 1) * RequestTimeout + b
  <2> DEFINE x == n * RequestTimeout
             y == (MaxRetries + 1) * RequestTimeout
  <2>1. x \in Nat /\ y \in Int /\ x + RequestTimeout <= y
    BY <1>1, <1>5
  <2> HIDE DEF x, y
  <2>2. x + a \in Nat /\ x + a + RequestTimeout <= y + b
    BY <1>1, <1>2, <1>4, <2>1
  <2> QED BY <2>2 DEF x, y
<1> QED BY <1>6 DEF Spent, ProveBudget, a, b

\* After a pause the next attempt begins with its time.
LEMMA SpentNext ==
    ASSUME NEW n \in 0 .. MaxRetries, n < MaxRetries, Delay(n) \in Nat
    PROVE  n + 1 \in 0 .. MaxRetries /\ Spent(n + 1) = Spent(n) + RequestTimeout + Delay(n)
PROOF
<1>1. MaxRetries \in Nat /\ RequestTimeout \in Nat /\ n \in Nat
  BY ExecutionBounds
<1> DEFINE a == Cardinality(Pauses(n))
           d == Delay(n)
<1>2. a \in Nat /\ d \in Nat /\ Cardinality(Pauses(n + 1)) = a + d
  BY <1>1, PausesFinite, PausesNext
<1> HIDE DEF a, d
<1>3. (n + 1) * RequestTimeout = n * RequestTimeout + RequestTimeout /\ n * RequestTimeout \in Nat
  BY <1>1
<1>4. (n + 1) * RequestTimeout + (a + d) = n * RequestTimeout + a + RequestTimeout + d
  <2> DEFINE x == n * RequestTimeout
  <2>1. x \in Nat
    BY <1>3
  <2> HIDE DEF x
  <2>2. (x + RequestTimeout) + (a + d) = x + a + RequestTimeout + d
    BY <1>1, <1>2, <2>1
  <2> QED BY <1>3, <2>2 DEF x
<1> QED BY <1>1, <1>2, <1>4 DEF Spent, a, d

-----------------------------------------------------------------------------
(***************************************************************************)
(* A step of one submission.                                               *)
(***************************************************************************)

\* A submission that is under way is an active one.
LEMMA UnderWay ==
    ASSUME ExecInv, NEW s \in Subs, sub[s].pc \in Pcs
    PROVE  /\ Active(sub[s], config.transport, gateway)
           /\ sub[s].error = "none" /\ ~Refused(s)
PROOF
<1>1. SubOK(sub[s], config.transport, gateway)
  BY DEF ExecInv
<1>2. sub[s].pc \notin Ended
  BY DEF Pcs, Ended
<1>3. Active(sub[s], config.transport, gateway)
  BY <1>1, <1>2 DEF SubOK, Over
<1> QED BY <1>2, <1>3 DEF Active, Refused, At, Ended

\* One submission moves, and nothing else that the invariant is about.
LEMMA Moved ==
    ASSUME ExecInv, NEW s \in Subs, NEW q, sub' = [sub EXCEPT ![s] = q],
           SubOK(q, config.transport, gateway), sub[s].error = "none",
           "key" \in DOMAIN q => q.pc # "failed",
           config.transport = "ohttp" /\ At(s, "proving") /\ sub[s].key # gateway =>
               q.error = "relay" \/ (q.pc = "proving" /\ q.key # gateway),
           config' = config, ohttp' = ohttp, gateway' = gateway
    PROVE  ExecInv'
PROOF
<1>1. sub' = [t \in Subs |-> IF t = s THEN q ELSE sub[t]]
  BY DEF ExecInv
<1>2. sub' = [t \in Subs |-> sub'[t]] /\ sub'[s] = q /\ \A t \in Subs : t # s => sub'[t] = sub[t]
  BY <1>1
<1>3. \A t \in Subs : SubOK(sub'[t], config.transport, gateway)
  <2>1. ASSUME NEW t \in Subs PROVE SubOK(sub'[t], config.transport, gateway)
    <3>1. CASE t = s
      BY <1>2, <3>1
    <3>2. CASE t # s
      BY <1>2, <3>2 DEF ExecInv
    <3> QED BY <3>1, <3>2
  <2> QED BY <2>1
<1>4. StaleTraced'
  <2> SUFFICES ASSUME ~config.pinned, ~(ohttp \subseteq {gateway}),
                      NEW u \in Subs, Refused(u)', sub'[u].key = gateway
               PROVE  \E t \in Subs : Traced(t)'
    BY DEF StaleTraced
  <2>1. u # s
    BY <1>2 DEF Refused, At
  <2>2. Refused(u) /\ sub[u].key = gateway
    BY <1>2, <2>1 DEF Refused, At
  <2>3. PICK t \in Subs : Traced(t)
    BY <2>2 DEF ExecInv, StaleTraced
  <2>4. CASE t # s
    <3>1. Traced(t)'
      BY <1>2, <2>3, <2>4 DEF Traced, At
    <3> QED BY <3>1
  <2>5. CASE t = s
    <3>1. config.transport = "ohttp"
      BY DEF ExecInv
    <3>2. At(s, "proving") /\ sub[s].key # gateway
      BY <2>3, <2>5 DEF Traced
    <3>3. Traced(s)'
      BY <1>2, <3>1, <3>2 DEF Traced, At
    <3> QED BY <3>3
  <2> QED BY <2>4, <2>5
<1> QED BY <1>2, <1>3, <1>4 DEF ExecInv

\* A submission fails.
LEMMA Fails ==
    ASSUME ExecInv, NEW s \in Subs, NEW why, fail(s, why), sub[s].pc \in Pcs,
           config.transport = "ohttp" /\ At(s, "proving") /\ sub[s].key # gateway => why = "relay",
           config' = config, ohttp' = ohttp, gateway' = gateway
    PROVE  ExecInv'
PROOF
<1> DEFINE q == [pc |-> "failed", error |-> why]
<1>1. sub' = [sub EXCEPT ![s] = q]
  BY DEF fail
<1>2. q.pc = "failed" /\ q.error = why /\ "key" \notin DOMAIN q
  OBVIOUS
<1> HIDE DEF q
<1>3. SubOK(q, config.transport, gateway)
  BY <1>2 DEF SubOK, Over, Ended
<1> QED BY <1>1, <1>2, <1>3, UnderWay, Moved

\* The tracked fields of a submission stay as they are.
Tracked(q, r) ==
    /\ DOMAIN q = Fields /\ q = [f \in Fields |-> q[f]]
    /\ q.error = r.error /\ q.abandoned = r.abandoned /\ q.attempt = r.attempt
    /\ q.waited = r.waited /\ q.elapsed = r.elapsed

\* Where no time is kept.
Untimed == Pcs \ {"proving", "sleeping", "saving", "sending"}

\* A step between two places where no time is kept.
LEMMA Goes ==
    ASSUME NEW r, NEW q, NEW transport, NEW key, Active(r, transport, key), Tracked(q, r),
           r.pc \in Untimed, q.pc \in Untimed \ {"keys"}
    PROVE  Active(q, transport, key)
PROOF
<1>1. r.pc # "proving" /\ r.pc # "sleeping" /\ r.pc \notin {"saving", "sending"}
      /\ q.pc # "proving" /\ q.pc # "sleeping" /\ q.pc \notin {"saving", "sending"} /\ q.pc # "keys"
  BY DEF Untimed
<1>2. r.elapsed <= Spent(r.attempt)
  BY <1>1 DEF Active, InTime
<1>3. InTime(q, transport)
  BY <1>1, <1>2 DEF InTime, Tracked
<1> QED BY <1>1, <1>3 DEF Active, Tracked, Untimed

\* The same, as a step of the client.
LEMMA GoesOn ==
    ASSUME ExecInv, NEW s \in Subs, NEW q, sub' = [sub EXCEPT ![s] = q],
           sub[s].pc \in Untimed, Tracked(q, sub[s]), q.pc \in Untimed \ {"keys"},
           config' = config, ohttp' = ohttp, gateway' = gateway
    PROVE  ExecInv'
PROOF
<1>1. sub[s].pc \in Pcs /\ sub[s].pc # "proving" /\ q.pc # "failed"
  BY DEF Untimed, Pcs
<1>2. Active(sub[s], config.transport, gateway) /\ sub[s].error = "none"
  BY <1>1, UnderWay
<1>3. SubOK(q, config.transport, gateway)
  BY <1>2, Goes DEF SubOK
<1> QED BY <1>1, <1>2, <1>3, Moved DEF At

-----------------------------------------------------------------------------
(***************************************************************************)
(* Up to the first attempt.                                                *)
(***************************************************************************)

\* A submission begins.
LEMMA SubmitKeeps ==
    ASSUME ExecInv, NEW s \in Subs, NEW program, NEW mode, submit(s, program, mode)
    PROVE  ExecInv'
PROOF
<1> DEFINE b == Build(program)
           q == [pc |-> IF mode = "combined" THEN "quoting" ELSE "loading", error |-> "none",
                 mode |-> mode, actions |-> b.actions, approve |-> approveCalls(b.actions),
                 quote |-> {}, typedData |-> {}, reg |-> stored, acts |-> {}, nonce |-> 0,
                 signature |-> {}, attempt |-> 0, waited |-> 0, elapsed |-> 0, key |-> 0,
                 abandoned |-> FALSE, output |-> TRUE]
<1>1. sub[s].pc = "idle" /\ sub' = [sub EXCEPT ![s] = q]
      /\ config' = config /\ ohttp' = ohttp /\ gateway' = gateway
  BY DEF submit, At, clientVars, worldVars
<1>2. /\ DOMAIN q = Fields /\ q = [f \in Fields |-> q[f]]
      /\ q.pc \in {"quoting", "loading"} /\ q.error = "none" /\ q.abandoned = FALSE
      /\ q.attempt = 0 /\ q.waited = 0 /\ q.elapsed = 0
  BY DEF Fields
<1> HIDE DEF q
<1>3. sub[s].error = "none"
  <2>1. sub[s].pc \notin Pcs
    BY <1>1 DEF Pcs
  <2> QED BY <1>1, <2>1 DEF ExecInv, SubOK, Over, Active
<1>4. 0 \in 0 .. MaxRetries /\ 0 <= Spent(0)
  <2>1. 0 \in 0 .. MaxRetries
    BY ExecutionBounds
  <2> QED BY <2>1, SpentFacts
<1>5. Active(q, config.transport, gateway)
  <2>1. InTime(q, config.transport)
    BY <1>2, <1>4 DEF InTime
  <2> QED BY <1>2, <1>4, <2>1 DEF Active, Pcs
<1> QED BY <1>1, <1>2, <1>3, <1>5, Moved DEF SubOK, At

\* The paymaster answers, the registry is loaded.
LEMMA QuoteKeeps ==
    ASSUME ExecInv, NEW s \in Subs, buildTransaction(s) \/ loadRegistry(s)
    PROVE  ExecInv'
PROOF
<1>1. /\ sub[s].pc \in {"quoting", "loading"}
      /\ config' = config /\ ohttp' = ohttp /\ gateway' = gateway
  BY DEF buildTransaction, loadRegistry, At, clientVars, worldVars
<1>2. sub[s].pc \in Untimed /\ sub[s].pc \in Pcs /\ sub[s].pc # "proving"
  BY <1>1 DEF Untimed, Pcs
<1>3. DOMAIN sub[s] = Fields /\ sub[s] = [f \in Fields |-> sub[s][f]]
  BY <1>2, UnderWay DEF Active
<1>4. CASE fail(s, "paymaster")
  BY <1>1, <1>2, <1>4, Fails DEF At
<1>5. CASE \E a, b, c : sub' = [sub EXCEPT ![s].pc = "loading", ![s].quote = a,
                                           ![s].actions = b, ![s].typedData = c]
  <2>1. PICK a, b, c : sub' = [sub EXCEPT ![s].pc = "loading", ![s].quote = a,
                                          ![s].actions = b, ![s].typedData = c]
    BY <1>5
  <2> DEFINE q == [sub[s] EXCEPT !.pc = "loading", !.quote = a, !.actions = b, !.typedData = c]
  <2>2. sub' = [sub EXCEPT ![s] = q]
    BY <2>1 DEF ExecInv
  <2>3. Tracked(q, sub[s]) /\ q.pc = "loading"
    BY <1>3 DEF Tracked, Fields
  <2> HIDE DEF q
  <2> QED BY <1>1, <1>2, <2>2, <2>3, GoesOn DEF Untimed, Pcs
<1>6. CASE loadRegistry(s)
  <2> DEFINE q == [sub[s] EXCEPT !.pc = "compiling", !.reg = stored]
  <2>1. sub' = [sub EXCEPT ![s] = q]
    BY <1>6 DEF loadRegistry, ExecInv
  <2>2. Tracked(q, sub[s]) /\ q.pc = "compiling"
    BY <1>3 DEF Tracked, Fields
  <2> HIDE DEF q
  <2> QED BY <1>1, <1>2, <2>1, <2>2, GoesOn DEF Untimed, Pcs
<1>7. buildTransaction(s) =>
        \/ fail(s, "paymaster")
        \/ \E a, b, c : sub' = [sub EXCEPT ![s].pc = "loading", ![s].quote = a,
                                           ![s].actions = b, ![s].typedData = c]
  BY ZenonT(40) DEF buildTransaction
<1> QED BY <1>4, <1>5, <1>6, <1>7

\* The actions are compiled, or refused.
LEMMA CompileKeeps ==
    ASSUME ExecInv, NEW s \in Subs, compileActions(s)
    PROVE  ExecInv'
PROOF
<1>1. sub[s].pc = "compiling" /\ config' = config /\ ohttp' = ohttp /\ gateway' = gateway
  BY DEF compileActions, At, clientVars, worldVars
<1>2. sub[s].pc \in Untimed /\ sub[s].pc \in Pcs /\ sub[s].pc # "proving"
  BY <1>1 DEF Untimed, Pcs
<1>3. DOMAIN sub[s] = Fields /\ sub[s] = [f \in Fields |-> sub[s][f]]
  BY <1>2, UnderWay DEF Active
<1>4. \/ \E why : fail(s, why)
      \/ \E a, b : sub' = [sub EXCEPT ![s].pc = "details", ![s].reg = a, ![s].acts = b]
  BY DEF compileActions
<1>5. CASE \E why : fail(s, why)
  BY <1>1, <1>2, <1>5, Fails DEF At
<1>6. CASE \E a, b : sub' = [sub EXCEPT ![s].pc = "details", ![s].reg = a, ![s].acts = b]
  <2>1. PICK a, b : sub' = [sub EXCEPT ![s].pc = "details", ![s].reg = a, ![s].acts = b]
    BY <1>6
  <2> DEFINE q == [sub[s] EXCEPT !.pc = "details", !.reg = a, !.acts = b]
  <2>2. sub' = [sub EXCEPT ![s] = q]
    BY <2>1 DEF ExecInv
  <2>3. Tracked(q, sub[s]) /\ q.pc = "details"
    BY <1>3 DEF Tracked, Fields
  <2> HIDE DEF q
  <2> QED BY <1>1, <1>2, <2>2, <2>3, GoesOn DEF Untimed, Pcs
<1> QED BY <1>4, <1>5, <1>6, ZenonT(40)

\* A step that only goes to another place.
LEMMA GoKeeps ==
    ASSUME ExecInv, NEW s \in Subs, NEW pc, Go(s, pc),
           sub[s].pc \in Untimed, pc \in Untimed \ {"keys"},
           config' = config, ohttp' = ohttp, gateway' = gateway
    PROVE  ExecInv'
PROOF
<1>1. sub[s].pc \in Pcs
  BY DEF Untimed
<1>2. DOMAIN sub[s] = Fields /\ sub[s] = [f \in Fields |-> sub[s][f]]
  BY <1>1, UnderWay DEF Active
<1> DEFINE q == [sub[s] EXCEPT !.pc = pc]
<1>3. sub' = [sub EXCEPT ![s] = q]
  BY DEF Go, ExecInv
<1>4. Tracked(q, sub[s]) /\ q.pc = pc
  BY <1>2 DEF Tracked, Fields
<1> HIDE DEF q
<1> QED BY <1>3, <1>4, GoesOn

\* The nonce is found, or asked for.
LEMMA NonceKeeps ==
    ASSUME ExecInv, NEW s \in Subs, getDefaultDetails(s) \/ nonceAnswered(s)
    PROVE  ExecInv'
PROOF
<1>1. /\ sub[s].pc \in {"details", "nonce"}
      /\ config' = config /\ ohttp' = ohttp /\ gateway' = gateway
  BY DEF getDefaultDetails, nonceAnswered, At, worldVars
<1>2. sub[s].pc \in Untimed /\ sub[s].pc \in Pcs /\ sub[s].pc # "proving"
  BY <1>1 DEF Untimed, Pcs
<1>3. DOMAIN sub[s] = Fields /\ sub[s] = [f \in Fields |-> sub[s][f]]
  BY <1>2, UnderWay DEF Active
<1>4. CASE Go(s, "signing")
  BY <1>1, <1>2, <1>4, GoKeeps DEF Untimed, Pcs
<1>5. CASE fail(s, "node")
  BY <1>1, <1>2, <1>5, Fails DEF At
<1>6. ASSUME NEW pc \in {"signing", "nonce"}, NEW n, sub' = [sub EXCEPT ![s].pc = pc, ![s].nonce = n]
      PROVE  ExecInv'
  <2> DEFINE q == [sub[s] EXCEPT !.pc = pc, !.nonce = n]
  <2>1. sub' = [sub EXCEPT ![s] = q]
    BY <1>6 DEF ExecInv
  <2>2. Tracked(q, sub[s]) /\ q.pc = pc
    BY <1>3 DEF Tracked, Fields
  <2> HIDE DEF q
  <2> QED BY <1>1, <1>2, <2>1, <2>2, GoesOn DEF Untimed, Pcs
<1>7. \/ Go(s, "signing") \/ fail(s, "node")
      \/ \E n : sub' = [sub EXCEPT ![s].pc = "signing", ![s].nonce = n]
      \/ \E n : sub' = [sub EXCEPT ![s].pc = "nonce", ![s].nonce = n]
  BY DEF getDefaultDetails, nonceAnswered
<1> QED BY <1>4, <1>5, <1>6, <1>7

\* The call is signed, or proved with calls to the node only.
LEMMA SignKeeps ==
    ASSUME ExecInv, NEW s \in Subs,
           create(s) \/ simulate(s) \/ mockProve(s) \/ estimateInvokeFee(s)
    PROVE  ExecInv'
PROOF
<1>1. /\ sub[s].pc \in {"signing", "simulating", "mocking", "estimating"}
      /\ config' = config /\ ohttp' = ohttp /\ gateway' = gateway
  BY DEF create, simulate, mockProve, estimateInvokeFee, At, clientVars, worldVars
<1>2. sub[s].pc \in Untimed /\ sub[s].pc \in Pcs /\ sub[s].pc # "proving"
  BY <1>1 DEF Untimed, Pcs
<1>3. DOMAIN sub[s] = Fields /\ sub[s] = [f \in Fields |-> sub[s][f]]
  BY <1>2, UnderWay DEF Active
<1>4. ASSUME NEW why, fail(s, why) PROVE ExecInv'
  BY <1>1, <1>2, <1>4, Fails DEF At
<1>5. ASSUME NEW pc \in {"mocking", "estimating"}, Go(s, pc) PROVE ExecInv'
  BY <1>1, <1>2, <1>5, GoKeeps DEF Untimed, Pcs
<1>6. ASSUME NEW pc \in {"simulating", "calling"}, NEW g,
             sub' = [sub EXCEPT ![s].signature = g, ![s].pc = pc]
      PROVE  ExecInv'
  <2> DEFINE q == [sub[s] EXCEPT !.signature = g, !.pc = pc]
  <2>1. sub' = [sub EXCEPT ![s] = q]
    BY <1>6 DEF ExecInv
  <2>2. Tracked(q, sub[s]) /\ q.pc = pc
    BY <1>3 DEF Tracked, Fields
  <2> HIDE DEF q
  <2> QED BY <1>1, <1>2, <2>1, <2>2, GoesOn DEF Untimed, Pcs
<1>7. \/ \E why : fail(s, why)
      \/ Go(s, "mocking") \/ Go(s, "estimating")
      \/ \E g : sub' = [sub EXCEPT ![s].signature = g, ![s].pc = "simulating"]
      \/ \E g : sub' = [sub EXCEPT ![s].signature = g, ![s].pc = "calling"]
  BY DEF create, simulate, mockProve, estimateInvokeFee
<1> QED BY <1>4, <1>5, <1>6, <1>7

-----------------------------------------------------------------------------
(***************************************************************************)
(* The attempts, and the client of the gateway.                            *)
(***************************************************************************)

\* A submission goes to the prover with the client for its own key.
LEMMA Connected ==
    ASSUME ExecInv, NEW s \in Subs, NEW q, sub' = [sub EXCEPT ![s] = q],
           NEW k \in 1 .. gateway, ohttp' = {k}, q.key = k, q.pc = "proving",
           Active(q, config.transport, gateway), config.transport = "ohttp",
           config' = config, gateway' = gateway
    PROVE  ExecInv'
PROOF
<1>1. sub' = [t \in Subs |-> IF t = s THEN q ELSE sub[t]]
  BY DEF ExecInv
<1>2. sub' = [t \in Subs |-> sub'[t]] /\ sub'[s] = q /\ \A t \in Subs : t # s => sub'[t] = sub[t]
  BY <1>1
<1>3. \A t \in Subs : SubOK(sub'[t], config.transport, gateway)
  <2>1. ASSUME NEW t \in Subs PROVE SubOK(sub'[t], config.transport, gateway)
    <3>1. CASE t = s
      BY <1>2, <3>1 DEF SubOK
    <3>2. CASE t # s
      BY <1>2, <3>2 DEF ExecInv
    <3> QED BY <3>1, <3>2
  <2> QED BY <2>1
<1>4. StaleTraced'
  <2>1. CASE k = gateway
    BY <2>1 DEF StaleTraced
  <2>2. CASE k # gateway
    <3>1. Traced(s)'
      BY <1>2, <2>2 DEF Traced, At
    <3> QED BY <3>1 DEF StaleTraced
  <2> QED BY <2>1, <2>2
<1> QED BY <1>2, <1>3, <1>4 DEF ExecInv

\* An attempt starts: over plain HTTP, with a client, or by asking for the key.
LEMMA CallKeeps ==
    ASSUME ExecInv, NEW s \in Subs, callOnce(s)
    PROVE  ExecInv'
PROOF
<1> DEFINE r == sub[s]
<1>1. r.pc = "calling" /\ config' = config /\ gateway' = gateway
  BY DEF callOnce, At, worldVars
<1>2. Active(r, config.transport, gateway) /\ r.error = "none"
  BY <1>1, UnderWay DEF Pcs
<1>3. /\ DOMAIN r = Fields /\ r = [f \in Fields |-> r[f]]
      /\ r.attempt \in 0 .. MaxRetries /\ r.waited \in Nat /\ r.elapsed \in Nat /\ r.abandoned = FALSE
      /\ r.elapsed <= Spent(r.attempt) /\ Spent(r.attempt) \in Nat
  BY <1>1, <1>2, SpentFacts DEF Active, InTime
<1>4. gateway \in Nat \ {0} /\ RequestTimeout \in Nat
  BY ExecutionBounds DEF ExecInv
<1>5. CASE /\ config.transport = "plain" /\ ohttp' = ohttp
           /\ sub' = [sub EXCEPT ![s].pc = "proving", ![s].waited = 0]
  <2> DEFINE q == [sub[s] EXCEPT !.pc = "proving", !.waited = 0]
  <2>1. sub' = [sub EXCEPT ![s] = q]
    BY <1>5 DEF ExecInv
  <2>2. /\ DOMAIN q = Fields /\ q = [f \in Fields |-> q[f]] /\ q.pc = "proving" /\ q.waited = 0
        /\ q.error = r.error /\ q.abandoned = r.abandoned /\ q.attempt = r.attempt
        /\ q.elapsed = r.elapsed
    BY <1>3 DEF Fields
  <2> HIDE DEF q, r
  <2>3. InTime(q, config.transport)
    BY <1>3, <1>4, <1>5, <2>2 DEF InTime
  <2>4. Active(q, config.transport, gateway)
    BY <1>2, <1>3, <1>5, <2>2, <2>3 DEF Active, Pcs
  <2> QED BY <1>1, <1>2, <1>5, <2>1, <2>2, <2>4, Moved DEF SubOK, At, r
<1>6. CASE /\ config.transport = "ohttp" /\ (ohttp # {} \/ config.pinned)
           /\ ohttp' = IF ohttp # {} THEN ohttp ELSE {1}
           /\ sub' = [sub EXCEPT ![s].pc = "proving", ![s].key = CHOOSE k \in ohttp' : TRUE]
  <2>1. PICK k \in 1 .. gateway : ohttp' = {k}
    <3>1. CASE ohttp = {}
      <4>1. 1 \in 1 .. gateway /\ ohttp' = {1}
        BY <1>4, <1>6, <3>1
      <4> QED BY <4>1
    <3>2. CASE ohttp # {}
      BY <1>6, <3>2 DEF ExecInv
    <3> QED BY <3>1, <3>2
  <2>2. (CHOOSE j \in ohttp' : TRUE) = k
    BY <2>1
  <2> DEFINE q == [sub[s] EXCEPT !.pc = "proving", !.key = k]
  <2>3. sub' = [sub EXCEPT ![s] = q]
    BY <1>6, <2>2 DEF ExecInv
  <2>4. /\ DOMAIN q = Fields /\ q = [f \in Fields |-> q[f]] /\ q.pc = "proving" /\ q.key = k
        /\ q.error = r.error /\ q.abandoned = r.abandoned /\ q.attempt = r.attempt
        /\ q.elapsed = r.elapsed /\ q.waited = r.waited
    BY <1>3 DEF Fields
  <2> HIDE DEF q, r
  <2>5. InTime(q, config.transport)
    BY <1>3, <1>4, <1>6, <2>4 DEF InTime
  <2>6. Active(q, config.transport, gateway)
    BY <1>2, <1>3, <1>6, <2>4, <2>5 DEF Active, Pcs
  <2> QED BY <1>1, <1>6, <2>1, <2>3, <2>4, <2>6, Connected
<1>7. CASE /\ config.transport = "ohttp" /\ ohttp' = ohttp
           /\ sub' = [sub EXCEPT ![s].pc = "keys", ![s].key = gateway]
  <2> DEFINE q == [sub[s] EXCEPT !.pc = "keys", !.key = gateway]
  <2>1. sub' = [sub EXCEPT ![s] = q]
    BY <1>7 DEF ExecInv
  <2>2. /\ DOMAIN q = Fields /\ q = [f \in Fields |-> q[f]] /\ q.pc = "keys" /\ q.key = gateway
        /\ q.error = r.error /\ q.abandoned = r.abandoned /\ q.attempt = r.attempt
        /\ q.elapsed = r.elapsed /\ q.waited = r.waited
    BY <1>3 DEF Fields
  <2> HIDE DEF q, r
  <2>3. InTime(q, config.transport)
    BY <1>3, <1>4, <1>7, <2>2 DEF InTime
  <2>4. Active(q, config.transport, gateway)
    BY <1>2, <1>3, <1>4, <1>7, <2>2, <2>3 DEF Active, Pcs
  <2> QED BY <1>1, <1>2, <1>7, <2>1, <2>2, <2>4, Moved DEF SubOK, At, r
<1> QED BY <1>5, <1>6, <1>7 DEF callOnce

\* The key arrives, or does not.
LEMMA KeysKeep ==
    ASSUME ExecInv, NEW s \in Subs, ensureClient(s)
    PROVE  ExecInv'
PROOF
<1> DEFINE r == sub[s]
<1>1. r.pc = "keys" /\ config' = config /\ gateway' = gateway
  BY DEF ensureClient, At, worldVars
<1>2. Active(r, config.transport, gateway)
  BY <1>1, UnderWay DEF Pcs
<1>3. /\ DOMAIN r = Fields /\ r = [f \in Fields |-> r[f]] /\ config.transport = "ohttp"
      /\ r.key \in 1 .. gateway /\ r.elapsed <= Spent(r.attempt)
  BY <1>1, <1>2 DEF Active, InTime
<1>4. CASE fail(s, "keys") /\ ohttp' = ohttp
  BY <1>1, <1>4, Fails DEF Pcs, At
<1>5. CASE ohttp' = {sub[s].key} /\ Go(s, "proving")
  <2> DEFINE q == [sub[s] EXCEPT !.pc = "proving"]
  <2>1. sub' = [sub EXCEPT ![s] = q]
    BY <1>5 DEF Go, ExecInv
  <2>2. /\ DOMAIN q = Fields /\ q = [f \in Fields |-> q[f]] /\ q.pc = "proving" /\ q.key = r.key
        /\ q.error = r.error /\ q.abandoned = r.abandoned /\ q.attempt = r.attempt
        /\ q.elapsed = r.elapsed /\ q.waited = r.waited
    BY <1>3 DEF Fields
  <2> HIDE DEF q
  <2>3. InTime(q, config.transport)
    BY <1>3, <2>2 DEF InTime
  <2>4. Active(q, config.transport, gateway)
    BY <1>2, <1>3, <2>2, <2>3 DEF Active, Pcs
  <2> QED BY <1>1, <1>3, <1>5, <2>1, <2>2, <2>4, Connected
<1> QED BY <1>4, <1>5 DEF ensureClient

\* The gateway refuses a request: the client is dropped.
LEMMA RefusalKeeps ==
    ASSUME ExecInv, NEW s \in Subs, decapsulationFailed(s)
    PROVE  ExecInv'
PROOF
<1> DEFINE q == [pc |-> "failed", error |-> "decapsulation", key |-> gateway]
<1>1. /\ sub' = [sub EXCEPT ![s] = q] /\ ohttp' = {}
      /\ config' = config /\ gateway' = gateway
  BY DEF decapsulationFailed, worldVars
<1>2. q.pc = "failed" /\ q.key = gateway
  OBVIOUS
<1> HIDE DEF q
<1>3. SubOK(q, config.transport, gateway)
  BY <1>2 DEF SubOK, Over, Ended, ExecInv
<1>4. sub' = [t \in Subs |-> IF t = s THEN q ELSE sub[t]]
  BY <1>1 DEF ExecInv
<1>5. sub' = [t \in Subs |-> sub'[t]] /\ sub'[s] = q /\ \A t \in Subs : t # s => sub'[t] = sub[t]
  BY <1>4
<1>6. \A t \in Subs : SubOK(sub'[t], config.transport, gateway)
  <2>1. ASSUME NEW t \in Subs PROVE SubOK(sub'[t], config.transport, gateway)
    <3>1. CASE t = s
      BY <1>3, <1>5, <3>1
    <3>2. CASE t # s
      BY <1>5, <3>2 DEF ExecInv
    <3> QED BY <3>1, <3>2
  <2> QED BY <2>1
<1>7. StaleTraced'
  BY <1>1 DEF StaleTraced
<1> QED BY <1>1, <1>5, <1>6, <1>7 DEF ExecInv

\* An attempt fails, and is retried only if the prover was busy.
LEMMA FailureKeeps ==
    ASSUME ExecInv, NEW s \in Subs, relayFailed(s) \/ attemptFailed(s) \/ timedOut(s)
    PROVE  ExecInv'
PROOF
<1> DEFINE r == sub[s]
<1>1. r.pc = "proving" /\ config' = config /\ gateway' = gateway /\ ohttp' = ohttp
  BY DEF relayFailed, attemptFailed, timedOut, At, clientVars, worldVars
<1>2. Active(r, config.transport, gateway) /\ r.error = "none" /\ r.pc \in Pcs
  BY <1>1, UnderWay DEF Pcs
<1>3. /\ DOMAIN r = Fields /\ r = [f \in Fields |-> r[f]]
      /\ r.attempt \in 0 .. MaxRetries /\ r.waited \in Nat /\ r.elapsed \in Nat
      /\ Spent(r.attempt) \in Nat
  BY <1>2, SpentFacts DEF Active
<1>4. RequestTimeout \in Nat /\ MaxRetries \in Nat
  BY ExecutionBounds
<1>5. CASE relayFailed(s)
  BY <1>1, <1>2, <1>5, Fails DEF relayFailed
<1>6. CASE timedOut(s)
  <2>1. config.transport = "plain" /\ callWithRetry([sub EXCEPT ![s].abandoned = TRUE], s, "timeout")
    BY <1>6 DEF timedOut
  <2>2. ~isTransientError("timeout")
    BY DEF isTransientError
  <2>3. PICK why : fail(s, why)
    BY <2>1, <2>2 DEF callWithRetry
  <2> QED BY <1>1, <1>2, <2>1, <2>3, Fails
<1>7. CASE attemptFailed(s)
  <2>1. PICK error : ~Undecryptable(s) /\ callWithRetry(sub, s, error)
    BY <1>7 DEF attemptFailed
  <2>2. ~(config.transport = "ohttp" /\ At(s, "proving") /\ sub[s].key # gateway)
    BY <2>1 DEF Undecryptable
  <2>3. CASE \E why : fail(s, why)
    BY <1>1, <1>2, <2>2, <2>3, Fails
  <2>4. CASE r.attempt < MaxRetries /\ sub' = [sub EXCEPT ![s].pc = "sleeping", ![s].waited = 0]
    <3> DEFINE q == [sub[s] EXCEPT !.pc = "sleeping", !.waited = 0]
    <3>1. sub' = [sub EXCEPT ![s] = q]
      BY <2>4 DEF ExecInv
    <3>2. /\ DOMAIN q = Fields /\ q = [f \in Fields |-> q[f]] /\ q.pc = "sleeping" /\ q.waited = 0
          /\ q.error = r.error /\ q.abandoned = r.abandoned /\ q.attempt = r.attempt
          /\ q.elapsed = r.elapsed
      BY <1>3 DEF Fields
    <3>3. r.elapsed <= Spent(r.attempt) + RequestTimeout
      <4>1. CASE config.transport = "plain"
        <5>1. r.waited <= RequestTimeout /\ r.elapsed <= Spent(r.attempt) + r.waited
          BY <1>1, <1>2, <4>1 DEF Active, InTime
        <5> QED BY <1>3, <1>4, <5>1
      <4>2. CASE config.transport # "plain"
        <5>1. r.elapsed <= Spent(r.attempt)
          BY <1>1, <1>2, <4>2 DEF Active, InTime
        <5> QED BY <1>3, <1>4, <5>1
      <4> QED BY <4>1, <4>2
    <3> HIDE DEF q, r
    <3>4. InTime(q, config.transport)
      BY <1>3, <1>4, <2>4, <3>2, <3>3 DEF InTime
    <3>5. Active(q, config.transport, gateway)
      BY <1>2, <1>3, <3>2, <3>4 DEF Active, Pcs
    <3> QED BY <1>1, <1>2, <2>2, <3>1, <3>2, <3>5, Moved DEF SubOK, r
  <2>5. (\E why : fail(s, why))
        \/ (r.attempt < MaxRetries /\ sub' = [sub EXCEPT ![s].pc = "sleeping", ![s].waited = 0])
    BY <2>1 DEF callWithRetry
  <2> QED BY <2>3, <2>4, <2>5
<1> QED BY <1>5, <1>6, <1>7

\* A pause is over: the next attempt begins.
LEMMA WakeKeeps ==
    ASSUME ExecInv, NEW s \in Subs, wakeUp(s)
    PROVE  ExecInv'
PROOF
<1> DEFINE r == sub[s]
           q == [sub[s] EXCEPT !.pc = "calling", !.attempt = @ + 1]
<1>1. /\ r.pc = "sleeping" /\ r.waited = Delay(r.attempt)
      /\ config' = config /\ gateway' = gateway /\ ohttp' = ohttp
  BY DEF wakeUp, At, clientVars, worldVars
<1>2. Active(r, config.transport, gateway) /\ r.error = "none"
  BY <1>1, UnderWay DEF Pcs
<1>3. /\ DOMAIN r = Fields /\ r = [f \in Fields |-> r[f]]
      /\ r.attempt \in 0 .. MaxRetries /\ r.waited \in Nat /\ r.elapsed \in Nat
      /\ r.attempt < MaxRetries /\ r.elapsed <= Spent(r.attempt) + RequestTimeout + r.waited
  BY <1>1, <1>2 DEF Active, InTime
<1>4. sub' = [sub EXCEPT ![s] = q]
  BY DEF wakeUp, ExecInv
<1>5. /\ DOMAIN q = Fields /\ q = [f \in Fields |-> q[f]] /\ q.pc = "calling"
      /\ q.error = r.error /\ q.abandoned = r.abandoned /\ q.attempt = r.attempt + 1
      /\ q.elapsed = r.elapsed /\ q.waited = r.waited
  BY <1>3 DEF Fields
<1> HIDE DEF q, r
<1>6. /\ q.attempt \in 0 .. MaxRetries
      /\ q.elapsed <= Spent(q.attempt)
  BY <1>1, <1>3, <1>5, SpentNext
<1>7. InTime(q, config.transport)
  BY <1>5, <1>6 DEF InTime
<1>8. Active(q, config.transport, gateway)
  BY <1>2, <1>3, <1>5, <1>6, <1>7 DEF Active, Pcs
<1> QED BY <1>1, <1>2, <1>4, <1>5, <1>8, Moved DEF SubOK, At, r

\* The prover answers.
LEMMA ProveKeeps ==
    ASSUME ExecInv, NEW s \in Subs, proveTransaction(s)
    PROVE  ExecInv'
PROOF
<1> DEFINE r == sub[s]
<1>1. /\ r.pc = "proving" /\ ~Undecryptable(s)
      /\ config' = config /\ gateway' = gateway /\ ohttp' = ohttp
  BY DEF proveTransaction, At, clientVars, worldVars
<1>2. Active(r, config.transport, gateway) /\ r.error = "none" /\ r.pc \in Pcs
  BY <1>1, UnderWay DEF Pcs
<1>3. /\ DOMAIN r = Fields /\ r = [f \in Fields |-> r[f]]
      /\ r.attempt \in 0 .. MaxRetries /\ r.waited \in Nat /\ r.elapsed \in Nat
      /\ Spent(r.attempt) \in Nat
  BY <1>2, SpentFacts DEF Active
<1>4. RequestTimeout \in Nat
  BY ExecutionBounds
<1>5. ~(config.transport = "ohttp" /\ At(s, "proving") /\ sub[s].key # gateway)
  BY <1>1 DEF Undecryptable
<1>6. CASE fail(s, "validation") \/ fail(s, "proving")
  BY <1>1, <1>2, <1>5, <1>6, Fails
<1>7. ASSUME NEW message,
             sub' = [sub EXCEPT ![s].pc = "saving", ![s].output = message, ![s].signature = {}]
      PROVE  ExecInv'
  <2> DEFINE q == [sub[s] EXCEPT !.pc = "saving", !.output = message, !.signature = {}]
  <2>1. sub' = [sub EXCEPT ![s] = q]
    BY <1>7 DEF ExecInv
  <2>2. /\ DOMAIN q = Fields /\ q = [f \in Fields |-> q[f]] /\ q.pc = "saving"
        /\ q.error = r.error /\ q.abandoned = r.abandoned /\ q.attempt = r.attempt
        /\ q.elapsed = r.elapsed /\ q.waited = r.waited
    BY <1>3 DEF Fields
  <2>3. r.elapsed <= Spent(r.attempt) + RequestTimeout
    <3>1. CASE config.transport = "plain"
      <4>1. r.waited <= RequestTimeout /\ r.elapsed <= Spent(r.attempt) + r.waited
        BY <1>1, <1>2, <3>1 DEF Active, InTime
      <4> QED BY <1>3, <1>4, <4>1
    <3>2. CASE config.transport # "plain"
      <4>1. r.elapsed <= Spent(r.attempt)
        BY <1>1, <1>2, <3>2 DEF Active, InTime
      <4> QED BY <1>3, <1>4, <4>1
    <3> QED BY <3>1, <3>2
  <2> HIDE DEF q, r
  <2>4. InTime(q, config.transport)
    BY <2>2, <2>3 DEF InTime
  <2>5. Active(q, config.transport, gateway)
    BY <1>2, <1>3, <2>2, <2>4 DEF Active, Pcs
  <2> QED BY <1>1, <1>2, <1>5, <2>1, <2>2, <2>5, Moved DEF SubOK, r
<1> QED BY <1>6, <1>7 DEF proveTransaction

\* The registry is saved.
LEMMA SaveKeeps ==
    ASSUME ExecInv, NEW s \in Subs, saveRegistry(s)
    PROVE  ExecInv'
PROOF
<1> DEFINE r == sub[s]
           q == [sub[s] EXCEPT !.pc = "sending"]
<1>1. /\ r.pc = "saving" /\ config' = config /\ gateway' = gateway /\ ohttp' = ohttp
      /\ Go(s, "sending") \/ fail(s, "unsupported")
  BY DEF saveRegistry, At, clientVars, worldVars
<1>2. Active(r, config.transport, gateway) /\ r.error = "none" /\ r.pc \in Pcs
  BY <1>1, UnderWay DEF Pcs
<1>3. CASE fail(s, "unsupported")
  BY <1>1, <1>2, <1>3, Fails DEF At
<1>4. CASE Go(s, "sending")
  <2>1. sub' = [sub EXCEPT ![s] = q]
    BY <1>4 DEF Go, ExecInv
  <2>2. DOMAIN r = Fields /\ r = [f \in Fields |-> r[f]]
    BY <1>2 DEF Active
  <2>3. /\ DOMAIN q = Fields /\ q = [f \in Fields |-> q[f]] /\ q.pc = "sending"
        /\ q.error = r.error /\ q.abandoned = r.abandoned /\ q.attempt = r.attempt
        /\ q.elapsed = r.elapsed /\ q.waited = r.waited
    BY <2>2 DEF Fields
  <2> HIDE DEF q, r
  <2>4. r.elapsed <= Spent(r.attempt) + RequestTimeout
    BY <1>1, <1>2 DEF Active, InTime
  <2>5. InTime(q, config.transport)
    BY <2>3, <2>4 DEF InTime
  <2>6. Active(q, config.transport, gateway)
    BY <1>2, <2>3, <2>5 DEF Active, Pcs
  <2> QED BY <1>1, <1>2, <2>1, <2>3, <2>6, Moved DEF SubOK, At, r
<1> QED BY <1>1, <1>3, <1>4

\* The transaction is sent.
LEMMA SendKeeps ==
    ASSUME ExecInv, NEW s \in Subs, executeTransaction(s)
    PROVE  ExecInv'
PROOF
<1> DEFINE q == [pc |-> "done", error |-> "none"]
<1>1. /\ sub[s].pc = "sending" /\ config' = config /\ gateway' = gateway /\ ohttp' = ohttp
      /\ (\E why : fail(s, why)) \/ sub' = [sub EXCEPT ![s] = q]
  BY DEF executeTransaction, At, clientVars
<1>2. sub[s].pc \in Pcs /\ ~At(s, "proving") /\ sub[s].error = "none"
  BY <1>1, UnderWay DEF Pcs, At
<1>3. CASE \E why : fail(s, why)
  BY <1>1, <1>2, <1>3, Fails
<1>4. CASE sub' = [sub EXCEPT ![s] = q]
  <2>1. q.pc = "done" /\ "key" \notin DOMAIN q
    OBVIOUS
  <2> HIDE DEF q
  <2>2. SubOK(q, config.transport, gateway)
    BY <2>1 DEF SubOK, Over, Ended
  <2> QED BY <1>1, <1>2, <1>4, <2>1, <2>2, Moved
<1> QED BY <1>1, <1>3, <1>4

-----------------------------------------------------------------------------
(***************************************************************************)
(* Steps of no submission, and the theorems.                               *)
(***************************************************************************)

\* Nothing the invariant is about changes.
LEMMA StillKeeps ==
    ASSUME ExecInv, sub' = sub, config' = config, ohttp' = ohttp, gateway' = gateway
    PROVE  ExecInv'
BY DEF ExecInv, StaleTraced, Traced, Refused, At

\* A record stays sound when the gateway gets a later key.
LEMMA LaterKey ==
    ASSUME NEW r, NEW transport, NEW k \in Nat, SubOK(r, transport, k)
    PROVE  SubOK(r, transport, k + 1)
PROOF
<1>1. 1 .. k \subseteq 1 .. (k + 1)
  OBVIOUS
<1> QED BY <1>1 DEF SubOK, Over, Active

\* The gateway gets a new key: no refusal is about it yet.
LEMMA RotateKeeps ==
    ASSUME ExecInv, rotateKey
    PROVE  ExecInv'
PROOF
<1>1. sub' = sub /\ config' = config /\ ohttp' = ohttp /\ gateway' = gateway + 1 /\ gateway \in Nat \ {0}
  BY DEF rotateKey, clientVars, ExecInv
<1>2. \A s \in Subs : SubOK(sub[s], config.transport, gateway + 1)
  BY <1>1, LaterKey DEF ExecInv
<1>3. ohttp = {} \/ \E k \in 1 .. (gateway + 1) : ohttp = {k}
  <2>1. 1 .. gateway \subseteq 1 .. (gateway + 1)
    BY <1>1
  <2> QED BY <2>1 DEF ExecInv
<1>4. StaleTraced'
  <2>1. ASSUME NEW s \in Subs, Refused(s) PROVE sub[s].key # gateway + 1
    <3>1. SubOK(sub[s], config.transport, gateway)
      BY DEF ExecInv
    <3>2. sub[s].pc = "failed" /\ "key" \in DOMAIN sub[s]
      BY <2>1 DEF Refused, At
    <3>3. sub[s].key \in 1 .. gateway
      BY <3>1, <3>2 DEF SubOK, Over, Active, Pcs
    <3> QED BY <1>1, <3>3
  <2>2. ASSUME NEW s \in Subs, Refused(s)' PROVE Refused(s)
    BY <1>1, <2>2 DEF Refused, At
  <2> QED BY <1>1, <2>1, <2>2 DEF StaleTraced
<1> QED BY <1>1, <1>2, <1>3, <1>4 DEF ExecInv

\* Time passes for one submission, never past its timer.
LEMMA TickOne ==
    ASSUME NEW r, NEW q, NEW transport, NEW key, Active(r, transport, key),
           r.pc = "sleeping" \/ (r.pc = "proving" /\ transport = "plain"),
           r.waited < IF r.pc = "sleeping" THEN Delay(r.attempt) ELSE RequestTimeout,
           q = [r EXCEPT !.waited = @ + 1, !.elapsed = @ + 1]
    PROVE  Active(q, transport, key) /\ q.pc = r.pc /\ q.key = r.key /\ q.error = r.error
PROOF
<1>1. /\ DOMAIN r = Fields /\ r = [f \in Fields |-> r[f]]
      /\ r.attempt \in 0 .. MaxRetries /\ r.waited \in Nat /\ r.elapsed \in Nat
      /\ Spent(r.attempt) \in Nat /\ RequestTimeout \in Nat
  BY SpentFacts, ExecutionBounds DEF Active
<1>2. Delay(r.attempt) \in Int
  BY <1>1, DelayType
<1>3. /\ DOMAIN q = Fields /\ q = [f \in Fields |-> q[f]] /\ q.pc = r.pc /\ q.key = r.key
      /\ q.error = r.error /\ q.abandoned = r.abandoned /\ q.attempt = r.attempt
      /\ q.elapsed = r.elapsed + 1 /\ q.waited = r.waited + 1
  BY <1>1 DEF Fields
<1>4. InTime(q, transport)
  <2>1. CASE r.pc = "sleeping"
    <3>1. r.attempt < MaxRetries /\ r.elapsed <= Spent(r.attempt) + RequestTimeout + r.waited
      BY <2>1 DEF Active, InTime
    <3>2. q.waited <= Delay(q.attempt) /\ q.elapsed <= Spent(q.attempt) + RequestTimeout + q.waited
      BY <1>1, <1>2, <1>3, <2>1, <3>1
    <3> QED BY <1>3, <2>1, <3>1, <3>2 DEF InTime
  <2>2. CASE r.pc = "proving" /\ transport = "plain"
    <3>1. r.elapsed <= Spent(r.attempt) + r.waited
      BY <2>2 DEF Active, InTime
    <3>2. q.waited <= RequestTimeout /\ q.elapsed <= Spent(q.attempt) + q.waited
      BY <1>1, <1>3, <2>2, <3>1
    <3> QED BY <1>3, <2>2, <3>2 DEF InTime
  <2> QED BY <2>1, <2>2
<1>5. q.waited \in Nat /\ q.elapsed \in Nat
  BY <1>1, <1>3
<1> QED BY <1>3, <1>4, <1>5 DEF Active

\* Time passes.
LEMMA TickKeeps ==
    ASSUME ExecInv, tick
    PROVE  ExecInv'
PROOF
<1>1. config' = config /\ ohttp' = ohttp /\ gateway' = gateway
  BY DEF tick, clientVars, worldVars
<1>2. sub' = [s \in Subs |-> IF Waits(s) THEN [sub[s] EXCEPT !.waited = @ + 1, !.elapsed = @ + 1]
                             ELSE sub[s]]
  BY DEF tick
<1>3. sub' = [s \in Subs |-> sub'[s]]
  BY <1>2
<1>4. ASSUME NEW s \in Subs
      PROVE  /\ SubOK(sub'[s], config.transport, gateway)
             /\ sub'[s].pc = sub[s].pc /\ sub'[s].error = sub[s].error
             /\ sub'[s].pc \in {"proving", "failed"} => sub'[s].key = sub[s].key
             /\ Refused(s)' => Refused(s)
  <2>1. CASE ~Waits(s)
    <3>1. sub'[s] = sub[s]
      BY <1>2, <2>1
    <3> QED BY <3>1 DEF ExecInv, Refused, At
  <2>2. CASE Waits(s)
    <3> DEFINE r == sub[s]
               q == sub'[s]
    <3>1. q = [r EXCEPT !.waited = @ + 1, !.elapsed = @ + 1]
      BY <1>2, <2>2
    <3>2. /\ r.pc = "sleeping" \/ (r.pc = "proving" /\ config.transport = "plain")
          /\ r.waited < IF r.pc = "sleeping" THEN Delay(r.attempt) ELSE RequestTimeout
      BY <2>2 DEF tick, Waits, Due, At
    <3>3. Active(r, config.transport, gateway)
      BY <3>2, UnderWay DEF Pcs
    <3> HIDE DEF q, r
    <3>4. Active(q, config.transport, gateway) /\ q.pc = r.pc /\ q.key = r.key /\ q.error = r.error
      BY <3>1, <3>2, <3>3, TickOne, ZenonT(40)
    <3>5. q.pc # "failed"
      BY <3>2, <3>4
    <3>6. ~Refused(s)'
      BY <3>5 DEF Refused, At, q
    <3>7. SubOK(q, config.transport, gateway)
      BY <3>4 DEF SubOK
    <3> QED BY <3>4, <3>6, <3>7 DEF q, r
  <2> QED BY <2>1, <2>2
<1>5. StaleTraced'
  <2> SUFFICES ASSUME ~config.pinned, ~(ohttp \subseteq {gateway}),
                      NEW u \in Subs, Refused(u)', sub'[u].key = gateway
               PROVE  \E t \in Subs : Traced(t)'
    BY <1>1 DEF StaleTraced
  <2>1. sub'[u].pc = "failed"
    BY DEF Refused, At
  <2>2. Refused(u) /\ sub[u].key = gateway
    BY <1>4, <2>1
  <2>3. PICK t \in Subs : Traced(t)
    BY <2>2 DEF ExecInv, StaleTraced
  <2>4. Traced(t)'
    BY <1>1, <1>4, <2>3 DEF Traced, At
  <2> QED BY <2>4
<1> QED BY <1>1, <1>3, <1>4, <1>5 DEF ExecInv

\* ExecInv is inductive: of the submissions that run concurrently over one cached
\* client, each keeps within the time of its attempts, and a client for a key that
\* was refused can be traced to a request that is still under way or lost.
THEOREM ExecutionHolds == ExecSpec => []ExecInv
PROOF
<1>1. ExecInit => ExecInv
  <2> SUFFICES ASSUME ExecInit PROVE ExecInv
    OBVIOUS
  <2>1. /\ sub = [s \in Subs |-> NoSubmission] /\ ohttp = {} /\ gateway = 1
    BY DEF ExecInit
  <2>2. sub = [s \in Subs |-> sub[s]] /\ \A s \in Subs : sub[s] = NoSubmission
    BY <2>1
  <2>3. NoSubmission.pc = "idle" /\ NoSubmission.error = "none" /\ "key" \notin DOMAIN NoSubmission
    BY DEF NoSubmission
  <2>4. \A s \in Subs : SubOK(sub[s], config.transport, gateway)
    BY <2>2, <2>3 DEF SubOK, Over, Ended
  <2>5. StaleTraced
    BY <2>1 DEF StaleTraced
  <2> QED BY <2>1, <2>2, <2>4, <2>5 DEF ExecInv
<1>2. ExecInv /\ [ExecNext]_execVars => ExecInv'
  <2> SUFFICES ASSUME ExecInv, [ExecNext]_execVars PROVE ExecInv'
    OBVIOUS
  <2>1. CASE UNCHANGED execVars
    BY <2>1, StillKeeps DEF execVars, clientVars, worldVars
  <2>2. ASSUME NEW s \in Subs, NEW program, NEW mode, submit(s, program, mode) PROVE ExecInv'
    BY <2>2, SubmitKeeps
  <2>3. ASSUME NEW s \in Subs, buildTransaction(s) \/ loadRegistry(s) PROVE ExecInv'
    BY <2>3, QuoteKeeps
  <2>4. ASSUME NEW s \in Subs, compileActions(s) PROVE ExecInv'
    BY <2>4, CompileKeeps
  <2>5. ASSUME NEW s \in Subs, getDefaultDetails(s) \/ nonceAnswered(s) PROVE ExecInv'
    BY <2>5, NonceKeeps
  <2>6. ASSUME NEW s \in Subs, create(s) \/ simulate(s) \/ mockProve(s) \/ estimateInvokeFee(s)
        PROVE  ExecInv'
    BY <2>6, SignKeeps
  <2>7. ASSUME NEW s \in Subs, callOnce(s) PROVE ExecInv'
    BY <2>7, CallKeeps
  <2>8. ASSUME NEW s \in Subs, ensureClient(s) PROVE ExecInv'
    BY <2>8, KeysKeep
  <2>9. ASSUME NEW s \in Subs, decapsulationFailed(s) PROVE ExecInv'
    BY <2>9, RefusalKeeps
  <2>10. ASSUME NEW s \in Subs, relayFailed(s) \/ attemptFailed(s) \/ timedOut(s) PROVE ExecInv'
    BY <2>10, FailureKeeps
  <2>11. ASSUME NEW s \in Subs, wakeUp(s) PROVE ExecInv'
    BY <2>11, WakeKeeps
  <2>12. ASSUME NEW s \in Subs, proveTransaction(s) PROVE ExecInv'
    BY <2>12, ProveKeeps
  <2>13. ASSUME NEW s \in Subs, saveRegistry(s) PROVE ExecInv'
    BY <2>13, SaveKeeps
  <2>14. ASSUME NEW s \in Subs, executeTransaction(s) PROVE ExecInv'
    BY <2>14, SendKeeps
  <2>15. CASE invalidateNonceCache
    BY <2>15, StillKeeps DEF invalidateNonceCache, worldVars
  <2>16. CASE tick
    BY <2>16, TickKeeps
  <2>17. ASSUME NEW tx \in txs, NEW mishap, include(tx, mishap) PROVE ExecInv'
    BY <2>17, StillKeeps DEF include, clientVars
  <2>18. CASE rotateKey
    BY <2>18, RotateKeeps
  <2>19. CASE newNonce
    BY <2>19, StillKeeps DEF newNonce, clientVars
  <2> QED BY <2>1, <2>2, <2>3, <2>4, <2>5, <2>6, <2>7, <2>8, <2>9, <2>10, <2>11, <2>12, <2>13,
             <2>14, <2>15, <2>16, <2>17, <2>18, <2>19 DEF ExecNext
<1> QED BY <1>1, <1>2, PTL DEF ExecSpec

\* callWithRetry, isTransientError: a request that was given up is never sent again,
\* and the attempts of a submission with the pauses between them end in their time,
\* for every number of retries and every delay.
THEOREM IsProvedOnce == ExecSpec => []ProvedOnce
PROOF
<1>1. ExecInv => ProvedOnce
  <2> SUFFICES ASSUME ExecInv, NEW s \in Subs, sub[s].pc \notin Ended
               PROVE  ~sub[s].abandoned /\ sub[s].elapsed <= ProveBudget
    BY DEF ProvedOnce, At, Ended
  <2> DEFINE r == sub[s]
  <2>1. Active(r, config.transport, gateway)
    BY DEF ExecInv, SubOK, Over
  <2>2. /\ r.attempt \in 0 .. MaxRetries /\ r.waited \in Nat /\ r.elapsed \in Nat
        /\ Spent(r.attempt) \in Nat /\ Spent(r.attempt) + RequestTimeout <= ProveBudget
        /\ RequestTimeout \in Nat
    BY <2>1, SpentFacts, ExecutionBounds DEF Active
  <2>3. ProveBudget \in Int
    <3>1. MaxRetries \in Nat /\ Cardinality(Pauses(MaxRetries)) \in Nat
      BY ExecutionBounds, PausesFinite
    <3> QED BY <2>2, <3>1 DEF ProveBudget
  <2>4. ASSUME r.pc = "sleeping" PROVE r.elapsed <= ProveBudget
    <3>1. /\ r.attempt < MaxRetries
          /\ r.waited <= Delay(r.attempt) \/ r.waited = 0
          /\ r.elapsed <= Spent(r.attempt) + RequestTimeout + r.waited
      BY <2>1, <2>4 DEF Active, InTime
    <3>2. CASE r.waited = 0
      BY <2>2, <2>3, <3>1, <3>2
    <3>3. CASE r.waited # 0
      <4>1. Delay(r.attempt) \in Int /\ r.waited <= Delay(r.attempt)
        BY <2>2, <3>1, <3>3, DelayType
      <4>2. Delay(r.attempt) \in Nat
        BY <2>2, <4>1
      <4>3. /\ r.attempt + 1 \in 0 .. MaxRetries
            /\ Spent(r.attempt + 1) = Spent(r.attempt) + RequestTimeout + Delay(r.attempt)
        BY <2>2, <3>1, <4>2, SpentNext
      <4>4. Spent(r.attempt + 1) \in Nat /\ Spent(r.attempt + 1) + RequestTimeout <= ProveBudget
        BY <4>3, SpentFacts
      <4> HIDE DEF r
      <4> QED BY <2>2, <2>3, <3>1, <4>1, <4>2, <4>3, <4>4
    <3> QED BY <3>2, <3>3
  <2>5. ASSUME r.pc # "sleeping" PROVE r.elapsed <= ProveBudget
    <3>1. r.elapsed <= Spent(r.attempt) + RequestTimeout
      <4>1. CASE r.pc = "proving" /\ config.transport = "plain"
        <5>1. r.waited <= RequestTimeout /\ r.elapsed <= Spent(r.attempt) + r.waited
          BY <2>1, <4>1 DEF Active, InTime
        <5> QED BY <2>2, <5>1
      <4>2. CASE ~(r.pc = "proving" /\ config.transport = "plain")
        <5>1. r.elapsed <= Spent(r.attempt) + RequestTimeout \/ r.elapsed <= Spent(r.attempt)
          BY <2>1, <2>5, <4>2 DEF Active, InTime
        <5> QED BY <2>2, <5>1
      <4> QED BY <4>1, <4>2
    <3> QED BY <2>2, <2>3, <3>1
  <2>6. ~r.abandoned
    BY <2>1 DEF Active
  <2> QED BY <2>4, <2>5, <2>6
<1> QED BY <1>1, ExecutionHolds, PTL

\* decapsulationFailed, ensureClient: a key that the gateway refused is forgotten,
\* however many requests are under way with it or bring it back meanwhile.
THEOREM StaleKeysAreForgotten == ExecSpec => []StaleKeyForgotten
PROOF
<1>1. ExecInv => StaleKeyForgotten
  <2> SUFFICES ASSUME ExecInv, NEW s \in Subs, Refused(s), sub[s].key = gateway, ~config.pinned,
                      \A t \in Subs : /\ sub[t].error # "relay"
                                      /\ sub[t].pc \in {"keys", "proving"} => sub[t].key = gateway
               PROVE  ohttp \subseteq {gateway}
    BY DEF StaleKeyForgotten
  <2>1. ~\E t \in Subs : Traced(t)
    BY DEF Traced, At
  <2> QED BY <2>1 DEF ExecInv, StaleTraced
<1> QED BY <1>1, ExecutionHolds, PTL
=============================================================================
