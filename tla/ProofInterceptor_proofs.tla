----------------------- MODULE ProofInterceptor_proofs -----------------------
(***************************************************************************)
(* The proof interceptor answers in time, and what it allows the pool      *)
(* takes: an inductive invariant and the proofs of both properties, for    *)
(* every number of requests, every transaction and every configuration     *)
(* whose times are not negative.                                           *)
(***************************************************************************)
EXTENDS ProofInterceptor, FiniteSetTheorems, WellFoundedInduction, TLAPS

Pcs == {"free", "policy", "calling", "screening", "backoff", "done"}

\* A request on its way through the screening service.
Active == {"calling", "screening", "backoff"}

\* The fields of a request; its verdict is what it is.
Shape(x) ==
    /\ x = [pc |-> x.pc, request |-> x.request, arrived |-> x.arrived, subject |-> x.subject,
            attempt |-> x.attempt, deadline |-> x.deadline, due |-> x.due,
            verdict |-> x.verdict, answered |-> x.answered]
    /\ x.pc \in Pcs /\ x.request \in Requests /\ x.subject \in Address
    /\ {x.arrived, x.attempt, x.deadline, x.answered} \subseteq Nat /\ x.due \in Int

\* When the request has to be answered.
Limit(x) == x.arrived + config.policyTimeoutMs + config.totalTimeoutMs

Timely(x) ==
    /\ x.pc # "free" => x.arrived <= now
    /\ x.pc \in Active => now <= x.deadline /\ x.deadline <= Limit(x)
    /\ x.pc \in {"screening", "backoff"} => x.due <= x.deadline
    /\ x.pc = "done" => x.answered <= Limit(x)

\* A read that a request waits for began no later than the request arrived.
Waits(x) ==
    x.pc = "policy" =>
        \E action \in getOpenNoteDepositor(x.request.tx) :
            LET a == normalizeFelt(action.contract_address)
            IN  /\ a \in Address /\ pendingReads[a] # {}
                /\ \A read \in pendingReads[a] : read.began <= x.arrived

ReadsTimely ==
    \A a \in Address : \A read \in pendingReads[a] :
        /\ read = [began |-> read.began, got |-> read.got] /\ read.began \in Nat
        /\ read.began <= now /\ now <= read.began + config.policyTimeoutMs

\* No policy has changed since then.
UnchangedSince(time) == \A i \in DOMAIN changes : changes[i] < time

\* What was read is the policy that holds, unless it changed since the read began.
ReadsTrue ==
    \A a \in Address : \A read \in pendingReads[a] :
        UnchangedSince(read.began) => \A got \in read.got : got = policies[feltOf[a]]

CacheTrue ==
    \A a \in Address : \A c \in cachedPolicies[a] :
        /\ c.at \in Nat /\ c.at <= now
        /\ UnchangedSince(c.at - config.policyTimeoutMs) => c.policy = parsePolicy(policies[feltOf[a]])

\* The policies that the request met are those the pool has now.
SettledFor(x) ==
    UnchangedSince(x.arrived - config.policyTimeoutMs - config.policyTtlMs)

\* The subject is the one the pool will want screened.
Truthful(x) ==
    (SettledFor(x) /\ Executable(x.request.tx)) =>
        /\ x.pc \in Active => PoolSubjects(x.request.tx, policies) = {feltOf[x.subject]}
        /\ (x.pc = "done" /\ x.verdict.action = "allow") =>
              /\ PoolSubjects(x.request.tx, policies) = {s.depositor : s \in x.verdict.signature}
              /\ PoolSubjects(x.request.tx, policies) \cap Denied = {}

\* The service attests the address it was called for, unless it is denied.
ScreensTrue ==
    /\ screens \in [Call -> [state : {"free", "open", "answered"}, address : Address, answer : Answer]]
    /\ \A c \in Call : screens[c].answer.verdict = "allowed" =>
          /\ screens[c].answer.depositor = feltOf[screens[c].address]
          /\ screens[c].answer.depositor \in Felt \ Denied

\* A call is about the subject of its request.
CallsFit(t) ==
    /\ txs[t].attempt <= config.maxRetries
    /\ txs[t].pc = "screening" => screens[<<t, txs[t].attempt>>].address = txs[t].subject

Configured ==
    /\ {config.timeoutMs, config.maxRetries, config.totalTimeoutMs} \subseteq Nat
    /\ {config.policyTtlMs, config.policyTimeoutMs} \subseteq Nat
    /\ Tx \X (0 .. config.maxRetries) \subseteq Call

Good(x) == Shape(x) /\ Timely(x) /\ Waits(x) /\ Truthful(x)

ScreeningInv ==
    /\ Configured
    /\ now \in 0 .. MaxTime /\ policies \in Policies
    /\ changes \in Seq(Nat) /\ \A i \in DOMAIN changes : changes[i] <= now
    /\ DOMAIN txs = Tx /\ DOMAIN pendingReads = Address /\ DOMAIN cachedPolicies = Address
    /\ \A t \in Tx : Good(txs[t]) /\ CallsFit(t)
    /\ ReadsTimely /\ ReadsTrue /\ CacheTrue /\ ScreensTrue

\* A server that does not screen has none of this to keep.
InterceptorInv == config.screening => ScreeningInv

-----------------------------------------------------------------------------
(***************************************************************************)
(* The address to screen.                                                  *)
(***************************************************************************)

\* The smaller of two numbers.
LEMMA MinOfTwo ==
    ASSUME NEW a \in Int, NEW b \in Int
    PROVE  Min({a, b}) = IF a <= b THEN a ELSE b
PROOF
<1> DEFINE l == IF a <= b THEN a ELSE b
<1>1. l \in {a, b} /\ \A y \in {a, b} : l <= y
  OBVIOUS
<1>2. \A x \in {a, b} : (\A y \in {a, b} : x <= y) => x = l
  OBVIOUS
<1> HIDE DEF l
<1>3. Min({a, b}) = l
  BY <1>1, <1>2 DEF Min
<1> QED BY <1>3 DEF l

\* A set of positions that is not empty has a first one.
LEMMA MinOfSet ==
    ASSUME NEW S, S \subseteq Nat, S # {}
    PROVE  Min(S) \in S
PROOF
<1> DEFINE R == {ss \in Nat \X Nat : ss[1] < ss[2]}
<1>1. IsWellFoundedOn(R, Nat)
  BY NatLessThanWellFounded DEF OpToRel
<1> HIDE DEF R
<1>2. PICK x \in S : \A y \in S : <<y, x>> \notin R
  BY <1>1, WFMin
<1>3. \A y \in S : <<y, x>> \in R \/ x <= y
  BY DEF R
<1>4. \A y \in S : x <= y
  BY <1>2, <1>3
<1> QED BY <1>2, <1>4 DEF Min

\* The canonical spelling of an address stands for the same address.
LEMMA NormalFelt ==
    ASSUME NEW a \in Address
    PROVE  /\ normalizeFelt(a) \in Address
           /\ feltOf[normalizeFelt(a)] = feltOf[a]
           /\ feltOf[a] # Invalid => feltOf[a] \in Felt
PROOF
BY ProofInterceptorAssumption, ScreenerAssumption DEF normalizeFelt

\* The invoke that a transaction begins with is one of its actions.
LEMMA InvokeFacts ==
    ASSUME NEW tx, tx.actions \in Seq(Action), NEW action \in FirstInvoke(tx)
    PROVE  /\ FirstInvoke(tx) = {action}
           /\ action.contract_address \in Address
           /\ action.variant \in {"InvokeExternal", "ComputeAndInvoke"}
           /\ \E i \in DOMAIN tx.actions : tx.actions[i] = action
PROOF
<1> DEFINE invokes == {i \in DOMAIN tx.actions :
                          tx.actions[i].variant \in {"InvokeExternal", "ComputeAndInvoke"}}
<1>1. invokes # {} /\ FirstInvoke(tx) = {tx.actions[Min(invokes)]}
  BY DEF FirstInvoke
<1>2. invokes \subseteq Nat
  OBVIOUS
<1>3. Min(invokes) \in invokes
  BY <1>1, <1>2, MinOfSet
<1> DEFINE i == Min(invokes)
<1>4. i \in DOMAIN tx.actions /\ tx.actions[i].variant \in {"InvokeExternal", "ComputeAndInvoke"}
  BY <1>3
<1> HIDE DEF i
<1>5. tx.actions[i] \in Action
  BY <1>4
<1>6. action = tx.actions[i] /\ FirstInvoke(tx) = {action}
  BY <1>1 DEF i
<1>7. action.contract_address \in Address
  BY <1>4, <1>5, <1>6 DEF Action
<1> QED BY <1>4, <1>6, <1>7

\* The only invoke of a transaction that can execute.
LEMMA OnlyInvoke ==
    ASSUME NEW tx, tx.actions \in Seq(Action), Executable(tx), NEW action \in FirstInvoke(tx),
           NEW i \in DOMAIN tx.actions,
           tx.actions[i].variant \in {"InvokeExternal", "ComputeAndInvoke"}
    PROVE  tx.actions[i] = action
PROOF
<1> DEFINE invokes == {j \in DOMAIN tx.actions :
                          tx.actions[j].variant \in {"InvokeExternal", "ComputeAndInvoke"}}
<1>1. Cardinality(invokes) <= 1
  BY DEF Executable
<1>2. IsFiniteSet(invokes)
  <2>1. DOMAIN tx.actions = 1 .. Len(tx.actions) /\ Len(tx.actions) \in Nat
    OBVIOUS
  <2>2. IsFiniteSet(DOMAIN tx.actions)
    BY <2>1, FS_Interval
  <2>3. invokes \in SUBSET (DOMAIN tx.actions)
    OBVIOUS
  <2> QED BY <2>2, <2>3, FS_Subset
<1>3. i \in invokes
  OBVIOUS
<1> HIDE DEF invokes
<1>4. Cardinality(invokes) = 1
  BY <1>1, <1>2, <1>3, FS_CardinalityType, FS_EmptySet
<1>5. invokes = {i}
  BY <1>2, <1>3, <1>4, FS_Singleton
<1>6. FirstInvoke(tx) = {tx.actions[Min(invokes)]}
  BY <1>3 DEF FirstInvoke, invokes
<1>7. Min(invokes) = i
  <2>1. invokes \subseteq Nat
    BY DEF invokes
  <2> QED BY <1>5, <2>1, MinOfSet
<1> QED BY <1>6, <1>7

\* One address is found when the addresses are one, and none when there is none.
LEMMA OneFacts ==
    ASSUME NEW S, IsFiniteSet(S)
    PROVE  /\ One(S).kind \in {"none", "one", "conflict"}
           /\ One(S).kind = "none" => S = {}
           /\ One(S).kind = "one" => S = {One(S).address}
PROOF
<1>1. CASE Cardinality(S) > 1
  BY <1>1 DEF One
<1>2. CASE ~(Cardinality(S) > 1) /\ S = {}
  BY <1>2 DEF One
<1>3. CASE ~(Cardinality(S) > 1) /\ S # {}
  <2>1. Cardinality(S) = 1
    BY <1>3, FS_CardinalityType, FS_EmptySet
  <2>2. PICK x : S = {x}
    BY <2>1, FS_Singleton
  <2>3. One(S) = [kind |-> "one", address |-> CHOOSE a \in S : TRUE]
    BY <1>3 DEF One
  <2>4. (CHOOSE a \in S : TRUE) = x
    BY <2>2
  <2> QED BY <2>2, <2>3, <2>4
<1> QED BY <1>1, <1>2, <1>3

\* FirstOf, with two checks.
LEMMA FirstOfTwo ==
    ASSUME NEW p1, NEW p2, NEW o1, NEW o2, NEW otherwise
    PROVE  LET first == FirstOf(<< <<p1, o1>>, <<p2, o2>> >>, otherwise)
           IN  \/ p1 /\ first = o1
               \/ ~p1 /\ p2 /\ first = o2
               \/ ~p1 /\ ~p2 /\ first = otherwise
PROOF
<1> DEFINE checks == << <<p1, o1>>, <<p2, o2>> >>
           hits == {i \in DOMAIN checks : checks[i][1]}
           first == CHOOSE i \in hits : \A j \in hits : i <= j
<1>1. DOMAIN checks = 1 .. 2
  OBVIOUS
<1>2. (1 \in hits <=> p1) /\ (2 \in hits <=> p2)
  BY <1>1
<1>3. checks[1][2] = o1 /\ checks[2][2] = o2
  OBVIOUS
<1>4. FirstOf(checks, otherwise) = IF hits = {} THEN otherwise ELSE checks[first][2]
  BY DEF FirstOf
<1>5. hits \subseteq 1 .. 2
  BY <1>1
<1> HIDE DEF checks, hits
<1>6. CASE 1 \in hits
  <2>1. first = 1
    <3>1. 1 \in hits /\ \A j \in hits : 1 <= j
      BY <1>5, <1>6
    <3>2. first \in hits /\ \A j \in hits : first <= j
      BY <3>1
    <3> HIDE DEF first
    <3>3. first \in hits /\ first <= 1
      BY <1>6, <3>2
    <3> QED BY <1>5, <3>3
  <2> QED BY <1>2, <1>3, <1>4, <1>6, <2>1, Zenon DEF checks
<1>7. CASE 1 \notin hits /\ 2 \in hits
  <2>1. hits = {2}
    <3>1. \A i \in 1 .. 2 : i = 1 \/ i = 2
      OBVIOUS
    <3> QED BY <1>5, <1>7, <3>1, Zenon
  <2>2. first = 2
    <3>1. \E i \in hits : \A j \in hits : i <= j
      BY <2>1
    <3>2. first \in hits
      BY <3>1
    <3> QED BY <2>1, <3>2
  <2> QED BY <1>2, <1>3, <1>4, <1>7, <2>2, Zenon DEF checks
<1>8. CASE 1 \notin hits /\ 2 \notin hits
  <2>1. hits = {}
    BY <1>5, <1>8
  <2> QED BY <1>2, <1>4, <1>8, <2>1, Zenon DEF checks
<1> QED BY <1>6, <1>7, <1>8

\* The shadow account is an address.
LEMMA ShadowFacts ==
    ASSUME NEW tx, tx.user \in Address, NEW anonymizer
    PROVE  /\ getShadowAccountAddress(tx, anonymizer) \subseteq Address
           /\ getShadowAccountAddress(tx, anonymizer) # {} =>
                 getShadowAccountAddress(tx, anonymizer) = {canonical[shadowOf[feltOf[tx.user]]]}
PROOF
<1>1. feltOf[tx.user] # Invalid => canonical[shadowOf[feltOf[tx.user]]] \in Address
  BY NormalFelt, ProofInterceptorAssumption
<1> QED BY <1>1 DEF getShadowAccountAddress

\* What a delegated depositor names: nothing, the shadow account, or it is not determined.
LEMMA DelegatedFacts ==
    ASSUME NEW tx, tx.user \in Address, NEW action
    PROVE  LET d == getDelegatedAddress(tx, action)
               none == action.variant # "ComputeAndInvoke" \/ ~createsOpenNotes(action)
               shadow == getShadowAccountAddress(tx, normalizeFelt(action.contract_address))
           IN  \/ none /\ d.kind = "none"
               \/ ~none /\ shadow = {} /\ d.kind = "undeterminedShadowAccount"
               \/ /\ ~none /\ shadow # {} /\ d.kind = "one"
                  /\ d.address \in Address /\ d.address = canonical[shadowOf[feltOf[tx.user]]]
PROOF
<1> DEFINE d == getDelegatedAddress(tx, action)
           none == action.variant # "ComputeAndInvoke" \/ ~createsOpenNotes(action)
           shadow == getShadowAccountAddress(tx, normalizeFelt(action.contract_address))
           one == [kind |-> "one", address |-> CHOOSE a \in shadow : TRUE]
           p2 == shadow = {}
           n == [kind |-> "none"]
           u == [kind |-> "undeterminedShadowAccount"]
<1>1. d = FirstOf(<< <<none, n>>, <<p2, u>> >>, one)
  BY DEF getDelegatedAddress
<1>2. shadow \subseteq Address /\ (shadow # {} => shadow = {canonical[shadowOf[feltOf[tx.user]]]})
  BY ShadowFacts
<1> HIDE DEF d, none, shadow, one, p2, n, u
<1> DEFINE first == FirstOf(<< <<none, n>>, <<p2, u>> >>, one)
<1>3. \/ none /\ first = n
      \/ ~none /\ p2 /\ first = u
      \/ ~none /\ ~p2 /\ first = one
  BY FirstOfTwo
<1> HIDE DEF first
<1>4. n.kind = "none" /\ u.kind = "undeterminedShadowAccount" /\ one.kind = "one"
  BY DEF n, u, one
<1>5. shadow # {} => one.address \in Address /\ one.address = canonical[shadowOf[feltOf[tx.user]]]
  BY <1>2 DEF one
<1>6. \/ none /\ d.kind = "none"
      \/ ~none /\ shadow = {} /\ d.kind = "undeterminedShadowAccount"
      \/ /\ ~none /\ shadow # {} /\ d.kind = "one"
         /\ d.address \in Address /\ d.address = canonical[shadowOf[feltOf[tx.user]]]
  <2>1. CASE none /\ first = n
    BY <1>1, <1>4, <2>1, Zenon DEF first
  <2>2. CASE ~none /\ p2 /\ first = u
    BY <1>1, <1>4, <2>2, Zenon DEF p2, first
  <2>3. CASE ~none /\ ~p2 /\ first = one
    BY <1>1, <1>4, <1>5, <2>3, Zenon DEF p2, first
  <2> QED BY <1>3, <2>1, <2>2, <2>3, Zenon
<1> QED BY <1>6 DEF d, none, shadow

\* In a transaction that can execute, it is the shadow account of a compute-invoke.
LEMMA DelegatedTrue ==
    ASSUME NEW tx, tx.user \in Address, tx.actions \in Seq(Action), Executable(tx),
           NEW action \in getOpenNoteDepositor(tx)
    PROVE  LET d == getDelegatedAddress(tx, action)
           IN  \/ action.variant # "ComputeAndInvoke" /\ d.kind = "none"
               \/ /\ action.variant = "ComputeAndInvoke" /\ d.kind = "one"
                  /\ d.address = canonical[shadowOf[feltOf[tx.user]]]
PROOF
<1>1. "CreateOpenNote" \in Variants(tx) /\ action \in FirstInvoke(tx)
  BY DEF getOpenNoteDepositor
<1>2. CASE action.variant # "ComputeAndInvoke"
  BY <1>2, DelegatedFacts
<1>3. CASE action.variant = "ComputeAndInvoke"
  <2>1. createsOpenNotes(action) /\ action.computeDecodes
    BY <1>1, <1>3 DEF Executable, createsOpenNotes
  <2> DEFINE anonymizer == normalizeFelt(action.contract_address)
             targets == {i \in DOMAIN tx.actions :
                            /\ tx.actions[i].variant = "ComputeAndInvoke"
                            /\ normalizeFelt(tx.actions[i].contract_address) = anonymizer}
  <2>2. targets # {}
    BY <1>1, <1>3, InvokeFacts
  <2>3. targets \subseteq Nat
    OBVIOUS
  <2>4. Min(targets) \in targets
    BY <2>2, <2>3, MinOfSet
  <2> DEFINE i == Min(targets)
  <2>5. i \in DOMAIN tx.actions /\ tx.actions[i].variant = "ComputeAndInvoke"
    BY <2>4
  <2>6. getShadowAccountInteraction(tx, anonymizer) = {x \in {tx.actions[i]} : x.computeDecodes}
    BY <2>2 DEF getShadowAccountInteraction
  <2> HIDE DEF i, targets
  <2>7. tx.actions[i] = action
    BY <1>1, <2>5, OnlyInvoke
  <2>8. getShadowAccountInteraction(tx, anonymizer) # {}
    BY <2>1, <2>6, <2>7, Zenon
  <2>9. tx.viewingKeyParses /\ feltOf[tx.user] # Invalid
    BY DEF Executable
  <2>10. getShadowAccountAddress(tx, anonymizer) # {}
    BY <2>8, <2>9, Zenon DEF getShadowAccountAddress
  <2> QED BY <1>3, <2>1, <2>10, DelegatedFacts
<1> QED BY <1>2, <1>3

\* The interceptor knows the policy of the invoke that funds the open notes.
Informed(tx, policy) ==
    \A action \in getOpenNoteDepositor(tx) :
        policy = parsePolicy(policies[feltOf[action.contract_address]])

\* The subject is a unique address, or there is none, or the transaction is blocked;
\* informed of the policy, the interceptor finds the addresses that the pool will find.
LEMMA ScreenedSet ==
    ASSUME NEW tx, tx.user \in Address, tx.actions \in Seq(Action), NEW policy,
           policies \in Policies, tx.decodes
    PROVE  LET screened == getScreenedAddress(tx, policy)
           IN  \/ screened.kind \notin {"none", "one"}
               \/ \E S \in SUBSET Address :
                     /\ IsFiniteSet(S) /\ screened = One(S)
                     /\ (Executable(tx) /\ Informed(tx, policy)) =>
                           PoolSubjects(tx, policies) = {feltOf[a] : a \in S}
PROOF
<1> DEFINE own == IF "Deposit" \in Variants(tx) THEN {normalizeFelt(tx.user)} ELSE {}
           ownFelt == IF "Deposit" \in Variants(tx) THEN {feltOf[tx.user]} ELSE {}
           screened == getScreenedAddress(tx, policy)
           goal == \/ screened.kind \notin {"none", "one"}
                   \/ \E S \in SUBSET Address :
                         /\ IsFiniteSet(S) /\ screened = One(S)
                         /\ (Executable(tx) /\ Informed(tx, policy)) =>
                               PoolSubjects(tx, policies) = {feltOf[a] : a \in S}
<1> SUFFICES goal
  OBVIOUS
<1>1. own \in SUBSET Address /\ IsFiniteSet(own) /\ ownFelt = {feltOf[a] : a \in own}
  <2>1. CASE "Deposit" \in Variants(tx)
    <3> DEFINE a1 == normalizeFelt(tx.user)
    <3>1. a1 \in Address /\ feltOf[a1] = feltOf[tx.user]
      BY NormalFelt
    <3>2. own = {a1} /\ ownFelt = {feltOf[tx.user]}
      BY <2>1
    <3> HIDE DEF a1, own, ownFelt
    <3> QED BY <3>1, <3>2, FS_Singleton
  <2>2. CASE "Deposit" \notin Variants(tx)
    BY <2>2, FS_EmptySet
  <2> QED BY <2>1, <2>2
<1>2. CASE getOpenNoteDepositor(tx) = {}
  <2>1. screened = One(own)
    BY <1>2 DEF getScreenedAddress
  <2>2. Executable(tx) => {a \in FirstInvoke(tx) : "CreateOpenNote" \in Variants(tx)} = {}
    BY <1>2 DEF getOpenNoteDepositor
  <2>3. Executable(tx) => PoolSubjects(tx, policies) = ownFelt
    BY <2>2 DEF PoolSubjects
  <2> QED BY <1>1, <2>1, <2>3
<1>3. CASE getOpenNoteDepositor(tx) # {}
  <2>1. PICK action : action \in getOpenNoteDepositor(tx)
    BY <1>3
  <2>2. "CreateOpenNote" \in Variants(tx) /\ action \in FirstInvoke(tx)
    BY <2>1 DEF getOpenNoteDepositor
  <2>3. FirstInvoke(tx) = {action} /\ action.contract_address \in Address
        /\ getOpenNoteDepositor(tx) = {action}
    BY <2>1, <2>2, InvokeFacts DEF getOpenNoteDepositor
  <2> DEFINE chosen == CHOOSE a \in getOpenNoteDepositor(tx) : TRUE
  <2>4. chosen = action
    BY <2>3
  <2> DEFINE felt == feltOf[action.contract_address]
             asked == CASE policies[felt] = "Required" -> {felt}
                        [] /\ policies[felt] = "Delegated"
                           /\ action.variant = "ComputeAndInvoke" -> {shadowOf[feltOf[tx.user]]}
                        [] OTHER -> {}
             delegated == getDelegatedAddress(tx, action)
  <2>5. {a \in FirstInvoke(tx) : "CreateOpenNote" \in Variants(tx)} = {action}
    BY <2>2, <2>3
  <2>6. PoolSubjects(tx, policies) = ownFelt \cup asked
    BY <2>5 DEF PoolSubjects
  <2>7. Executable(tx) => policies[felt] \in OpenNoteScreeningPolicy \cup {"absent"}
    <3>1. Executable(tx) => felt \in Felt
      BY <2>2, <2>3, NormalFelt DEF Executable
    <3> QED BY <3>1, ProofInterceptorAssumption
  <2>8. Informed(tx, policy) => policy = parsePolicy(policies[felt])
    BY <2>1 DEF Informed
  <2>9. screened = IF policy = "Exempt" THEN One(own)
                   ELSE IF policy = "Required"
                        THEN One(own \cup {normalizeFelt(action.contract_address)})
                   ELSE IF policy # "Delegated" THEN [kind |-> "unreadablePolicy"]
                   ELSE IF delegated.kind = "one" THEN One(own \cup {delegated.address})
                   ELSE IF delegated.kind = "none" THEN One(own)
                   ELSE delegated
    <3> DEFINE d == getDelegatedAddress(tx, chosen)
               blocked == [kind |-> "unreadablePolicy"]
               required == One(own \cup {normalizeFelt(chosen.contract_address)})
               shadowed == One(own \cup {d.address})
               alone == One(own)
    <3>1. screened = IF ~tx.decodes THEN [kind |-> "none"]
                     ELSE IF getOpenNoteDepositor(tx) = {} \/ policy = "Exempt" THEN alone
                     ELSE IF policy = "Required" THEN required
                     ELSE IF policy # "Delegated" THEN blocked
                     ELSE IF d.kind = "one" THEN shadowed
                     ELSE IF d.kind = "none" THEN alone
                     ELSE d
      BY DEF getScreenedAddress
    <3> HIDE DEF d, blocked, required, shadowed, alone
    <3>2. screened = IF policy = "Exempt" THEN alone
                     ELSE IF policy = "Required" THEN required
                     ELSE IF policy # "Delegated" THEN blocked
                     ELSE IF d.kind = "one" THEN shadowed
                     ELSE IF d.kind = "none" THEN alone
                     ELSE d
      BY <1>3, <3>1
    <3> HIDE DEF chosen, own, screened
    <3> QED BY <2>4, <3>2, Zenon DEF d, blocked, required, shadowed, alone
  <2> HIDE DEF own, ownFelt, screened
  <2>10. CASE policy = "Exempt"
    <3>1. (Executable(tx) /\ Informed(tx, policy)) => asked = {}
      BY <2>7, <2>8, <2>10 DEF parsePolicy, OpenNoteScreeningPolicy
    <3> QED BY <1>1, <2>6, <2>9, <2>10, <3>1 DEF screened
  <2>11. CASE policy = "Required"
    <3> DEFINE a1 == normalizeFelt(action.contract_address)
               S == own \cup {a1}
    <3>1. a1 \in Address /\ feltOf[a1] = felt
      BY <2>3, NormalFelt
    <3>2. (Executable(tx) /\ Informed(tx, policy)) => asked = {felt}
      BY <2>7, <2>8, <2>11 DEF parsePolicy, OpenNoteScreeningPolicy
    <3>3. screened = One(S)
      BY <2>9, <2>11
    <3> HIDE DEF a1, felt, asked
    <3>4. S \in SUBSET Address /\ IsFiniteSet(S)
      BY <1>1, <3>1, FS_AddElement
    <3>5. {feltOf[a] : a \in S} = ownFelt \cup {felt}
      BY <1>1, <3>1
    <3> QED BY <2>6, <3>2, <3>3, <3>4, <3>5 DEF screened
  <2>12. CASE policy \notin {"Exempt", "Required", "Delegated"}
    <3>1. screened.kind = "unreadablePolicy"
      BY <2>9, <2>12
    <3> QED BY <3>1 DEF screened
  <2>13. CASE policy = "Delegated" /\ delegated.kind = "one"
    <3> DEFINE a1 == delegated.address
               S == own \cup {a1}
    <3>1. a1 \in Address /\ a1 = canonical[shadowOf[feltOf[tx.user]]]
      BY <2>13, DelegatedFacts
    <3>2. Executable(tx) => action.variant = "ComputeAndInvoke"
      BY <2>1, <2>13, DelegatedTrue
    <3>3. Executable(tx) => feltOf[a1] = shadowOf[feltOf[tx.user]]
      BY <3>1, NormalFelt, ProofInterceptorAssumption DEF Executable
    <3>4. (Executable(tx) /\ Informed(tx, policy)) => asked = {feltOf[a1]}
      BY <2>7, <2>8, <2>13, <3>2, <3>3 DEF parsePolicy, OpenNoteScreeningPolicy
    <3>5. screened = One(S)
      BY <2>9, <2>13
    <3> HIDE DEF a1, asked
    <3>6. S \in SUBSET Address /\ IsFiniteSet(S)
      BY <1>1, <3>1, FS_AddElement
    <3>7. {feltOf[a] : a \in S} = ownFelt \cup {feltOf[a1]}
      BY <1>1, <3>1
    <3> QED BY <2>6, <3>4, <3>5, <3>6, <3>7 DEF screened
  <2>14. CASE policy = "Delegated" /\ delegated.kind = "none"
    <3>1. Executable(tx) => action.variant # "ComputeAndInvoke"
      BY <2>1, <2>14, DelegatedTrue
    <3>2. (Executable(tx) /\ Informed(tx, policy)) => asked = {}
      BY <2>7, <2>8, <2>14, <3>1 DEF parsePolicy, OpenNoteScreeningPolicy
    <3>3. screened = One(own)
      BY <2>9, <2>14
    <3> QED BY <1>1, <2>6, <3>2, <3>3 DEF screened
  <2>15. CASE policy = "Delegated" /\ delegated.kind \notin {"one", "none"}
    <3>1. screened = delegated
      BY <2>9, <2>15
    <3> QED BY <2>15, <3>1 DEF screened
  <2> HIDE DEF goal, delegated
  <2> QED BY <2>10, <2>11, <2>12, <2>13, <2>14, <2>15
<1> QED BY <1>2, <1>3

\* So a subject is an address, and the one that the pool will want screened.
LEMMA ScreenedTrue ==
    ASSUME NEW tx, tx.user \in Address, tx.actions \in Seq(Action), NEW policy,
           policies \in Policies
    PROVE  LET screened == getScreenedAddress(tx, policy)
           IN  /\ screened.kind = "one" => screened.address \in Address
               /\ (Executable(tx) /\ Informed(tx, policy) /\ screened.kind = "one") =>
                     PoolSubjects(tx, policies) = {feltOf[screened.address]}
               /\ (Executable(tx) /\ Informed(tx, policy) /\ screened.kind = "none") =>
                     PoolSubjects(tx, policies) = {}
PROOF
<1> DEFINE screened == getScreenedAddress(tx, policy)
<1>1. CASE ~tx.decodes
  <2>1. screened.kind = "none" /\ ~Executable(tx)
    BY <1>1 DEF getScreenedAddress, Executable
  <2> QED BY <2>1
<1>2. CASE tx.decodes /\ screened.kind \notin {"none", "one"}
  BY <1>2
<1>3. CASE tx.decodes /\ screened.kind \in {"none", "one"}
  <2>1. PICK S \in SUBSET Address :
            /\ IsFiniteSet(S) /\ screened = One(S)
            /\ (Executable(tx) /\ Informed(tx, policy)) => PoolSubjects(tx, policies) = {feltOf[a] : a \in S}
    BY <1>3, ScreenedSet
  <2> HIDE DEF screened
  <2>2. screened.kind = "none" => S = {}
    BY <2>1, OneFacts
  <2>3. screened.kind = "one" => S = {screened.address}
    BY <2>1, OneFacts
  <2>4. screened.kind = "one" => screened.address \in Address
    BY <2>1, <2>3
  <2>5. (Executable(tx) /\ Informed(tx, policy) /\ screened.kind = "one") =>
            PoolSubjects(tx, policies) = {feltOf[screened.address]}
    BY <2>1, <2>3
  <2>6. (Executable(tx) /\ Informed(tx, policy) /\ screened.kind = "none") => PoolSubjects(tx, policies) = {}
    BY <2>1, <2>2
  <2> QED BY <2>4, <2>5, <2>6 DEF screened
<1> QED BY <1>1, <1>2, <1>3

-----------------------------------------------------------------------------
(***************************************************************************)
(* A request goes on.                                                      *)
(***************************************************************************)

\* A transaction that is allowed with this signature will be taken by the pool.
Taken(x, signature) ==
    (SettledFor(x) /\ Executable(x.request.tx)) =>
        /\ PoolSubjects(x.request.tx, policies) = {s.depositor : s \in signature}
        /\ PoolSubjects(x.request.tx, policies) \cap Denied = {}

\* A request that is answered in time, and truly.
LEMMA DoneGood ==
    ASSUME Configured, now \in Nat, NEW x, Shape(x), x.arrived <= now, now <= Limit(x),
           NEW verdict, verdict.action = "allow" => Taken(x, verdict.signature)
    PROVE  Good(Done(x, verdict)) /\ Done(x, verdict).pc = "done" /\ Done(x, verdict).attempt = 0
PROOF
<1> DEFINE y == Done(x, verdict)
<1>1. /\ y = [x EXCEPT !.pc = "done", !.verdict = verdict, !.answered = now,
                       !.attempt = 0, !.deadline = 0, !.due = 0]
  BY DEF Done
<1> HIDE DEF y
<1>2. /\ y.pc = "done" /\ y.verdict = verdict /\ y.answered = now /\ y.attempt = 0
      /\ y.deadline = 0 /\ y.due = 0 /\ y.request = x.request /\ y.arrived = x.arrived
      /\ y.subject = x.subject
  BY <1>1 DEF Shape
<1>3. Shape(y)
  <2>1. y = [pc |-> "done", request |-> x.request, arrived |-> x.arrived, subject |-> x.subject,
             attempt |-> 0, deadline |-> 0, due |-> 0, verdict |-> verdict, answered |-> now]
    BY <1>1 DEF Shape
  <2>2. /\ y.pc \in Pcs /\ y.request \in Requests /\ y.subject \in Address
        /\ {y.arrived, y.attempt, y.deadline, y.answered} \subseteq Nat /\ y.due \in Int
    BY <1>2 DEF Shape, Pcs
  <2> QED BY <1>2, <2>1, <2>2 DEF Shape
<1>4. Timely(y)
  BY <1>2 DEF Timely, Limit, Active
<1>5. Waits(y)
  BY <1>2 DEF Waits
<1>6. Truthful(y)
  <2>1. SettledFor(y) <=> SettledFor(x)
    BY <1>2 DEF SettledFor
  <2> QED BY <1>2, <2>1 DEF Truthful, Taken, Active
<1> QED BY <1>2, <1>3, <1>4, <1>5, <1>6 DEF Good, y

\* A request whose subject is known: answered, or about to be screened.
LEMMA ResolvedGood ==
    ASSUME Configured, now \in Nat, policies \in Policies, NEW x, Shape(x),
           x.arrived <= now, now <= x.arrived + config.policyTimeoutMs,
           x.attempt <= config.maxRetries, NEW policy,
           (SettledFor(x) /\ Executable(x.request.tx)) =>
              \/ Informed(x.request.tx, policy)
              \/ getScreenedAddress(x.request.tx, policy).kind \notin {"none", "one"}
    PROVE  LET y == Resolved(x, getScreenedAddress(x.request.tx, policy))
           IN  Good(y) /\ y.pc \in {"done", "calling"} /\ y.attempt <= config.maxRetries
PROOF
<1> DEFINE tx == x.request.tx
           screened == getScreenedAddress(tx, policy)
           y == Resolved(x, screened)
<1>1. tx.user \in Address /\ tx.actions \in Seq(Action)
  BY ProofInterceptorAssumption DEF Shape
<1>2. /\ screened.kind = "one" => screened.address \in Address
      /\ (Executable(tx) /\ Informed(tx, policy) /\ screened.kind = "one") =>
            PoolSubjects(tx, policies) = {feltOf[screened.address]}
      /\ (Executable(tx) /\ Informed(tx, policy) /\ screened.kind = "none") =>
            PoolSubjects(tx, policies) = {}
  <2> HIDE DEF tx
  <2> QED BY <1>1, ScreenedTrue DEF tx
<1>3. /\ config.totalTimeoutMs \in Nat /\ config.policyTimeoutMs \in Nat /\ x.arrived \in Nat
      /\ config.maxRetries \in Nat
  BY DEF Configured, Shape
<1>4. now <= Limit(x)
  BY <1>3 DEF Limit
<1>5. (SettledFor(x) /\ Executable(tx)) =>
          \/ Informed(tx, policy)
          \/ screened.kind \notin {"none", "one"}
  OBVIOUS
<1>6. y = IF screened.kind = "none" THEN Done(x, Allow)
          ELSE IF screened.kind # "one"
               THEN Done(x, Block(UNRESOLVED_SUBJECT_REASONS[screened.kind]))
          ELSE [x EXCEPT !.pc = "calling", !.subject = screened.address,
                         !.deadline = now + config.totalTimeoutMs]
  BY DEF Resolved
<1> HIDE DEF screened, y
<1>7. CASE screened.kind = "none"
  <2>1. Taken(x, Allow.signature)
    BY <1>2, <1>5, <1>7 DEF Taken, Allow
  <2> DEFINE verdict == Allow
  <2> HIDE DEF verdict
  <2>2. Good(Done(x, verdict)) /\ Done(x, verdict).pc = "done" /\ Done(x, verdict).attempt = 0
    BY <1>4, <2>1, DoneGood DEF verdict
  <2> QED BY <1>3, <1>6, <1>7, <2>2 DEF y, screened, verdict
<1>8. CASE screened.kind \notin {"none", "one"}
  <2> DEFINE verdict == Block(UNRESOLVED_SUBJECT_REASONS[screened.kind])
  <2>1. verdict.action # "allow"
    BY DEF Block
  <2> HIDE DEF verdict
  <2>2. Good(Done(x, verdict)) /\ Done(x, verdict).pc = "done" /\ Done(x, verdict).attempt = 0
    BY <1>4, <2>1, DoneGood
  <2>3. y = Done(x, verdict)
    BY <1>6, <1>8 DEF verdict
  <2> QED BY <1>3, <2>2, <2>3 DEF y, screened
<1>9. CASE screened.kind = "one"
  <2>1. y = [x EXCEPT !.pc = "calling", !.subject = screened.address,
                      !.deadline = now + config.totalTimeoutMs]
    BY <1>6, <1>9
  <2>2. /\ y.pc = "calling" /\ y.subject = screened.address /\ y.attempt = x.attempt
        /\ y.deadline = now + config.totalTimeoutMs /\ y.request = x.request
        /\ y.arrived = x.arrived /\ y.due = x.due /\ y.verdict = x.verdict
        /\ y.answered = x.answered
    BY <2>1 DEF Shape
  <2>3. Shape(y)
    <3>1. y = [pc |-> y.pc, request |-> y.request, arrived |-> y.arrived, subject |-> y.subject,
               attempt |-> y.attempt, deadline |-> y.deadline, due |-> y.due,
               verdict |-> y.verdict, answered |-> y.answered]
      BY <2>1 DEF Shape
    <3>2. /\ y.pc \in Pcs /\ y.request \in Requests /\ y.subject \in Address
          /\ {y.arrived, y.attempt, y.deadline, y.answered} \subseteq Nat /\ y.due \in Int
      BY <1>2, <1>3, <1>9, <2>2 DEF Shape, Pcs
    <3> QED BY <3>1, <3>2 DEF Shape
  <2>4. Timely(y)
    BY <1>3, <2>2 DEF Timely, Limit, Active
  <2>5. Waits(y)
    BY <2>2 DEF Waits
  <2>6. SettledFor(y) <=> SettledFor(x)
    BY <2>2 DEF SettledFor
  <2>7. Truthful(y)
    BY <1>2, <1>5, <1>9, <2>2, <2>6 DEF Truthful
  <2> QED BY <2>2, <2>3, <2>4, <2>5, <2>7 DEF Good, y, screened
<1> QED BY <1>7, <1>8, <1>9

\* A request that is not touched, when the time and the policies stand.
LEMMA UntouchedGood ==
    ASSUME UNCHANGED <<now, config, policies, changes>>, NEW t, txs'[t] = txs[t],
           Good(txs[t]), Waits(txs[t]) => Waits(txs[t])'
    PROVE  Good(txs[t])'
PROOF
<1>1. Shape(txs[t])' /\ Timely(txs[t])' /\ Truthful(txs[t])'
  <2>1. Shape(txs[t])'
    BY DEF Good, Shape
  <2>2. Timely(txs[t])'
    BY DEF Good, Timely, Limit
  <2>3. Truthful(txs[t])'
    BY DEF Good, Truthful, SettledFor, UnchangedSince
  <2> QED BY <2>1, <2>2, <2>3
<1> QED BY <1>1 DEF Good

\* One request goes on and waits for no policy.
LEMMA TxStep ==
    ASSUME ScreeningInv, NEW t \in Tx, NEW y,
           txs'[t] = y, DOMAIN txs' = Tx, \A u \in Tx : u # t => txs'[u] = txs[u],
           UNCHANGED <<now, config, policies, changes, pendingReads, cachedPolicies>>,
           Good(y), y.pc # "policy", y.attempt <= config.maxRetries, ScreensTrue',
           y.pc = "screening" => screens'[<<t, y.attempt>>].address = y.subject,
           \A u \in Tx : (u # t /\ txs[u].pc = "screening") =>
               screens'[<<u, txs[u].attempt>>].address = screens[<<u, txs[u].attempt>>].address
    PROVE  ScreeningInv'
PROOF
<1>2. txs'[t] = y /\ DOMAIN txs' = Tx /\ \A u \in Tx : u # t => txs'[u] = txs[u]
  OBVIOUS
<1>3. ASSUME NEW u \in Tx PROVE Good(txs[u])' /\ CallsFit(u)'
  <2>1. CASE u = t
    <3>1. Good(txs[u])'
      <4>1. Shape(txs[u])'
        BY <1>2, <2>1 DEF Good, Shape
      <4>2. Timely(txs[u])'
        BY <1>2, <2>1 DEF Good, Timely, Limit
      <4>3. Waits(txs[u])'
        BY <1>2, <2>1 DEF Waits
      <4>4. Truthful(txs[u])'
        BY <1>2, <2>1 DEF Good, Truthful, SettledFor, UnchangedSince
      <4> QED BY <4>1, <4>2, <4>3, <4>4 DEF Good
    <3>2. CallsFit(u)'
      BY <1>2, <2>1 DEF CallsFit
    <3> QED BY <3>1, <3>2
  <2>2. CASE u # t
    <3>1. Good(txs[u]) /\ CallsFit(u) /\ txs'[u] = txs[u]
      BY <1>2, <2>2 DEF ScreeningInv
    <3>2. Waits(txs[u]) => Waits(txs[u])'
      BY <3>1 DEF Waits
    <3>3. Good(txs[u])'
      BY <3>1, <3>2, UntouchedGood
    <3>4. CallsFit(u)'
      BY <2>2, <3>1 DEF CallsFit
    <3> QED BY <3>3, <3>4
  <2> QED BY <2>1, <2>2
<1>4. Configured' /\ ReadsTimely' /\ ReadsTrue' /\ CacheTrue'
  BY DEF ScreeningInv, Configured, ReadsTimely, ReadsTrue, CacheTrue, UnchangedSince
<1> QED BY <1>2, <1>3, <1>4 DEF ScreeningInv

\* A request on its way through the screening service has time left.
LEMMA ActiveFacts ==
    ASSUME ScreeningInv, NEW t \in Tx, txs[t].pc \in Active
    PROVE  /\ Good(txs[t]) /\ Shape(txs[t]) /\ Configured /\ now \in Nat
           /\ txs[t].arrived <= now /\ now <= txs[t].deadline
           /\ txs[t].deadline <= Limit(txs[t]) /\ now <= Limit(txs[t])
           /\ txs[t].deadline \in Nat /\ txs[t].attempt \in Nat
           /\ config.maxRetries \in Nat /\ config.timeoutMs \in Nat
           /\ txs[t].attempt <= config.maxRetries
           /\ <<t, txs[t].attempt>> \in Call
           /\ DOMAIN txs = Tx
PROOF
<1> DEFINE x == txs[t]
<1>1. Good(x) /\ Configured /\ CallsFit(t) /\ now \in 0 .. MaxTime /\ DOMAIN txs = Tx
  BY DEF ScreeningInv
<1>2. x.pc # "free"
  BY DEF Active
<1>3. x.attempt <= config.maxRetries
  BY <1>1 DEF CallsFit
<1> HIDE DEF x
<1>4. x.pc \in Active
  BY DEF x
<1>5. Shape(x) /\ x.arrived <= now /\ now <= x.deadline /\ x.deadline <= Limit(x)
  BY <1>1, <1>2, <1>4 DEF Good, Timely
<1>6. x.deadline \in Nat /\ x.attempt \in Nat /\ x.arrived \in Nat
  BY <1>5 DEF Shape
<1>7. /\ config.maxRetries \in Nat /\ config.timeoutMs \in Nat
      /\ config.totalTimeoutMs \in Nat /\ config.policyTimeoutMs \in Nat
      /\ Tx \X (0 .. config.maxRetries) \subseteq Call
  BY <1>1 DEF Configured
<1>8. Limit(x) \in Nat
  BY <1>6, <1>7 DEF Limit
<1>9. now \in Nat
  BY <1>1, ScreenerAssumption
<1>10. now <= Limit(x)
  BY <1>5, <1>6, <1>8, <1>9
<1>11. <<t, x.attempt>> \in Call
  BY <1>3, <1>6, <1>7
<1> QED BY <1>1, <1>3, <1>5, <1>6, <1>7, <1>9, <1>10, <1>11 DEF x

\* It may give up at any time.
LEMMA UnavailableGood ==
    ASSUME ScreeningInv, NEW t \in Tx, txs[t].pc \in Active
    PROVE  /\ Good(Unavailable(txs[t])) /\ Unavailable(txs[t]).pc = "done"
           /\ Unavailable(txs[t]).attempt = 0
PROOF
<1> DEFINE x == txs[t]
           verdict == Block("screening_unavailable")
<1>1. Shape(x) /\ Configured /\ now \in Nat /\ x.arrived <= now /\ now <= Limit(x)
  BY ActiveFacts
<1>2. verdict.action # "allow"
  BY DEF Block
<1> HIDE DEF x, verdict
<1>3. Good(Done(x, verdict)) /\ Done(x, verdict).pc = "done" /\ Done(x, verdict).attempt = 0
  BY <1>1, <1>2, DoneGood
<1> QED BY <1>3 DEF Unavailable, x, verdict

\* The request x after another step of its calls.
Continued(x, pc, attempt, due) == [x EXCEPT !.pc = pc, !.attempt = attempt, !.due = due]

\* Or go on with another call.
LEMMA ContinuedGood ==
    ASSUME ScreeningInv, NEW t \in Tx, txs[t].pc \in Active, NEW y, NEW pc \in Active,
           NEW attempt \in Nat, NEW due \in Int,
           y = Continued(txs[t], pc, attempt, due),
           pc # "calling" => due <= txs[t].deadline
    PROVE  /\ Good(y) /\ y.pc = pc /\ y.attempt = attempt /\ y.subject = txs[t].subject
PROOF
<1> DEFINE x == txs[t]
<1>1. /\ Shape(x) /\ x.arrived <= now /\ now <= x.deadline /\ x.deadline <= Limit(x)
      /\ Truthful(x) /\ x.pc \in Active /\ (pc # "calling" => due <= x.deadline)
  BY ActiveFacts DEF Good
<1>2. y = [x EXCEPT !.pc = pc, !.attempt = attempt, !.due = due]
  BY DEF Continued
<1> HIDE DEF x
<1>3. /\ y.pc = pc /\ y.attempt = attempt /\ y.due = due /\ y.request = x.request
      /\ y.arrived = x.arrived /\ y.subject = x.subject /\ y.deadline = x.deadline
      /\ y.verdict = x.verdict /\ y.answered = x.answered
  BY <1>1, <1>2 DEF Shape
<1>4. Shape(y)
  <2>1. y = [pc |-> y.pc, request |-> y.request, arrived |-> y.arrived, subject |-> y.subject,
             attempt |-> y.attempt, deadline |-> y.deadline, due |-> y.due,
             verdict |-> y.verdict, answered |-> y.answered]
    BY <1>1, <1>2 DEF Shape
  <2>2. /\ y.pc \in Pcs /\ y.request \in Requests /\ y.subject \in Address
        /\ {y.arrived, y.attempt, y.deadline, y.answered} \subseteq Nat /\ y.due \in Int
    BY <1>1, <1>3 DEF Shape, Pcs, Active
  <2> QED BY <2>1, <2>2 DEF Shape
<1>5. Timely(y)
  BY <1>1, <1>3 DEF Timely, Limit, Active
<1>6. Waits(y)
  BY <1>3 DEF Waits, Active
<1>7. Truthful(y)
  <2>1. SettledFor(y) <=> SettledFor(x)
    BY <1>3 DEF SettledFor
  <2>2. y.pc # "done"
    BY <1>3 DEF Active
  <2> QED BY <1>1, <1>3, <2>1, <2>2 DEF Truthful
<1> QED BY <1>3, <1>4, <1>5, <1>6, <1>7 DEF Good, x

\* After a failure there is a pause that ends by the deadline, or the request gives up.
LEMMA FailedGood ==
    ASSUME ScreeningInv, NEW t \in Tx, txs[t].pc \in Active
    PROVE  /\ Good(Failed(t)) /\ Failed(t).pc \in {"done", "backoff"}
           /\ Failed(t).attempt <= config.maxRetries
PROOF
<1> DEFINE next == txs[t].attempt + 1
           e == exponentialBackoff(next)
           due == now + Min({e, Remaining(t)})
           y == [txs[t] EXCEPT !.pc = "backoff", !.attempt = next, !.due = due]
<1>1. /\ config.maxRetries \in Nat /\ txs[t].attempt \in Nat /\ now \in Nat
      /\ txs[t].deadline \in Nat
  BY ActiveFacts
<1>2. Failed(t) = IF next > config.maxRetries \/ Remaining(t) <= 0 THEN Unavailable(txs[t]) ELSE y
  BY DEF Failed
<1>3. CASE next > config.maxRetries \/ Remaining(t) <= 0
  BY <1>1, <1>2, <1>3, UnavailableGood
<1>4. CASE ~(next > config.maxRetries \/ Remaining(t) <= 0)
  <2>1. next \in Nat /\ next <= config.maxRetries
    BY <1>1, <1>4
  <2>2. e \in Int
    <3> DEFINE p == 2 ^ (next - 1)
    <3>1. p \in Int
      BY <1>1
    <3>2. e = Min({p, 5})
      BY DEF exponentialBackoff
    <3> HIDE DEF p, e
    <3> QED BY <3>1, <3>2, MinOfTwo
  <2>3. Remaining(t) \in Int /\ now + Remaining(t) = txs[t].deadline
    BY <1>1 DEF Remaining
  <2>4. due \in Int /\ due <= txs[t].deadline
    <3> DEFINE r == Remaining(t)
    <3> HIDE DEF e, r
    <3>1. Min({e, r}) = IF e <= r THEN e ELSE r
      BY <2>2, <2>3, MinOfTwo DEF r
    <3> QED BY <1>1, <2>2, <2>3, <3>1 DEF r
  <2>5. "backoff" \in Active
    BY DEF Active
  <2>6. Failed(t) = y
    BY <1>2, <1>4
  <2> DEFINE pc == "backoff"
  <2>7. y = Continued(txs[t], pc, next, due) /\ pc \in Active
    BY <2>5 DEF Continued
  <2> HIDE DEF due, next, y, pc
  <2>8. Good(y) /\ y.pc = pc /\ y.attempt = next
    BY <2>1, <2>4, <2>7, ContinuedGood
  <2> QED BY <2>1, <2>6, <2>8 DEF pc
<1> QED BY <1>3, <1>4

-----------------------------------------------------------------------------
(***************************************************************************)
(* The calls of the service.                                               *)
(***************************************************************************)

\* A request of which the calls are left as they are.
LEMMA QuietStep ==
    ASSUME ScreeningInv, NEW t \in Tx, NEW y, txs' = [txs EXCEPT ![t] = y],
           UNCHANGED <<now, screens, config, policies, changes, pendingReads, cachedPolicies>>,
           Good(y), y.pc \notin {"policy", "screening"}, y.attempt <= config.maxRetries
    PROVE  ScreeningInv'
PROOF
<1>1. DOMAIN txs = Tx
  BY DEF ScreeningInv
<1>2. txs'[t] = y /\ DOMAIN txs' = Tx /\ \A u \in Tx : u # t => txs'[u] = txs[u]
  BY <1>1
<1>3. ScreensTrue'
  BY DEF ScreeningInv, ScreensTrue
<1> QED BY <1>2, <1>3, TxStep

\* A pause ends.
LEMMA WakeInv ==
    ASSUME ScreeningInv, NEW t \in Tx, wake(t)
    PROVE  ScreeningInv'
PROOF
<1> DEFINE pc == "calling"
           attempt == txs[t].attempt
           due == txs[t].due
           y == Continued(txs[t], pc, attempt, due)
<1>1. txs[t].pc \in Active /\ pc \in Active
  BY DEF wake, Active
<1>2. Shape(txs[t]) /\ DOMAIN txs = Tx /\ attempt \in Nat /\ attempt <= config.maxRetries
  BY <1>1, ActiveFacts
<1>3. due \in Int
  BY <1>2 DEF Shape
<1>4. txs' = [txs EXCEPT ![t] = y]
  <2> DEFINE x == txs[t]
  <2>1. txs' = [txs EXCEPT ![t] = [x EXCEPT !.pc = "calling"]]
    BY <1>2 DEF wake
  <2>2. [x EXCEPT !.pc = "calling"] = y
    <3>1. Shape(x) /\ y = [x EXCEPT !.pc = pc, !.attempt = x.attempt, !.due = x.due]
      BY <1>2 DEF Continued
    <3> HIDE DEF x, y
    <3> QED BY <3>1 DEF Shape
  <2> QED BY <2>1, <2>2
<1>5. UNCHANGED <<now, screens, config, policies, changes, pendingReads, cachedPolicies>>
  BY DEF wake
<1>6. y = Continued(txs[t], pc, attempt, due)
  OBVIOUS
<1>7. pc \notin {"policy", "screening"} /\ (pc # "calling" => due <= txs[t].deadline)
  OBVIOUS
<1> HIDE DEF pc, attempt, due, y
<1>8. Good(y) /\ y.pc = pc /\ y.attempt = attempt
  BY <1>1, <1>2, <1>3, <1>6, <1>7, ContinuedGood
<1> QED BY <1>2, <1>4, <1>5, <1>7, <1>8, QuietStep

\* A call is given up.
LEMMA CallTimedOutInv ==
    ASSUME ScreeningInv, NEW t \in Tx, call_timed_out(t)
    PROVE  ScreeningInv'
PROOF
<1> DEFINE y == Failed(t)
<1>1. txs[t].pc \in Active
  BY DEF call_timed_out, Active
<1>2. Good(y) /\ y.pc \in {"done", "backoff"} /\ y.attempt <= config.maxRetries
  BY <1>1, FailedGood
<1>3. /\ txs' = [txs EXCEPT ![t] = y]
      /\ UNCHANGED <<now, screens, config, policies, changes, pendingReads, cachedPolicies>>
  BY DEF call_timed_out
<1> HIDE DEF y
<1> QED BY <1>2, <1>3, QuietStep

\* The answer of a call: an attestation is of the subject, which is not denied.
LEMMA ScreenAnsweredInv ==
    ASSUME ScreeningInv, NEW t \in Tx, screen_answered(t)
    PROVE  ScreeningInv'
PROOF
<1> DEFINE x == txs[t]
           screen == screens[<<t, x.attempt>>]
           signed == AllowSigned([depositor |-> screen.answer.depositor,
                                  issued_at |-> screen.answer.issued_at])
           y == CASE screen.answer.verdict = "allowed" -> Done(x, signed)
                  [] screen.answer.verdict = "blocked" -> Done(x, Block("address_blocked"))
                  [] OTHER -> Failed(t)
<1>1. x.pc \in Active /\ x.pc = "screening"
  BY DEF screen_answered, Active
<1>2. /\ Good(x) /\ Shape(x) /\ Configured /\ now \in Nat /\ x.arrived <= now /\ now <= Limit(x)
      /\ DOMAIN txs = Tx /\ config.maxRetries \in Nat /\ <<t, x.attempt>> \in Call
  BY <1>1, ActiveFacts
<1>3. txs' = [txs EXCEPT ![t] = y]
  BY <1>2 DEF screen_answered
<1>4. UNCHANGED <<now, screens, config, policies, changes, pendingReads, cachedPolicies>>
  BY DEF screen_answered
<1>5. /\ screen.address = x.subject
      /\ screen.answer.verdict = "allowed" =>
            /\ screen.answer.depositor = feltOf[screen.address]
            /\ screen.answer.depositor \in Felt \ Denied
  BY <1>1, <1>2 DEF ScreeningInv, ScreensTrue, CallsFit
<1>6. Good(y) /\ y.pc \notin {"policy", "screening"} /\ y.attempt <= config.maxRetries
  <2>1. CASE screen.answer.verdict = "allowed"
    <3> DEFINE depositor == screen.answer.depositor
               signature == signed.signature
    <3>1. signed.action = "allow" /\ {s.depositor : s \in signature} = {depositor}
      BY DEF AllowSigned
    <3>2. depositor = feltOf[x.subject] /\ depositor \notin Denied
      BY <1>5, <2>1
    <3>3. y = Done(x, signed)
      BY <2>1
    <3> HIDE DEF x, signed, depositor, y
    <3>4. Taken(x, signature)
      <4>1. (SettledFor(x) /\ Executable(x.request.tx)) =>
                PoolSubjects(x.request.tx, policies) = {feltOf[x.subject]}
        BY <1>1, <1>2 DEF Good, Truthful
      <4>2. {depositor} \cap Denied = {}
        BY <3>2
      <4> HIDE DEF signature
      <4> QED BY <3>1, <3>2, <4>1, <4>2 DEF Taken
    <3>5. Good(Done(x, signed)) /\ Done(x, signed).pc = "done" /\ Done(x, signed).attempt = 0
      BY <1>2, <3>4, DoneGood
    <3> QED BY <1>2, <3>3, <3>5
  <2>2. CASE screen.answer.verdict = "blocked"
    <3> DEFINE blocked == Block("address_blocked")
    <3>1. blocked.action # "allow"
      BY DEF Block
    <3>2. y = Done(x, blocked)
      BY <2>2
    <3> HIDE DEF x, blocked, y
    <3>3. Good(Done(x, blocked)) /\ Done(x, blocked).pc = "done" /\ Done(x, blocked).attempt = 0
      BY <1>2, <3>1, DoneGood
    <3> QED BY <1>2, <3>2, <3>3
  <2>3. CASE screen.answer.verdict \notin {"allowed", "blocked"}
    <3>1. y = Failed(t)
      BY <2>3
    <3> HIDE DEF y
    <3> QED BY <1>1, <3>1, FailedGood DEF x
  <2> HIDE DEF y, screen
  <2> QED BY <2>1, <2>2, <2>3
<1> HIDE DEF y
<1> QED BY <1>3, <1>4, <1>6, QuietStep

\* A call begins, with a timeout that ends by the deadline.
LEMMA CallScreenEndpointInv ==
    ASSUME ScreeningInv, NEW t \in Tx, callScreenEndpoint(t)
    PROVE  ScreeningInv'
PROOF
<1> DEFINE x == txs[t]
           c == <<t, x.attempt>>
<1>1. x.pc \in Active /\ x.pc = "calling"
  BY DEF callScreenEndpoint, Active
<1>2. /\ Shape(x) /\ now \in Nat /\ DOMAIN txs = Tx /\ config.maxRetries \in Nat
      /\ c \in Call /\ x.attempt \in Nat /\ x.attempt <= config.maxRetries
      /\ x.deadline \in Nat /\ config.timeoutMs \in Nat
  BY <1>1, ActiveFacts
<1>3. UNCHANGED <<now, config, policies, changes, pendingReads, cachedPolicies>>
  BY DEF callScreenEndpoint
<1>4. CASE Remaining(t) <= 0
  <2> DEFINE y == Unavailable(txs[t])
  <2>1. txs' = [txs EXCEPT ![t] = y] /\ UNCHANGED screens
    BY <1>2, <1>4 DEF callScreenEndpoint
  <2>2. Good(y) /\ y.pc = "done" /\ y.attempt = 0
    BY <1>1, UnavailableGood
  <2> HIDE DEF y
  <2>3. y.pc \notin {"policy", "screening"} /\ y.attempt <= config.maxRetries
    BY <1>2, <2>2
  <2>4. UNCHANGED <<now, screens, config, policies, changes, pendingReads, cachedPolicies>>
    BY <1>3, <2>1
  <2> QED BY <2>1, <2>2, <2>3, <2>4, QuietStep
<1>5. CASE ~(Remaining(t) <= 0)
  <2> DEFINE pc == "screening"
             due == now + perCallTimeout(t)
             attempt == x.attempt
             y == Continued(txs[t], pc, attempt, due)
  <2>1. due \in Int /\ due <= txs[t].deadline
    <3> DEFINE a == config.timeoutMs
               b == Remaining(t)
    <3>1. a \in Int /\ b \in Int /\ now + b = x.deadline
      BY <1>2 DEF Remaining
    <3>2. due = now + Min({a, b})
      BY DEF perCallTimeout
    <3> HIDE DEF a, b, due
    <3>3. Min({a, b}) = IF a <= b THEN a ELSE b
      BY <3>1, MinOfTwo
    <3> QED BY <1>2, <3>1, <3>2, <3>3
  <2>2. pc \in Active
    BY DEF Active
  <2>3. txs' = [txs EXCEPT ![t] = y]
    <3> DEFINE z == [x EXCEPT !.pc = "screening", !.due = due]
    <3>1. txs' = [txs EXCEPT ![t] = z]
      <4> HIDE DEF due
      <4>1. txs' = [txs EXCEPT ![t].pc = "screening", ![t].due = due]
        BY <1>5 DEF callScreenEndpoint, due
      <4> QED BY <1>2, <4>1 DEF Shape
    <3>2. z = y
      <4>1. y = [x EXCEPT !.pc = "screening", !.attempt = x.attempt, !.due = due]
        BY DEF Continued
      <4> HIDE DEF x, y, due
      <4> QED BY <1>2, <4>1 DEF Shape
    <3> HIDE DEF z, y
    <3> QED BY <3>1, <3>2
  <2>4. y = Continued(txs[t], pc, attempt, due)
    OBVIOUS
  <2>5. pc = "screening"
    OBVIOUS
  <2> HIDE DEF pc, due, y
  <2>6. Good(y) /\ y.pc = pc /\ y.attempt = attempt /\ y.subject = txs[t].subject
    <3>1. attempt \in Nat
      BY <1>2
    <3> HIDE DEF attempt, x
    <3>2. txs[t].pc \in Active
      BY <1>1 DEF x
    <3> QED BY <2>1, <2>2, <2>4, <3>1, <3>2, ContinuedGood
  <2>7. screens' = [screens EXCEPT ![c] = [state |-> "open", address |-> x.subject,
                                           answer |-> NoAnswer]]
    BY <1>5 DEF callScreenEndpoint, OpenScreen
  <2>8. ScreensTrue /\ x.subject \in Address
    BY <1>2 DEF ScreeningInv, Shape
  <2> DEFINE opened == [state |-> "open", address |-> x.subject, answer |-> NoAnswer]
  <2>9. /\ opened \in [state : {"free", "open", "answered"}, address : Address, answer : Answer]
        /\ opened.answer.verdict # "allowed" /\ opened.address = x.subject
    BY <2>8 DEF Answer, NoAnswer
  <2>10. /\ screens'[c] = opened /\ \A d \in Call : d # c => screens'[d] = screens[d]
         /\ screens' \in [Call -> [state : {"free", "open", "answered"}, address : Address,
                                   answer : Answer]]
    <3> HIDE DEF opened, c
    <3> QED BY <1>2, <2>7, <2>8, <2>9 DEF ScreensTrue, opened
  <2> HIDE DEF opened
  <2>11. ScreensTrue'
    BY <1>2, <2>8, <2>9, <2>10 DEF ScreensTrue
  <2>12. \A u \in Tx : (u # t /\ txs[u].pc = "screening") =>
            screens'[<<u, txs[u].attempt>>].address = screens[<<u, txs[u].attempt>>].address
    <3> SUFFICES ASSUME NEW u \in Tx, u # t, txs[u].pc = "screening"
                 PROVE  screens'[<<u, txs[u].attempt>>] = screens[<<u, txs[u].attempt>>]
      OBVIOUS
    <3>1. <<u, txs[u].attempt>> \in Call
      BY ActiveFacts DEF Active
    <3> QED BY <2>10, <3>1
  <2>13. screens'[<<t, y.attempt>>].address = y.subject
    BY <2>6, <2>9, <2>10
  <2>14. txs'[t] = y /\ DOMAIN txs' = Tx /\ \A u \in Tx : u # t => txs'[u] = txs[u]
    BY <1>2, <2>3
  <2>15. y.pc # "policy" /\ y.attempt <= config.maxRetries
    BY <1>2, <2>5, <2>6
  <2> QED BY <1>3, <2>6, <2>11, <2>12, <2>13, <2>14, <2>15, TxStep
<1> QED BY <1>4, <1>5

\* The service answers, about the address of the call.
LEMMA ServiceAnswersInv ==
    ASSUME ScreeningInv, NEW t \in Tx, service_answers(t)
    PROVE  ScreeningInv'
PROOF
<1> DEFINE c == <<t, txs[t].attempt>>
           old == screens[c]
<1>1. UNCHANGED <<now, config, policies, changes, pendingReads, cachedPolicies, txs>>
  BY DEF service_answers
<1>2. c \in Call /\ now \in 0 .. MaxTime
  BY ActiveFacts DEF service_answers, Active, ScreeningInv
<1>3. PICK answer \in MayAnswer(c) :
          screens' = [screens EXCEPT ![c].state = "answered", ![c].answer = answer]
  BY DEF service_answers, AnswerScreen
<1>4. old \in [state : {"free", "open", "answered"}, address : Address, answer : Answer]
  BY <1>2 DEF ScreeningInv, ScreensTrue
<1>5. /\ answer \in Answer
      /\ answer.verdict = "allowed" =>
            answer.depositor = feltOf[old.address] /\ answer.depositor \in Felt \ Denied
  BY <1>2, <1>3, <1>4 DEF MayAnswer, Error, Blocked, Allowed, Answer
<1> DEFINE new == [state |-> "answered", address |-> old.address, answer |-> answer]
<1>6. screens' = [screens EXCEPT ![c] = new]
  <2>1. screens \in [Call -> [state : {"free", "open", "answered"}, address : Address,
                              answer : Answer]]
    BY DEF ScreeningInv, ScreensTrue
  <2>2. old = [state |-> old.state, address |-> old.address, answer |-> old.answer]
    BY <1>4
  <2> DEFINE z == [old EXCEPT !.state = "answered", !.answer = answer]
  <2>3. screens' = [screens EXCEPT ![c] = z]
    <3>1. DOMAIN screens = Call /\ c \in Call
      BY <1>2, <2>1
    <3> HIDE DEF c
    <3> QED BY <1>3, <2>2, <3>1
  <2>4. z = [old EXCEPT !.state = "answered", !.answer = answer]
    OBVIOUS
  <2> HIDE DEF c, old, z
  <2>5. z = new
    BY <2>2, <2>4
  <2> HIDE DEF new
  <2> QED BY <2>3, <2>5
<1>7. /\ new \in [state : {"free", "open", "answered"}, address : Address, answer : Answer]
      /\ new.address = old.address /\ new.answer = answer
  BY <1>4, <1>5
<1> HIDE DEF new
<1>8. /\ screens'[c] = new /\ \A d \in Call : d # c => screens'[d] = screens[d]
      /\ screens' \in [Call -> [state : {"free", "open", "answered"}, address : Address,
                                answer : Answer]]
  <2> HIDE DEF c
  <2> QED BY <1>2, <1>6, <1>7 DEF ScreeningInv, ScreensTrue
<1>9. ScreensTrue'
  <2>1. ASSUME NEW d \in Call, screens'[d].answer.verdict = "allowed"
        PROVE  /\ screens'[d].answer.depositor = feltOf[screens'[d].address]
               /\ screens'[d].answer.depositor \in Felt \ Denied
    <3>1. CASE d = c
      BY <1>5, <1>7, <1>8, <2>1, <3>1
    <3>2. CASE d # c
      <4>1. screens'[d] = screens[d]
        BY <1>8, <3>2
      <4> QED BY <2>1, <4>1 DEF ScreeningInv, ScreensTrue
    <3> QED BY <3>1, <3>2
  <2> QED BY <1>8, <2>1 DEF ScreensTrue
<1>10. \A d \in Call : screens'[d].address = screens[d].address
  BY <1>7, <1>8
<1>11. ASSUME NEW u \in Tx PROVE Good(txs[u])' /\ CallsFit(u)'
  <2>1. Good(txs[u]) /\ CallsFit(u) /\ txs'[u] = txs[u]
    BY <1>1 DEF ScreeningInv
  <2>2. Waits(txs[u]) => Waits(txs[u])'
    BY <1>1 DEF Waits
  <2>3. Good(txs[u])'
    BY <1>1, <2>1, <2>2, UntouchedGood
  <2>4. txs[u].pc = "screening" => <<u, txs[u].attempt>> \in Call
    BY ActiveFacts DEF Active
  <2>5. CallsFit(u)'
    BY <1>1, <1>10, <2>1, <2>4 DEF CallsFit
  <2> QED BY <2>3, <2>5
<1>12. Configured' /\ ReadsTimely' /\ ReadsTrue' /\ CacheTrue'
  BY <1>1 DEF ScreeningInv, Configured, ReadsTimely, ReadsTrue, CacheTrue, UnchangedSince
<1> QED BY <1>1, <1>9, <1>11, <1>12 DEF ScreeningInv

-----------------------------------------------------------------------------
(***************************************************************************)
(* The policies.                                                           *)
(***************************************************************************)

\* The node answers a read with the policy that holds.
LEMMA ReadPolicyInv ==
    ASSUME ScreeningInv, NEW a \in Address, read_policy(a)
    PROVE  ScreeningInv'
PROOF
<1>1. UNCHANGED <<now, screens, config, policies, changes, cachedPolicies, txs>>
  BY DEF read_policy
<1>2. PICK read \in pendingReads[a] :
          pendingReads' = [pendingReads EXCEPT ![a] =
              {[read EXCEPT !.got = {policies[feltOf[a]]}]}]
  BY DEF read_policy
<1> DEFINE new == [read EXCEPT !.got = {policies[feltOf[a]]}]
<1>3. /\ read = [began |-> read.began, got |-> read.got] /\ read.began \in Nat
      /\ read.began <= now /\ now <= read.began + config.policyTimeoutMs
      /\ DOMAIN pendingReads = Address
  BY <1>2 DEF ScreeningInv, ReadsTimely
<1>4. new = [began |-> new.began, got |-> new.got]
      /\ new.began = read.began /\ new.got = {policies[feltOf[a]]}
  <2> DEFINE p == policies[feltOf[a]]
  <2>1. new = [read EXCEPT !.got = {p}]
    OBVIOUS
  <2> HIDE DEF new, p
  <2>2. new = [began |-> read.began, got |-> {p}]
    BY <1>3, <2>1
  <2> QED BY <2>2 DEF p
<1> HIDE DEF new
<1>5. /\ pendingReads'[a] = {new} /\ DOMAIN pendingReads' = Address
      /\ \A b \in Address : b # a => pendingReads'[b] = pendingReads[b]
  BY <1>2, <1>3 DEF new
<1>6. ReadsTimely' /\ ReadsTrue'
  <2>1. ASSUME NEW b \in Address, NEW r \in pendingReads'[b]
        PROVE  /\ r = [began |-> r.began, got |-> r.got] /\ r.began \in Nat
               /\ r.began <= now /\ now <= r.began + config.policyTimeoutMs
               /\ UnchangedSince(r.began) => \A got \in r.got : got = policies[feltOf[b]]
    <3>1. CASE b = a
      BY <1>3, <1>4, <1>5, <2>1, <3>1
    <3>2. CASE b # a
      BY <1>5, <2>1, <3>2 DEF ScreeningInv, ReadsTimely, ReadsTrue
    <3> QED BY <3>1, <3>2
  <2> QED BY <1>1, <2>1 DEF ReadsTimely, ReadsTrue, UnchangedSince
<1>7. ASSUME NEW u \in Tx PROVE Good(txs[u])' /\ CallsFit(u)'
  <2>1. Good(txs[u]) /\ CallsFit(u) /\ txs'[u] = txs[u]
    BY <1>1 DEF ScreeningInv
  <2>2. Waits(txs[u]) => Waits(txs[u])'
    <3>1. ASSUME NEW b \in Address, NEW time, pendingReads[b] # {},
                 \A r \in pendingReads[b] : r.began <= time
          PROVE  pendingReads'[b] # {} /\ \A r \in pendingReads'[b] : r.began <= time
      BY <1>2, <1>4, <1>5, <3>1
    <3> QED BY <1>1, <3>1 DEF Waits
  <2>3. Good(txs[u])'
    BY <1>1, <2>1, <2>2, UntouchedGood
  <2>4. CallsFit(u)'
    BY <1>1, <2>1 DEF CallsFit
  <2> QED BY <2>3, <2>4
<1>8. Configured' /\ CacheTrue' /\ ScreensTrue'
  BY <1>1 DEF ScreeningInv, Configured, CacheTrue, UnchangedSince, ScreensTrue
<1> QED BY <1>1, <1>5, <1>6, <1>7, <1>8 DEF ScreeningInv

\* Governance changes a policy: nothing that was read so far counts any more.
LEMMA SetPolicyInv ==
    ASSUME ScreeningInv, set_policy
    PROVE  ScreeningInv'
PROOF
<1>1. /\ UNCHANGED <<now, screens, config, cachedPolicies, pendingReads, txs>>
      /\ changes' = Append(changes, now) /\ policies' \in Policies
  BY DEF set_policy
<1>2. changes \in Seq(Nat) /\ now \in Nat /\ \A i \in DOMAIN changes : changes[i] <= now
  BY ScreenerAssumption DEF ScreeningInv
<1>3. /\ changes' \in Seq(Nat) /\ \A i \in DOMAIN changes' : changes'[i] <= now
      /\ \E i \in DOMAIN changes' : changes'[i] = now
  BY <1>1, <1>2
<1>4. ASSUME NEW time \in Int, time <= now PROVE ~UnchangedSince(time)'
  BY <1>2, <1>3, <1>4 DEF UnchangedSince
<1>5. config.policyTimeoutMs \in Nat /\ config.policyTtlMs \in Nat
  BY DEF ScreeningInv, Configured
<1>6. ReadsTimely' /\ ReadsTrue'
  <2>1. ASSUME NEW a \in Address, NEW read \in pendingReads[a]
        PROVE  ~UnchangedSince(read.began)'
    <3>1. read.began \in Int /\ read.began <= now
      BY DEF ScreeningInv, ReadsTimely
    <3> QED BY <1>4, <3>1
  <2>2. ReadsTimely'
    BY <1>1 DEF ScreeningInv, ReadsTimely
  <2>3. ReadsTrue'
    BY <1>1, <2>1 DEF ReadsTrue
  <2> QED BY <2>2, <2>3
<1>7. CacheTrue'
  <2>1. ASSUME NEW a \in Address, NEW c \in cachedPolicies[a]
        PROVE  /\ c.at \in Nat /\ c.at <= now
               /\ ~UnchangedSince(c.at - config.policyTimeoutMs)'
    <3>1. c.at \in Nat /\ c.at <= now
      BY DEF ScreeningInv, CacheTrue
    <3> DEFINE time == c.at - config.policyTimeoutMs
    <3>2. time \in Int /\ time <= now
      BY <1>2, <1>5, <3>1
    <3>3. ~(\A i \in DOMAIN changes' : changes'[i] < time)
      <4> HIDE DEF time
      <4> QED BY <1>2, <1>3, <3>2
    <3> QED BY <1>1, <3>1, <3>3 DEF UnchangedSince
  <2> QED BY <1>1, <2>1 DEF CacheTrue
<1>8. ASSUME NEW u \in Tx PROVE Good(txs[u])' /\ CallsFit(u)'
  <2>1. Good(txs[u]) /\ CallsFit(u) /\ txs'[u] = txs[u]
    BY <1>1 DEF ScreeningInv
  <2> DEFINE x == txs[u]
             time == x.arrived - config.policyTimeoutMs - config.policyTtlMs
  <2>2. Shape(x)' /\ Timely(x)' /\ Waits(x)'
    BY <1>1, <2>1 DEF Good, Shape, Timely, Limit, Waits
  <2>3. x.pc # "free" => ~(\A i \in DOMAIN changes' : changes'[i] < time)
    <3>1. x.pc # "free" => time \in Int /\ time <= now
      <4> DEFINE arrived == x.arrived
      <4>1. x.pc # "free" => arrived \in Nat /\ arrived <= now
        BY <2>1 DEF Good, Shape, Timely
      <4> HIDE DEF arrived
      <4>2. x.pc # "free" => /\ arrived - config.policyTimeoutMs - config.policyTtlMs \in Int
                             /\ arrived - config.policyTimeoutMs - config.policyTtlMs <= now
        BY <1>2, <1>5, <4>1
      <4> QED BY <4>2 DEF arrived
    <3> HIDE DEF time
    <3> QED BY <1>2, <1>3, <3>1
  <2>4. x.pc # "free" => ~SettledFor(x)'
    BY <1>1, <2>1, <2>3 DEF SettledFor, UnchangedSince
  <2>5. Truthful(x)'
    BY <1>1, <2>1, <2>4 DEF Truthful, Active
  <2>6. CallsFit(u)'
    BY <1>1, <2>1 DEF CallsFit
  <2> QED BY <2>2, <2>5, <2>6 DEF Good
<1>9. Configured' /\ ScreensTrue'
  BY <1>1 DEF ScreeningInv, Configured, ScreensTrue
<1> QED BY <1>1, <1>3, <1>6, <1>7, <1>8, <1>9 DEF ScreeningInv

\* Time passes only while no timer is due.
LEMMA TickInv ==
    ASSUME ScreeningInv, tick
    PROVE  ScreeningInv'
PROOF
<1>1. /\ UNCHANGED <<screens, config, policies, changes, cachedPolicies, pendingReads, txs>>
      /\ now < MaxTime /\ now' = now + 1
  BY DEF tick, Tick
<1>2. now \in Nat /\ now' \in 0 .. MaxTime /\ now' \in Nat
  BY <1>1, ScreenerAssumption DEF ScreeningInv
<1>3. config.policyTimeoutMs \in Nat /\ config.totalTimeoutMs \in Nat
  BY DEF ScreeningInv, Configured
<1>4. \A i \in DOMAIN changes' : changes'[i] <= now'
  <2>1. changes \in Seq(Nat) /\ \A i \in DOMAIN changes : changes[i] <= now
    BY DEF ScreeningInv
  <2>2. ASSUME NEW i \in DOMAIN changes PROVE changes[i] <= now'
    <3>1. changes[i] \in Nat /\ changes[i] <= now
      BY <2>1
    <3> QED BY <1>1, <1>2, <3>1
  <2> QED BY <1>1, <2>2
<1>5. ReadsTimely'
  <2>1. ASSUME NEW a \in Address, NEW read \in pendingReads[a]
        PROVE  /\ read = [began |-> read.began, got |-> read.got] /\ read.began \in Nat
               /\ read.began <= now' /\ now' <= read.began + config.policyTimeoutMs
    <3>1. /\ read = [began |-> read.began, got |-> read.got] /\ read.began \in Nat
          /\ read.began <= now
      BY DEF ScreeningInv, ReadsTimely
    <3>2. now < read.began + config.policyTimeoutMs
      BY DEF tick
    <3> QED BY <1>1, <1>2, <1>3, <3>1, <3>2
  <2> QED BY <1>1, <2>1 DEF ReadsTimely
<1>6. CacheTrue'
  <2>1. ASSUME NEW a \in Address, NEW c \in cachedPolicies[a]
        PROVE  c.at \in Nat /\ c.at <= now'
    <3>1. c.at \in Nat /\ c.at <= now
      BY DEF ScreeningInv, CacheTrue
    <3> QED BY <1>1, <1>2, <3>1
  <2> QED BY <1>1, <2>1 DEF ScreeningInv, CacheTrue, UnchangedSince
<1>7. ASSUME NEW u \in Tx PROVE Good(txs[u])' /\ CallsFit(u)'
  <2>1. Good(txs[u]) /\ CallsFit(u) /\ txs'[u] = txs[u]
    BY <1>1 DEF ScreeningInv
  <2> DEFINE x == txs[u]
  <2>2. x.pc # "calling" /\ (x.pc \in {"screening", "backoff"} => now < x.due)
    BY DEF tick
  <2>3. Timely(x) /\ Shape(x)
    BY <2>1 DEF Good
  <2>4. x.arrived \in Nat /\ x.deadline \in Nat /\ x.due \in Int
    BY <2>3 DEF Shape
  <2>5. Timely(x)'
    <3>1. x.pc # "free" => x.arrived <= now'
      BY <1>1, <1>2, <2>3, <2>4 DEF Timely
    <3>2. x.pc \in {"screening", "backoff"} => now' <= x.deadline
      BY <1>1, <1>2, <2>2, <2>3, <2>4 DEF Timely
    <3>3. x.pc \in Active => x.pc \in {"screening", "backoff"}
      BY <2>2 DEF Active
    <3> QED BY <1>1, <2>3, <3>1, <3>2, <3>3 DEF Timely, Limit
  <2>6. Shape(x)' /\ Waits(x)' /\ CallsFit(u)'
    BY <1>1, <2>1 DEF Good, Shape, Waits, CallsFit
  <2>7. Truthful(x)'
    BY <1>1, <2>1 DEF Good, Truthful, SettledFor, UnchangedSince
  <2> QED BY <2>5, <2>6, <2>7 DEF Good
<1>8. Configured' /\ ScreensTrue' /\ ReadsTrue'
  BY <1>1 DEF ScreeningInv, Configured, ScreensTrue, ReadsTrue, UnchangedSince
<1> QED BY <1>1, <1>2, <1>4, <1>5, <1>6, <1>7, <1>8 DEF ScreeningInv

\* Without the policy, a transaction that needs it is blocked.
LEMMA NullBlocks ==
    ASSUME NEW tx, tx.decodes, getOpenNoteDepositor(tx) # {}
    PROVE  getScreenedAddress(tx, "null").kind \notin {"none", "one"}
PROOF
<1> DEFINE policy == "null"
           screened == getScreenedAddress(tx, policy)
<1>1. policy \notin {"Exempt", "Required", "Delegated"}
  OBVIOUS
<1> HIDE DEF policy
<1>2. screened = [kind |-> "unreadablePolicy"]
  BY <1>1 DEF getScreenedAddress
<1>3. screened.kind = "unreadablePolicy"
  BY <1>2
<1> QED BY <1>3 DEF policy

\* A request that waits for the read of a's policy.
LEMMA WaitingFacts ==
    ASSUME ScreeningInv, NEW a \in Address, NEW t \in Waiting(a), NEW read \in pendingReads[a]
    PROVE  /\ t \in Tx /\ Shape(txs[t]) /\ txs[t].arrived \in Nat /\ txs[t].arrived <= now
           /\ read.began <= txs[t].arrived
           /\ now <= txs[t].arrived + config.policyTimeoutMs
           /\ txs[t].attempt <= config.maxRetries
           /\ getOpenNoteDepositor(txs[t].request.tx) # {}
           /\ \A action \in getOpenNoteDepositor(txs[t].request.tx) :
                 feltOf[action.contract_address] = feltOf[a]
PROOF
<1> DEFINE x == txs[t]
           tx == x.request.tx
<1>1. /\ t \in Tx /\ Good(x) /\ CallsFit(t) /\ x.pc = "policy"
      /\ \E action \in getOpenNoteDepositor(tx) : normalizeFelt(action.contract_address) = a
  BY DEF Waiting, ScreeningInv
<1>2. Shape(x) /\ x.arrived <= now /\ Waits(x)
  BY <1>1 DEF Good, Timely
<1>3. x.arrived \in Nat /\ tx.actions \in Seq(Action)
  BY <1>2, ProofInterceptorAssumption DEF Shape
<1>4. PICK action \in getOpenNoteDepositor(tx) : normalizeFelt(action.contract_address) = a
  BY <1>1
<1>5. x.attempt <= config.maxRetries
  BY <1>1 DEF CallsFit
<1> HIDE DEF x
<1>6. getOpenNoteDepositor(tx) = {action} /\ action.contract_address \in Address
  <2> HIDE DEF tx
  <2>1. action \in FirstInvoke(tx)
    BY <1>4 DEF getOpenNoteDepositor
  <2> QED BY <1>3, <1>4, <2>1, InvokeFacts DEF getOpenNoteDepositor
<1>7. feltOf[action.contract_address] = feltOf[a]
  BY <1>4, <1>6, NormalFelt
<1>8. \A r \in pendingReads[a] : r.began <= x.arrived
  BY <1>1, <1>2, <1>4, <1>6 DEF Waits
<1>9. read.began \in Nat /\ now <= read.began + config.policyTimeoutMs /\ read.began <= x.arrived
  BY <1>8 DEF ScreeningInv, ReadsTimely
<1>10. now \in Nat /\ config.policyTimeoutMs \in Nat
  BY ScreenerAssumption DEF ScreeningInv, Configured
<1>11. now <= x.arrived + config.policyTimeoutMs
  BY <1>3, <1>9, <1>10
<1> QED BY <1>1, <1>2, <1>3, <1>5, <1>6, <1>7, <1>9, <1>11 DEF x

\* What a read gives is the policy, unless it changed while the read was under way.
LEMMA ReadFacts ==
    ASSUME ScreeningInv, NEW a \in Address, NEW read \in pendingReads[a], NEW got \in read.got,
           UnchangedSince(now - config.policyTimeoutMs)
    PROVE  got = policies[feltOf[a]]
PROOF
<1>1. /\ read.began \in Nat /\ now <= read.began + config.policyTimeoutMs
      /\ UnchangedSince(read.began) => got = policies[feltOf[a]]
  BY DEF ScreeningInv, ReadsTimely, ReadsTrue
<1>2. now \in Nat /\ config.policyTimeoutMs \in Nat /\ changes \in Seq(Nat)
  BY ScreenerAssumption DEF ScreeningInv, Configured
<1>3. ASSUME NEW i \in DOMAIN changes PROVE changes[i] < read.began
  <2>1. changes[i] \in Nat /\ changes[i] < now - config.policyTimeoutMs
    BY <1>2 DEF UnchangedSince
  <2> QED BY <1>1, <1>2, <2>1
<1> QED BY <1>1, <1>3 DEF UnchangedSince

\* A request that waited goes on, informed of the policy or not.
LEMMA WaitedGood ==
    ASSUME ScreeningInv, NEW a \in Address, NEW t \in Waiting(a), NEW read \in pendingReads[a],
           NEW policy,
           \/ policy = "null"
           \/ \E got \in read.got : policy = parsePolicy(got)
    PROVE  LET y == Resolved(txs[t], getScreenedAddress(txs[t].request.tx, policy))
           IN  Good(y) /\ y.pc \in {"done", "calling"} /\ y.attempt <= config.maxRetries
PROOF
<1> DEFINE x == txs[t]
           tx == x.request.tx
<1>1. /\ Shape(x) /\ x.arrived \in Nat /\ x.arrived <= now
      /\ now <= x.arrived + config.policyTimeoutMs /\ x.attempt <= config.maxRetries
      /\ getOpenNoteDepositor(tx) # {}
      /\ \A action \in getOpenNoteDepositor(tx) : feltOf[action.contract_address] = feltOf[a]
  BY WaitingFacts
<1>2. Configured /\ now \in Nat /\ policies \in Policies /\ changes \in Seq(Nat)
      /\ config.policyTimeoutMs \in Nat /\ config.policyTtlMs \in Nat
  BY ScreenerAssumption DEF ScreeningInv, Configured
<1> HIDE DEF x
<1>3. (SettledFor(x) /\ Executable(tx)) =>
          \/ Informed(tx, policy)
          \/ getScreenedAddress(tx, policy).kind \notin {"none", "one"}
  <2> SUFFICES ASSUME SettledFor(x), Executable(tx)
               PROVE  \/ Informed(tx, policy)
                      \/ getScreenedAddress(tx, policy).kind \notin {"none", "one"}
    OBVIOUS
  <2>1. CASE policy = "null"
    <3>1. tx.decodes
      BY DEF Executable
    <3> HIDE DEF tx
    <3> QED BY <1>1, <2>1, <3>1, NullBlocks
  <2>2. CASE \E got \in read.got : policy = parsePolicy(got)
    <3>1. PICK got \in read.got : policy = parsePolicy(got)
      BY <2>2
    <3>2. UnchangedSince(now - config.policyTimeoutMs)
      <4>1. ASSUME NEW i \in DOMAIN changes PROVE changes[i] < now - config.policyTimeoutMs
        <5>1. /\ changes[i] \in Nat
              /\ changes[i] < x.arrived - config.policyTimeoutMs - config.policyTtlMs
          BY <1>2 DEF SettledFor, UnchangedSince
        <5> QED BY <1>1, <1>2, <5>1
      <4> QED BY <4>1 DEF UnchangedSince
    <3>3. got = policies[feltOf[a]]
      BY <3>2, ReadFacts
    <3> QED BY <1>1, <3>1, <3>3 DEF Informed
  <2> QED BY <2>1, <2>2
<1>4. Good(Resolved(x, getScreenedAddress(tx, policy)))
      /\ Resolved(x, getScreenedAddress(tx, policy)).pc \in {"done", "calling"}
      /\ Resolved(x, getScreenedAddress(tx, policy)).attempt <= config.maxRetries
  BY <1>1, <1>2, <1>3, ResolvedGood
<1> QED BY <1>4 DEF x

\* The requests after a read has settled.
LEMMA SettledTxs ==
    ASSUME ScreeningInv, NEW a \in Address, NEW read \in pendingReads[a], NEW policy,
           \/ policy = "null"
           \/ \E got \in read.got : policy = parsePolicy(got),
           txs' = [t \in Tx |->
                      IF t \in Waiting(a)
                      THEN Resolved(txs[t], getScreenedAddress(txs[t].request.tx, policy))
                      ELSE txs[t]],
           pendingReads' = [pendingReads EXCEPT ![a] = {}],
           UNCHANGED <<now, screens, config, policies, changes>>
    PROVE  /\ DOMAIN txs' = Tx /\ DOMAIN pendingReads' = Address
           /\ \A u \in Tx : Good(txs[u])' /\ CallsFit(u)'
           /\ ReadsTimely' /\ ReadsTrue' /\ Configured' /\ ScreensTrue'
PROOF
<1>1. DOMAIN pendingReads = Address
  BY DEF ScreeningInv
<1>2. /\ DOMAIN pendingReads' = Address /\ pendingReads'[a] = {}
      /\ \A b \in Address : b # a => pendingReads'[b] = pendingReads[b]
  BY <1>1
<1>3. ASSUME NEW u \in Tx PROVE Good(txs[u])' /\ CallsFit(u)'
  <2>1. CASE u \in Waiting(a)
    <3> DEFINE y == Resolved(txs[u], getScreenedAddress(txs[u].request.tx, policy))
    <3>1. txs'[u] = y
      BY <2>1
    <3>2. Good(y) /\ y.pc \in {"done", "calling"} /\ y.attempt <= config.maxRetries
      BY <2>1, WaitedGood
    <3> HIDE DEF y
    <3>3. Shape(txs[u])'
      BY <3>1, <3>2 DEF Good, Shape
    <3>4. Timely(txs[u])'
      BY <3>1, <3>2 DEF Good, Timely, Limit
    <3>5. Waits(txs[u])' /\ CallsFit(u)'
      BY <3>1, <3>2 DEF Waits, CallsFit
    <3>6. Truthful(txs[u])'
      BY <3>1, <3>2 DEF Good, Truthful, SettledFor, UnchangedSince
    <3> QED BY <3>3, <3>4, <3>5, <3>6 DEF Good
  <2>2. CASE u \notin Waiting(a)
    <3>1. Good(txs[u]) /\ CallsFit(u) /\ txs'[u] = txs[u]
      BY <2>2 DEF ScreeningInv
    <3>2. Waits(txs[u]) => Waits(txs[u])'
      <4> SUFFICES ASSUME Waits(txs[u]), txs[u].pc = "policy"
                   PROVE  Waits(txs[u])'
        BY <3>1 DEF Waits
      <4>1. PICK action \in getOpenNoteDepositor(txs[u].request.tx) :
                LET b == normalizeFelt(action.contract_address)
                IN  /\ b \in Address /\ pendingReads[b] # {}
                    /\ \A r \in pendingReads[b] : r.began <= txs[u].arrived
        BY DEF Waits
      <4> DEFINE b == normalizeFelt(action.contract_address)
      <4>2. b # a
        BY <2>2, <4>1 DEF Waiting
      <4>3. pendingReads'[b] = pendingReads[b]
        BY <1>2, <4>1, <4>2
      <4> QED BY <3>1, <4>1, <4>3 DEF Waits
    <3>3. Good(txs[u])'
      BY <3>1, <3>2, UntouchedGood
    <3>4. CallsFit(u)'
      BY <3>1 DEF CallsFit
    <3> QED BY <3>3, <3>4
  <2> QED BY <2>1, <2>2
<1>4. ReadsTimely' /\ ReadsTrue'
  BY <1>2 DEF ScreeningInv, ReadsTimely, ReadsTrue, UnchangedSince
<1>5. Configured' /\ ScreensTrue'
  BY DEF ScreeningInv, Configured, ScreensTrue
<1> QED BY <1>2, <1>3, <1>4, <1>5

\* A read settles.
LEMMA SettleInv ==
    ASSUME ScreeningInv, NEW a \in Address, settle(a)
    PROVE  ScreeningInv'
PROOF
<1>1. /\ pendingReads' = [pendingReads EXCEPT ![a] = {}]
      /\ UNCHANGED <<now, screens, config, policies, changes>>
  BY DEF settle
<1> DEFINE Step(policy) ==
             txs' = [t \in Tx |->
                        IF t \in Waiting(a)
                        THEN Resolved(txs[t], getScreenedAddress(txs[t].request.tx, policy))
                        ELSE txs[t]]
<1>2. PICK read \in pendingReads[a] :
          \/ \E got \in read.got :
                /\ Step(parsePolicy(got))
                /\ cachedPolicies' = [cachedPolicies EXCEPT ![a] =
                       {[policy |-> parsePolicy(got), at |-> now]}]
          \/ Step("null") /\ UNCHANGED cachedPolicies
  BY DEF settle
<1>3. DOMAIN cachedPolicies = Address /\ now \in Nat /\ CacheTrue
  BY ScreenerAssumption DEF ScreeningInv
<1>4. CASE Step("null") /\ UNCHANGED cachedPolicies
  <2>1. CacheTrue'
    BY <1>1, <1>3, <1>4 DEF CacheTrue, UnchangedSince
  <2> DEFINE policy == "null"
  <2>2. policy = "null" /\ Step(policy)
    BY <1>4
  <2> HIDE DEF policy
  <2>3. /\ DOMAIN txs' = Tx /\ DOMAIN pendingReads' = Address
        /\ \A u \in Tx : Good(txs[u])' /\ CallsFit(u)'
        /\ ReadsTimely' /\ ReadsTrue' /\ Configured' /\ ScreensTrue'
    BY <1>1, <1>2, <2>2, SettledTxs
  <2> QED BY <1>1, <1>4, <2>1, <2>3 DEF ScreeningInv
<1>5. CASE \E got \in read.got :
              /\ Step(parsePolicy(got))
              /\ cachedPolicies' = [cachedPolicies EXCEPT ![a] =
                     {[policy |-> parsePolicy(got), at |-> now]}]
  <2>1. PICK got \in read.got :
              /\ Step(parsePolicy(got))
              /\ cachedPolicies' = [cachedPolicies EXCEPT ![a] =
                     {[policy |-> parsePolicy(got), at |-> now]}]
    BY <1>5
  <2> DEFINE policy == parsePolicy(got)
             new == [policy |-> policy, at |-> now]
  <2>2. Step(policy) /\ \E g \in read.got : policy = parsePolicy(g)
    BY <2>1
  <2>3. new.at = now /\ new.policy = parsePolicy(got)
    OBVIOUS
  <2>4. cachedPolicies' = [cachedPolicies EXCEPT ![a] = {new}]
    BY <2>1
  <2> HIDE DEF policy, new
  <2>5. /\ cachedPolicies'[a] = {new} /\ DOMAIN cachedPolicies' = Address
        /\ \A b \in Address : b # a => cachedPolicies'[b] = cachedPolicies[b]
    BY <1>3, <2>4
  <2>6. CacheTrue'
    <3>1. ASSUME NEW b \in Address, NEW c \in cachedPolicies'[b]
          PROVE  /\ c.at \in Nat /\ c.at <= now
                 /\ UnchangedSince(c.at - config.policyTimeoutMs) =>
                       c.policy = parsePolicy(policies[feltOf[b]])
      <4>1. CASE b = a
        <5>1. c = new
          BY <2>5, <3>1, <4>1
        <5>2. UnchangedSince(now - config.policyTimeoutMs) => got = policies[feltOf[a]]
          BY <1>2, <2>1, ReadFacts
        <5> QED BY <1>3, <2>3, <4>1, <5>1, <5>2
      <4>2. CASE b # a
        BY <1>3, <2>5, <3>1, <4>2 DEF CacheTrue
      <4> QED BY <4>1, <4>2
    <3> QED BY <1>1, <3>1 DEF CacheTrue, UnchangedSince
  <2>7. /\ DOMAIN txs' = Tx /\ DOMAIN pendingReads' = Address
        /\ \A u \in Tx : Good(txs[u])' /\ CallsFit(u)'
        /\ ReadsTimely' /\ ReadsTrue' /\ Configured' /\ ScreensTrue'
    BY <1>1, <1>2, <2>2, SettledTxs
  <2> QED BY <1>1, <2>5, <2>6, <2>7 DEF ScreeningInv
<1> HIDE DEF Step
<1> QED BY <1>2, <1>4, <1>5

-----------------------------------------------------------------------------
(***************************************************************************)
(* A request arrives.                                                      *)
(***************************************************************************)

\* The request, its body read.
Arrived(r) == [FreeTx EXCEPT !.request = r, !.arrived = now]

\* A place for a request that is free.
LEMMA FreeTxFacts ==
    /\ Shape(FreeTx) /\ FreeTx.pc = "free" /\ FreeTx.attempt = 0
    /\ FreeTx.verdict = NoVerdict
PROOF
<1>1. (CHOOSE r \in Requests : TRUE) \in Requests
  BY ProofInterceptorAssumption
<1>2. (CHOOSE a \in Address : TRUE) \in Address
  <2>1. canonical[Pool] \in Address
    BY ProofInterceptorAssumption
  <2> QED BY <2>1
<1> QED BY <1>1, <1>2 DEF FreeTx, Shape, Pcs

\* Its fields.
LEMMA ArrivedFacts ==
    ASSUME now \in Nat, NEW r \in Requests
    PROVE  /\ Shape(Arrived(r)) /\ Arrived(r).request = r /\ Arrived(r).arrived = now
           /\ Arrived(r).attempt = 0
PROOF
<1> DEFINE x == FreeTx
           y == Arrived(r)
<1>1. Shape(x) /\ x.attempt = 0
  BY FreeTxFacts
<1>2. y = [x EXCEPT !.request = r, !.arrived = now]
  BY DEF Arrived
<1> HIDE DEF x, y
<1>3. y = [pc |-> x.pc, request |-> r, arrived |-> now, subject |-> x.subject,
           attempt |-> x.attempt, deadline |-> x.deadline, due |-> x.due,
           verdict |-> x.verdict, answered |-> x.answered]
  BY <1>1, <1>2 DEF Shape
<1>4. Shape(y) /\ y.request = r /\ y.arrived = now /\ y.attempt = 0
  BY <1>1, <1>3 DEF Shape
<1> QED BY <1>4 DEF y

\* A transaction that can execute is one call of the pool.
LEMMA ExecutableIsPoolCall ==
    ASSUME NEW tx, Executable(tx)
    PROVE  isSinglePoolCall(tx) /\ tx.decodes
PROOF
<1>1. feltOf[tx.to] = Pool /\ Pool # Invalid
  BY ProofInterceptorAssumption, ScreenerAssumption DEF Executable
<1> QED BY <1>1 DEF Executable, isSinglePoolCall, normalizeFelt

\* A cached policy that is served to a request which arrives now holds for it.
LEMMA CachedInformed ==
    ASSUME ScreeningInv, NEW a \in Address, NEW c \in Cached(a), NEW x, x.arrived = now,
           SettledFor(x)
    PROVE  c.policy = parsePolicy(policies[feltOf[a]])
PROOF
<1>1. c \in cachedPolicies[a] /\ now - c.at <= config.policyTtlMs
  BY DEF Cached
<1>2. /\ c.at \in Nat
      /\ UnchangedSince(c.at - config.policyTimeoutMs) => c.policy = parsePolicy(policies[feltOf[a]])
  BY <1>1 DEF ScreeningInv, CacheTrue
<1>3. /\ now \in Nat /\ config.policyTimeoutMs \in Nat /\ config.policyTtlMs \in Nat
      /\ changes \in Seq(Nat)
  BY ScreenerAssumption DEF ScreeningInv, Configured
<1>4. ASSUME NEW i \in DOMAIN changes PROVE changes[i] < c.at - config.policyTimeoutMs
  <2>1. /\ changes[i] \in Nat
        /\ changes[i] < now - config.policyTimeoutMs - config.policyTtlMs
    BY <1>3 DEF SettledFor, UnchangedSince
  <2> QED BY <1>1, <1>2, <1>3, <2>1
<1> QED BY <1>2, <1>4 DEF UnchangedSince

\* A request that was started waits for a policy, or it does not need to.
Started(x, started) ==
    \/ /\ started.waitsFor = {} /\ Good(started.tx)
       /\ started.tx.pc \notin {"policy", "screening"}
       /\ started.tx.attempt <= config.maxRetries
    \/ /\ started.tx = [x EXCEPT !.pc = "policy"]
       /\ \E action \in getOpenNoteDepositor(x.request.tx) :
             /\ normalizeFelt(action.contract_address) \in Address
             /\ started.waitsFor = {normalizeFelt(action.contract_address)}

\* The interceptor starts a request that way.
LEMMA ReceivedStarts ==
    ASSUME ScreeningInv, NEW x, Shape(x), x.arrived = now, x.attempt = 0
    PROVE  Started(x, Intercepted(x))
PROOF
<1> DEFINE tx == x.request.tx
           depositor == getOpenNoteDepositor(tx)
           action == CHOOSE a \in depositor : TRUE
           address == normalizeFelt(action.contract_address)
           c == CHOOSE z \in Cached(address) : TRUE
           verdict == IF config.blockNonPoolTx THEN Block("non_pool_tx") ELSE Allow
           y1 == Done(x, verdict)
           y2 == Resolved(x, getScreenedAddress(tx, "null"))
           y3 == Resolved(x, getScreenedAddress(tx, c.policy))
           y4 == [x EXCEPT !.pc = "policy"]
<1>1. Intercepted(x) =
          IF ~isSinglePoolCall(tx) THEN [tx |-> y1, waitsFor |-> {}]
          ELSE IF ~tx.decodes \/ depositor = {} THEN [tx |-> y2, waitsFor |-> {}]
          ELSE IF Cached(address) # {} THEN [tx |-> y3, waitsFor |-> {}]
          ELSE [tx |-> y4, waitsFor |-> {address}]
  BY DEF Intercepted
<1>2. /\ Configured /\ now \in Nat /\ policies \in Policies /\ config.maxRetries \in Nat
      /\ config.policyTimeoutMs \in Nat /\ config.totalTimeoutMs \in Nat
  BY ScreenerAssumption DEF ScreeningInv, Configured
<1>3. /\ x.arrived <= now /\ now <= x.arrived + config.policyTimeoutMs /\ now <= Limit(x)
      /\ x.attempt <= config.maxRetries
  BY <1>2 DEF Limit
<1>4. tx.user \in Address /\ tx.actions \in Seq(Action)
  BY ProofInterceptorAssumption DEF Shape
<1>5. depositor # {} => /\ action \in depositor /\ depositor = {action}
                        /\ address \in Address
                        /\ feltOf[address] = feltOf[action.contract_address]
  <2> SUFFICES ASSUME depositor # {}
               PROVE  /\ action \in depositor /\ depositor = {action}
                      /\ address \in Address
                      /\ feltOf[address] = feltOf[action.contract_address]
    OBVIOUS
  <2>1. action \in depositor
    OBVIOUS
  <2> HIDE DEF action, tx
  <2>2. action \in FirstInvoke(tx) /\ depositor = FirstInvoke(tx)
    BY <2>1 DEF getOpenNoteDepositor
  <2>3. FirstInvoke(tx) = {action} /\ action.contract_address \in Address
    BY <1>4, <2>2, InvokeFacts
  <2> QED BY <2>1, <2>2, <2>3, NormalFelt
<1> DEFINE started == Intercepted(x)
<1>6. CASE ~isSinglePoolCall(tx)
  <2>1. verdict.action = "allow" => Taken(x, verdict.signature)
    BY <1>6, ExecutableIsPoolCall DEF Taken
  <2>2. started.tx = y1 /\ started.waitsFor = {}
    BY <1>1, <1>6
  <2> HIDE DEF verdict
  <2>3. Good(y1) /\ y1.pc = "done" /\ y1.attempt = 0
    BY <1>2, <1>3, <2>1, DoneGood
  <2> HIDE DEF started, y1
  <2> QED BY <1>2, <2>2, <2>3 DEF Started, started
<1>7. CASE isSinglePoolCall(tx) /\ (~tx.decodes \/ depositor = {})
  <2> DEFINE policy == "null"
  <2>1. Executable(tx) => Informed(tx, policy)
    BY <1>7, ExecutableIsPoolCall DEF Informed
  <2>2. started.tx = y2 /\ started.waitsFor = {}
    BY <1>1, <1>7
  <2>3. y2 = Resolved(x, getScreenedAddress(x.request.tx, policy))
    OBVIOUS
  <2> HIDE DEF policy, started, y2
  <2>4. Good(y2) /\ y2.pc \in {"done", "calling"} /\ y2.attempt <= config.maxRetries
    BY <1>2, <1>3, <2>1, <2>3, ResolvedGood
  <2> QED BY <2>2, <2>4 DEF Started, started
<1>8. CASE isSinglePoolCall(tx) /\ tx.decodes /\ depositor # {} /\ Cached(address) # {}
  <2>1. c \in Cached(address)
    BY <1>8
  <2>2. started.tx = y3 /\ started.waitsFor = {}
    BY <1>1, <1>8
  <2> DEFINE policy == c.policy
  <2>3. SettledFor(x) => Informed(tx, policy)
    <3>1. address \in Address /\ feltOf[address] = feltOf[action.contract_address]
          /\ depositor = {action}
      BY <1>5, <1>8
    <3> HIDE DEF c, address, action
    <3>2. SettledFor(x) => c.policy = parsePolicy(policies[feltOf[address]])
      BY <2>1, <3>1, CachedInformed
    <3> QED BY <3>1, <3>2 DEF Informed
  <2>4. y3 = Resolved(x, getScreenedAddress(x.request.tx, policy))
    OBVIOUS
  <2> HIDE DEF policy, started, y3
  <2>5. Good(y3) /\ y3.pc \in {"done", "calling"} /\ y3.attempt <= config.maxRetries
    BY <1>2, <1>3, <2>3, <2>4, ResolvedGood
  <2> QED BY <2>2, <2>5 DEF Started, started
<1>9. CASE isSinglePoolCall(tx) /\ tx.decodes /\ depositor # {} /\ Cached(address) = {}
  <2>1. started.tx = y4 /\ started.waitsFor = {address}
    BY <1>1, <1>9, SMTT(30)
  <2>2. action \in depositor /\ address \in Address
    BY <1>5, <1>9
  <2> HIDE DEF started, action
  <2> QED BY <2>1, <2>2 DEF Started, started
<1> HIDE DEF depositor, address, started
<1> QED BY <1>6, <1>7, <1>8, <1>9

\* A request arrives and goes as far as its first await.
LEMMA ReceiveInv ==
    ASSUME ScreeningInv, config.screening, NEW t \in Tx, NEW r \in Requests, receive(t, r)
    PROVE  ScreeningInv'
PROOF
<1> DEFINE x == Arrived(r)
           started == IF Refusal(r) # "ok"
                      THEN [tx |-> Done(x, Refused(Refusal(r))), waitsFor |-> {}]
                      ELSE runInterceptors(x)
<1>1. /\ now \in Nat /\ Configured /\ config.maxRetries \in Nat /\ DOMAIN txs = Tx
      /\ config.policyTimeoutMs \in Nat /\ config.totalTimeoutMs \in Nat
  BY ScreenerAssumption DEF ScreeningInv, Configured
<1>2. Shape(x) /\ x.request = r /\ x.arrived = now /\ x.attempt = 0
  BY <1>1, ArrivedFacts
<1>3. /\ txs' = [txs EXCEPT ![t] = started.tx]
      /\ pendingReads' = [a \in Address |->
             IF a \in started.waitsFor /\ pendingReads[a] = {}
             THEN {[began |-> now, got |-> {}]} ELSE pendingReads[a]]
      /\ UNCHANGED <<now, screens, config, policies, changes, cachedPolicies>>
  BY DEF receive, Arrived
<1>4. Started(x, started)
  <2>1. CASE Refusal(r) # "ok"
    <3> DEFINE verdict == Refused(Refusal(r))
               y == Done(x, verdict)
    <3>1. verdict.action # "allow"
      BY DEF Refused
    <3>2. started.tx = y /\ started.waitsFor = {}
      BY <2>1
    <3>3. x.arrived <= now /\ now <= Limit(x)
      BY <1>1, <1>2 DEF Limit
    <3> HIDE DEF verdict, x
    <3>4. Good(y) /\ y.pc = "done" /\ y.attempt = 0
      BY <1>1, <1>2, <3>1, <3>3, DoneGood
    <3> HIDE DEF y, started
    <3> QED BY <1>1, <3>2, <3>4 DEF Started
  <2>2. CASE Refusal(r) = "ok"
    <3>1. started = Intercepted(x)
      BY <2>2 DEF runInterceptors
    <3> HIDE DEF x
    <3>2. Started(x, Intercepted(x))
      BY <1>2, ReceivedStarts
    <3> QED BY <3>1, <3>2
  <2> QED BY <2>1, <2>2
<1> HIDE DEF started, x
<1>5. /\ DOMAIN pendingReads' = Address
      /\ \A b \in Address : \/ pendingReads'[b] = pendingReads[b]
                            \/ /\ pendingReads[b] = {} /\ b \in started.waitsFor
                               /\ pendingReads'[b] = {[began |-> now, got |-> {}]}
      /\ \A b \in started.waitsFor : b \in Address => pendingReads'[b] # {}
  BY <1>3
<1>6. /\ txs'[t] = started.tx /\ DOMAIN txs' = Tx
      /\ \A u \in Tx : u # t => txs'[u] = txs[u]
  BY <1>1, <1>3
<1>7. ReadsTimely' /\ ReadsTrue'
  <2>1. ASSUME NEW b \in Address, NEW read \in pendingReads'[b]
        PROVE  /\ read = [began |-> read.began, got |-> read.got] /\ read.began \in Nat
               /\ read.began <= now /\ now <= read.began + config.policyTimeoutMs
               /\ UnchangedSince(read.began) => \A got \in read.got : got = policies[feltOf[b]]
    <3>1. CASE pendingReads'[b] = pendingReads[b]
      BY <2>1, <3>1 DEF ScreeningInv, ReadsTimely, ReadsTrue
    <3>2. CASE pendingReads'[b] = {[began |-> now, got |-> {}]}
      <4>1. read = [began |-> now, got |-> {}]
        BY <2>1, <3>2
      <4> QED BY <1>1, <4>1
    <3> QED BY <1>5, <3>1, <3>2
  <2> QED BY <1>3, <2>1 DEF ReadsTimely, ReadsTrue, UnchangedSince
<1>8. ASSUME NEW u \in Tx PROVE Good(txs[u])' /\ CallsFit(u)'
  <2>1. CASE u # t
    <3>1. Good(txs[u]) /\ CallsFit(u) /\ txs'[u] = txs[u]
      BY <1>6, <2>1 DEF ScreeningInv
    <3>2. Waits(txs[u]) => Waits(txs[u])'
      <4>1. \A b \in Address : pendingReads[b] # {} => pendingReads'[b] = pendingReads[b]
        BY <1>5
      <4> QED BY <3>1, <4>1 DEF Waits
    <3>3. Good(txs[u])'
      BY <1>3, <3>1, <3>2, UntouchedGood
    <3>4. CallsFit(u)'
      BY <1>3, <3>1 DEF CallsFit
    <3> QED BY <3>3, <3>4
  <2>2. CASE u = t /\ started.waitsFor = {} /\ Good(started.tx)
             /\ started.tx.pc \notin {"policy", "screening"}
             /\ started.tx.attempt <= config.maxRetries
    <3> DEFINE y == started.tx
    <3>1. txs'[u] = y /\ Good(y) /\ y.pc \notin {"policy", "screening"}
          /\ y.attempt <= config.maxRetries
      BY <1>6, <2>2
    <3> HIDE DEF y
    <3>2. Shape(txs[u])'
      BY <3>1 DEF Good, Shape
    <3>3. Timely(txs[u])'
      BY <1>3, <3>1 DEF Good, Timely, Limit
    <3>4. Waits(txs[u])' /\ CallsFit(u)'
      BY <1>3, <3>1 DEF Waits, CallsFit
    <3>5. Truthful(txs[u])'
      BY <1>3, <3>1 DEF Good, Truthful, SettledFor, UnchangedSince
    <3> QED BY <3>2, <3>3, <3>4, <3>5 DEF Good
  <2>3. CASE /\ u = t /\ started.tx = [x EXCEPT !.pc = "policy"]
             /\ \E action \in getOpenNoteDepositor(x.request.tx) :
                   /\ normalizeFelt(action.contract_address) \in Address
                   /\ started.waitsFor = {normalizeFelt(action.contract_address)}
    <3> DEFINE y == started.tx
    <3>1. txs'[u] = y /\ y = [x EXCEPT !.pc = "policy"]
      BY <1>6, <2>3
    <3>2. PICK action \in getOpenNoteDepositor(x.request.tx) :
              /\ normalizeFelt(action.contract_address) \in Address
              /\ started.waitsFor = {normalizeFelt(action.contract_address)}
      BY <2>3
    <3> DEFINE b == normalizeFelt(action.contract_address)
    <3> HIDE DEF y
    <3>3. y = [pc |-> "policy", request |-> x.request, arrived |-> x.arrived,
               subject |-> x.subject, attempt |-> x.attempt, deadline |-> x.deadline,
               due |-> x.due, verdict |-> x.verdict, answered |-> x.answered]
      BY <1>2, <3>1 DEF Shape
    <3>4. Shape(y)
      BY <1>2, <3>3 DEF Shape, Pcs
    <3>5. y.pc = "policy" /\ y.arrived = now /\ y.request = x.request /\ y.attempt = 0
      BY <1>2, <3>3
    <3>6. Shape(txs[u])'
      BY <3>1, <3>4 DEF Shape
    <3>7. Timely(txs[u])' /\ Truthful(txs[u])' /\ CallsFit(u)'
      <4>1. now' = now /\ config' = config /\ txs'[u] = y
        BY <1>3, <3>1
      <4>2. Timely(txs[u])'
        BY <1>1, <3>5, <4>1 DEF Timely, Active
      <4>3. Truthful(txs[u])'
        BY <3>5, <4>1 DEF Truthful, Active
      <4>4. CallsFit(u)'
        BY <1>1, <3>5, <4>1 DEF CallsFit
      <4> QED BY <4>2, <4>3, <4>4
    <3>8. pendingReads'[b] # {} /\ \A read \in pendingReads'[b] : read.began <= now
      <4>1. b \in Address /\ b \in started.waitsFor
        BY <3>2
      <4>2. pendingReads'[b] # {}
        BY <1>5, <4>1
      <4>3. \A read \in pendingReads'[b] : read.began <= now'
        BY <1>7, <4>1 DEF ReadsTimely
      <4>4. now' = now
        BY <1>3
      <4> HIDE DEF b
      <4> QED BY <4>2, <4>3, <4>4
    <3>9. Waits(txs[u])'
      BY <3>1, <3>2, <3>5, <3>8 DEF Waits
    <3> QED BY <3>6, <3>7, <3>9 DEF Good
  <2> QED BY <1>4, <2>1, <2>2, <2>3 DEF Started
<1>9. Configured' /\ CacheTrue' /\ ScreensTrue'
  BY <1>3, Zenon DEF ScreeningInv, Configured, CacheTrue, UnchangedSince, ScreensTrue
<1> QED BY <1>3, <1>5, <1>6, <1>7, <1>8, <1>9 DEF ScreeningInv

-----------------------------------------------------------------------------
(***************************************************************************)
(* The specification.                                                      *)
(***************************************************************************)

\* A configuration that screens has all its parameters.
LEMMA ConfigFacts ==
    ASSUME NEW env \in Envs, NEW c \in loadConfig(env), c.screening
    PROVE  /\ {c.timeoutMs, c.maxRetries, c.totalTimeoutMs} \subseteq Nat
           /\ {c.policyTtlMs, c.policyTimeoutMs} \subseteq Nat
           /\ Tx \X (0 .. c.maxRetries) \subseteq Call
PROOF
<1> DEFINE off == [screening |-> FALSE, maxBodyBytes |-> env.maxBodyBytes]
           on == [screening |-> TRUE, maxBodyBytes |-> env.maxBodyBytes,
                  blockNonPoolTx |-> env.blockNonPoolTx, timeoutMs |-> env.timeoutMs,
                  maxRetries |-> env.maxRetries, totalTimeoutMs |-> env.totalTimeoutMs,
                  policyTtlMs |-> env.policyTtlMs, policyTimeoutMs |-> env.policyTimeoutMs]
           checks == << <<env.maxBodyBytes <= 0, {}>>,
                        <<env.tlsCert # env.tlsKey, {}>>,
                        <<~env.screening, {off}>>,
                        <<~env.complete, {}>> >>
           hits == {i \in DOMAIN checks : checks[i][1]}
<1>1. loadConfig(env) = IF hits = {} THEN {on} ELSE checks[Min(hits)][2]
  BY DEF loadConfig, FirstOf, Min
<1>2. hits \subseteq 1 .. 4 /\ hits \subseteq Nat
  OBVIOUS
<1>3. /\ checks[1][2] = {} /\ checks[2][2] = {} /\ checks[3][2] = {off} /\ checks[4][2] = {}
  OBVIOUS
<1>4. hits # {} => Min(hits) \in 1 .. 4
  <2> HIDE DEF hits
  <2> QED BY <1>2, MinOfSet
<1>5. ~off.screening
  OBVIOUS
<1> HIDE DEF hits, checks, off
<1>6. c = on
  <2>1. CASE hits = {}
    BY <1>1, <2>1
  <2>2. CASE hits # {}
    <3> DEFINE i == Min(hits)
    <3>1. i \in {1, 2, 3, 4}
      BY <1>4, <2>2
    <3>2. c \in checks[i][2]
      BY <1>1, <2>2
    <3> HIDE DEF i, on
    <3>3. c = off
      BY <1>3, <3>1, <3>2
    <3> QED BY <1>5, <3>3
  <2> QED BY <2>1, <2>2
<1>7. /\ c.timeoutMs = env.timeoutMs /\ c.maxRetries = env.maxRetries
      /\ c.totalTimeoutMs = env.totalTimeoutMs /\ c.policyTtlMs = env.policyTtlMs
      /\ c.policyTimeoutMs = env.policyTimeoutMs
  BY <1>6
<1> QED BY <1>7, ProofInterceptorAssumption

\* Initially nothing has happened.
LEMMA InitInv == InterceptorInit => InterceptorInv
PROOF
<1> SUFFICES ASSUME InterceptorInit, config.screening
             PROVE  ScreeningInv
  BY DEF InterceptorInv
<1>1. Configured
  BY ConfigFacts DEF InterceptorInit, Configured
<1>2. /\ now = 0 /\ policies \in Policies /\ changes = <<>> /\ txs = [t \in Tx |-> FreeTx]
      /\ cachedPolicies = [a \in Address |-> {}] /\ pendingReads = [a \in Address |-> {}]
      /\ screens = [c \in Call |-> NoScreen]
  BY DEF InterceptorInit, ScreenerInit
<1>3. changes \in Seq(Nat) /\ DOMAIN changes = {} /\ now \in 0 .. MaxTime
  BY <1>2, ScreenerAssumption
<1>4. ASSUME NEW t \in Tx PROVE Good(txs[t]) /\ CallsFit(t)
  <2>1. txs[t] = FreeTx
    BY <1>2
  <2>2. Shape(txs[t]) /\ txs[t].pc = "free" /\ txs[t].attempt = 0
    BY <2>1, FreeTxFacts
  <2>3. Timely(txs[t]) /\ Waits(txs[t]) /\ Truthful(txs[t])
    BY <2>2 DEF Timely, Waits, Truthful, Active
  <2>4. CallsFit(t)
    BY <1>1, <2>2 DEF CallsFit, Configured
  <2> QED BY <2>2, <2>3, <2>4 DEF Good
<1>5. ReadsTimely /\ ReadsTrue /\ CacheTrue
  BY <1>2 DEF ReadsTimely, ReadsTrue, CacheTrue
<1>6. ScreensTrue
  <2>1. (CHOOSE a \in Address : TRUE) \in Address
    <3>1. canonical[Pool] \in Address
      BY ProofInterceptorAssumption
    <3> QED BY <3>1
  <2>2. /\ NoScreen \in [state : {"free", "open", "answered"}, address : Address, answer : Answer]
        /\ NoScreen.answer.verdict # "allowed"
    BY <2>1 DEF NoScreen, NoAnswer, Answer
  <2> QED BY <1>2, <2>2 DEF ScreensTrue
<1>7. DOMAIN txs = Tx /\ DOMAIN pendingReads = Address /\ DOMAIN cachedPolicies = Address
  BY <1>2
<1> QED BY <1>1, <1>2, <1>3, <1>4, <1>5, <1>6, <1>7 DEF ScreeningInv

\* Every step keeps the invariant.
LEMMA NextInv == InterceptorInv /\ [InterceptorNext]_vars => InterceptorInv'
PROOF
<1> SUFFICES ASSUME InterceptorInv, [InterceptorNext]_vars, config'.screening
             PROVE  ScreeningInv'
  BY Zenon DEF InterceptorInv
<1>1. config' = config
  BY DEF InterceptorNext, vars, receive, read_policy, settle, callScreenEndpoint, service_answers,
         screen_answered, call_timed_out, wake, set_policy, tick, halt
<1>2. config.screening /\ ScreeningInv
  BY <1>1 DEF InterceptorInv
<1>3. CASE UNCHANGED vars
  <2>1. \A t \in Tx : Good(txs[t])' /\ CallsFit(t)'
    BY <1>2, <1>3, ZenonT(40) DEF vars, ScreeningInv, Good, Shape, Timely, Limit, Waits, Truthful,
          SettledFor, UnchangedSince, CallsFit
  <2>2. ReadsTimely' /\ ReadsTrue' /\ CacheTrue' /\ ScreensTrue' /\ Configured'
    BY <1>2, <1>3, ZenonT(40) DEF vars, ScreeningInv, Configured, UnchangedSince, ReadsTimely,
          ReadsTrue, CacheTrue, ScreensTrue
  <2> QED BY <1>2, <1>3, <2>1, <2>2 DEF vars, ScreeningInv
<1>4. ASSUME NEW t \in Tx, NEW r \in Requests, receive(t, r) PROVE ScreeningInv'
  BY <1>2, <1>4, ReceiveInv
<1>5. ASSUME NEW a \in Address, read_policy(a) \/ settle(a) PROVE ScreeningInv'
  BY <1>2, <1>5, ReadPolicyInv, SettleInv
<1>6. ASSUME NEW t \in Tx,
             \/ callScreenEndpoint(t) \/ service_answers(t) \/ screen_answered(t)
             \/ call_timed_out(t) \/ wake(t)
      PROVE  ScreeningInv'
  BY <1>2, <1>6, CallScreenEndpointInv, ServiceAnswersInv, ScreenAnsweredInv, CallTimedOutInv, WakeInv
<1>7. CASE set_policy
  BY <1>2, <1>7, SetPolicyInv
<1>8. CASE tick
  BY <1>2, <1>8, TickInv
<1>9. CASE halt
  BY <1>3, <1>9 DEF halt
<1> QED BY <1>3, <1>4, <1>5, <1>6, <1>7, <1>8, <1>9 DEF InterceptorNext

(***************************************************************************)
(* The inductive invariant of the proof interceptor (receive,              *)
(* screenAndSign, getPolicy and the policy cache) holds in every behaviour,*)
(* whatever the requests, the environments and the policies.               *)
(***************************************************************************)
THEOREM InterceptorHolds == InterceptorSpec => []InterceptorInv
PROOF
BY InitInv, NextInv, PTL DEF InterceptorSpec

(***************************************************************************)
(* Every request is answered within the deadline of the policy read and    *)
(* the screening budget after it (screenAndSign, perCallTimeout, getPolicy)*)
(***************************************************************************)
THEOREM AnswersInTime == InterceptorSpec => []AnsweredInTime
PROOF
<1>1. InterceptorInv => AnsweredInTime
  <2> SUFFICES ASSUME ScreeningInv, NEW t \in Tx, txs[t].pc # "free"
               PROVE  (IF txs[t].pc = "done" THEN txs[t].answered ELSE now)
                          <= txs[t].arrived + config.policyTimeoutMs + config.totalTimeoutMs
    BY DEF InterceptorInv, AnsweredInTime
  <2> DEFINE x == txs[t]
  <2>1. Good(x) /\ ReadsTimely
    BY DEF ScreeningInv
  <2>2. /\ config.totalTimeoutMs \in Nat /\ config.policyTimeoutMs \in Nat /\ now \in Nat
        /\ x.arrived \in Nat /\ x.pc \in Pcs
    BY <2>1, ScreenerAssumption DEF ScreeningInv, Configured, Good, Shape
  <2>3. CASE x.pc = "done"
    BY <2>1, <2>3 DEF Good, Timely, Limit
  <2>4. CASE x.pc \in Active
    <3>1. now <= Limit(x) /\ x.pc # "done"
      BY <2>4, ActiveFacts DEF Active
    <3> QED BY <3>1 DEF Limit
  <2>5. CASE x.pc = "policy"
    <3>1. PICK action \in getOpenNoteDepositor(x.request.tx) :
              LET a == normalizeFelt(action.contract_address)
              IN  /\ a \in Address /\ pendingReads[a] # {}
                  /\ \A read \in pendingReads[a] : read.began <= x.arrived
      BY <2>1, <2>5 DEF Good, Waits
    <3>2. PICK read \in pendingReads[normalizeFelt(action.contract_address)] :
              /\ read.began \in Nat /\ read.began <= x.arrived
              /\ now <= read.began + config.policyTimeoutMs
      BY <2>1, <3>1 DEF ReadsTimely
    <3> QED BY <2>2, <2>5, <3>2
  <2> QED BY <2>2, <2>3, <2>4, <2>5 DEF Pcs, Active
<1> QED BY <1>1, InterceptorHolds, PTL

(***************************************************************************)
(* What the interceptor allows, the pool takes: the attestation that an    *)
(* allowed transaction carries is of exactly the subject that the pool     *)
(* asks for (getScreenedAddress, getPolicy), for every transaction, every  *)
(* policy and every order of reads, answers, failures and retries.         *)
(***************************************************************************)
THEOREM AllowedIsAccepted == InterceptorSpec => []AllowedAccepted
PROOF
<1>1. InterceptorInv => AllowedAccepted
  <2> SUFFICES ASSUME ScreeningInv, NEW t \in Tx, Accepted(t), Settled(t),
                      Executable(txs[t].request.tx)
               PROVE  /\ PoolSubjects(txs[t].request.tx, policies) =
                            {s.depositor : s \in txs[t].verdict.signature}
                      /\ PoolSubjects(txs[t].request.tx, policies) \cap Denied = {}
    BY DEF InterceptorInv, AllowedAccepted
  <2>1. Good(txs[t]) /\ changes \in Seq(Nat) /\ config.policyTimeoutMs \in Nat
        /\ config.policyTtlMs \in Nat
    BY DEF ScreeningInv, Configured
  <2>2. txs[t].arrived \in Nat
    BY <2>1 DEF Good, Shape
  <2>3. ASSUME NEW i \in DOMAIN changes
        PROVE  changes[i] < txs[t].arrived - config.policyTimeoutMs - config.policyTtlMs
    <3>1. /\ changes[i] \in Nat
          /\ changes[i] + config.policyTimeoutMs + config.policyTtlMs < txs[t].arrived
      BY <2>1 DEF Settled
    <3> QED BY <2>1, <2>2, <3>1
  <2>4. SettledFor(txs[t])
    BY <2>3 DEF SettledFor, UnchangedSince
  <2> QED BY <2>1, <2>4 DEF Good, Truthful, Accepted
<1> QED BY <1>1, InterceptorHolds, PTL
=============================================================================
