---------------------------- MODULE Demo_proofs ----------------------------
(***************************************************************************)
(* The demo.  What its panels restore and show is what was chosen and      *)
(* asked for, an operation reaches the pool with the allowance it needs,   *)
(* and it proves on a state that has the account's own transactions, for   *)
(* every number of accounts, inputs, requests, operations and loads.       *)
(***************************************************************************)
EXTENDS DemoApp, DemoPanels, FiniteSetTheorems, SequenceTheorems, WellFoundedInduction, TLAPS

-----------------------------------------------------------------------------
(***************************************************************************)
(* The inductive invariant of the panels.                                  *)
(***************************************************************************)
Entries == [admin : BOOLEAN, keys : BOOLEAN]
Asked == Inputs \cup {NoInput}
AnyHash == Hashes \cup {DefaultHash}
AnyPool == Pools \cup {DefaultPool}

\* Local storage holds one list and one index, and an index in use is one of the list.
AccountsInv ==
    /\ accounts \in [persist : BOOLEAN, list : Seq(Entries), active : Int, stored : SUBSET AccountLists,
                     index : SUBSET Int]
    /\ \A k, l \in accounts.stored : k = l
    /\ \A i, j \in accounts.index : i = j
    /\ accounts.list # <<>> => accounts.active < Len(accounts.list)

\* The request that is not cancelled was made for the input on screen.
FeedInv(f) ==
    /\ f \in [input : Asked, asked : Nat, inFlight : SUBSET [id : Nat, input : Asked], live : SUBSET Nat,
              timer : BOOLEAN, loading : BOOLEAN, shown : SUBSET Asked]
    /\ \A r \in f.inFlight : r.id < f.asked
    /\ \A r \in f.inFlight : r.id \in f.live => r.input = f.input
    /\ f.shown \subseteq {f.input} \/ f.live # {} \/ f.timer

\* Local storage holds one selection; the search that is not aborted is the latest,
\* and the panel shows one search.
PoolsInv ==
    /\ pools \in [hash : AnyHash, active : AnyPool, stored : SUBSET [hash : AnyHash, selected : AnyPool, known : BOOLEAN],
                  search : SUBSET [id : Nat, chunks : Nat, done : BOOLEAN], live : SUBSET Nat, asked : Nat,
                  runs : SUBSET [id : Nat, chunks : Nat, started : BOOLEAN], deploying : SUBSET AnyHash]
    /\ \A s, t \in pools.stored : s = t
    /\ \A s \in pools.stored : s.known /\ s.hash = pools.hash => s.selected = pools.active
    /\ \A r \in pools.runs : r.id < pools.asked
    /\ \A s \in pools.search : s.id < pools.asked
    /\ \A l \in pools.live : \A r \in pools.runs : r.id <= l
    /\ \A l \in pools.live : \A s \in pools.search : s.id <= l
    /\ \A s, t \in pools.search : s = t
    /\ \A r \in pools.runs : ~r.started => r.chunks = 0

PanelsInv ==
    /\ AccountsInv
    /\ feeds = [name \in Feeds |-> feeds[name]]
    /\ \A name \in Feeds : FeedInv(feeds[name])
    /\ PoolsInv

-----------------------------------------------------------------------------
(***************************************************************************)
(* The accounts.                                                           *)
(***************************************************************************)

\* A set of natural numbers that is not empty has a least one.
LEMMA LeastOf ==
    ASSUME NEW S, S \subseteq Nat, S # {}
    PROVE  \E x \in S : \A y \in S : x <= y
PROOF
<1> DEFINE R == {ss \in Nat \X Nat : ss[1] < ss[2]}
<1>1. IsWellFoundedOn(R, Nat)
  BY NatLessThanWellFounded DEF OpToRel
<1> HIDE DEF R
<1>2. PICK x \in S : \A y \in S : <<y, x>> \notin R
  BY <1>1, WFMin
<1>3. \A y \in S : <<y, x>> \in R \/ x <= y
  BY DEF R
<1> QED BY <1>2, <1>3

\* The first account that is not the admin, or the first, is one of the list.
LEMMA FirstIndex ==
    ASSUME NEW list \in Seq(Entries), list # <<>>
    PROVE  firstNonAdminIndex(list) \in Int /\ firstNonAdminIndex(list) < Len(list)
PROOF
<1> DEFINE users == {i \in DOMAIN list : ~list[i].admin}
<1>1. Len(list) \in Nat \ {0} /\ DOMAIN list = 1 .. Len(list)
  OBVIOUS
<1>2. CASE users = {}
  BY <1>1, <1>2 DEF firstNonAdminIndex
<1>3. CASE users # {}
  <2>1. users \subseteq 1 .. Len(list)
    BY <1>1
  <2>2. users \subseteq Nat
    BY <1>1, <2>1
  <2> HIDE DEF users
  <2>3. \E x \in users : \A y \in users : x <= y
    BY <1>3, <2>2, LeastOf
  <2>4. Min(users) \in users
    BY <2>3 DEF Min
  <2>5. Min(users) \in 1 .. Len(list)
    BY <2>1, <2>4
  <2>6. firstNonAdminIndex(list) = Min(users) - 1
    BY <1>3 DEF firstNonAdminIndex, users
  <2> QED BY <1>1, <2>5, <2>6
<1> QED BY <1>2, <1>3

\* An index read from storage is one of the list it is used with.
LEMMA StoredIndex ==
    ASSUME NEW list \in Seq(Entries), list # <<>>, NEW saved \in SUBSET Int, \A i, j \in saved : i = j
    PROVE  loadStoredIndex(list, saved) \in Int /\ loadStoredIndex(list, saved) < Len(list)
PROOF
<1>1. CASE \E i \in saved : i < Len(list)
  <2>1. PICK i \in saved : i < Len(list)
    BY <1>1
  <2>2. (CHOOSE j \in saved : TRUE) = i
    BY <2>1
  <2> QED BY <1>1, <2>1, <2>2 DEF loadStoredIndex
<1>2. CASE ~\E i \in saved : i < Len(list)
  BY <1>2, FirstIndex DEF loadStoredIndex
<1> QED BY <1>1, <1>2

\* Imports, switches, reloads and the imports of other tabs.
LEMMA AccountsKept ==
    ASSUME AccountsInv, AccountsNext
    PROVE  AccountsInv' /\ UNCHANGED <<feeds, pools>>
PROOF
<1>1. /\ accounts \in [persist : BOOLEAN, list : Seq(Entries), active : Int, stored : SUBSET AccountLists,
                       index : SUBSET Int]
      /\ AccountLists \subseteq Seq(Entries)
  BY PanelsAssumption DEF AccountsInv, Entries
<1>2. ASSUME NEW list \in AccountLists, importAccounts(list) \/ otherTab(list)
      PROVE  AccountsInv' /\ UNCHANGED <<feeds, pools>>
  <2>1. list # <<>> /\ list \in Seq(Entries)
    BY <1>1, <1>2 DEF importAccounts, otherTab, parseAccounts
  <2> DEFINE i == firstNonAdminIndex(list)
  <2>2. i \in Int /\ i < Len(list)
    BY <2>1, FirstIndex
  <2> HIDE DEF i
  <2>3. CASE importAccounts(list)
    <3>1. accounts' = [accounts EXCEPT !.list = list, !.active = i,
                           !.stored = IF accounts.persist THEN {list} ELSE accounts.stored,
                           !.index = IF accounts.persist THEN {i} ELSE accounts.index]
      BY <2>3 DEF importAccounts, i
    <3>2. /\ accounts'.list = list /\ accounts'.active = i
          /\ accounts'.stored \in {{list}, accounts.stored} /\ accounts'.index \in {{i}, accounts.index}
      BY <1>1, <3>1
    <3>3. accounts' \in [persist : BOOLEAN, list : Seq(Entries), active : Int,
                         stored : SUBSET AccountLists, index : SUBSET Int]
      BY <1>1, <2>1, <2>2, <3>1
    <3> QED BY <2>2, <2>3, <3>2, <3>3 DEF AccountsInv, importAccounts
  <2>4. CASE otherTab(list)
    <3>1. PICK new \in {{list}, accounts.stored}, k \in Int :
              accounts' = [accounts EXCEPT !.stored = new, !.index = {k}]
      <4>1. CASE accounts' = [accounts EXCEPT !.stored = {list}, !.index = {i}]
        BY <2>2, <4>1
      <4>2. CASE \E k \in 0 .. Len(list) - 1 : accounts' = [accounts EXCEPT !.index = {k}]
        <5>1. PICK k \in 0 .. Len(list) - 1 : accounts' = [accounts EXCEPT !.index = {k}]
          BY <4>2
        <5>2. accounts' = [accounts EXCEPT !.stored = accounts.stored, !.index = {k}]
          BY <1>1, <5>1
        <5>3. k \in Int /\ accounts.stored \in {{list}, accounts.stored}
          BY <2>1, LenProperties
        <5> QED BY <5>2, <5>3
      <4> QED BY <2>4, <4>1, <4>2 DEF otherTab, i
    <3>2. /\ accounts'.list = accounts.list /\ accounts'.active = accounts.active
          /\ accounts'.stored \in {{list}, accounts.stored} /\ accounts'.index = {k}
          /\ accounts' \in [persist : BOOLEAN, list : Seq(Entries), active : Int,
                            stored : SUBSET AccountLists, index : SUBSET Int]
      BY <1>1, <2>2, <3>1
    <3> QED BY <2>4, <3>2 DEF AccountsInv, otherTab
  <2> QED BY <1>2, <2>3, <2>4
<1>3. ASSUME NEW i \in Int, setActiveIndex(i)
      PROVE  AccountsInv' /\ UNCHANGED <<feeds, pools>>
  <2>1. /\ i < Len(accounts.list)
        /\ accounts' = [accounts EXCEPT !.active = i,
                            !.index = IF accounts.persist THEN {i} ELSE accounts.index]
    BY <1>3 DEF setActiveIndex
  <2>2. /\ accounts'.list = accounts.list /\ accounts'.active = i /\ accounts'.stored = accounts.stored
        /\ accounts'.index \in {{i}, accounts.index}
        /\ accounts' \in [persist : BOOLEAN, list : Seq(Entries), active : Int,
                          stored : SUBSET AccountLists, index : SUBSET Int]
    BY <1>1, <2>1
  <2> QED BY <1>3, <2>1, <2>2 DEF AccountsInv, setActiveIndex
<1>4. ASSUME reload PROVE AccountsInv' /\ UNCHANGED <<feeds, pools>>
  <2> DEFINE list == IF accounts.stored = {} THEN <<>> ELSE CHOOSE l \in accounts.stored : TRUE
             shown == IF accounts.persist THEN list ELSE <<>>
             active == IF accounts.persist THEN loadStoredIndex(list, accounts.index) ELSE 0
  <2>1. accounts' = [accounts EXCEPT !.list = shown, !.active = active] /\ UNCHANGED <<feeds, pools>>
    BY <1>4 DEF reload
  <2>2. list \in Seq(Entries)
    <3>1. CASE accounts.stored = {}
      BY <3>1
    <3>2. CASE accounts.stored # {}
      BY <1>1, <3>2
    <3> QED BY <3>1, <3>2
  <2>3. shown \in Seq(Entries) /\ active \in Int /\ (shown # <<>> => active < Len(shown))
    <3>1. CASE accounts.persist /\ list # <<>>
      <4>1. accounts.index \in SUBSET Int /\ \A i, j \in accounts.index : i = j
        BY <1>1 DEF AccountsInv
      <4> HIDE DEF list
      <4> QED BY <2>2, <3>1, <4>1, StoredIndex
    <3>2. CASE accounts.persist /\ list = <<>>
      <4> HIDE DEF list
      <4>1. loadStoredIndex(<<>>, accounts.index) \in Int
        <5>1. Len(<<>>) = 0 /\ DOMAIN <<>> = {}
          OBVIOUS
        <5>2. firstNonAdminIndex(<<>>) = 0
          BY <5>1 DEF firstNonAdminIndex
        <5>3. CASE \E i \in accounts.index : i < Len(<<>>)
          BY <1>1, <5>3 DEF loadStoredIndex
        <5>4. CASE ~\E i \in accounts.index : i < Len(<<>>)
          BY <5>2, <5>4 DEF loadStoredIndex
        <5> QED BY <5>3, <5>4
      <4> QED BY <2>2, <3>2, <4>1
    <3>3. CASE ~accounts.persist
      BY <3>3
    <3> QED BY <3>1, <3>2, <3>3
  <2> HIDE DEF list, shown, active
  <2>4. /\ accounts'.list = shown /\ accounts'.active = active
        /\ accounts'.stored = accounts.stored /\ accounts'.index = accounts.index
        /\ accounts' \in [persist : BOOLEAN, list : Seq(Entries), active : Int,
                          stored : SUBSET AccountLists, index : SUBSET Int]
    BY <1>1, <2>1, <2>3
  <2> QED BY <2>1, <2>3, <2>4 DEF AccountsInv
<1>5. ASSUME NEW list \in AccountLists, NEW i \in 0 .. Len(list) PROVE i \in Int
  BY <1>1
<1> QED BY <1>2, <1>3, <1>4, <1>5 DEF AccountsNext

-----------------------------------------------------------------------------
(***************************************************************************)
(* The feeds.                                                              *)
(***************************************************************************)

FeedFields == [input : Asked, asked : Nat, inFlight : SUBSET [id : Nat, input : Asked], live : SUBSET Nat,
               timer : BOOLEAN, loading : BOOLEAN, shown : SUBSET Asked]

\* A change of the input cancels what was asked before.
LEMMA CancelFacts ==
    ASSUME NEW f, FeedInv(f), NEW input \in Asked
    PROVE  /\ Cancel(f, input) \in FeedFields
           /\ Cancel(f, input).input = input /\ Cancel(f, input).asked = f.asked
           /\ Cancel(f, input).inFlight = f.inFlight /\ Cancel(f, input).live = {}
PROOF
<1>1. f \in FeedFields
  BY DEF FeedInv, FeedFields
<1> QED BY <1>1 DEF FeedFields, Cancel

\* What is asked is asked for the input on screen.
LEMMA AskFacts ==
    ASSUME NEW f \in FeedFields, \A r \in f.inFlight : r.id < f.asked
    PROVE  FeedInv(Ask(f, f.input))
PROOF
<1> DEFINE new == [id |-> f.asked, input |-> f.input]
           g == Ask(f, f.input)
<1>1. f.asked \in Nat /\ f.input \in Asked /\ new \in [id : Nat, input : Asked] /\ f.asked + 1 \in Nat
  BY DEF FeedFields
<1>2. /\ g \in FeedFields /\ g.inFlight = f.inFlight \cup {new} /\ g.live = {f.asked}
      /\ g.asked = f.asked + 1 /\ g.input = f.input
  <2> DEFINE n == f.asked + 1
             q == f.inFlight \cup {new}
  <2>1. q \in SUBSET [id : Nat, input : Asked] /\ n \in Nat
    BY <1>1 DEF FeedFields
  <2>2. g = [f EXCEPT !.inFlight = q, !.live = {f.asked}, !.asked = n]
    BY DEF Ask
  <2> HIDE DEF n, q, g, new
  <2>3. g \in FeedFields /\ g.inFlight = q /\ g.live = {f.asked} /\ g.asked = n /\ g.input = f.input
    BY <1>1, <2>1, <2>2 DEF FeedFields
  <2> QED BY <2>3 DEF n, q
<1> HIDE DEF g
<1>3. ASSUME NEW r \in g.inFlight PROVE r.id < g.asked /\ (r.id \in g.live => r.input = g.input)
  <2>1. CASE r = new
    BY <1>1, <1>2, <2>1
  <2>2. CASE r \in f.inFlight
    <3>1. r.id < f.asked /\ r.id \in Nat
      BY <2>2 DEF FeedFields
    <3> QED BY <1>1, <1>2, <3>1
  <2> QED BY <1>2, <2>1, <2>2
<1>4. FeedInv(g)
  BY <1>2, <1>3 DEF FeedInv, FeedFields
<1> QED BY <1>4 DEF g

\* The effects of a changed input, one by one.
LEMMA EffectsKeep ==
    ASSUME NEW f, FeedInv(f), NEW input \in Asked
    PROVE  FeedInv(usePoolPrice(f, input)) /\ FeedInv(avnuQuote(f, input)) /\ FeedInv(vesuPreview(f, input))
PROOF
<1> DEFINE c == Cancel(f, input)
<1>1. /\ c \in FeedFields /\ c.input = input /\ c.asked = f.asked /\ c.inFlight = f.inFlight /\ c.live = {}
  BY CancelFacts
<1>2. f.asked \in Nat /\ \A r \in c.inFlight : r.id < c.asked
  BY <1>1 DEF FeedInv
<1> HIDE DEF c
<1>3. FeedInv([c EXCEPT !.shown = {}])
  <2> DEFINE g == [c EXCEPT !.shown = {}]
  <2>1. g \in FeedFields /\ g.shown = {} /\ g.live = {} /\ g.inFlight = c.inFlight /\ g.asked = c.asked
    BY <1>1 DEF FeedFields
  <2> HIDE DEF g
  <2>2. FeedInv(g)
    BY <1>2, <2>1 DEF FeedInv, FeedFields
  <2> QED BY <2>2 DEF g
<1>4. FeedInv([c EXCEPT !.timer = TRUE])
  <2> DEFINE g == [c EXCEPT !.timer = TRUE]
  <2>1. g \in FeedFields /\ g.timer = TRUE /\ g.live = {} /\ g.inFlight = c.inFlight /\ g.asked = c.asked
    BY <1>1 DEF FeedFields
  <2> HIDE DEF g
  <2>2. FeedInv(g)
    BY <1>2, <2>1 DEF FeedInv, FeedFields
  <2> QED BY <2>2 DEF g
<1>5. FeedInv(Ask(c, input))
  BY <1>1, <1>2, AskFacts
<1>6. FeedInv(Ask([c EXCEPT !.loading = TRUE], input))
  <2> DEFINE g == [c EXCEPT !.loading = TRUE]
  <2>1. g \in FeedFields /\ g.inFlight = c.inFlight /\ g.asked = c.asked /\ g.input = input
    BY <1>1 DEF FeedFields
  <2> HIDE DEF g
  <2>2. FeedInv(Ask(g, input))
    BY <1>2, <2>1, AskFacts
  <2> QED BY <2>2 DEF g
<1>7. FeedInv(usePoolPrice(f, input))
  BY <1>3, <1>6 DEF usePoolPrice, c
<1>8. FeedInv(avnuQuote(f, input))
  BY <1>3, <1>4 DEF avnuQuote, c
<1>9. FeedInv(vesuPreview(f, input))
  BY <1>3, <1>5 DEF vesuPreview, c
<1> QED BY <1>7, <1>8, <1>9

\* An answer: dropped, or shown because it is the one that is awaited.
LEMMA AnswerKeeps ==
    ASSUME NEW f, FeedInv(f), NEW r \in f.inFlight, NEW ok \in BOOLEAN
    PROVE  FeedInv(Answered(f, r, ok))
PROOF
<1>1. f \in FeedFields /\ r \in [id : Nat, input : Asked]
  BY DEF FeedInv, FeedFields
<1>2. ASSUME isLive(f, r)
      PROVE  FeedInv([f EXCEPT !.inFlight = @ \ {r}, !.live = {}, !.loading = FALSE,
                               !.shown = IF ok THEN {r.input} ELSE {}])
  <2> DEFINE g == [f EXCEPT !.inFlight = @ \ {r}, !.live = {}, !.loading = FALSE,
                            !.shown = IF ok THEN {r.input} ELSE {}]
  <2>1. r.input = f.input
    BY <1>2 DEF isLive, FeedInv
  <2>2. /\ g \in FeedFields /\ g.inFlight \subseteq f.inFlight /\ g.asked = f.asked /\ g.input = f.input
        /\ g.live = {} /\ g.shown \subseteq {f.input}
    BY <1>1, <2>1 DEF FeedFields
  <2> HIDE DEF g
  <2>3. FeedInv(g)
    BY <2>2 DEF FeedInv, FeedFields
  <2> QED BY <2>3 DEF g
<1>3. FeedInv([f EXCEPT !.inFlight = @ \ {r}])
  <2> DEFINE g == [f EXCEPT !.inFlight = @ \ {r}]
  <2>1. /\ g \in FeedFields /\ g.inFlight \subseteq f.inFlight /\ g.asked = f.asked /\ g.input = f.input
        /\ g.live = f.live /\ g.shown = f.shown /\ g.timer = f.timer
    BY <1>1 DEF FeedFields
  <2> HIDE DEF g
  <2>2. FeedInv(g)
    BY <2>1 DEF FeedInv, FeedFields
  <2> QED BY <2>2 DEF g
<1> QED BY <1>2, <1>3 DEF Answered

\* The inputs change, the timer of the quote ends, and requests are answered in any order.
LEMMA FeedsKept ==
    ASSUME feeds = [name \in Feeds |-> feeds[name]], \A name \in Feeds : FeedInv(feeds[name]),
           (\E name \in Feeds : FeedNext(name)) \/ quoteTimer
    PROVE  /\ feeds' = [name \in Feeds |-> feeds'[name]]
           /\ \A name \in Feeds : FeedInv(feeds'[name])
           /\ UNCHANGED <<accounts, pools>>
PROOF
<1>1. ASSUME NEW name \in Feeds, NEW g, FeedInv(g), feeds' = [feeds EXCEPT ![name] = g]
      PROVE  /\ feeds' = [n \in Feeds |-> feeds'[n]]
             /\ \A n \in Feeds : FeedInv(feeds'[n])
  <2>1. feeds' = [n \in Feeds |-> IF n = name THEN g ELSE feeds[n]]
    BY <1>1
  <2>2. ASSUME NEW n \in Feeds PROVE FeedInv(feeds'[n])
    <3>1. CASE n = name
      BY <1>1, <2>1, <3>1
    <3>2. CASE n # name
      BY <2>1, <3>2
    <3> QED BY <3>1, <3>2
  <2> QED BY <2>1, <2>2
<1>2. ASSUME NEW name \in Feeds, NEW input \in Asked, setInput(name, input)
      PROVE  \E g : FeedInv(g) /\ feeds' = [feeds EXCEPT ![name] = g] /\ UNCHANGED <<accounts, pools>>
  <2> DEFINE f == feeds[name]
             g == CASE name = "price" -> usePoolPrice(f, input)
                    [] name = "quote" -> avnuQuote(f, input)
                    [] name = "preview" -> vesuPreview(f, input)
  <2>1. feeds' = [feeds EXCEPT ![name] = g] /\ UNCHANGED <<accounts, pools>>
    BY <1>2 DEF setInput
  <2>2. /\ FeedInv(usePoolPrice(f, input)) /\ FeedInv(avnuQuote(f, input))
        /\ FeedInv(vesuPreview(f, input))
    BY EffectsKeep
  <2>3. g \in {usePoolPrice(f, input), avnuQuote(f, input), vesuPreview(f, input)}
    BY DEF Feeds
  <2> HIDE DEF f, g
  <2>4. FeedInv(g)
    BY <2>2, <2>3
  <2> QED BY <2>1, <2>4
<1>3. ASSUME NEW name \in Feeds, NEW r \in feeds[name].inFlight, NEW ok \in BOOLEAN,
             feedAnswered(name, r, ok)
      PROVE  \E g : FeedInv(g) /\ feeds' = [feeds EXCEPT ![name] = g] /\ UNCHANGED <<accounts, pools>>
  <2> DEFINE g == Answered(feeds[name], r, ok)
  <2>1. feeds' = [feeds EXCEPT ![name] = g] /\ UNCHANGED <<accounts, pools>>
    BY <1>3 DEF feedAnswered
  <2>3. FeedInv(g)
    BY AnswerKeeps
  <2> HIDE DEF g
  <2> QED BY <2>1, <2>3
<1>4. ASSUME quoteTimer
      PROVE  \E g : FeedInv(g) /\ feeds' = [feeds EXCEPT !["quote"] = g] /\ UNCHANGED <<accounts, pools>>
  <2> DEFINE f == feeds["quote"]
             c == [f EXCEPT !.timer = FALSE, !.loading = TRUE]
             g == Ask(c, f.input)
  <2>1. feeds' = [feeds EXCEPT !["quote"] = g] /\ UNCHANGED <<accounts, pools>>
    BY <1>4 DEF quoteTimer
  <2>2. f \in FeedFields /\ \A r \in f.inFlight : r.id < f.asked
    BY DEF Feeds, FeedInv, FeedFields
  <2>3. c \in FeedFields /\ c.inFlight = f.inFlight /\ c.asked = f.asked /\ c.input = f.input
    BY <2>2 DEF FeedFields
  <2> HIDE DEF c, f
  <2>4. FeedInv(g)
    BY <2>2, <2>3, AskFacts
  <2> HIDE DEF g
  <2> QED BY <2>1, <2>4
<1>5. CASE quoteTimer
  <2>1. "quote" \in Feeds
    BY DEF Feeds
  <2> QED BY <1>1, <1>4, <1>5, <2>1
<1>6. CASE \E name \in Feeds : FeedNext(name)
  <2>1. PICK name \in Feeds : FeedNext(name)
    BY <1>6
  <2>2. PICK g : FeedInv(g) /\ feeds' = [feeds EXCEPT ![name] = g] /\ UNCHANGED <<accounts, pools>>
    BY <1>2, <1>3, <2>1 DEF FeedNext, Asked
  <2> QED BY <1>1, <2>2
<1> QED BY <1>5, <1>6

-----------------------------------------------------------------------------
(***************************************************************************)
(* The pools.                                                              *)
(***************************************************************************)

Selections == [hash : AnyHash, selected : AnyPool, known : BOOLEAN]
ShownSearch == [id : Nat, chunks : Nat, done : BOOLEAN]
Run == [id : Nat, chunks : Nat, started : BOOLEAN]

PoolFields == [hash : AnyHash, active : AnyPool, stored : SUBSET Selections, search : SUBSET ShownSearch,
               live : SUBSET Nat, asked : Nat, runs : SUBSET Run, deploying : SUBSET AnyHash]

\* The selection, and the searches: neither is about the fields of the other.
SelectionInv(p) ==
    /\ \A s, t \in p.stored : s = t
    /\ \A s \in p.stored : s.known /\ s.hash = p.hash => s.selected = p.active

SearchInv(p) ==
    /\ \A r \in p.runs : r.id < p.asked
    /\ \A s \in p.search : s.id < p.asked
    /\ \A l \in p.live : \A r \in p.runs : r.id <= l
    /\ \A l \in p.live : \A s \in p.search : s.id <= l
    /\ \A s, t \in p.search : s = t
    /\ \A r \in p.runs : ~r.started => r.chunks = 0

\* PoolsInv in its parts.
LEMMA PoolsParts == PoolsInv <=> pools \in PoolFields /\ SelectionInv(pools) /\ SearchInv(pools)
BY DEF PoolsInv, PoolFields, SelectionInv, SearchInv, Selections, ShownSearch, Run

\* The selection in use.
LEMMA SelectionKept ==
    ASSUME PoolsInv,
           \/ \E pool \in Pools : selectPool(pool) \/ deployed(pool)
           \/ \E hash \in Hashes : setClassHash(hash) \/ \E pool \in Pools : otherTabSelects(hash, pool)
           \/ deploy \/ deployFails \/ reopen
    PROVE  PoolsInv'
PROOF
<1>1. pools \in PoolFields /\ SelectionInv(pools) /\ SearchInv(pools)
  BY PoolsParts
<1>2. ASSUME NEW pool \in AnyPool, NEW hash \in AnyHash, NEW rest \in SUBSET AnyHash,
             pools' = [pools EXCEPT !.active = pool, !.stored = {[hash |-> hash, selected |-> pool, known |-> TRUE]},
                                    !.deploying = rest]
      PROVE  PoolsInv'
  <2>1. [hash |-> hash, selected |-> pool, known |-> TRUE] \in Selections
    BY DEF Selections
  <2>2. /\ pools' \in PoolFields /\ pools'.active = pool
        /\ pools'.stored = {[hash |-> hash, selected |-> pool, known |-> TRUE]}
        /\ pools'.runs = pools.runs /\ pools'.search = pools.search /\ pools'.live = pools.live
        /\ pools'.asked = pools.asked
    BY <1>1, <1>2, <2>1 DEF PoolFields
  <2>3. SelectionInv(pools')
    BY <2>2 DEF SelectionInv
  <2>4. SearchInv(pools')
    BY <1>1, <2>2 DEF SearchInv
  <2>5. pools' \in PoolFields /\ SelectionInv(pools') /\ SearchInv(pools')
    BY <2>2, <2>3, <2>4
  <2> QED BY <2>5 DEF PoolsInv, PoolFields, SelectionInv, SearchInv, Selections, ShownSearch, Run
<1>3. ASSUME NEW hash \in AnyHash
      PROVE  /\ loadStoredAddress(hash, pools.stored) \in AnyPool
             /\ \A s \in pools.stored : s.hash = hash => s.selected = loadStoredAddress(hash, pools.stored)
             /\ Reread(pools.stored) \in SUBSET Selections
             /\ \A s, t \in Reread(pools.stored) : s = t
             /\ \A s \in Reread(pools.stored) :
                   s.hash = hash => s.selected = loadStoredAddress(hash, pools.stored)
  <2> DEFINE a == loadStoredAddress(hash, pools.stored)
  <2>3. a \in AnyPool /\ \A s \in pools.stored : s.hash = hash => s.selected = a
    <3>1. CASE \E s \in pools.stored : s.hash = hash
      <4>1. PICK s \in pools.stored : s.hash = hash
        BY <3>1
      <4>2. (CHOOSE t \in pools.stored : TRUE) = s
        BY <1>1, <4>1 DEF SelectionInv
      <4>3. loadStoredAddress(hash, pools.stored) = s.selected
        BY <3>1, <4>2 DEF loadStoredAddress
      <4>4. s \in Selections
        BY <1>1 DEF PoolFields
      <4>5. \A t \in pools.stored : t = s
        BY <1>1 DEF SelectionInv
      <4> QED BY <4>3, <4>4, <4>5 DEF Selections
    <3>2. CASE ~\E s \in pools.stored : s.hash = hash
      BY <3>2 DEF loadStoredAddress, AnyPool
    <3> QED BY <3>1, <3>2
  <2>4. \A s \in Reread(pools.stored) :
            \E t \in pools.stored : s \in Selections /\ s = [t EXCEPT !.known = TRUE]
                                    /\ s.hash = t.hash /\ s.selected = t.selected
    BY <1>1 DEF Reread, PoolFields, Selections
  <2>5. \A s, t \in Reread(pools.stored) : s = t
    BY <1>1, <2>4 DEF SelectionInv
  <2>6. \A s \in Reread(pools.stored) : s.hash = hash => s.selected = a
    <3> HIDE DEF a
    <3> QED BY <2>3, <2>4
  <2> QED BY <2>3, <2>4, <2>5, <2>6
<1>4. ASSUME NEW pool \in Pools, selectPool(pool) PROVE PoolsInv'
  <2>1. pools' = [pools EXCEPT !.active = pool, !.stored = {[hash |-> pools.hash, selected |-> pool, known |-> TRUE]}]
    BY <1>4 DEF selectPool, saveSelection
  <2>2. pools' = [pools EXCEPT !.active = pool, !.stored = {[hash |-> pools.hash, selected |-> pool, known |-> TRUE]},
                               !.deploying = pools.deploying]
    BY <1>1, <2>1 DEF PoolFields
  <2>3. pools.hash \in AnyHash /\ pools.deploying \in SUBSET AnyHash /\ pool \in AnyPool
    BY <1>1 DEF PoolFields, AnyPool
  <2> QED BY <1>2, <2>2, <2>3
<1>5. ASSUME NEW pool \in Pools, deployed(pool) PROVE PoolsInv'
  <2>1. PICK hash \in pools.deploying : pools' = [addPool(pools, hash, pool) EXCEPT !.deploying = {}]
    BY <1>5 DEF deployed
  <2>2. pools' = [pools EXCEPT !.active = pool, !.stored = {[hash |-> hash, selected |-> pool, known |-> TRUE]},
                               !.deploying = {}]
    BY <2>1 DEF addPool, saveSelection
  <2>3. hash \in AnyHash /\ pool \in AnyPool
    BY <1>1 DEF PoolFields, AnyPool
  <2> QED BY <1>2, <2>2, <2>3
<1>9. ASSUME NEW hash \in Hashes, NEW pool \in Pools, otherTabSelects(hash, pool) PROVE PoolsInv'
  <2> DEFINE new == [hash |-> hash, selected |-> pool, known |-> FALSE]
  <2>1. pools' = [pools EXCEPT !.stored = {new}]
    BY <1>9 DEF otherTabSelects
  <2>2. new \in Selections /\ ~new.known
    BY DEF Selections, AnyHash, AnyPool
  <2> HIDE DEF new
  <2>3. /\ pools' \in PoolFields /\ pools'.stored = {new}
        /\ pools'.runs = pools.runs /\ pools'.search = pools.search /\ pools'.live = pools.live
        /\ pools'.asked = pools.asked
    BY <1>1, <2>1, <2>2 DEF PoolFields
  <2>4. SelectionInv(pools')
    BY <2>2, <2>3 DEF SelectionInv
  <2>5. SearchInv(pools')
    BY <1>1, <2>3 DEF SearchInv
  <2> QED BY <2>3, <2>4, <2>5 DEF PoolsInv, PoolFields, SelectionInv, SearchInv, Selections, ShownSearch, Run
<1>6. ASSUME NEW hash \in Hashes, setClassHash(hash) PROVE PoolsInv'
  <2> DEFINE a == loadStoredAddress(hash, pools.stored)
             new == Reread(pools.stored)
  <2>1. pools' = [pools EXCEPT !.hash = hash, !.active = a, !.stored = new, !.live = {}]
    BY <1>6 DEF setClassHash, stopSearch
  <2>2. /\ hash \in AnyHash /\ a \in AnyPool
        /\ new \in SUBSET Selections /\ \A s, t \in new : s = t
        /\ \A s \in new : s.hash = hash => s.selected = a
    BY <1>3 DEF AnyHash
  <2> HIDE DEF a, new
  <2>3. /\ pools' \in PoolFields /\ pools'.active = a /\ pools'.hash = hash /\ pools'.stored = new
        /\ pools'.runs = pools.runs /\ pools'.search = pools.search /\ pools'.live = {}
        /\ pools'.asked = pools.asked
    BY <1>1, <2>1, <2>2 DEF PoolFields
  <2>4. SelectionInv(pools')
    BY <1>1, <2>2, <2>3 DEF SelectionInv
  <2>5. SearchInv(pools')
    BY <1>1, <2>3 DEF SearchInv
  <2> QED BY <2>3, <2>4, <2>5 DEF PoolsInv, PoolFields, SelectionInv, SearchInv, Selections, ShownSearch, Run
<1>7. ASSUME reopen PROVE PoolsInv'
  <2> DEFINE a == loadStoredAddress(DefaultHash, pools.stored)
             new == Reread(pools.stored)
  <2>1. pools' = [pools EXCEPT !.hash = DefaultHash, !.active = a, !.stored = new, !.search = {}, !.live = {},
                               !.runs = {}, !.deploying = {}]
    BY <1>7 DEF reopen
  <2>2. /\ DefaultHash \in AnyHash /\ a \in AnyPool
        /\ new \in SUBSET Selections /\ \A s, t \in new : s = t
        /\ \A s \in new : s.hash = DefaultHash => s.selected = a
    BY <1>3 DEF AnyHash
  <2> HIDE DEF a, new
  <2>3. /\ pools' \in PoolFields /\ pools'.active = a /\ pools'.hash = DefaultHash
        /\ pools'.stored = new
        /\ pools'.runs = {} /\ pools'.search = {} /\ pools'.live = {}
    BY <1>1, <2>1, <2>2 DEF PoolFields
  <2>4. SelectionInv(pools')
    BY <1>1, <2>2, <2>3 DEF SelectionInv
  <2>5. SearchInv(pools')
    BY <2>3 DEF SearchInv
  <2> QED BY <2>3, <2>4, <2>5 DEF PoolsInv, PoolFields, SelectionInv, SearchInv, Selections, ShownSearch, Run
<1>8. ASSUME deploy \/ deployFails PROVE PoolsInv'
  <2>1. PICK d \in SUBSET AnyHash, n \in {0, 1} :
            pools' = [pools EXCEPT !.deploying = d, !.asked = @ + n]
    <3>1. CASE deploy
      <4>1. pools' = [pools EXCEPT !.deploying = {pools.hash}, !.asked = @ + 1]
        BY <3>1 DEF deploy
      <4>2. {pools.hash} \in SUBSET AnyHash
        BY <1>1 DEF PoolFields
      <4> QED BY <4>1, <4>2
    <3>2. CASE deployFails
      <4>1. pools' = [pools EXCEPT !.deploying = {}]
        BY <3>2 DEF deployFails
      <4>2. pools.asked + 0 = pools.asked
        BY <1>1 DEF PoolFields
      <4>3. pools' = [pools EXCEPT !.deploying = {}, !.asked = @ + 0]
        BY <1>1, <4>1, <4>2 DEF PoolFields
      <4> QED BY <4>3
    <3> QED BY <1>8, <3>1, <3>2
  <2> DEFINE k == pools.asked + n
  <2>5. pools.asked \in Nat /\ k \in Nat /\ k >= pools.asked /\ d \in SUBSET AnyHash
    BY <1>1, <2>1 DEF PoolFields
  <2>6. pools' = [pools EXCEPT !.deploying = d, !.asked = k]
    BY <2>1
  <2> HIDE DEF k
  <2>2. /\ pools' \in PoolFields /\ pools'.active = pools.active /\ pools'.hash = pools.hash
        /\ pools'.stored = pools.stored
        /\ pools'.runs = pools.runs /\ pools'.search = pools.search /\ pools'.live = pools.live
        /\ pools'.asked >= pools.asked /\ pools'.asked \in Nat /\ pools.asked \in Nat
    BY <1>1, <2>5, <2>6 DEF PoolFields
  <2>3. SelectionInv(pools')
    BY <1>1, <2>2 DEF SelectionInv
  <2>4. SearchInv(pools')
    <3>1. /\ \A r \in pools.runs : r.id \in Nat /\ r.id < pools.asked
          /\ \A s \in pools.search : s.id \in Nat /\ s.id < pools.asked
      BY <1>1 DEF PoolFields, SearchInv, Run, ShownSearch
    <3>2. /\ \A r \in pools.runs : r.id < pools'.asked
          /\ \A s \in pools.search : s.id < pools'.asked
      BY <2>2, <3>1
    <3> QED BY <1>1, <2>2, <3>2 DEF SearchInv
  <2> QED BY <2>2, <2>3, <2>4 DEF PoolsInv, PoolFields, SelectionInv, SearchInv, Selections, ShownSearch, Run
<1> QED BY <1>4, <1>5, <1>6, <1>7, <1>8, <1>9

\* What a step may show: nothing of a search older than the one on display.
NotOlder ==
    \A new \in pools'.search \ pools.search, old \in pools.search : new.chunks > 0 => new.id >= old.id

\* The searches.
LEMMA SearchKept ==
    ASSUME PoolsInv,
           \/ searchPools \/ stop \/ closeSearch
           \/ \E run \in pools.runs :
                 heightAnswered(run) \/ searchFails(run) \/ \E more \in BOOLEAN : eventsAnswered(run, more)
    PROVE  PoolsInv' /\ NotOlder
PROOF
<1>1. pools \in PoolFields /\ SelectionInv(pools) /\ SearchInv(pools)
  BY PoolsParts
<1>2. ASSUME NEW p \in PoolFields, pools' = p, SearchInv(p),
             p.hash = pools.hash, p.active = pools.active, p.stored = pools.stored
      PROVE  PoolsInv'
  <2>1. SelectionInv(p)
    BY <1>1, <1>2 DEF SelectionInv
  <2>2. pools' \in PoolFields /\ SelectionInv(pools') /\ SearchInv(pools')
    BY <1>2, <2>1
  <2> QED BY <2>2 DEF PoolsInv, PoolFields, SelectionInv, SearchInv, Selections, ShownSearch, Run
<1>3. /\ pools.asked \in Nat
      /\ \A r \in pools.runs : r \in Run /\ r.id \in Nat /\ r.chunks \in Nat /\ r.id < pools.asked
      /\ \A s \in pools.search : s \in ShownSearch /\ s.id \in Nat /\ s.chunks \in Nat /\ s.id < pools.asked
      /\ \A l \in pools.live : l \in Nat
  BY <1>1 DEF PoolFields, SearchInv, Run, ShownSearch
<1>4. ASSUME searchPools PROVE PoolsInv' /\ NotOlder
  <2> DEFINE new == [id |-> pools.asked, chunks |-> 0, started |-> FALSE]
             k == pools.asked + 1
             p == [pools EXCEPT !.live = {pools.asked}, !.asked = k, !.runs = @ \cup {new}]
  <2>1. pools' = p
    BY <1>1, <1>4 DEF searchPools, stopSearch, PoolFields
  <2>2. new \in Run /\ new.id = pools.asked /\ new.chunks = 0
    BY <1>3 DEF Run
  <2>3. /\ p \in PoolFields /\ p.hash = pools.hash /\ p.active = pools.active /\ p.stored = pools.stored
        /\ p.live = {pools.asked} /\ p.asked = pools.asked + 1 /\ p.runs = pools.runs \cup {new}
        /\ p.search = pools.search
    <3>1. k \in Nat
      BY <1>3
    <3>2. p.asked = k
      BY <1>1 DEF PoolFields
    <3> HIDE DEF k, new
    <3>3. /\ p \in PoolFields /\ p.hash = pools.hash /\ p.active = pools.active /\ p.stored = pools.stored
          /\ p.live = {pools.asked} /\ p.runs = pools.runs \cup {new} /\ p.search = pools.search
      BY <1>1, <1>3, <2>2, <3>1 DEF PoolFields
    <3> QED BY <3>2, <3>3 DEF k
  <2> HIDE DEF p, new
  <2>4. /\ \A r \in p.runs : r.id < p.asked /\ r.id <= pools.asked /\ (~r.started => r.chunks = 0)
        /\ \A s \in p.search : s.id < p.asked /\ s.id <= pools.asked
    <3>1. ASSUME NEW r \in p.runs
          PROVE  r.id < p.asked /\ r.id <= pools.asked /\ (~r.started => r.chunks = 0)
      <4>1. CASE r = new
        BY <1>3, <2>2, <2>3, <4>1
      <4>2. CASE r \in pools.runs
        BY <1>1, <1>3, <2>3, <4>2 DEF SearchInv
      <4> QED BY <2>3, <4>1, <4>2
    <3>2. ASSUME NEW s \in p.search PROVE s.id < p.asked /\ s.id <= pools.asked
      BY <1>3, <2>3
    <3> QED BY <3>1, <3>2
  <2>5. SearchInv(p)
    BY <1>1, <2>3, <2>4 DEF SearchInv
  <2> QED BY <1>2, <2>1, <2>3, <2>5 DEF NotOlder
<1>5. ASSUME stop \/ closeSearch PROVE PoolsInv' /\ NotOlder
  <2>1. PICK q \in {pools.search, {}} : pools' = [pools EXCEPT !.live = {}, !.search = q]
    <3>1. CASE stop
      <4>1. pools' = [pools EXCEPT !.live = {}]
        BY <3>1 DEF stop, stopSearch
      <4>2. pools' = [pools EXCEPT !.live = {}, !.search = pools.search]
        BY <1>1, <4>1 DEF PoolFields
      <4> QED BY <4>2
    <3>2. CASE closeSearch
      <4>1. pools' = [pools EXCEPT !.live = {}, !.search = {}]
        BY <3>2 DEF closeSearch, stopSearch
      <4> QED BY <4>1
    <3> QED BY <1>5, <3>1, <3>2
  <2> DEFINE p == [pools EXCEPT !.live = {}, !.search = q]
  <2>2. /\ p \in PoolFields /\ p.hash = pools.hash /\ p.active = pools.active /\ p.stored = pools.stored
        /\ p.live = {} /\ p.asked = pools.asked /\ p.runs = pools.runs /\ p.search \subseteq pools.search
    BY <1>1, <2>1 DEF PoolFields
  <2>3. pools' = p
    BY <2>1
  <2> HIDE DEF p
  <2>4. SearchInv(p)
    BY <1>1, <2>2 DEF SearchInv
  <2> QED BY <1>2, <2>2, <2>3, <2>4 DEF NotOlder
<1>6. ASSUME NEW run \in pools.runs, heightAnswered(run) PROVE PoolsInv' /\ NotOlder
  <2> DEFINE shown == [id |-> run.id, chunks |-> run.chunks, done |-> FALSE]
             begun == [run EXCEPT !.started = TRUE]
             more == IF run.id \in pools.live THEN {begun} ELSE {}
             p == [pools EXCEPT !.search = {shown}, !.runs = (@ \ {run}) \cup more]
  <2>1. pools' = p /\ ~run.started
    BY <1>6 DEF heightAnswered, Shown
  <2>2. run.chunks = 0 /\ run \in Run
    BY <1>1, <1>3, <2>1 DEF SearchInv
  <2>3. /\ shown \in ShownSearch /\ shown.id = run.id /\ shown.chunks = 0
        /\ begun \in Run /\ begun.id = run.id /\ begun.started = TRUE
    BY <2>2 DEF ShownSearch, Run
  <2>4. /\ p \in PoolFields /\ p.hash = pools.hash /\ p.active = pools.active /\ p.stored = pools.stored
        /\ p.live = pools.live /\ p.asked = pools.asked /\ p.runs \subseteq pools.runs \cup {begun}
        /\ p.search = {shown}
    BY <1>1, <2>3 DEF PoolFields
  <2> HIDE DEF p, begun, shown, more
  <2>5. SearchInv(p)
    BY <1>1, <2>3, <2>4 DEF SearchInv
  <2>6. NotOlder
    BY <2>1, <2>3, <2>4 DEF NotOlder
  <2> QED BY <1>2, <2>1, <2>4, <2>5, <2>6
<1>7. ASSUME NEW run \in pools.runs, searchFails(run) PROVE PoolsInv' /\ NotOlder
  <2> DEFINE ended == {[s EXCEPT !.done = TRUE] : s \in pools.search}
             q == IF run.started /\ run.id \in pools.live THEN ended ELSE pools.search
             p == [pools EXCEPT !.runs = @ \ {run}, !.search = q]
  <2>1. pools' = p
    BY <1>7 DEF searchFails
  <2>2. ASSUME NEW e \in q PROVE \E s \in pools.search : e \in ShownSearch /\ e.id = s.id
    <3>1. CASE e \in pools.search
      BY <1>3, <3>1
    <3>2. CASE e \in ended
      <4>1. PICK s \in pools.search : e = [s EXCEPT !.done = TRUE]
        BY <3>2
      <4>2. s \in ShownSearch
        BY <1>3
      <4>3. e \in ShownSearch /\ e.id = s.id
        BY <4>1, <4>2 DEF ShownSearch
      <4> QED BY <4>3
    <3> QED BY <3>1, <3>2
  <2>3. \A e, f \in q : e = f
    <3>1. \A s, t \in pools.search : s = t
      BY <1>1 DEF SearchInv
    <3> QED BY <3>1
  <2>4. q \in SUBSET ShownSearch
    BY <2>2
  <2> HIDE DEF q, ended
  <2>5. /\ p \in PoolFields /\ p.hash = pools.hash /\ p.active = pools.active /\ p.stored = pools.stored
        /\ p.live = pools.live /\ p.asked = pools.asked /\ p.runs \subseteq pools.runs /\ p.search = q
    BY <1>1, <2>4 DEF PoolFields
  <2> HIDE DEF p
  <2>6. SearchInv(p)
    BY <1>1, <2>2, <2>3, <2>5 DEF SearchInv
  <2>7. NotOlder
    <3> SUFFICES ASSUME NEW new \in pools'.search, NEW old \in pools.search PROVE new.id >= old.id
      BY DEF NotOlder
    <3>1. PICK s \in pools.search : new.id = s.id
      BY <2>1, <2>2, <2>5
    <3>2. s = old
      BY <1>1 DEF SearchInv
    <3> QED BY <1>3, <3>1, <3>2
  <2> QED BY <1>2, <2>1, <2>5, <2>6, <2>7, SMTT(30)
<1>8. ASSUME NEW run \in pools.runs, NEW more \in BOOLEAN, eventsAnswered(run, more)
      PROVE  PoolsInv' /\ NotOlder
  <2> DEFINE next == [run EXCEPT !.chunks = @ + 1]
             goes == more /\ run.id \in pools.live
             rest == IF goes THEN {next} ELSE {}
             shown == [id |-> next.id, chunks |-> next.chunks, done |-> ~more]
             q == IF run.id \in pools.live THEN {shown} ELSE pools.search
             p == [pools EXCEPT !.search = q, !.runs = (@ \ {run}) \cup rest]
  <2>1. run \in Run /\ run.started
    BY <1>3, <1>8 DEF eventsAnswered
  <2>2. /\ next \in Run /\ next.id = run.id /\ next.started = run.started
        /\ shown \in ShownSearch /\ shown.id = run.id
    <3> DEFINE c == run.chunks + 1
    <3>2. c \in Nat /\ next = [run EXCEPT !.chunks = c]
      BY <2>1 DEF Run
    <3> HIDE DEF c
    <3>1. /\ next \in Run /\ next.id = run.id /\ next.started = run.started
      BY <2>1, <3>2 DEF Run
    <3> HIDE DEF next
    <3> QED BY <3>1 DEF Run, ShownSearch
  <2>3. pools' = p
    <3>1. pools' = [showChunk(pools, next, ~more) EXCEPT !.runs = (@ \ {run}) \cup rest]
      BY <1>8 DEF eventsAnswered
    <3> HIDE DEF next, rest
    <3>2. CASE run.id \in pools.live
      <4>1. showChunk(pools, next, ~more) = [pools EXCEPT !.search = {shown}]
        BY <2>2, <3>2 DEF showChunk, Shown
      <4> HIDE DEF shown
      <4> QED BY <1>1, <3>1, <3>2, <4>1 DEF PoolFields
    <3>3. CASE run.id \notin pools.live
      <4>1. showChunk(pools, next, ~more) = pools
        BY <2>2, <3>3 DEF showChunk
      <4> HIDE DEF shown
      <4> QED BY <1>1, <3>1, <3>3, <4>1 DEF PoolFields
    <3> QED BY <3>2, <3>3
  <2>4. rest \subseteq {next} /\ q \in {{shown}, pools.search}
    OBVIOUS
  <2>5. q # pools.search => run.id \in pools.live /\ q = {shown}
    OBVIOUS
  <2> HIDE DEF next, goes, rest, shown, q
  <2>6. /\ p \in PoolFields /\ p.hash = pools.hash /\ p.active = pools.active /\ p.stored = pools.stored
        /\ p.live = pools.live /\ p.asked = pools.asked /\ p.runs \subseteq pools.runs \cup {next}
        /\ p.search = q
    BY <1>1, <2>2, <2>4 DEF PoolFields
  <2> HIDE DEF p
  <2>7. /\ \A s \in q : s.id < pools.asked /\ \A l \in pools.live : s.id <= l
        /\ \A s, t \in q : s = t
    BY <1>1, <2>2, <2>4 DEF SearchInv
  <2>8. \A r \in p.runs : /\ r.id < pools.asked /\ \A l \in pools.live : r.id <= l
                          /\ ~r.started => r.chunks = 0
    BY <1>1, <2>1, <2>2, <2>6 DEF SearchInv
  <2>9. SearchInv(p)
    BY <2>6, <2>7, <2>8 DEF SearchInv
  <2>10. NotOlder
    <3> SUFFICES ASSUME NEW new \in pools'.search \ pools.search, NEW old \in pools.search
                 PROVE  new.id >= old.id
      BY DEF NotOlder
    <3>1. run.id \in pools.live /\ new = shown
      BY <2>3, <2>5, <2>6
    <3>2. old.id <= run.id
      BY <1>1, <3>1 DEF SearchInv
    <3> QED BY <1>3, <2>2, <3>1, <3>2
  <2> QED BY <1>2, <2>3, <2>6, <2>9, <2>10
<1> QED BY <1>4, <1>5, <1>6, <1>7, <1>8

\* A step of the pool selector.
LEMMA PoolsKept ==
    ASSUME PoolsInv, PoolsNext
    PROVE  PoolsInv' /\ NotOlder /\ UNCHANGED <<accounts, feeds>>
PROOF
<1>1. CASE \/ \E pool \in Pools : selectPool(pool) \/ deployed(pool)
           \/ \E hash \in Hashes : setClassHash(hash) \/ \E pool \in Pools : otherTabSelects(hash, pool)
           \/ deploy \/ deployFails \/ reopen
  <2>1. PoolsInv'
    BY <1>1, SelectionKept
  <2>2. UNCHANGED <<accounts, feeds>>
    BY <1>1 DEF selectPool, deployed, setClassHash, otherTabSelects, deploy, deployFails, reopen
  <2>3. pools \in PoolFields
    BY PoolsParts
  <2>4. pools'.search \subseteq pools.search
    BY <1>1, <2>3, ZenonT(40) DEF PoolFields, selectPool, deployed, addPool, setClassHash, otherTabSelects, stopSearch,
                      deploy, deployFails, reopen
  <2> QED BY <2>1, <2>2, <2>4 DEF NotOlder
<1>2. CASE \/ searchPools \/ stop \/ closeSearch
           \/ \E run \in pools.runs :
                 heightAnswered(run) \/ searchFails(run) \/ \E more \in BOOLEAN : eventsAnswered(run, more)
  <2>1. UNCHANGED <<accounts, feeds>>
    BY <1>2 DEF searchPools, stop, closeSearch, heightAnswered, searchFails, eventsAnswered
  <2> QED BY <1>2, <2>1, SearchKept
<1> QED BY <1>1, <1>2 DEF PoolsNext

-----------------------------------------------------------------------------
(***************************************************************************)
(* The panels together.                                                    *)
(***************************************************************************)

\* The panels as they are opened.
LEMMA PanelsBegin ==
    ASSUME PanelsInit
    PROVE  PanelsInv
PROOF
<1>1. PICK persist \in BOOLEAN :
          accounts = [persist |-> persist, list |-> <<>>, active |-> 0, stored |-> {}, index |-> {}]
  BY DEF PanelsInit
<1>2. AccountsInv
  BY <1>1 DEF AccountsInv
<1> DEFINE f == [input |-> NoInput, asked |-> 0, inFlight |-> {}, live |-> {}, timer |-> FALSE,
                 loading |-> FALSE, shown |-> {}]
<1>3. feeds = [name \in Feeds |-> f]
  BY DEF PanelsInit
<1>4. FeedInv(f)
  BY DEF FeedInv, Asked
<1> HIDE DEF f
<1>5. feeds = [name \in Feeds |-> feeds[name]] /\ \A name \in Feeds : FeedInv(feeds[name])
  BY <1>3, <1>4
<1>6. PoolsInv
  <2>1. pools = [hash |-> DefaultHash, active |-> DefaultPool, stored |-> {}, search |-> {}, live |-> {},
                 asked |-> 0, runs |-> {}, deploying |-> {}]
    BY DEF PanelsInit
  <2> QED BY <2>1 DEF PoolsInv, AnyHash, AnyPool
<1> QED BY <1>2, <1>5, <1>6 DEF PanelsInv

\* A step of the panels.
LEMMA PanelsKept ==
    ASSUME PanelsInv, [PanelsNext]_panelVars
    PROVE  PanelsInv' /\ (pools' # pools => NotOlder)
PROOF
<1>1. CASE UNCHANGED panelVars
  BY <1>1 DEF panelVars, PanelsInv, AccountsInv, PoolsInv
<1>2. CASE AccountsNext
  <2>1. AccountsInv' /\ UNCHANGED <<feeds, pools>>
    BY <1>2, AccountsKept DEF PanelsInv
  <2> QED BY <2>1 DEF PanelsInv, PoolsInv
<1>3. CASE (\E name \in Feeds : FeedNext(name)) \/ quoteTimer
  <2>1. /\ feeds' = [name \in Feeds |-> feeds'[name]]
        /\ \A name \in Feeds : FeedInv(feeds'[name])
        /\ UNCHANGED <<accounts, pools>>
    BY <1>3, FeedsKept DEF PanelsInv
  <2> QED BY <2>1 DEF PanelsInv, AccountsInv, PoolsInv
<1>4. CASE PoolsNext
  <2>1. PoolsInv' /\ NotOlder /\ UNCHANGED <<accounts, feeds>>
    BY <1>4, PoolsKept DEF PanelsInv
  <2> QED BY <2>1 DEF PanelsInv, AccountsInv
<1> QED BY <1>1, <1>2, <1>3, <1>4 DEF PanelsNext

\* PanelsInv is inductive.
THEOREM PanelsHold == PanelsSpec => []PanelsInv
PROOF
<1>1. PanelsInit => PanelsInv
  BY PanelsBegin
<1>2. PanelsInv /\ [PanelsNext]_panelVars => PanelsInv'
  BY PanelsKept
<1> QED BY <1>1, <1>2, PTL DEF PanelsSpec

\* useAccounts, usePoolSelector: what was stored as chosen can be used again, also
\* after another tab has replaced the accounts or moved the index, or a deployment that
\* was started for another class hash has stored its pool, for every number of accounts,
\* class hashes and pools.  A selection that another tab stored counts once it is read.
THEOREM ChoicesAreRestored == PanelsSpec => []ChoiceRestored
PROOF
<1>1. PanelsInv => ChoiceRestored
  BY DEF PanelsInv, AccountsInv, PoolsInv, ChoiceRestored
<1> QED BY <1>1, PanelsHold, PTL

\* usePoolPrice, DefiPanel: what is shown belongs to the input on screen unless its
\* answer is awaited, for every number of requests under way, answered in any order.
THEOREM ShownIsAsked == PanelsSpec => []ShownFits
PROOF
<1>1. PanelsInv => ShownFits
  BY DEF PanelsInv, FeedInv, ShownFits
<1> QED BY <1>1, PanelsHold, PTL

\* usePoolSelector: an aborted search never puts its pools over those of a later one,
\* for every number of searches and chunks.
THEOREM SearchesAreOrdered == PanelsSpec => OlderNeverReplaces
PROOF
<1>1. PanelsInv /\ [PanelsNext]_panelVars =>
        [\A new \in pools'.search \ pools.search, old \in pools.search :
             new.chunks > 0 => new.id >= old.id]_pools
  BY PanelsKept DEF NotOlder
<1> QED BY <1>1, PanelsHold, PTL DEF PanelsSpec, OlderNeverReplaces

-----------------------------------------------------------------------------
(***************************************************************************)
(* The operations: the inductive invariant of the fee.                     *)
(***************************************************************************)
AppFields == {"account", "paymasterEnabled", "feeToken", "feeAmount", "balances", "cursor", "txs", "from",
              "autoFetched", "loading", "complete", "lastTx", "recorded"}
OpFields == {"step", "rest", "account", "kind", "deposits", "pm", "fee", "floor", "proving", "block", "known",
             "alone"}
Steps == {"fee", "quote", "calls", "preview", "sign", "mint", "balances", "refuse", "approve token"}
Await == [do : Steps \cup {"approve"}, amount : Nat]

\* The fee is paid in a token of the displayed balances.
FeeTokenInv(a) == a.balances # {} => a.feeToken # {} /\ a.feeToken \subseteq a.balances

AppInv == DOMAIN app = AppFields /\ app.account \in Accounts /\ FeeTokenInv(app)

ChainInv == DOMAIN chain = {"height", "txs", "allowance", "private"} /\ chain.allowance \in [Accounts -> Nat]

OpInv(op) ==
    /\ DOMAIN op = OpFields
    /\ op.rest \in Seq(Await)
    /\ op.account \in Accounts
    /\ op.step \in {"await", "wait", "prove", "submit", "receipt"}
    /\ op.step = "await" => op.rest # <<>>
    /\ op.step # "await" => op.rest = <<>>

\* No approve is left, or the last one left sets the allowance to n.
NoApprove(rest) == \A i \in DOMAIN rest : rest[i].do # "approve"
LastApprove(rest, n) ==
    \E i \in DOMAIN rest : rest[i] = Approve(n) /\ \A j \in DOMAIN rest : j > i => rest[j].do # "approve"

\* What an operation pulls is, or will be, approved by the time it reaches the pool,
\* unless it never gets there.
Covered(op, allowance) ==
    \/ op.step = "receipt"
    \/ op.kind = "mint" /\ op.step = "await"
    \/ op.step = "await" /\ op.rest # <<>> /\ op.rest[1].do = "refuse"
    \/ NoApprove(op.rest) /\ Pulled(op) <= allowance
    \/ \E n \in Nat : LastApprove(op.rest, n) /\ Pulled(op) <= n

\* An operation of useTransactions that runs alone shares its allowance with nobody.
Sole(op, other, allowance) ==
    op # Idle /\ op.alone =>
        /\ other # Idle => other.account # op.account
        /\ op.fee = PoolFee => Covered(op, allowance[op.account])

FeeInv ==
    /\ AppInv
    /\ ChainInv
    /\ DOMAIN ops = Hooks
    /\ \A h \in Hooks : ops[h] # Idle => OpInv(ops[h])
    /\ Sole(ops["actions"], ops["builder"], chain.allowance)

-----------------------------------------------------------------------------
(***************************************************************************)
(* The awaits of an operation.                                             *)
(***************************************************************************)

\* What is approved by one list of awaits after another.
LEMMA ConcatFacts ==
    ASSUME NEW s \in Seq(Await), NEW t \in Seq(Await)
    PROVE  /\ s \o t \in Seq(Await)
           /\ NoApprove(s) /\ NoApprove(t) => NoApprove(s \o t)
           /\ \A n : LastApprove(t, n) => LastApprove(s \o t, n)
           /\ \A n : LastApprove(s, n) /\ NoApprove(t) => LastApprove(s \o t, n)
PROOF
<1>1. /\ s \o t \in Seq(Await) /\ Len(s) \in Nat /\ Len(t) \in Nat
      /\ DOMAIN s = 1 .. Len(s) /\ DOMAIN t = 1 .. Len(t) /\ DOMAIN (s \o t) = 1 .. Len(s) + Len(t)
      /\ \A i \in DOMAIN s : (s \o t)[i] = s[i]
      /\ \A i \in DOMAIN t : (s \o t)[i + Len(s)] = t[i]
  OBVIOUS
<1> DEFINE u == s \o t
<1>2. \A i \in DOMAIN u : i \in DOMAIN s \/ \E j \in DOMAIN t : i = j + Len(s)
  <2> SUFFICES ASSUME NEW i \in DOMAIN u, i \notin DOMAIN s PROVE \E j \in DOMAIN t : i = j + Len(s)
    OBVIOUS
  <2>1. i - Len(s) \in DOMAIN t /\ i = (i - Len(s)) + Len(s)
    BY <1>1
  <2> QED BY <2>1
<1>3. \A i \in DOMAIN s : i \in DOMAIN u /\ u[i] = s[i]
  BY <1>1
<1>4. \A i \in DOMAIN t : i + Len(s) \in DOMAIN u /\ u[i + Len(s)] = t[i]
  BY <1>1
<1> HIDE DEF u
<1>5. NoApprove(s) /\ NoApprove(t) => NoApprove(u)
  BY <1>2, <1>3, <1>4 DEF NoApprove
<1>6. ASSUME NEW n, LastApprove(t, n) PROVE LastApprove(u, n)
  <2>1. PICK i \in DOMAIN t : t[i] = Approve(n) /\ \A j \in DOMAIN t : j > i => t[j].do # "approve"
    BY <1>6 DEF LastApprove
  <2>2. ASSUME NEW j \in DOMAIN u, j > i + Len(s) PROVE u[j].do # "approve"
    <3>1. j \notin DOMAIN s
      BY <1>1, <2>1, <2>2
    <3>2. PICK k \in DOMAIN t : j = k + Len(s)
      BY <1>2, <3>1
    <3>3. k > i
      BY <1>1, <2>1, <2>2, <3>2
    <3> QED BY <1>4, <2>1, <3>2, <3>3
  <2> QED BY <1>4, <2>1, <2>2 DEF LastApprove
<1>7. ASSUME NEW n, LastApprove(s, n), NoApprove(t) PROVE LastApprove(u, n)
  <2>1. PICK i \in DOMAIN s : s[i] = Approve(n) /\ \A j \in DOMAIN s : j > i => s[j].do # "approve"
    BY <1>7 DEF LastApprove
  <2>2. ASSUME NEW j \in DOMAIN u, j > i PROVE u[j].do # "approve"
    <3>1. CASE j \in DOMAIN s
      BY <1>3, <2>1, <2>2, <3>1
    <3>2. CASE \E k \in DOMAIN t : j = k + Len(s)
      BY <1>4, <1>7, <3>2 DEF NoApprove
    <3> QED BY <1>2, <3>1, <3>2
  <2> QED BY <1>3, <2>1, <2>2 DEF LastApprove
<1> QED BY <1>1, <1>5, <1>6, <1>7 DEF u

\* One await.
LEMMA OneAwait ==
    ASSUME NEW a \in Await
    PROVE  /\ <<a>> \in Seq(Await)
           /\ a.do # "approve" => NoApprove(<<a>>)
           /\ \A n : a = Approve(n) => LastApprove(<<a>>, n)
PROOF
<1>1. <<a>> \in Seq(Await) /\ DOMAIN <<a>> = {1} /\ <<a>>[1] = a
  OBVIOUS
<1>2. a.do # "approve" => NoApprove(<<a>>)
  BY <1>1 DEF NoApprove
<1>3. ASSUME NEW n, a = Approve(n) PROVE LastApprove(<<a>>, n)
  BY <1>1, <1>3 DEF LastApprove
<1> QED BY <1>1, <1>2, <1>3

\* No await at all.
LEMMA NoAwait == <<>> \in Seq(Await) /\ NoApprove(<<>>)
BY DEF NoApprove

\* An await that is named, and an approve.
LEMMA AwaitFacts ==
    /\ \A name \in Steps : Do(name) \in Await /\ Do(name).do # "approve"
    /\ \A n \in Nat : Approve(n) \in Await
PROOF
<1>1. ASSUME NEW name \in Steps PROVE Do(name) \in Await /\ Do(name).do # "approve"
  <2>1. name # "approve"
    BY DEF Steps
  <2> QED BY <2>1 DEF Do, Await
<1>2. ASSUME NEW n \in Nat PROVE Approve(n) \in Await
  BY DEF Approve, Await
<1> QED BY <1>1, <1>2

Config == [pm : BOOLEAN, fee : Nat]

\* The parts the operations are made of.
LEMMA PartsFacts ==
    ASSUME NEW c \in Config
    PROVE  /\ fetchPaymasterFee(c) \in Seq(Await) /\ NoApprove(fetchPaymasterFee(c))
           /\ \A b \in BOOLEAN :
                /\ ensureFeeApproval(c, b) \in Seq(Await)
                /\ c.pm \/ b \/ c.fee = 0 => NoApprove(ensureFeeApproval(c, b))
                /\ ~c.pm /\ ~b /\ c.fee # 0 => LastApprove(ensureFeeApproval(c, b), c.fee)
           /\ \A token : \A n \in Nat :
                /\ <<approveFor(token, n)>> \in Seq(Await)
                /\ token = STRK => LastApprove(<<approveFor(token, n)>>, n)
                /\ token # STRK => NoApprove(<<approveFor(token, n)>>)
PROOF
<1>1. c.fee \in Nat /\ c.pm \in BOOLEAN
  BY DEF Config
<1>2. fetchPaymasterFee(c) \in Seq(Await) /\ NoApprove(fetchPaymasterFee(c))
  <2>1. <<Do("fee")>> \in Seq(Await) /\ NoApprove(<<Do("fee")>>)
    BY AwaitFacts, OneAwait DEF Steps
  <2> QED BY <2>1, NoAwait DEF fetchPaymasterFee
<1>3. ASSUME NEW b \in BOOLEAN
      PROVE  /\ ensureFeeApproval(c, b) \in Seq(Await)
             /\ c.pm \/ b \/ c.fee = 0 => NoApprove(ensureFeeApproval(c, b))
             /\ ~c.pm /\ ~b /\ c.fee # 0 => LastApprove(ensureFeeApproval(c, b), c.fee)
  <2>1. CASE c.pm \/ b \/ c.fee = 0
    <3>1. ensureFeeApproval(c, b) = <<>>
      BY <2>1 DEF ensureFeeApproval
    <3> QED BY <2>1, <3>1, NoAwait
  <2>2. CASE ~(c.pm \/ b \/ c.fee = 0)
    <3>1. ensureFeeApproval(c, b) = <<Approve(c.fee)>>
      BY <2>2 DEF ensureFeeApproval
    <3>2. Approve(c.fee) \in Await
      BY <1>1, AwaitFacts
    <3> QED BY <2>2, <3>1, <3>2, OneAwait
  <2> QED BY <2>1, <2>2
<1>4. ASSUME NEW token, NEW n \in Nat
      PROVE  /\ <<approveFor(token, n)>> \in Seq(Await)
             /\ token = STRK => LastApprove(<<approveFor(token, n)>>, n)
             /\ token # STRK => NoApprove(<<approveFor(token, n)>>)
  <2>1. CASE token = STRK
    <3>1. approveFor(token, n) = Approve(n)
      BY <2>1 DEF approveFor
    <3> QED BY <2>1, <3>1, AwaitFacts, OneAwait
  <2>2. CASE token # STRK
    <3>1. approveFor(token, n) = Do("approve token")
      BY <2>2 DEF approveFor
    <3>2. Do("approve token") \in Await /\ Do("approve token").do # "approve"
      BY AwaitFacts DEF Steps
    <3> QED BY <2>2, <3>1, <3>2, OneAwait
  <2> QED BY <2>1, <2>2
<1> QED BY <1>2, <1>3, <1>4

\* The list that the builder approves its deposits by.
LEMMA BatchTyped ==
    ASSUME NEW c \in Config, NEW deposits \in SUBSET Tokens
    PROVE  executeBatch(c, deposits) \in Seq(Await)
PROOF
<1>1. CASE c.pm
  <2>1. <<Do("fee")>> \in Seq(Await) /\ <<Do("sign")>> \in Seq(Await) /\ <<>> \in Seq(Await)
    BY AwaitFacts, OneAwait, NoAwait DEF Steps
  <2>2. <<Do("fee")>> \o <<Do("sign")>> \in Seq(Await) /\ <<Do("fee")>> \o <<>> \in Seq(Await)
    BY <2>1, ConcatFacts
  <2> QED BY <1>1, <2>2 DEF executeBatch
<1>2. CASE ~c.pm
  <2> DEFINE s == SetToSeq(deposits)
  <2>1. s \in [1 .. Cardinality(deposits) -> deposits] /\ Cardinality(deposits) \in Nat
    <3>1. Cardinality(deposits) \in Nat /\ ExistsBijection(1 .. Cardinality(deposits), deposits)
      BY DemoAssumption, FS_Subset, FS_CardinalityType
    <3>2. \E f \in [1 .. Cardinality(deposits) -> deposits] : IsInjective(f)
      BY <3>1 DEF ExistsBijection, Bijection, Injection, IsInjective
    <3> QED BY <3>1, <3>2 DEF SetToSeq
  <2> HIDE DEF s
  <2>2. executeBatch(c, deposits) = [i \in DOMAIN s |-> approveFor(s[i], DepositAmount)]
    BY <1>2 DEF executeBatch, Each, s
  <2>3. \A i \in DOMAIN s : approveFor(s[i], DepositAmount) \in Await
    BY DemoAssumption, AwaitFacts DEF approveFor, Steps
  <2> QED BY <2>1, <2>2, <2>3
<1> QED BY <1>1, <1>2

\* What every operation awaits.
LEMMA AwaitsTyped ==
    ASSUME NEW c \in Config, NEW kind \in Kinds, NEW deposits \in SUBSET Tokens
    PROVE  Awaits(kind, c, deposits) \in Seq(Await)
PROOF
<1>1. \A d \in [pm : {FALSE}, fee : Nat] : ensureFeeApproval(d, FALSE) \in Seq(Await)
  BY PartsFacts DEF Config
<1>2. register(c) \in Seq(Await)
  BY <1>1 DEF register, Config
<1>3. mint \in Seq(Await)
  <2>1. Do("mint") \in Await /\ Do("balances") \in Await
    BY AwaitFacts DEF Steps
  <2> QED BY <2>1 DEF mint
<1>4. \A t : deposit(c, t) \in Seq(Await)
  <2> SUFFICES ASSUME NEW t PROVE deposit(c, t) \in Seq(Await)
    OBVIOUS
  <2> DEFINE strk == ~c.pm /\ t = STRK
             n == DepositAmount + IF strk THEN c.fee ELSE 0
  <2>1. strk \in BOOLEAN /\ n \in Nat
    BY DemoAssumption DEF Config
  <2>2. deposit(c, t) = fetchPaymasterFee(c) \o <<approveFor(t, n)>> \o ensureFeeApproval(c, strk)
    BY DEF deposit
  <2> HIDE DEF strk, n
  <2>3. /\ fetchPaymasterFee(c) \in Seq(Await) /\ <<approveFor(t, n)>> \in Seq(Await)
        /\ ensureFeeApproval(c, strk) \in Seq(Await)
    BY <2>1, PartsFacts
  <2>4. fetchPaymasterFee(c) \o <<approveFor(t, n)>> \in Seq(Await)
    BY <2>3, ConcatFacts
  <2> QED BY <2>2, <2>3, <2>4, ConcatFacts
<1>5. fetchPaymasterFee(c) \o ensureFeeApproval(c, FALSE) \in Seq(Await)
  BY PartsFacts, ConcatFacts
<1>6. avnuSwap(c) \in Seq(Await)
  <2>1. <<Do("refuse")>> \in Seq(Await) /\ <<Do("quote"), Do("calls")>> \in Seq(Await)
    <3>1. Do("refuse") \in Await /\ Do("quote") \in Await /\ Do("calls") \in Await
      BY AwaitFacts DEF Steps
    <3> QED BY <3>1
  <2> QED BY <2>1, PartsFacts, ConcatFacts DEF avnuSwap
<1>7. vesuWithdraw(c) \in Seq(Await)
  <2>1. <<Do("preview")>> \in Seq(Await)
    BY AwaitFacts, OneAwait DEF Steps
  <2>2. <<Do("preview")>> \o fetchPaymasterFee(c) \in Seq(Await)
    BY <2>1, PartsFacts, ConcatFacts
  <2> QED BY <2>2, PartsFacts, ConcatFacts DEF vesuWithdraw
<1>8. executeBatch(c, deposits) \in Seq(Await)
  BY BatchTyped
<1> QED BY <1>2, <1>3, <1>4, <1>5, <1>6, <1>7, <1>8
        DEF Awaits, Kinds, withdraw, transfer, swap, vesuSupply

\* What an operation of useTransactions pulls once the pool's fee is known is what it
\* approves last; it approves nothing when nothing is pulled.
LEMMA AwaitsCover ==
    ASSUME NEW c \in Config, c.fee = PoolFee, NEW op, op.kind \in Kinds \ {"batch", "mint"},
           op.deposits \in SUBSET Tokens,
           op.kind = "deposit" => Cardinality(op.deposits) = 1,
           op.kind # "deposit" => op.deposits = {},
           op.pm = (c.pm /\ op.kind # "register"),
           op.rest = Awaits(op.kind, c, op.deposits)
    PROVE  \/ op.rest # <<>> /\ op.rest[1].do = "refuse"
           \/ NoApprove(op.rest) /\ Pulled(op) = 0
           \/ \E n \in Nat : LastApprove(op.rest, n) /\ Pulled(op) <= n
PROOF
<1>1. PoolFee \in Nat /\ DepositAmount \in Nat /\ c.pm \in BOOLEAN /\ c.fee \in Nat
  BY DemoAssumption DEF Config
<1>2. ASSUME op.deposits = {}
      PROVE  Pulled(op) = IF op.pm THEN 0 ELSE PoolFee
  BY <1>1, <1>2 DEF Pulled
<1>3. LET rest == fetchPaymasterFee(c) \o ensureFeeApproval(c, FALSE)
      IN  /\ rest \in Seq(Await)
          /\ c.pm \/ PoolFee = 0 => NoApprove(rest)
          /\ ~c.pm /\ PoolFee # 0 => LastApprove(rest, PoolFee)
  BY PartsFacts, ConcatFacts
<1>9. ASSUME Pulled(op) = IF c.pm THEN 0 ELSE PoolFee,
             c.pm \/ PoolFee = 0 => NoApprove(op.rest),
             ~c.pm /\ PoolFee # 0 => LastApprove(op.rest, PoolFee)
      PROVE  \/ NoApprove(op.rest) /\ Pulled(op) = 0
             \/ \E n \in Nat : LastApprove(op.rest, n) /\ Pulled(op) <= n
  <2>1. CASE c.pm \/ PoolFee = 0
    BY <1>9, <2>1
  <2>2. CASE ~(c.pm \/ PoolFee = 0)
    <3>1. LastApprove(op.rest, PoolFee) /\ Pulled(op) <= PoolFee
      BY <1>1, <1>9, <2>2
    <3> QED BY <1>1, <3>1
  <2> QED BY <2>1, <2>2
<1>4. CASE op.kind = "register"
  <2> DEFINE d == [c EXCEPT !.pm = FALSE]
  <2>1. d \in Config /\ d.pm = FALSE /\ d.fee = PoolFee
    BY DEF Config
  <2>2. op.rest = ensureFeeApproval(d, FALSE) /\ Pulled(op) = PoolFee
    BY <1>2, <1>4 DEF Awaits, register
  <2> HIDE DEF d
  <2>3. /\ PoolFee = 0 => NoApprove(op.rest)
        /\ PoolFee # 0 => LastApprove(op.rest, PoolFee)
    BY <2>1, <2>2, PartsFacts
  <2>4. CASE PoolFee = 0
    BY <2>2, <2>3, <2>4
  <2>5. CASE PoolFee # 0
    <3>1. LastApprove(op.rest, PoolFee)
      BY <2>3, <2>5
    <3>2. Pulled(op) = PoolFee /\ PoolFee \in Nat
      BY <1>1, <2>2
    <3>3. Pulled(op) <= PoolFee
      BY ONLY <3>2
    <3> QED BY <1>1, <3>1, <3>3
  <2> QED BY <2>4, <2>5
<1>5. CASE op.kind \in {"withdraw", "transfer", "swap", "vesuSupply"}
  <2>1. op.rest = fetchPaymasterFee(c) \o ensureFeeApproval(c, FALSE)
    BY <1>5 DEF Awaits, withdraw, transfer, swap, vesuSupply
  <2>2. Pulled(op) = IF c.pm THEN 0 ELSE PoolFee
    BY <1>2, <1>5
  <2> QED BY <1>3, <1>9, <2>1, <2>2
<1>6. CASE op.kind = "vesuWithdraw"
  <2> DEFINE p == <<Do("preview")>> \o fetchPaymasterFee(c)
             e == ensureFeeApproval(c, FALSE)
  <2>1. <<Do("preview")>> \in Seq(Await) /\ NoApprove(<<Do("preview")>>)
    BY AwaitFacts, OneAwait DEF Steps
  <2>2. p \in Seq(Await) /\ NoApprove(p)
    BY <2>1, PartsFacts, ConcatFacts
  <2>3. /\ e \in Seq(Await)
        /\ c.pm \/ PoolFee = 0 => NoApprove(e)
        /\ ~c.pm /\ PoolFee # 0 => LastApprove(e, PoolFee)
    BY PartsFacts
  <2>4. op.rest = p \o e
    BY <1>6 DEF Awaits, vesuWithdraw
  <2>5. Pulled(op) = IF c.pm THEN 0 ELSE PoolFee
    BY <1>2, <1>6
  <2> HIDE DEF p, e
  <2>6. /\ c.pm \/ PoolFee = 0 => NoApprove(op.rest)
        /\ ~c.pm /\ PoolFee # 0 => LastApprove(op.rest, PoolFee)
    BY <2>2, <2>3, <2>4, ConcatFacts
  <2> QED BY <1>9, <2>5, <2>6
<1>7. CASE op.kind = "avnuSwap"
  <2>1. CASE c.pm
    <3>1. Do("quote") \in Await /\ Do("calls") \in Await /\ Do("quote").do # "approve" /\ Do("calls").do # "approve"
      BY AwaitFacts DEF Steps
    <3>2. <<Do("quote"), Do("calls")>> \in Seq(Await) /\ NoApprove(<<Do("quote"), Do("calls")>>)
      <4> DEFINE a == Do("quote")
                 b == Do("calls")
      <4> HIDE DEF a, b
      <4>1. <<a, b>> \in Seq(Await) /\ DOMAIN <<a, b>> = {1, 2} /\ <<a, b>>[1] = a /\ <<a, b>>[2] = b
        BY <3>1 DEF a, b
      <4>2. NoApprove(<<a, b>>)
        BY <3>1, <4>1 DEF NoApprove, a, b
      <4> QED BY <4>1, <4>2 DEF a, b
    <3>3. op.rest = fetchPaymasterFee(c) \o <<Do("quote"), Do("calls")>>
      BY <1>7, <2>1 DEF Awaits, avnuSwap
    <3>4. NoApprove(op.rest)
      <4> DEFINE q == <<Do("quote"), Do("calls")>>
      <4>1. q \in Seq(Await) /\ NoApprove(q) /\ op.rest = fetchPaymasterFee(c) \o q
        BY <3>2, <3>3
      <4> HIDE DEF q
      <4>2. fetchPaymasterFee(c) \in Seq(Await) /\ NoApprove(fetchPaymasterFee(c))
        BY PartsFacts
      <4> QED BY <4>1, <4>2, ConcatFacts
    <3>5. Pulled(op) = 0
      BY <1>2, <1>7, <2>1
    <3> QED BY <3>4, <3>5
  <2>2. CASE ~c.pm
    <3>1. op.rest = <<Do("refuse")>>
      BY <1>7, <2>2 DEF Awaits, avnuSwap
    <3> QED BY <3>1 DEF Do
  <2> QED BY <2>1, <2>2
<1>8. CASE op.kind = "deposit"
  <2>1. PICK t : op.deposits = {t}
    BY <1>8, DemoAssumption, FS_Subset, FS_Singleton
  <2>2. (CHOOSE u \in op.deposits : TRUE) = t
    BY <2>1
  <2> DEFINE strk == ~c.pm /\ t = STRK
             n == DepositAmount + IF strk THEN PoolFee ELSE 0
             f == fetchPaymasterFee(c)
             a == <<approveFor(t, n)>>
             e == ensureFeeApproval(c, strk)
  <2>3. strk \in BOOLEAN /\ n \in Nat
    BY <1>1
  <2>4. op.rest = f \o a \o e
    BY <1>8, <2>2 DEF Awaits, deposit
  <2>5. /\ f \in Seq(Await) /\ NoApprove(f)
        /\ a \in Seq(Await) /\ (t = STRK => LastApprove(a, n)) /\ (t # STRK => NoApprove(a))
        /\ e \in Seq(Await) /\ (c.pm \/ strk \/ PoolFee = 0 => NoApprove(e))
        /\ (~c.pm /\ ~strk /\ PoolFee # 0 => LastApprove(e, PoolFee))
    <3> HIDE DEF n, strk
    <3> QED BY <2>3, PartsFacts
  <2>6. Pulled(op) = (IF c.pm THEN 0 ELSE PoolFee) + (IF t = STRK THEN DepositAmount ELSE 0)
    BY <1>8, <2>1 DEF Pulled
  <2> HIDE DEF f, a, e
  <2>7. /\ f \o a \in Seq(Await)
        /\ t = STRK => LastApprove(f \o a, n)
        /\ t # STRK => NoApprove(f \o a)
    BY <2>5, ConcatFacts
  <2> DEFINE g == f \o a
  <2>10. op.rest = g \o e /\ g \in Seq(Await) /\ (t = STRK => LastApprove(g, n)) /\ (t # STRK => NoApprove(g))
    BY <2>4, <2>7
  <2> HIDE DEF g, n
  <2>8. CASE t = STRK
    <3>1. NoApprove(e)
      BY <1>1, <2>5, <2>8
    <3>2. LastApprove(op.rest, n)
      BY <2>5, <2>8, <2>10, <3>1, ConcatFacts
    <3>3. Pulled(op) <= n
      BY <1>1, <2>6, <2>8 DEF n
    <3> QED BY <2>3, <3>2, <3>3
  <2>9. CASE t # STRK
    <3>1. Pulled(op) = IF c.pm THEN 0 ELSE PoolFee
      BY <1>1, <2>6, <2>9
    <3>2. /\ c.pm \/ PoolFee = 0 => NoApprove(op.rest)
          /\ ~c.pm /\ PoolFee # 0 => LastApprove(op.rest, PoolFee)
      BY <2>5, <2>9, <2>10, ConcatFacts
    <3> QED BY <1>9, <3>1, <3>2
  <2> QED BY <2>8, <2>9
<1> QED BY <1>4, <1>5, <1>6, <1>7, <1>8 DEF Kinds

-----------------------------------------------------------------------------
(***************************************************************************)
(* The tab: what the loads and the effects write.                          *)
(***************************************************************************)

Shaped(r) == DOMAIN r = {"app", "loads"} /\ DOMAIN r.app = AppFields

\* A step's result that has the account, the balances and the fee token of another.
Alike(q, r) ==
    /\ Shaped(q)
    /\ q.app.account = r.app.account /\ q.app.balances = r.app.balances /\ q.app.feeToken = r.app.feeToken

\* A result is put together from its parts.
LEMMA ResultFacts ==
    ASSUME NEW a, NEW ls, DOMAIN a = AppFields
    PROVE  Shaped(Result(a, ls)) /\ Result(a, ls).app = a /\ Result(a, ls).loads = ls
BY DEF Shaped, Result

\* A request changes nothing of the tab.
LEMMA SendFacts ==
    ASSUME NEW r, Shaped(r), NEW l
    PROVE  Shaped(Send(r, l)) /\ Send(r, l).app = r.app
PROOF
<1> DEFINE ls == r.loads (+) SetToBag({l})
<1>1. Send(r, l) = [r EXCEPT !.loads = ls]
  BY DEF Send
<1> HIDE DEF ls
<1> QED BY <1>1 DEF Shaped

\* A reload and a page keep the account, the balances and the fee token.
LEMMA RequestFacts ==
    ASSUME NEW r, Shaped(r), NEW account
    PROVE  /\ Alike(refreshEffect(r), r) /\ Alike(refreshAll(r), r)
           /\ Alike(fetchMore(r, account), r) /\ Alike(refreshLatest(r, account), r)
           /\ Alike(autoFetch(r), r)
PROOF
<1>1. ASSUME NEW q, Shaped(q), NEW l, NEW p, Alike(q, p) PROVE Alike(Send(q, l), p)
  BY <1>1, SendFacts DEF Alike
<1>2. ASSUME NEW l PROVE Alike(Send(Result([r.app EXCEPT !.cursor = {}], r.loads), l), r)
  <2> DEFINE a == [r.app EXCEPT !.cursor = {}]
  <2>1. /\ DOMAIN a = AppFields
        /\ a.account = r.app.account /\ a.balances = r.app.balances /\ a.feeToken = r.app.feeToken
    BY DEF Shaped, AppFields
  <2> HIDE DEF a
  <2>2. Alike(Result(a, r.loads), r)
    BY <2>1, ResultFacts DEF Alike
  <2>3. Alike(Send(Result(a, r.loads), l), r)
    BY <1>1, <2>2 DEF Alike
  <2> QED BY <2>3 DEF a
<1>3. Alike(refreshEffect(r), r) /\ Alike(refreshAll(r), r)
  BY <1>2 DEF refreshEffect, refreshAll
<1>4. Alike(r, r)
  BY DEF Alike
<1>5. ASSUME NEW q, Alike(q, r), NEW l PROVE Alike(Send([q EXCEPT !.app.loading = TRUE], l), r)
  <2> DEFINE p == [q EXCEPT !.app.loading = TRUE]
  <2>1. Alike(p, r)
    BY <1>5 DEF Alike, Shaped, AppFields
  <2> HIDE DEF p
  <2>2. Alike(Send(p, l), r)
    BY <1>1, <2>1 DEF Alike
  <2> QED BY <2>2 DEF p
<1>6. ASSUME NEW q, Alike(q, r), NEW a PROVE Alike(fetchMore(q, a), r) /\ Alike(refreshLatest(q, a), r)
  BY <1>5, <1>6 DEF fetchMore, refreshLatest
<1>7. Alike(autoFetch(r), r)
  <2> DEFINE q == [r EXCEPT !.app.autoFetched = TRUE]
  <2>1. Alike(q, r)
    BY DEF Alike, Shaped, AppFields
  <2> HIDE DEF q
  <2>2. Alike(fetchMore(q, r.app.account), r)
    BY <1>6, <2>1
  <2> QED BY <1>4, <2>2 DEF autoFetch, q
<1> QED BY <1>3, <1>4, <1>6, <1>7

\* App: after the effects of a commit the fee token has a balance, if any token has.
LEMMA CommittedFits ==
    ASSUME NEW r, Shaped(r)
    PROVE  /\ Shaped(Committed(r)) /\ Committed(r).app.account = r.app.account
           /\ FeeTokenInv(Committed(r).app)
PROOF
<1> DEFINE q == autoFetch(r)
<1>1. Alike(q, r)
  BY RequestFacts
<1> HIDE DEF q
<1>2. CASE isValidFeeToken(q.app.feeToken, q.app.balances) \/ q.app.balances = {}
  <2>1. Committed(r) = q
    BY <1>2 DEF Committed, feeTokenEffect, q
  <2> QED BY <1>1, <1>2, <2>1 DEF Alike, FeeTokenInv, isValidFeeToken
<1>3. CASE ~(isValidFeeToken(q.app.feeToken, q.app.balances) \/ q.app.balances = {})
  <2> DEFINE t == CHOOSE t \in q.app.balances : TRUE
             p == [q EXCEPT !.app.feeToken = {t}]
  <2>1. Committed(r) = refreshEffect(p)
    BY <1>3 DEF Committed, feeTokenEffect, q
  <2>2. t \in q.app.balances
    BY <1>3
  <2> HIDE DEF t
  <2>3. Shaped(p) /\ p.app.account = q.app.account /\ p.app.balances = q.app.balances /\ p.app.feeToken = {t}
    BY <1>1 DEF Alike, Shaped, AppFields
  <2> HIDE DEF p
  <2>4. Alike(refreshEffect(p), p)
    BY <2>3, RequestFacts
  <2> QED BY <1>1, <2>1, <2>2, <2>3, <2>4 DEF Alike, FeeTokenInv
<1> QED BY <1>2, <1>3

\* A step whose result fits keeps the tab as it should be.
LEMMA Becomes ==
    ASSUME NEW r, Shaped(r), r.app.account \in Accounts, FeeTokenInv(r.app), Become(r)
    PROVE  AppInv'
BY DEF Become, AppInv, Shaped, FeeTokenInv

\* The answers.
LEMMA LoadsKept ==
    ASSUME AppInv, NEW l,
           refreshed(l) \/ pageAnswered(l) \/ pageShown(l) \/ latestAnswered(l) \/ loadFails(l)
    PROVE  AppInv' /\ UNCHANGED <<chain, ops>>
PROOF
<1> DEFINE d == Drop(l)
<1>1. Shaped(d) /\ d.app = app
  BY ResultFacts DEF Drop, AppInv
<1>2. app.account \in Accounts /\ FeeTokenInv(app) /\ DOMAIN app = AppFields
  BY DEF AppInv
<1>3. UNCHANGED <<chain, ops>>
  BY DEF refreshed, pageAnswered, pageShown, latestAnswered, loadFails, Answer
<1> HIDE DEF d
\* What a history request writes is none of the fields of the invariant.
<1>4. /\ \A from, complete : Alike([d EXCEPT !.app.from = from, !.app.complete = complete], d)
      /\ \A txs : Alike([d EXCEPT !.app.txs = txs, !.app.loading = FALSE], d)
      /\ Alike([d EXCEPT !.app.loading = FALSE], d)
  <2>1. ASSUME NEW a, DOMAIN a = AppFields, a.account = d.app.account, a.balances = d.app.balances,
               a.feeToken = d.app.feeToken
        PROVE  Alike([d EXCEPT !.app = a], d)
    BY <1>1, <2>1 DEF Alike, Shaped
  <2>2. ASSUME NEW from, NEW complete
        PROVE  Alike([d EXCEPT !.app.from = from, !.app.complete = complete], d)
    <3> DEFINE a == [d.app EXCEPT !.from = from, !.complete = complete]
    <3>1. [d EXCEPT !.app.from = from, !.app.complete = complete] = [d EXCEPT !.app = a]
      BY <1>1 DEF Shaped
    <3>2. /\ DOMAIN a = AppFields /\ a.account = d.app.account /\ a.balances = d.app.balances
          /\ a.feeToken = d.app.feeToken
      BY <1>1 DEF Shaped, AppFields
    <3> HIDE DEF a
    <3> QED BY <2>1, <3>1, <3>2
  <2>3. ASSUME NEW txs
        PROVE  Alike([d EXCEPT !.app.txs = txs, !.app.loading = FALSE], d)
    <3> DEFINE a == [d.app EXCEPT !.txs = txs, !.loading = FALSE]
    <3>1. [d EXCEPT !.app.txs = txs, !.app.loading = FALSE] = [d EXCEPT !.app = a]
      BY <1>1 DEF Shaped
    <3>2. /\ DOMAIN a = AppFields /\ a.account = d.app.account /\ a.balances = d.app.balances
          /\ a.feeToken = d.app.feeToken
      BY <1>1 DEF Shaped, AppFields
    <3> HIDE DEF a
    <3> QED BY <2>1, <3>1, <3>2
  <2>4. Alike([d EXCEPT !.app.loading = FALSE], d)
    BY <1>1 DEF Alike, Shaped, AppFields
  <2> QED BY <2>2, <2>3, <2>4
<1>5. ASSUME NEW r, Alike(r, d), Become(r) PROVE AppInv'
  <2>1. r.app.account \in Accounts /\ FeeTokenInv(r.app)
    BY <1>1, <1>2, <1>5 DEF Alike, FeeTokenInv
  <2> QED BY <1>5, <2>1, Becomes DEF Alike
<1>6. ASSUME NEW r, Alike(r, d) PROVE Alike([r EXCEPT !.app = initLastTxBlock(@)], d)
  <2> DEFINE a == initLastTxBlock(r.app)
  <2>1. /\ DOMAIN a = AppFields /\ a.account = r.app.account /\ a.balances = r.app.balances
        /\ a.feeToken = r.app.feeToken
    BY <1>6 DEF initLastTxBlock, Alike, Shaped, AppFields
  <2> HIDE DEF a
  <2>2. Alike([r EXCEPT !.app = a], d)
    BY <1>6, <2>1 DEF Alike, Shaped
  <2> QED BY <2>2 DEF a
<1>7. CASE refreshed(l)
  <2> DEFINE shown == [d EXCEPT !.app.cursor = {l.account}, !.app.balances = chain.private[l.account]]
             r == IF l.latest THEN refreshLatest(shown, l.account) ELSE shown
  <2>1. Shaped(shown) /\ shown.app.account = app.account
    BY <1>1 DEF Shaped, AppFields
  <2>2. Become(Committed(r))
    BY <1>7 DEF refreshed, d
  <2> HIDE DEF shown
  <2>3. Shaped(r) /\ r.app.account = app.account
    BY <2>1, RequestFacts DEF Alike
  <2> HIDE DEF r
  <2>4. Shaped(Committed(r)) /\ Committed(r).app.account \in Accounts /\ FeeTokenInv(Committed(r).app)
    BY <1>2, <2>3, CommittedFits
  <2> QED BY <1>3, <2>2, <2>4, Becomes
<1>8. CASE pageAnswered(l)
  <2>1. PICK from, complete, m : Become(Send([d EXCEPT !.app.from = from, !.app.complete = complete], m))
    BY <1>8 DEF pageAnswered, d
  <2> DEFINE r == [d EXCEPT !.app.from = from, !.app.complete = complete]
  <2>2. Alike(r, d)
    BY <1>4
  <2> HIDE DEF r
  <2>3. Alike(Send(r, m), d)
    BY <2>2, SendFacts DEF Alike
  <2> QED BY <1>3, <1>5, <2>1, <2>3 DEF r
<1>9. CASE pageShown(l)
  <2> DEFINE txs == d.app.txs \o l.txs
             r == [d EXCEPT !.app.txs = txs, !.app.loading = FALSE]
  <2>1. Become([r EXCEPT !.app = initLastTxBlock(@)])
    BY <1>9 DEF pageShown, d
  <2> HIDE DEF txs
  <2>2. Alike(r, d)
    BY <1>4
  <2> HIDE DEF r
  <2> QED BY <1>3, <1>5, <1>6, <2>1, <2>2
<1>10. CASE latestAnswered(l)
  <2>1. PICK txs : Become([[d EXCEPT !.app.txs = txs, !.app.loading = FALSE] EXCEPT !.app = initLastTxBlock(@)])
    BY <1>10 DEF latestAnswered, d
  <2> DEFINE r == [d EXCEPT !.app.txs = txs, !.app.loading = FALSE]
  <2>2. Alike(r, d)
    BY <1>4
  <2> HIDE DEF r
  <2>3. Become([r EXCEPT !.app = initLastTxBlock(@)])
    BY <2>1 DEF r
  <2> QED BY <1>3, <1>5, <1>6, <2>2, <2>3
<1>11. CASE loadFails(l)
  <2> DEFINE r == IF l.kind # "refresh" THEN [d EXCEPT !.app.loading = FALSE]
                  ELSE IF l.latest THEN refreshLatest(d, l.account) ELSE d
  <2>1. Become(r)
    BY <1>11 DEF loadFails, d
  <2>2. Alike([d EXCEPT !.app.loading = FALSE], d) /\ Alike(d, d) /\ Alike(refreshLatest(d, l.account), d)
    BY <1>1, <1>4, RequestFacts, ZenonT(40) DEF Alike
  <2>3. Alike(r, d)
    BY <2>2
  <2> HIDE DEF r
  <2> QED BY <1>3, <1>5, <2>1, <2>3
<1> QED BY <1>7, <1>8, <1>9, <1>10, <1>11

\* The user: the account is one of the accounts, and the fee token one with a balance.
LEMMA ClicksKept ==
    ASSUME AppInv,
           \/ \E account \in Accounts : switch(account)
           \/ clickRefresh \/ clickHistory \/ togglePaymaster \/ initFeeConfig
           \/ \E token \in Tokens : selectFeeToken(token)
    PROVE  AppInv' /\ UNCHANGED <<chain, ops>>
PROOF
<1>1. app.account \in Accounts /\ FeeTokenInv(app) /\ DOMAIN app = AppFields
  BY DEF AppInv
<1>2. UNCHANGED <<chain, ops>>
  BY DEF switch, clickRefresh, clickHistory, togglePaymaster, initFeeConfig, selectFeeToken
<1>3. ASSUME NEW a, DOMAIN a = AppFields, a.account \in Accounts, FeeTokenInv(a),
             \/ Become(refreshEffect(Result(a, loads))) \/ Become(refreshAll(Result(a, loads)))
             \/ Become(fetchMore(Result(a, loads), a.account))
      PROVE  AppInv'
  <2> DEFINE r == Result(a, loads)
  <2>1. Shaped(r) /\ r.app = a
    BY <1>3, ResultFacts
  <2> HIDE DEF r
  <2>2. Alike(refreshEffect(r), r) /\ Alike(refreshAll(r), r) /\ Alike(fetchMore(r, a.account), r)
    BY <2>1, RequestFacts
  <2>3. PICK q : Alike(q, r) /\ Become(q)
    BY <1>3, <2>2 DEF r
  <2>4. Shaped(q) /\ q.app.account \in Accounts /\ FeeTokenInv(q.app)
    BY <1>3, <2>1, <2>3 DEF Alike, FeeTokenInv
  <2> QED BY <2>3, <2>4, Becomes
<1>4. ASSUME NEW account \in Accounts, switch(account) PROVE AppInv'
  <2> DEFINE left == {[t EXCEPT !.kept = FALSE] : t \in app.recorded}
             a == [app EXCEPT !.account = account, !.cursor = {}, !.balances = {}, !.txs = <<>>, !.complete = FALSE,
                              !.from = {}, !.autoFetched = FALSE, !.lastTx = {}, !.recorded = left]
  <2>1. /\ DOMAIN a = AppFields /\ a.account \in Accounts /\ a.balances = {}
    BY <1>1 DEF AppFields
  <2>2. Become(refreshEffect([Result(app, loads) EXCEPT !.app = a]))
    BY <1>4, ZenonT(40) DEF switch, setActive, Result
  <2>3. [Result(app, loads) EXCEPT !.app = a] = Result(a, loads)
    BY DEF Result
  <2> HIDE DEF a
  <2> QED BY <1>3, <2>1, <2>2, <2>3 DEF FeeTokenInv
<1>5. CASE clickRefresh \/ clickHistory
  BY <1>1, <1>3, <1>5 DEF clickRefresh, clickHistory
<1>6. CASE togglePaymaster
  <2> DEFINE a == [app EXCEPT !.paymasterEnabled = ~@]
  <2>1. DOMAIN a = AppFields /\ a.account \in Accounts /\ FeeTokenInv(a)
    BY <1>1 DEF AppFields, FeeTokenInv
  <2>2. Become(refreshEffect(Result(a, loads)))
    BY <1>6 DEF togglePaymaster
  <2> HIDE DEF a
  <2> QED BY <1>2, <1>3, <2>1, <2>2
<1>7. CASE initFeeConfig
  <2> DEFINE a == [app EXCEPT !.feeAmount = TRUE]
  <2>1. DOMAIN a = AppFields /\ a.account \in Accounts /\ FeeTokenInv(a)
    BY <1>1 DEF AppFields, FeeTokenInv
  <2>2. Become(refreshEffect(Result(a, loads)))
    BY <1>7 DEF initFeeConfig
  <2> HIDE DEF a
  <2> QED BY <1>2, <1>3, <2>1, <2>2
<1>8. ASSUME NEW token \in Tokens, selectFeeToken(token) PROVE AppInv'
  <2> DEFINE a == [app EXCEPT !.feeToken = {token}]
  <2>1. token \in app.balances /\ Become(refreshEffect(Result(a, loads)))
    BY <1>8 DEF selectFeeToken
  <2>2. DOMAIN a = AppFields /\ a.account \in Accounts /\ FeeTokenInv(a)
    BY <1>1, <2>1 DEF AppFields, FeeTokenInv
  <2> HIDE DEF a
  <2> QED BY <1>3, <2>1, <2>2
<1> QED BY <1>2, <1>4, <1>5, <1>6, <1>7, <1>8

-----------------------------------------------------------------------------
(***************************************************************************)
(* The operations.                                                         *)
(***************************************************************************)

\* Each hook is the other one of the other.
LEMMA HooksFacts == Hooks = {"actions", "builder"} /\ Other("actions") = "builder" /\ Other("builder") = "actions"
BY DEF Hooks, Other

\* What is left of a list of awaits, once one is over.
LEMMA TailFacts ==
    ASSUME NEW rest \in Seq(Await), rest # <<>>
    PROVE  /\ Head(rest) = rest[1] /\ Head(rest) \in Await /\ Tail(rest) \in Seq(Await)
           /\ NoApprove(rest) => Head(rest).do # "approve" /\ NoApprove(Tail(rest))
           /\ \A n : LastApprove(rest, n) => \/ Head(rest) = Approve(n) /\ NoApprove(Tail(rest))
                                             \/ LastApprove(Tail(rest), n)
PROOF
<1> DEFINE t == Tail(rest)
<1>1. /\ Len(rest) \in Nat \ {0} /\ DOMAIN rest = 1 .. Len(rest)
      /\ Head(rest) = rest[1] /\ rest[1] \in Await /\ t \in Seq(Await)
      /\ DOMAIN t = 1 .. Len(rest) - 1 /\ \A i \in DOMAIN t : t[i] = rest[i + 1]
  OBVIOUS
<1>2. \A i \in DOMAIN t : i \in Int /\ i + 1 \in DOMAIN rest /\ i + 1 > 1 /\ t[i] = rest[i + 1]
  BY <1>1
<1>3. \A i \in DOMAIN rest : i \in Int /\ (i = 1 \/ i - 1 \in DOMAIN t)
  BY <1>1
<1> HIDE DEF t
<1>4. NoApprove(rest) => Head(rest).do # "approve" /\ NoApprove(t)
  BY <1>1, <1>2 DEF NoApprove
<1>5. ASSUME NEW n, LastApprove(rest, n)
      PROVE  \/ Head(rest) = Approve(n) /\ NoApprove(t)
             \/ LastApprove(t, n)
  <2>1. PICK i \in DOMAIN rest : rest[i] = Approve(n) /\ \A j \in DOMAIN rest : j > i => rest[j].do # "approve"
    BY <1>5 DEF LastApprove
  <2>2. CASE i = 1
    BY <1>1, <1>2, <2>1, <2>2 DEF NoApprove
  <2>3. CASE i # 1
    <3>1. i \in Int /\ i - 1 \in DOMAIN t /\ (i - 1) + 1 = i
      BY <1>3, <2>3
    <3>2. t[i - 1] = Approve(n)
      BY <1>2, <2>1, <3>1
    <3>3. ASSUME NEW j \in DOMAIN t, j > i - 1 PROVE t[j].do # "approve"
      <4>1. j + 1 \in DOMAIN rest /\ j + 1 > i /\ t[j] = rest[j + 1]
        BY <1>2, <3>1, <3>3
      <4> QED BY <2>1, <4>1
    <3> QED BY <3>1, <3>2, <3>3 DEF LastApprove
  <2> QED BY <2>2, <2>3
<1> QED BY <1>1, <1>4, <1>5 DEF t

\* What the operation was started with.
Started(op) == <<op.account, op.alone, op.fee, op.kind, op.deposits, op.pm>>

\* What is pulled depends on nothing else.
LEMMA PulledFacts ==
    ASSUME NEW op, NEW new, Started(new) = Started(op)
    PROVE  /\ new.account = op.account /\ new.alone = op.alone /\ new.fee = op.fee /\ new.kind = op.kind
           /\ Pulled(new) = Pulled(op)
           /\ Pulled(op) \in Nat
PROOF
<1>1. /\ new.account = op.account /\ new.alone = op.alone /\ new.fee = op.fee /\ new.kind = op.kind
      /\ new.deposits = op.deposits /\ new.pm = op.pm
  BY DEF Started
<1>2. Pulled(new) = Pulled(op)
  BY <1>1 DEF Pulled
<1>3. (IF op.pm THEN 0 ELSE PoolFee) \in Nat
  BY DemoAssumption
<1>4. (IF STRK \in op.deposits /\ ~(op.pm /\ op.kind = "batch") THEN DepositAmount ELSE 0) \in Nat
  BY DemoAssumption
<1>5. Pulled(op) \in Nat
  <2> DEFINE m == IF op.pm THEN 0 ELSE PoolFee
             n == IF STRK \in op.deposits /\ ~(op.pm /\ op.kind = "batch") THEN DepositAmount ELSE 0
  <2>1. m \in Nat /\ n \in Nat /\ Pulled(op) = m + n
    BY <1>3, <1>4 DEF Pulled
  <2> HIDE DEF m, n
  <2> QED BY <2>1
<1> QED BY <1>1, <1>2, <1>5

\* The operation of one hook goes on or ends; no other allowance than its account's changes.
LEMMA HookMoves ==
    ASSUME FeeInv, NEW h \in Hooks, ops[h] # Idle, NEW new, ops' = [ops EXCEPT ![h] = new], AppInv', ChainInv',
           \A a \in Accounts : a # ops[h].account => chain'.allowance[a] = chain.allowance[a],
           new # Idle => OpInv(new) /\ Started(new) = Started(ops[h]),
           h = "actions" /\ new # Idle /\ new.alone /\ new.fee = PoolFee
             => Covered(new, chain'.allowance[new.account])
    PROVE  FeeInv'
PROOF
<1>1. DOMAIN ops = Hooks /\ \A k \in Hooks : ops[k] # Idle => OpInv(ops[k])
  BY DEF FeeInv
<1>2. ops' = [k \in Hooks |-> IF k = h THEN new ELSE ops[k]]
  BY <1>1
<1>3. DOMAIN ops' = Hooks /\ \A k \in Hooks : ops'[k] # Idle => OpInv(ops'[k])
  BY <1>1, <1>2
<1>4. Sole(ops["actions"], ops["builder"], chain.allowance)
  BY DEF FeeInv
<1>5. new # Idle => new.account = ops[h].account /\ new.alone = ops[h].alone /\ new.fee = ops[h].fee
  BY PulledFacts
<1>6. CASE h = "actions"
  <2>1. ops'["actions"] = new /\ ops'["builder"] = ops["builder"]
    BY <1>2, <1>6, HooksFacts
  <2>2. Sole(new, ops["builder"], chain'.allowance)
    BY <1>4, <1>5, <1>6 DEF Sole
  <2>3. Sole(ops'["actions"], ops'["builder"], chain'.allowance)
    BY <2>1, <2>2
  <2> QED BY <1>3, <2>3 DEF FeeInv, OpInv, Sole, Covered
<1>7. CASE h = "builder"
  <2>1. ops'["builder"] = new /\ ops'["actions"] = ops["actions"]
    BY <1>2, <1>7, HooksFacts
  <2>2. Sole(ops["actions"], new, chain'.allowance)
    <3> SUFFICES ASSUME ops["actions"] # Idle, ops["actions"].alone
                 PROVE  /\ new # Idle => new.account # ops["actions"].account
                        /\ ops["actions"].fee = PoolFee =>
                             Covered(ops["actions"], chain'.allowance[ops["actions"].account])
      BY DEF Sole
    <3>1. ops["builder"].account # ops["actions"].account /\ ops["actions"].account \in Accounts
      BY <1>1, <1>4, <1>7, HooksFacts DEF Sole, OpInv
    <3>2. chain'.allowance[ops["actions"].account] = chain.allowance[ops["actions"].account]
      BY <1>7, <3>1
    <3> QED BY <1>4, <1>5, <1>7, <3>1, <3>2 DEF Sole
  <2>3. Sole(ops'["actions"], ops'["builder"], chain'.allowance)
    BY <2>1, <2>2
  <2> QED BY <1>3, <2>3 DEF FeeInv, OpInv, Sole, Covered
<1> QED BY <1>6, <1>7, HooksFacts

\* The end of an operation refreshes the tab.
LEMMA SettleKeeps ==
    ASSUME NEW a, DOMAIN a = AppFields, a.account \in Accounts, FeeTokenInv(a), NEW h, settle(h, a)
    PROVE  AppInv' /\ ops' = [ops EXCEPT ![h] = Idle]
PROOF
<1> DEFINE r == Result(a, loads)
<1>1. Shaped(r) /\ r.app = a
  BY ResultFacts
<1>2. Become(refreshAll(r)) /\ ops' = [ops EXCEPT ![h] = Idle]
  BY DEF settle
<1> HIDE DEF r
<1>3. Alike(refreshAll(r), r)
  BY <1>1, RequestFacts
<1>4. /\ Shaped(refreshAll(r)) /\ refreshAll(r).app.account \in Accounts
      /\ FeeTokenInv(refreshAll(r).app)
  BY <1>1, <1>3 DEF Alike, FeeTokenInv
<1> QED BY <1>2, <1>4, Becomes

\* The awaits are over, or not yet.
LEMMA EnterFacts ==
    ASSUME NEW op, DOMAIN op = OpFields, op.rest \in Seq(Await), op.account \in Accounts, op.step = "await"
    PROVE  /\ OpInv(Enter(op)) /\ Started(Enter(op)) = Started(op) /\ Enter(op).rest = op.rest
           /\ op.rest # <<>> => Enter(op).step = "await"
PROOF
<1>1. CASE op.rest # <<>>
  BY <1>1 DEF Enter, OpInv
<1>2. CASE op.rest = <<>>
  <2> DEFINE known == {t \in app.recorded : t.account = op.account}
             new == [op EXCEPT !.step = "wait", !.floor = app.lastTx, !.known = known]
  <2>1. Enter(op) = new
    BY <1>2 DEF Enter, ReadFloor
  <2> HIDE DEF known
  <2>2. /\ DOMAIN new = OpFields /\ new.step = "wait" /\ new.rest = op.rest /\ new.account = op.account
        /\ new.alone = op.alone /\ new.fee = op.fee /\ new.kind = op.kind /\ new.deposits = op.deposits
        /\ new.pm = op.pm
    BY DEF OpFields
  <2> HIDE DEF new
  <2> QED BY <1>2, <2>1, <2>2 DEF OpInv, Started
<1> QED BY <1>1, <1>2

\* An approve sets the allowance of the account, and of no other.
LEMMA AllowanceSet ==
    ASSUME ChainInv, NEW a \in Accounts, NEW n \in Nat, chain' = [chain EXCEPT !.allowance[a] = n]
    PROVE  /\ ChainInv' /\ chain'.allowance[a] = n
           /\ \A b \in Accounts : b # a => chain'.allowance[b] = chain.allowance[b]
PROOF
<1>1. chain'.allowance = [chain.allowance EXCEPT ![a] = n] /\ DOMAIN chain' = DOMAIN chain
  BY DEF ChainInv
<1> QED BY <1>1 DEF ChainInv

\* An await of an operation is over.
LEMMA StepKeeps ==
    ASSUME FeeInv, NEW h \in Hooks, step(h)
    PROVE  FeeInv'
PROOF
<1> DEFINE op == ops[h]
           new == [op EXCEPT !.rest = Tail(@)]
           s == Head(op.rest)
<1>1. OpInv(op) /\ op # Idle /\ op.step = "await" /\ op.rest # <<>>
  BY DEF FeeInv, step, OpInv
<1>2. /\ s.do # "refuse"
      /\ chain' = IF s.do = "approve" THEN [chain EXCEPT !.allowance[new.account] = s.amount] ELSE chain
      /\ \/ new.rest = <<>> /\ new.kind = "mint" /\ settle(h, app)
         \/ /\ ~(new.rest = <<>> /\ new.kind = "mint")
            /\ ops' = [ops EXCEPT ![h] = Enter(new)] /\ UNCHANGED <<app, loads>>
  BY DEF step
<1>3. /\ s = op.rest[1] /\ s \in Await /\ Tail(op.rest) \in Seq(Await)
      /\ NoApprove(op.rest) => s.do # "approve" /\ NoApprove(Tail(op.rest))
      /\ \A n : LastApprove(op.rest, n) => \/ s = Approve(n) /\ NoApprove(Tail(op.rest))
                                           \/ LastApprove(Tail(op.rest), n)
  BY <1>1, TailFacts DEF OpInv
<1>4. /\ DOMAIN new = OpFields /\ new.rest = Tail(op.rest) /\ new.account = op.account /\ new.step = "await"
      /\ Started(new) = Started(op) /\ new.kind = op.kind
  BY <1>1 DEF OpInv, OpFields, Started
<1>5. s.amount \in Nat /\ new.account \in Accounts
  BY <1>1, <1>3, <1>4 DEF Await, OpInv
<1> HIDE DEF op, new, s
<1>6. /\ ChainInv'
      /\ \A a \in Accounts : a # op.account => chain'.allowance[a] = chain.allowance[a]
      /\ s.do = "approve" => chain'.allowance[op.account] = s.amount
      /\ s.do # "approve" => chain' = chain
  <2>1. CASE s.do = "approve"
    BY <1>2, <1>4, <1>5, <2>1, AllowanceSet DEF FeeInv
  <2>2. CASE s.do # "approve"
    BY <1>2, <2>2 DEF FeeInv, ChainInv
  <2> QED BY <2>1, <2>2
<1>7. CASE new.rest = <<>> /\ new.kind = "mint" /\ settle(h, app)
  <2>1. AppInv' /\ ops' = [ops EXCEPT ![h] = Idle]
    BY <1>7, SettleKeeps DEF FeeInv, AppInv
  <2> QED BY <1>1, <1>6, <2>1, HookMoves DEF op
<1>8. CASE /\ ~(new.rest = <<>> /\ new.kind = "mint")
           /\ ops' = [ops EXCEPT ![h] = Enter(new)] /\ UNCHANGED <<app, loads>>
  <2> DEFINE e == Enter(new)
  <2>1. /\ OpInv(e) /\ Started(e) = Started(new) /\ e.rest = new.rest
        /\ new.rest # <<>> => e.step = "await"
    BY <1>3, <1>4, <1>5, EnterFacts
  <2>2. ops' = [ops EXCEPT ![h] = e]
    BY <1>8
  <2> HIDE DEF e
  <2>3. AppInv'
    BY <1>8 DEF FeeInv, AppInv, FeeTokenInv
  <2>4. Started(e) = Started(op)
    BY <1>4, <2>1
  <2>5. Pulled(e) = Pulled(op) /\ e.account = op.account /\ e.kind = op.kind /\ e.alone = op.alone /\ e.fee = op.fee
    BY <2>4, PulledFacts
  <2>6. ASSUME h = "actions", e.alone, e.fee = PoolFee PROVE Covered(e, chain'.allowance[e.account])
    <3>1. Covered(op, chain.allowance[op.account])
      BY <1>1, <2>5, <2>6 DEF FeeInv, Sole, op
    <3>2. CASE op.kind = "mint"
      BY <1>4, <1>8, <2>1, <2>5, <3>2 DEF Covered
    <3>3. CASE NoApprove(op.rest) /\ Pulled(op) <= chain.allowance[op.account]
      BY <1>3, <1>4, <1>6, <2>1, <2>5, <3>3 DEF Covered
    <3>4. CASE \E n \in Nat : LastApprove(op.rest, n) /\ Pulled(op) <= n
      <4>1. PICK n \in Nat : LastApprove(op.rest, n) /\ Pulled(op) <= n
        BY <3>4
      <4>2. CASE s = Approve(n) /\ NoApprove(Tail(op.rest))
        <5>1. s.do = "approve" /\ s.amount = n
          BY <4>2 DEF Approve
        <5> QED BY <1>4, <1>6, <2>1, <2>5, <4>1, <4>2, <5>1 DEF Covered
      <4>3. CASE LastApprove(Tail(op.rest), n)
        BY <1>4, <2>1, <2>5, <4>1, <4>3 DEF Covered
      <4> QED BY <1>3, <4>1, <4>2, <4>3
    <3> QED BY <1>1, <1>2, <1>3, <3>1, <3>2, <3>3, <3>4 DEF Covered
  <2> QED BY <1>1, <1>6, <2>1, <2>2, <2>3, <2>4, <2>6, HookMoves DEF op
<1> QED BY <1>2, <1>7, <1>8

\* The block is chosen, the proof computed, the transaction executed.
LEMMA ProvingKeeps ==
    ASSUME FeeInv, NEW h \in Hooks, chooseBlock(h) \/ prove(h) \/ submit(h)
    PROVE  FeeInv'
PROOF
<1> DEFINE op == ops[h]
<1>1. OpInv(op) /\ op # Idle /\ op.step \in {"wait", "prove", "submit"}
  BY DEF FeeInv, chooseBlock, prove, submit
<1>2. op.rest = <<>> /\ DOMAIN op = OpFields /\ op.account \in Accounts /\ DOMAIN ops = Hooks
  BY <1>1 DEF OpInv, FeeInv
<1>3. AppInv'
  BY DEF FeeInv, AppInv, FeeTokenInv, chooseBlock, prove, submit
<1>4. ASSUME NEW new, DOMAIN new = OpFields, new.step \in {"prove", "submit", "receipt"}, new.rest = op.rest,
             Started(new) = Started(op)
      PROVE  OpInv(new)
  <2>1. new.account = op.account
    BY <1>4, PulledFacts
  <2> QED BY <1>2, <1>4, <2>1 DEF OpInv
<1>5. CASE chooseBlock(h) \/ prove(h)
  <2>1. PICK to, proving :
            /\ to \in {"prove", "submit"} /\ UNCHANGED chain
            /\ ops' = [ops EXCEPT ![h] = [op EXCEPT !.step = to, !.proving = proving]]
    <3>1. CASE chooseBlock(h)
      <4> DEFINE b == waitForProvingBlock(ops[h].floor, chain.height)
      <4>1. ops' = [ops EXCEPT ![h].step = "prove", ![h].proving = b] /\ UNCHANGED chain
        BY <3>1 DEF chooseBlock
      <4> HIDE DEF b
      <4>2. ops' = [ops EXCEPT ![h] = [op EXCEPT !.step = "prove", !.proving = b]]
        BY <1>2, <4>1
      <4> QED BY <4>1, <4>2
    <3>2. CASE prove(h)
      <4>1. ops' = [ops EXCEPT ![h].step = "submit"] /\ UNCHANGED chain
        BY <3>2 DEF prove
      <4>2. [op EXCEPT !.step = "submit"] = [op EXCEPT !.step = "submit", !.proving = op.proving]
        BY <1>2 DEF OpFields
      <4>3. ops' = [ops EXCEPT ![h] = [op EXCEPT !.step = "submit"]]
        BY <1>2, <4>1
      <4> DEFINE b == op.proving
      <4>4. ops' = [ops EXCEPT ![h] = [op EXCEPT !.step = "submit", !.proving = b]]
        BY <4>2, <4>3
      <4> HIDE DEF b, op
      <4> QED BY <4>1, <4>4
    <3> QED BY <1>5, <3>1, <3>2
  <2> DEFINE new == [op EXCEPT !.step = to, !.proving = proving]
  <2>2. /\ DOMAIN new = OpFields /\ new.step = to /\ new.rest = op.rest /\ Started(new) = Started(op)
    BY <1>2 DEF OpFields, Started
  <2>3. ops' = [ops EXCEPT ![h] = new] /\ chain' = chain
    BY <2>1
  <2> HIDE DEF new, op
  <2>4. OpInv(new)
    BY <1>4, <2>1, <2>2
  <2>5. Pulled(new) = Pulled(op) /\ new.account = op.account /\ new.kind = op.kind /\ new.alone = op.alone
        /\ new.fee = op.fee
    BY <2>2, PulledFacts
  <2>6. ASSUME h = "actions", new.alone, new.fee = PoolFee PROVE Covered(new, chain'.allowance[new.account])
    <3>1. Covered(op, chain.allowance[op.account])
      BY <1>1, <2>5, <2>6 DEF FeeInv, Sole, op
    <3>2. ~\E n \in Nat : LastApprove(op.rest, n)
      <4>1. DOMAIN op.rest = {}
        BY <1>2
      <4> QED BY <4>1 DEF LastApprove
    <3>3. NoApprove(op.rest) /\ Pulled(op) <= chain.allowance[op.account]
      BY <1>1, <3>1, <3>2 DEF Covered
    <3> QED BY <2>2, <2>3, <2>5, <3>3 DEF Covered
  <2>7. ChainInv'
    BY <2>3 DEF FeeInv, ChainInv
  <2> QED BY <1>1, <1>3, <2>2, <2>3, <2>4, <2>6, <2>7, HookMoves DEF op
<1>6. CASE submit(h)
  <2> DEFINE b == {chain.height + 1}
             n == chain.allowance[op.account] - Pulled(op)
             new == [op EXCEPT !.step = "receipt", !.block = b]
  <2>1. PICK held, txs :
            /\ Pulled(op) <= chain.allowance[op.account]
            /\ chain' = [chain EXCEPT !.allowance[op.account] = n, !.private[op.account] = held, !.txs = txs]
            /\ ops' = [ops EXCEPT ![h].step = "receipt", ![h].block = b]
    BY <1>6 DEF submit
  <2>2. ops' = [ops EXCEPT ![h] = new]
    <3> HIDE DEF b
    <3> QED BY <1>2, <2>1
  <2>3. DOMAIN new = OpFields /\ new.step = "receipt" /\ new.rest = op.rest /\ Started(new) = Started(op)
    <3> HIDE DEF b
    <3> QED BY <1>2 DEF OpFields, Started
  <2>4. n \in Nat
    <3>1. Pulled(op) \in Nat /\ chain.allowance[op.account] \in Nat
      BY <1>2, PulledFacts DEF FeeInv, ChainInv
    <3> QED BY <2>1, <3>1
  <2>5. chain'.allowance = [chain.allowance EXCEPT ![op.account] = n] /\ DOMAIN chain' = DOMAIN chain
    <3> HIDE DEF n
    <3> QED BY <2>1 DEF FeeInv, ChainInv
  <2> HIDE DEF new, n, op
  <2>6. ChainInv' /\ \A a \in Accounts : a # op.account => chain'.allowance[a] = chain.allowance[a]
    BY <1>2, <2>4, <2>5 DEF FeeInv, ChainInv
  <2>7. OpInv(new)
    BY <1>4, <2>3
  <2>8. Covered(new, chain'.allowance[new.account])
    BY <2>3 DEF Covered
  <2> QED BY <1>1, <1>3, <2>2, <2>3, <2>6, <2>7, <2>8, HookMoves DEF op
<1> QED BY <1>5, <1>6

\* The receipt, or a failure.
LEMMA EndKeeps ==
    ASSUME FeeInv, NEW h \in Hooks, received(h) \/ throws(h)
    PROVE  FeeInv'
PROOF
<1>1. ops[h] # Idle /\ chain' = chain
  BY DEF received, throws
<1>2. AppInv /\ ChainInv
  BY DEF FeeInv
<1>3. PICK a : DOMAIN a = AppFields /\ a.account = app.account /\ FeeTokenInv(a) /\ settle(h, a)
  <2>1. CASE throws(h)
    BY <1>2, <2>1 DEF throws, AppInv
  <2>2. CASE received(h)
    <3>1. PICK block \in ops[h].block :
              settle(h, [updateLastTxBlockNumber(app, block) EXCEPT
                           !.recorded = @ \cup {[account |-> ops[h].account, block |-> block,
                                                  kept |-> ops[h].account = app.account]}])
      BY <2>2 DEF received
    <3> DEFINE u == updateLastTxBlockNumber(app, block)
               rec == u.recorded \cup {[account |-> ops[h].account, block |-> block,
                                         kept |-> ops[h].account = app.account]}
               a == [u EXCEPT !.recorded = rec]
    <3>2. settle(h, a)
      BY <3>1
    <3>3. DOMAIN u = AppFields /\ u.account = app.account /\ u.balances = app.balances /\ u.feeToken = app.feeToken
      BY <1>2 DEF updateLastTxBlockNumber, AppInv, AppFields
    <3> HIDE DEF u, rec
    <3>4. DOMAIN a = AppFields /\ a.account = app.account /\ FeeTokenInv(a)
      BY <1>2, <3>3 DEF AppInv, AppFields, FeeTokenInv
    <3> QED BY <3>2, <3>4
  <2> QED BY <2>1, <2>2
<1>4. AppInv' /\ ops' = [ops EXCEPT ![h] = Idle]
  BY <1>2, <1>3, SettleKeeps DEF AppInv
<1>5. ChainInv'
  BY <1>1, <1>2 DEF ChainInv
<1> QED BY <1>1, <1>4, <1>5, HookMoves

\* An operation starts: it is alone, or neither of the two is.
LEMMA StartKeeps ==
    ASSUME FeeInv, NEW h \in Hooks, NEW kind \in Kinds, NEW deposits \in SUBSET Tokens, start(h, kind, deposits)
    PROVE  FeeInv'
PROOF
<1> DEFINE k == Other(h)
           busy == ops[k] # Idle /\ ops[k].account = app.account
           rest == Awaits(kind, txConfig, deposits)
           op == [step |-> "await", rest |-> rest, account |-> app.account,
                  kind |-> kind, deposits |-> deposits, pm |-> txConfig.pm /\ kind # "register",
                  fee |-> txConfig.fee, floor |-> {}, proving |-> {}, block |-> {}, known |-> {},
                  alone |-> ~busy]
           other == IF busy THEN [ops[k] EXCEPT !.alone = FALSE] ELSE ops[k]
           e == Enter(op)
<1>1. AppInv /\ ChainInv /\ DOMAIN ops = Hooks /\ \A g \in Hooks : ops[g] # Idle => OpInv(ops[g])
  BY DEF FeeInv
<1>2. /\ (h = "builder") <=> (kind = "batch")
      /\ kind = "deposit" => Cardinality(deposits) = 1
      /\ kind \notin {"deposit", "batch"} => deposits = {}
      /\ ops' = [g \in Hooks |-> IF g = h THEN e ELSE IF busy THEN [ops[g] EXCEPT !.alone = FALSE] ELSE ops[g]]
      /\ UNCHANGED <<app, chain, loads>>
  BY DEF start
<1>3. txConfig \in Config
  BY DemoAssumption DEF txConfig, Config
<1>4. rest \in Seq(Await)
  BY <1>3, AwaitsTyped
<1>5. /\ DOMAIN op = OpFields /\ op.rest = rest /\ op.account = app.account /\ op.step = "await"
      /\ op.kind = kind /\ op.deposits = deposits /\ op.pm = (txConfig.pm /\ kind # "register")
      /\ op.fee = txConfig.fee /\ op.alone = ~busy
  <2> HIDE DEF rest, busy
  <2> QED BY DEF OpFields
<1>6. ops'[h] = e /\ ops'[k] = other /\ DOMAIN ops' = Hooks /\ {h, k} = Hooks /\ h # k
  <2>1. {h, k} = Hooks /\ h # k
    BY HooksFacts
  <2> HIDE DEF e, busy, k
  <2> QED BY <1>2, <2>1
<1> HIDE DEF k, rest, op
<1>7. /\ OpInv(e) /\ Started(e) = Started(op) /\ e.rest = rest
      /\ rest # <<>> => e.step = "await"
  BY <1>1, <1>4, <1>5, EnterFacts DEF AppInv
<1>8. e.account = app.account /\ e.alone = ~busy /\ e.fee = txConfig.fee /\ e.kind = kind /\ Pulled(e) = Pulled(op)
  BY <1>5, <1>7, PulledFacts
<1> HIDE DEF e
<1>9. other # Idle => /\ OpInv(other) /\ other.account = ops[k].account /\ ops[k] # Idle
                      /\ busy => ~other.alone
                      /\ ~busy => other = ops[k]
  <2>1. CASE busy
    <3>1. OpInv(ops[k])
      BY <1>1, <1>6, <2>1
    <3> DEFINE o == [ops[k] EXCEPT !.alone = FALSE]
    <3>2. /\ DOMAIN o = OpFields /\ o.alone = FALSE /\ o.account = ops[k].account /\ o.rest = ops[k].rest
          /\ o.step = ops[k].step
      BY <3>1 DEF OpInv, OpFields
    <3>3. other = o
      BY <2>1
    <3> HIDE DEF o, other
    <3> QED BY <2>1, <3>1, <3>2, <3>3 DEF OpInv
  <2>2. CASE ~busy
    BY <1>1, <1>6, <2>2
  <2> QED BY <2>1, <2>2
<1>10. AppInv' /\ ChainInv' /\ chain' = chain
  BY <1>1, <1>2 DEF AppInv, ChainInv, FeeTokenInv
<1> HIDE DEF other
<1>11. \A g \in Hooks : ops'[g] # Idle => OpInv(ops'[g])
  BY <1>6, <1>7, <1>9
<1>12. CASE h = "actions"
  <2>1. ops'["actions"] = e /\ ops'["builder"] = other
    BY <1>6, <1>12, HooksFacts
  <2>2. ASSUME e.alone PROVE other # Idle => other.account # e.account
    BY <1>8, <1>9, <2>2
  <2>3. ASSUME e.fee = PoolFee PROVE Covered(e, chain.allowance[e.account])
    <3>1. chain.allowance[e.account] \in Nat
      BY <1>1, <1>8 DEF AppInv, ChainInv
    <3>2. CASE kind = "mint"
      <4>1. rest = mint
        BY <3>2 DEF rest, Awaits
      <4>2. rest # <<>>
        BY <4>1 DEF mint
      <4> QED BY <1>7, <1>8, <3>2, <4>2 DEF Covered
    <3>3. CASE kind # "mint"
      <4>1. kind \in Kinds \ {"batch", "mint"}
        BY <1>2, <1>12, <3>3, HooksFacts
      <4>2. op.rest = Awaits(op.kind, txConfig, op.deposits)
        BY <1>5 DEF rest
      <4>3. /\ op.kind \in Kinds \ {"batch", "mint"} /\ op.deposits \in SUBSET Tokens
            /\ op.kind = "deposit" => Cardinality(op.deposits) = 1
            /\ op.kind # "deposit" => op.deposits = {}
            /\ op.pm = (txConfig.pm /\ op.kind # "register")
            /\ txConfig.fee = PoolFee
        BY <1>2, <1>5, <1>8, <2>3, <4>1
      <4>4. \/ op.rest # <<>> /\ op.rest[1].do = "refuse"
            \/ NoApprove(op.rest) /\ Pulled(op) = 0
            \/ \E n \in Nat : LastApprove(op.rest, n) /\ Pulled(op) <= n
        BY <1>3, <4>2, <4>3, AwaitsCover
      <4> QED BY <1>5, <1>7, <1>8, <3>1, <4>4 DEF Covered
    <3> QED BY <3>2, <3>3
  <2>4. Sole(e, other, chain.allowance)
    BY <2>2, <2>3 DEF Sole
  <2>5. Sole(ops'["actions"], ops'["builder"], chain'.allowance)
    BY <1>10, <2>1, <2>4
  <2> QED BY <1>6, <1>10, <1>11, <2>5 DEF FeeInv, OpInv, Sole, Covered
<1>13. CASE h = "builder"
  <2>1. ops'["actions"] = other /\ ops'["builder"] = e /\ k = "actions"
    BY <1>6, <1>13, HooksFacts DEF k
  <2>2. Sole(ops["actions"], ops["builder"], chain.allowance)
    BY DEF FeeInv
  <2>3. Sole(other, e, chain.allowance)
    <3>1. CASE busy
      BY <1>9, <3>1 DEF Sole
    <3>2. CASE ~busy
      <4>1. ASSUME other # Idle PROVE other = ops["actions"] /\ other.account # app.account
        BY <1>9, <2>1, <3>2, <4>1
      <4> QED BY <1>8, <2>2, <4>1 DEF Sole
    <3> QED BY <3>1, <3>2
  <2>4. Sole(ops'["actions"], ops'["builder"], chain'.allowance)
    BY <1>10, <2>1, <2>3
  <2> QED BY <1>6, <1>10, <1>11, <2>4 DEF FeeInv, OpInv, Sole, Covered
<1> QED BY <1>12, <1>13, HooksFacts

\* The tab as it is opened.
LEMMA DemoBegins ==
    ASSUME DemoInit
    PROVE  FeeInv
PROOF
<1>1. budget.account \in Accounts
  BY DemoAssumption DEF DemoInit
<1>2. ChainInv /\ chain.allowance = [a \in Accounts |-> 0]
  <2> DEFINE txs == UNION {{[owner |-> a, block |-> b, id |-> 0] : b \in PastBlocks[a]} : a \in Accounts}
  <2>1. chain = [height |-> StartBlock, txs |-> txs, allowance |-> [a \in Accounts |-> 0], private |-> Private]
    BY DEF DemoInit
  <2> HIDE DEF txs
  <2> QED BY <2>1 DEF ChainInv
<1>3. ops = [h \in Hooks |-> Idle]
  BY DEF DemoInit
<1>4. ASSUME NEW account \in Accounts, NEW token
      PROVE  LET a == Opened(account, token).app
             IN  DOMAIN a = AppFields /\ a.account = account /\ a.balances = {} /\ a.feeToken = token
  <2> DEFINE a == [account |-> account, paymasterEnabled |-> TRUE, feeToken |-> token, feeAmount |-> FALSE,
                   balances |-> {}, cursor |-> {}, txs |-> <<>>, from |-> {}, autoFetched |-> FALSE,
                   loading |-> FALSE, complete |-> FALSE, lastTx |-> {}, recorded |-> {}]
             r == Result(a, EmptyBag)
  <2>1. DOMAIN a = AppFields /\ a.account = account /\ a.balances = {} /\ a.feeToken = token
    BY DEF AppFields
  <2>2. Opened(account, token) = refreshEffect(r)
    BY DEF Opened
  <2> HIDE DEF a
  <2>3. Shaped(r) /\ r.app = a
    BY <2>1, ResultFacts
  <2> HIDE DEF r
  <2>4. Alike(refreshEffect(r), r)
    BY <2>3, RequestFacts
  <2> QED BY <2>1, <2>2, <2>3, <2>4 DEF Alike, Shaped
<1>5. AppInv
  <2>1. CASE ~budget.loaded
    <3>1. PICK token : app = Opened(budget.account, token).app
      BY <2>1 DEF DemoInit
    <3> QED BY <1>1, <1>4, <3>1 DEF AppInv, FeeTokenInv
  <2>2. CASE budget.loaded
    <3> DEFINE account == budget.account
               t == CHOOSE t \in Private[account] : TRUE
               o == Opened(account, {t}).app
               all == NewestFirst(HistoryOf({account}, chain.height))
               page == FirstFew(all, PageSize)
               complete == (Len(all) <= PageSize)
               from == {[cursor |-> {account}, last |-> {Last(page)}]}
               a == [o EXCEPT !.feeAmount = TRUE, !.balances = Private[account], !.cursor = {account},
                              !.autoFetched = TRUE, !.txs = page, !.complete = complete, !.from = from]
    <3>1. app = Loaded(account).app
      BY <2>2 DEF DemoInit
    <3>5. Loaded(account) = Result(initLastTxBlock(a), EmptyBag)
      BY DEF Loaded
    <3> HIDE DEF page, complete, from, all
    <3>2. DOMAIN o = AppFields /\ o.account = account /\ o.feeToken = {t}
      BY <1>1, <1>4
    <3>3. Private[account] # {} => t \in Private[account]
      OBVIOUS
    <3> HIDE DEF o, t
    <3>4. DOMAIN a = AppFields /\ a.account = account /\ a.feeToken = {t} /\ a.balances = Private[account]
      BY <3>2 DEF AppFields
    <3> HIDE DEF a
    <3>7. app = initLastTxBlock(a)
      BY <3>1, <3>5 DEF Result
    <3>6. DOMAIN app = AppFields /\ app.account = account /\ app.feeToken = {t} /\ app.balances = Private[account]
      BY <3>4, <3>7 DEF initLastTxBlock, AppFields
    <3> QED BY <1>1, <3>3, <3>6 DEF AppInv, FeeTokenInv
  <2> QED BY <2>1, <2>2
<1>6. DOMAIN ops = Hooks /\ \A h \in Hooks : ops[h] = Idle
  BY <1>3
<1> QED BY <1>2, <1>5, <1>6, HooksFacts DEF FeeInv, Sole

\* Every step keeps FeeInv.
LEMMA FeesKept ==
    ASSUME FeeInv, [DemoNext]_demoVars
    PROVE  FeeInv'
PROOF
<1>1. ASSUME AppInv', UNCHANGED <<chain, ops>> PROVE FeeInv'
  BY <1>1 DEF FeeInv, ChainInv, OpInv, Sole, Covered
<1>2. CASE UNCHANGED demoVars
  <2>1. AppInv'
    BY <1>2 DEF demoVars, FeeInv, AppInv, FeeTokenInv
  <2> QED BY <1>1, <1>2, <2>1 DEF demoVars
<1>3. CASE \E l \in BagToSet(loads) :
              refreshed(l) \/ pageAnswered(l) \/ pageShown(l) \/ latestAnswered(l) \/ loadFails(l)
  BY <1>1, <1>3, LoadsKept DEF FeeInv
<1>4. CASE \/ \E account \in Accounts : switch(account)
           \/ clickRefresh \/ clickHistory \/ togglePaymaster \/ initFeeConfig
           \/ \E token \in Tokens : selectFeeToken(token)
  BY <1>1, <1>4, ClicksKept DEF FeeInv
<1>5. CASE newBlock
  <2>1. UNCHANGED <<app, ops>> /\ chain' = [chain EXCEPT !.height = @ + 1]
    BY <1>5 DEF newBlock
  <2>2. DOMAIN chain' = DOMAIN chain /\ chain'.allowance = chain.allowance
    BY <2>1 DEF FeeInv, ChainInv
  <2>3. AppInv' /\ ChainInv'
    BY <2>1, <2>2 DEF FeeInv, AppInv, FeeTokenInv, ChainInv
  <2> QED BY <2>1, <2>2, <2>3 DEF FeeInv, OpInv, Sole, Covered
<1>6. CASE \E h \in Hooks, kind \in Kinds, deposits \in SUBSET Tokens : start(h, kind, deposits)
  BY <1>6, StartKeeps
<1>7. CASE \E h \in Hooks : step(h) \/ chooseBlock(h) \/ prove(h) \/ submit(h) \/ received(h) \/ throws(h)
  BY <1>7, StepKeeps, ProvingKeeps, EndKeeps
<1> QED BY <1>2, <1>3, <1>4, <1>5, <1>6, <1>7 DEF DemoNext

\* FeeInv is inductive.
THEOREM FeesHold == DemoSpec => []FeeInv
PROOF
<1>1. DemoInit => FeeInv
  BY DemoBegins
<1>2. FeeInv /\ [DemoNext]_demoVars => FeeInv'
  BY FeesKept
<1> QED BY <1>1, <1>2, PTL DEF DemoSpec

\* ensureFeeApproval, deposit, App: an operation of useTransactions that is alone
\* reaches the pool with the allowance that is pulled from it, and the paymaster is paid
\* in a token of the displayed balances, for every fee, amount, number of accounts and
\* tokens, and whatever the other hook, the loads and the user do meanwhile.
THEOREM FeesArePayable == DemoSpec => []FeePayable
PROOF
<1>1. FeeInv => FeePayable
  <2> SUFFICES ASSUME FeeInv PROVE FeePayable
    OBVIOUS
  <2>1. app.balances # {} => app.feeToken # {} /\ app.feeToken \subseteq app.balances
    BY DEF FeeInv, AppInv, FeeTokenInv
  <2> DEFINE op == ops["actions"]
  <2>2. ASSUME op # Idle, op.step = "submit", op.fee = PoolFee, op.alone
        PROVE  chain.allowance[op.account] >= Pulled(op)
    <3>1. OpInv(op) /\ Covered(op, chain.allowance[op.account])
      BY <2>2, HooksFacts DEF FeeInv, Sole
    <3>2. op.rest = <<>> /\ op.account \in Accounts
      BY <2>2, <3>1 DEF OpInv
    <3>3. ~\E n \in Nat : LastApprove(op.rest, n)
      <4>1. DOMAIN op.rest = {}
        BY <3>2
      <4> QED BY <4>1 DEF LastApprove
    <3>4. Pulled(op) <= chain.allowance[op.account]
      BY <2>2, <3>1, <3>3 DEF Covered
    <3>5. Pulled(op) \in Nat /\ chain.allowance[op.account] \in Nat
      BY <3>2, PulledFacts DEF FeeInv, ChainInv
    <3> QED BY <3>4, <3>5
  <2> QED BY <2>1, <2>2 DEF FeePayable
<1> QED BY <1>1, FeesHold, PTL

-----------------------------------------------------------------------------
(***************************************************************************)
(* The operations: the inductive invariant of the proving block.           *)
(***************************************************************************)
Tx == [owner : Accounts, block : Nat, id : Nat]
LoadFields == {"kind", "account", "cursor", "from", "txs", "latest"}

Single(S) == \A x, y \in S : x = y

\* A cursor is that of one account, and so is the one a page is read on from.
FromInv(from) == Single(from) /\ \A f \in from : Single(f.cursor)

LoadInv(l) == DOMAIN l = LoadFields /\ Single(l.cursor) /\ FromInv(l.from) /\ l.txs \in Seq(Tx)

\* A completed transaction.  Unless its account has been left since, it is no later
\* than the floor.
Completed == [account : Accounts, block : Nat, kept : BOOLEAN]
Floored(t, floor) == t \in Completed /\ (t.kept => \E last \in floor : t.block <= last)

\* The last block is one, and no completed transaction of an account not left since is later.
TabInv(a) ==
    /\ Single(a.cursor) /\ FromInv(a.from) /\ a.txs \in Seq(Tx)
    /\ a.lastTx \in SUBSET Nat /\ Single(a.lastTx)
    /\ \A t \in a.recorded : Floored(t, a.lastTx)

\* The floor an operation has read is no earlier than the blocks it knows of
\* transactions whose account stayed active, and the proving block no earlier than it.
FloorOp(op) ==
    /\ op.floor \in SUBSET Nat /\ op.proving \in SUBSET Int /\ op.block \in SUBSET Nat
    /\ \A t \in op.known : Floored(t, op.floor)
    /\ \A p \in op.proving, t \in op.known : t.kept => t.block <= p
    /\ op.step = "await" => op.proving = {}

LedgerInv == chain.height \in Nat /\ chain.txs \in SUBSET Tx /\ IsFiniteSet(chain.txs)

FloorInv ==
    /\ FeeInv
    /\ TabInv(app)
    /\ \A l \in BagToSet(loads) : LoadInv(l)
    /\ LedgerInv
    /\ \A h \in Hooks : ops[h] # Idle => FloorOp(ops[h])

-----------------------------------------------------------------------------
(***************************************************************************)
(* Transactions in order.                                                  *)
(***************************************************************************)

\* In a finite set under a total order, some element has i - 1 elements before it.
LEMMA Ranked ==
    ASSUME NEW S, IsFiniteSet(S), NEW R,
           \A t, u \in S : t # u => <<t, u>> \in R \/ <<u, t>> \in R,
           \A t \in S : <<t, t>> \notin R,
           \A t, u, v \in S : <<t, u>> \in R /\ <<u, v>> \in R => <<t, v>> \in R,
           NEW i \in 1 .. Cardinality(S)
    PROVE  \E t \in S : Cardinality({u \in S : <<u, t>> \in R}) = i - 1
PROOF
<1> DEFINE n == Cardinality(S)
           above(t) == {u \in S : <<u, t>> \in R}
           f == [t \in S |-> Cardinality(above(t))]
<1>1. n \in Nat
  BY FS_CardinalityType
<1>2. ASSUME NEW t \in S PROVE IsFiniteSet(above(t)) /\ Cardinality(above(t)) \in 0 .. n - 1
  <2>1. above(t) \in SUBSET (S \ {t})
    OBVIOUS
  <2>2. IsFiniteSet(S \ {t}) /\ Cardinality(S \ {t}) = n - 1
    BY FS_RemoveElement
  <2> HIDE DEF above, n
  <2>3. IsFiniteSet(above(t)) /\ Cardinality(above(t)) <= n - 1
    BY <2>1, <2>2, FS_Subset
  <2>4. Cardinality(above(t)) \in Nat
    BY <2>3, FS_CardinalityType
  <2> QED BY <1>1, <2>3, <2>4
<1>3. ASSUME NEW t \in S, NEW u \in S, <<t, u>> \in R PROVE f[t] # f[u]
  <2>1. above(t) \in SUBSET above(u) /\ t \in above(u) /\ t \notin above(t)
    BY <1>3
  <2>2. f[t] = Cardinality(above(t)) /\ f[u] = Cardinality(above(u))
    OBVIOUS
  <2> HIDE DEF above, f
  <2> QED BY <1>2, <2>1, <2>2, FS_Subset
<1>4. f \in [S -> 0 .. n - 1]
  BY <1>2
<1> HIDE DEF f, n
<1>5. \A t, u \in S : f[t] = f[u] => t = u
  BY <1>3
<1>6. f \in Injection(S, 0 .. n - 1)
  BY <1>4, <1>5 DEF Injection, IsInjective
<1>7. IsFiniteSet(0 .. n - 1) /\ Cardinality(0 .. n - 1) = n
  BY <1>1, FS_Interval
<1>8. f \in Surjection(S, 0 .. n - 1)
  BY <1>6, <1>7, FS_Injection DEF n
<1>9. i - 1 \in 0 .. n - 1
  BY <1>1 DEF n
<1>10. \E t \in S : f[t] = i - 1
  BY <1>8, <1>9 DEF Surjection
<1> QED BY <1>10 DEF f

\* A finite set of natural numbers that is not empty has a greatest one.
LEMMA MaxOf ==
    ASSUME NEW S \in SUBSET Nat, IsFiniteSet(S), S # {}
    PROVE  Max(S) \in S
PROOF
<1> DEFINE R == {p \in Nat \X Nat : p[1] > p[2]}
<1>1. \A t, u \in Nat : <<t, u>> \in R <=> t > u
  OBVIOUS
<1> HIDE DEF R
<1>2. Cardinality(S) \in Nat /\ 1 \in 1 .. Cardinality(S)
  <2>1. Cardinality(S) \in Nat /\ Cardinality(S) # 0
    BY FS_CardinalityType, FS_EmptySet
  <2> QED BY <2>1
<1>3. \A t, u \in S : t # u => <<t, u>> \in R \/ <<u, t>> \in R
  BY <1>1
<1>4. \A t \in S : <<t, t>> \notin R
  BY <1>1
<1>5. \A t, u, v \in S : <<t, u>> \in R /\ <<u, v>> \in R => <<t, v>> \in R
  BY <1>1
<1>6. PICK t \in S : Cardinality({u \in S : <<u, t>> \in R}) = 1 - 1
  <2>1. \A i \in 1 .. Cardinality(S) : \E t \in S : Cardinality({u \in S : <<u, t>> \in R}) = i - 1
    BY <1>3, <1>4, <1>5, Ranked, ZenonT(40)
  <2> QED BY <1>2, <2>1
<1>7. {u \in S : <<u, t>> \in R} = {}
  <2> DEFINE U == {u \in S : <<u, t>> \in R}
  <2>1. U \in SUBSET S /\ Cardinality(U) = 0
    BY <1>6
  <2> HIDE DEF U
  <2>2. U = {}
    BY <2>1, FS_Subset, FS_EmptySet
  <2> QED BY <2>2 DEF U
<1>8. \A u \in S : t >= u
  <2> SUFFICES ASSUME NEW u \in S PROVE t >= u
    OBVIOUS
  <2>1. <<u, t>> \notin R
    BY <1>7
  <2>2. t \in Nat /\ u \in Nat
    OBVIOUS
  <2> QED BY <1>1, <2>1, <2>2
<1> QED BY <1>8 DEF Max

\* The transactions of one account, put in order.
LEMMA NewestTyped ==
    ASSUME NEW S \in SUBSET Tx, IsFiniteSet(S), \A t, u \in S : t.owner = u.owner
    PROVE  NewestFirst(S) \in Seq(Tx)
PROOF
<1> DEFINE R == {p \in Tx \X Tx : Newer(p[1], p[2])}
<1>1. \A t, u \in Tx : <<t, u>> \in R <=> Newer(t, u)
  OBVIOUS
<1> HIDE DEF R
<1>2. \A t \in S : t \in Tx /\ t.block \in Nat /\ t.id \in Nat
  BY DEF Tx
<1>3. \A t, u \in S : t # u => <<t, u>> \in R \/ <<u, t>> \in R
  <2> SUFFICES ASSUME NEW t \in S, NEW u \in S, t # u PROVE <<t, u>> \in R \/ <<u, t>> \in R
    OBVIOUS
  <2>1. t.block # u.block \/ t.id # u.id
    <3>1. t \in Tx /\ u \in Tx /\ t.owner = u.owner
      OBVIOUS
    <3> QED BY ONLY <3>1, t # u DEF Tx
  <2> QED BY <1>1, <1>2, <2>1 DEF Newer
<1>4. \A t \in S : <<t, t>> \notin R
  BY <1>1, <1>2 DEF Newer
<1>5. \A t, u, v \in S : <<t, u>> \in R /\ <<u, v>> \in R => <<t, v>> \in R
  BY <1>1, <1>2 DEF Newer
<1>6. ASSUME NEW i \in 1 .. Cardinality(S)
      PROVE  (CHOOSE t \in S : Cardinality({u \in S : Newer(u, t)}) = i - 1) \in S
  <2>1. PICK t \in S : Cardinality({u \in S : <<u, t>> \in R}) = i - 1
    BY <1>3, <1>4, <1>5, Ranked, SMTT(30)
  <2>2. {u \in S : <<u, t>> \in R} = {u \in S : Newer(u, t)}
    BY <1>1, <1>2
  <2> QED BY <2>1, <2>2
<1>7. Cardinality(S) \in Nat
  BY FS_CardinalityType
<1>8. NewestFirst(S) \in [1 .. Cardinality(S) -> S]
  BY <1>6 DEF NewestFirst
<1> QED BY <1>7, <1>8

\* A page of them.
LEMMA FirstFewTyped ==
    ASSUME NEW s \in Seq(Tx), NEW n \in Nat
    PROVE  FirstFew(s, n) \in Seq(Tx)
PROOF
<1>1. Min({n, Len(s)}) \in Nat /\ Min({n, Len(s)}) <= Len(s)
  <2>1. \E x \in {n, Len(s)} : \A y \in {n, Len(s)} : x <= y
    OBVIOUS
  <2>2. Min({n, Len(s)}) \in {n, Len(s)} /\ \A y \in {n, Len(s)} : Min({n, Len(s)}) <= y
    BY <2>1 DEF Min
  <2> QED BY <2>2
<1> DEFINE k == Min({n, Len(s)})
<1> HIDE DEF k
<1>2. SubSeq(s, 1, k) \in Seq(Tx)
  <2>1. k \in Nat /\ k <= Len(s) /\ Len(s) \in Nat
    BY <1>1 DEF k
  <2>2. \A i \in 1 .. k : s[i] \in Tx
    BY <2>1
  <2> QED BY <2>1, <2>2, SubSeqProperties
<1> QED BY <1>2 DEF FirstFew, k

-----------------------------------------------------------------------------
(***************************************************************************)
(* The tab and its requests, again: the history and the last block.        *)
(***************************************************************************)

LoadsInv(ls) == \A l \in BagToSet(ls) : LoadInv(l)
ResultInv(r) == Shaped(r) /\ TabInv(r.app) /\ LoadsInv(r.loads)

\* A request that is made of parts that fit.
LEMMA LoadFacts ==
    ASSUME NEW kind, NEW account, NEW cursor, NEW from, NEW latest, Single(cursor), FromInv(from)
    PROVE  LoadInv(Load(kind, account, cursor, from, <<>>, latest))
PROOF
<1> DEFINE l == Load(kind, account, cursor, from, <<>>, latest)
<1>1. DOMAIN l = LoadFields /\ l.cursor = cursor /\ l.from = from /\ l.txs = <<>>
  BY DEF Load, LoadFields
<1>2. <<>> \in Seq(Tx)
  OBVIOUS
<1> HIDE DEF l
<1>3. LoadInv(l)
  BY <1>1, <1>2 DEF LoadInv
<1> QED BY <1>3 DEF l

\* Nothing is requested for nothing.
LEMMA NothingFits == Single({}) /\ FromInv({})
BY DEF Single, FromInv

\* A request joins those in flight.
LEMMA SendFits ==
    ASSUME NEW r, ResultInv(r), NEW l, LoadInv(l)
    PROVE  ResultInv(Send(r, l))
PROOF
<1> DEFINE ls == r.loads (+) SetToBag({l})
<1>1. BagToSet(ls) = BagToSet(r.loads) \cup {l}
  BY DEF BagToSet, SetToBag, (+)
<1>2. Send(r, l) = [r EXCEPT !.loads = ls]
  BY DEF Send
<1> HIDE DEF ls
<1>3. Shaped(Send(r, l)) /\ Send(r, l).app = r.app /\ Send(r, l).loads = ls
  BY <1>2 DEF ResultInv, Shaped
<1>4. LoadsInv(ls)
  BY <1>1 DEF ResultInv, LoadsInv
<1> QED BY <1>3, <1>4 DEF ResultInv

\* What changes none of the fields in question.
LEMMA TabLike ==
    ASSUME NEW a, NEW b, TabInv(b), a.cursor = b.cursor, a.from = b.from, a.txs = b.txs, a.lastTx = b.lastTx,
           a.recorded = b.recorded
    PROVE  TabInv(a)
BY DEF TabInv

\* The effects.
LEMMA EffectsFit ==
    ASSUME NEW r, ResultInv(r), NEW account
    PROVE  /\ ResultInv(refreshEffect(r)) /\ ResultInv(refreshAll(r))
           /\ ResultInv(fetchMore(r, account)) /\ ResultInv(refreshLatest(r, account))
           /\ ResultInv(autoFetch(r))
PROOF
<1>1. ASSUME NEW latest
      PROVE  ResultInv(Send(Result([r.app EXCEPT !.cursor = {}], r.loads),
                            Load("refresh", r.app.account, {}, {}, <<>>, latest)))
  <2> DEFINE a == [r.app EXCEPT !.cursor = {}]
             l == Load("refresh", r.app.account, {}, {}, <<>>, latest)
  <2>1. /\ DOMAIN a = AppFields /\ a.cursor = {} /\ a.from = r.app.from /\ a.txs = r.app.txs
        /\ a.lastTx = r.app.lastTx /\ a.recorded = r.app.recorded
    BY DEF ResultInv, Shaped, AppFields
  <2> HIDE DEF a
  <2>2. TabInv(a)
    BY <2>1, NothingFits DEF TabInv, ResultInv
  <2>3. ResultInv(Result(a, r.loads))
    BY <2>1, <2>2, ResultFacts DEF ResultInv
  <2>4. LoadInv(l)
    BY LoadFacts, NothingFits
  <2> HIDE DEF l
  <2>5. ResultInv(Send(Result(a, r.loads), l))
    BY <2>3, <2>4, SendFits
  <2> QED BY <2>5 DEF a, l
<1>2. ResultInv(refreshEffect(r)) /\ ResultInv(refreshAll(r))
  BY <1>1 DEF refreshEffect, refreshAll
<1>3. ASSUME NEW q, ResultInv(q), NEW kind, NEW a, NEW from, FromInv(from)
      PROVE  ResultInv(Send([q EXCEPT !.app.loading = TRUE], Load(kind, a, q.app.cursor, from, <<>>, FALSE)))
  <2> DEFINE p == [q EXCEPT !.app.loading = TRUE]
             l == Load(kind, a, q.app.cursor, from, <<>>, FALSE)
  <2>1. /\ Shaped(p) /\ p.loads = q.loads
        /\ p.app.cursor = q.app.cursor /\ p.app.from = q.app.from /\ p.app.txs = q.app.txs
        /\ p.app.lastTx = q.app.lastTx /\ p.app.recorded = q.app.recorded
    BY <1>3 DEF ResultInv, Shaped, AppFields
  <2> HIDE DEF p
  <2>2. TabInv(p.app)
    BY <1>3, <2>1, TabLike DEF ResultInv
  <2>3. ResultInv(p)
    BY <1>3, <2>1, <2>2 DEF ResultInv
  <2>4. LoadInv(l)
    BY <1>3, LoadFacts DEF ResultInv, TabInv
  <2> HIDE DEF l
  <2>5. ResultInv(Send(p, l))
    BY <2>3, <2>4, SendFits
  <2> QED BY <2>5 DEF p, l
<1>4. ASSUME NEW q, ResultInv(q), NEW a PROVE ResultInv(fetchMore(q, a)) /\ ResultInv(refreshLatest(q, a))
  <2>1. FromInv(q.app.from)
    BY <1>4 DEF ResultInv, TabInv
  <2>2. ResultInv(Send([q EXCEPT !.app.loading = TRUE], Load("page", a, q.app.cursor, q.app.from, <<>>, FALSE)))
    BY <1>3, <1>4, <2>1
  <2>3. ResultInv(Send([q EXCEPT !.app.loading = TRUE], Load("latest", a, q.app.cursor, {}, <<>>, FALSE)))
    BY <1>3, <1>4, NothingFits
  <2> QED BY <1>4, <2>2, <2>3 DEF fetchMore, refreshLatest
<1>5. ResultInv(autoFetch(r))
  <2> DEFINE q == [r EXCEPT !.app.autoFetched = TRUE]
  <2>1. /\ Shaped(q) /\ q.loads = r.loads
        /\ q.app.cursor = r.app.cursor /\ q.app.from = r.app.from /\ q.app.txs = r.app.txs
        /\ q.app.lastTx = r.app.lastTx /\ q.app.recorded = r.app.recorded
    BY DEF ResultInv, Shaped, AppFields
  <2> HIDE DEF q
  <2>2. TabInv(q.app)
    BY <2>1, TabLike DEF ResultInv
  <2>3. ResultInv(q)
    BY <2>1, <2>2 DEF ResultInv
  <2>4. ResultInv(fetchMore(q, r.app.account))
    BY <1>4, <2>3
  <2> QED BY <2>4 DEF autoFetch, q
<1> QED BY <1>2, <1>4, <1>5

\* The effects of a commit.
LEMMA CommittedKeeps ==
    ASSUME NEW r, ResultInv(r)
    PROVE  ResultInv(Committed(r))
PROOF
<1> DEFINE q == autoFetch(r)
           t == {CHOOSE t \in q.app.balances : TRUE}
           p == [q EXCEPT !.app.feeToken = t]
<1>1. ResultInv(q)
  BY EffectsFit
<1>2. Committed(r) \in {q, refreshEffect(p)}
  BY DEF Committed, feeTokenEffect
<1> HIDE DEF q, t
<1>3. /\ Shaped(p) /\ p.loads = q.loads
      /\ p.app.cursor = q.app.cursor /\ p.app.from = q.app.from /\ p.app.txs = q.app.txs
      /\ p.app.lastTx = q.app.lastTx /\ p.app.recorded = q.app.recorded
  BY <1>1 DEF ResultInv, Shaped, AppFields
<1> HIDE DEF p
<1>4. TabInv(p.app)
  BY <1>1, <1>3, TabLike DEF ResultInv
<1>5. ResultInv(p)
  BY <1>1, <1>3, <1>4 DEF ResultInv
<1>6. ResultInv(refreshEffect(p))
  BY <1>5, EffectsFit
<1> QED BY <1>1, <1>2, <1>6

\* The last block, initialised from the transactions shown.
LEMMA InitLastTx ==
    ASSUME NEW a, DOMAIN a = AppFields, TabInv(a)
    PROVE  TabInv(initLastTxBlock(a)) /\ DOMAIN initLastTxBlock(a) = AppFields
PROOF
<1>1. CASE ~(a.lastTx = {} /\ a.txs # <<>>)
  BY <1>1 DEF initLastTxBlock
<1>2. CASE a.lastTx = {} /\ a.txs # <<>>
  <2> DEFINE s == a.txs
             B == {t.block : t \in ToSet(s)}
             b == [a EXCEPT !.lastTx = {Max(B)}]
  <2>1. s \in Seq(Tx) /\ s # <<>> /\ DOMAIN s = 1 .. Len(s) /\ Len(s) \in Nat \ {0}
    BY <1>2 DEF TabInv
  <2>2. \A i \in DOMAIN s : s[i] \in Tx /\ s[i].block \in Nat
    <3>1. \A i \in DOMAIN s : s[i] \in Tx
      BY <2>1
    <3>2. \A t \in Tx : t.block \in Nat
      BY DEF Tx
    <3> QED BY <3>1, <3>2
  <2>3. B = {s[i].block : i \in DOMAIN s}
    BY <2>1 DEF ToSet
  <2> DEFINE f == [i \in DOMAIN s |-> s[i].block]
  <2>4. f \in Surjection(DOMAIN s, B)
    BY <2>3 DEF Surjection
  <2>5. B \in SUBSET Nat /\ B # {}
    <3>1. 1 \in DOMAIN s
      BY <2>1
    <3> HIDE DEF B
    <3> QED BY <2>2, <2>3, <3>1
  <2>6. IsFiniteSet(DOMAIN s)
    BY <2>1, FS_Interval
  <2>7. IsFiniteSet(B)
    <3> HIDE DEF B, f
    <3> QED BY <2>4, <2>6, FS_Surjection
  <2>9. initLastTxBlock(a) = b
    BY <1>2 DEF initLastTxBlock
  <2> HIDE DEF B, s
  <2>8. Max(B) \in Nat
    BY <2>5, <2>7, MaxOf
  <2>10. /\ DOMAIN b = AppFields /\ b.cursor = a.cursor /\ b.from = a.from /\ b.txs = a.txs
         /\ b.lastTx = {Max(B)} /\ b.recorded = a.recorded
    BY DEF AppFields
  <2>11. \A t \in a.recorded : Floored(t, {Max(B)})
    <3>1. \A t \in a.recorded : t \in Completed /\ ~t.kept
      BY <1>2 DEF TabInv, Floored, Completed
    <3> QED BY <3>1 DEF Floored
  <2> HIDE DEF b
  <2>12. TabInv(b)
    BY <2>8, <2>10, <2>11 DEF TabInv, Single
  <2> QED BY <2>9, <2>10, <2>12
<1> QED BY <1>1, <1>2

\* The transactions of one cursor, in order.
LEMMA HistoryTyped ==
    ASSUME LedgerInv, NEW cursor, Single(cursor), NEW height, NEW S \in SUBSET HistoryOf(cursor, height)
    PROVE  NewestFirst(S) \in Seq(Tx)
PROOF
<1>1. S \in SUBSET chain.txs /\ \A t \in S : t.owner \in cursor
  BY DEF HistoryOf
<1>2. S \in SUBSET Tx /\ IsFiniteSet(S)
  BY <1>1, FS_Subset DEF LedgerInv
<1>3. \A t, u \in S : t.owner = u.owner
  BY <1>1 DEF Single
<1> QED BY <1>2, <1>3, NewestTyped

-----------------------------------------------------------------------------
(***************************************************************************)
(* The proving block.                                                      *)
(***************************************************************************)

\* The part of FloorInv that the tab and its requests have.
LEMMA ResultBecomes ==
    ASSUME NEW r, ResultInv(r), Become(r)
    PROVE  TabInv(app)' /\ LoadsInv(loads)'
BY DEF Become, ResultInv, TabInv, LoadsInv

\* An answer taken from the requests in flight.
LEMMA DropFits ==
    ASSUME FloorInv, NEW l
    PROVE  ResultInv(Drop(l)) /\ Drop(l).app = app
PROOF
<1> DEFINE ls == loads (-) SetToBag({l})
<1>1. BagToSet(ls) \subseteq BagToSet(loads)
  BY DEF BagToSet, SetToBag, (-)
<1>2. Drop(l) = Result(app, ls)
  BY DEF Drop
<1> HIDE DEF ls
<1>3. Shaped(Drop(l)) /\ Drop(l).app = app /\ Drop(l).loads = ls
  BY <1>2, ResultFacts DEF FloorInv, FeeInv, AppInv
<1>4. LoadsInv(ls)
  BY <1>1 DEF FloorInv, LoadsInv
<1> QED BY <1>3, <1>4 DEF ResultInv, FloorInv

\* The answers.
LEMMA AnswersFit ==
    ASSUME FloorInv, NEW l \in BagToSet(loads),
           refreshed(l) \/ pageAnswered(l) \/ pageShown(l) \/ latestAnswered(l) \/ loadFails(l)
    PROVE  TabInv(app)' /\ LoadsInv(loads)'
PROOF
<1> DEFINE d == Drop(l)
<1>1. ResultInv(d) /\ d.app = app /\ Shaped(d)
  BY DropFits DEF ResultInv
<1>2. LoadInv(l) /\ LedgerInv
  BY DEF FloorInv
<1>3. TabInv(d.app) /\ LoadsInv(d.loads)
  BY <1>1 DEF ResultInv
<1> HIDE DEF d
\* Transactions are added before or after those shown.
<1>4. ASSUME NEW txs \in Seq(Tx),
             Become([[d EXCEPT !.app.txs = txs, !.app.loading = FALSE] EXCEPT !.app = initLastTxBlock(@)])
      PROVE  TabInv(app)' /\ LoadsInv(loads)'
  <2> DEFINE a == [d.app EXCEPT !.txs = txs, !.loading = FALSE]
             b == initLastTxBlock(a)
             r == [d EXCEPT !.app = b]
  <2>1. [d EXCEPT !.app.txs = txs, !.app.loading = FALSE] = [d EXCEPT !.app = a]
    BY <1>1 DEF Shaped
  <2>2. /\ DOMAIN a = AppFields /\ a.cursor = d.app.cursor /\ a.from = d.app.from /\ a.txs = txs
        /\ a.lastTx = d.app.lastTx /\ a.recorded = d.app.recorded
    BY <1>1 DEF Shaped, AppFields
  <2> HIDE DEF a
  <2>3. TabInv(a)
    BY <1>3, <2>2 DEF TabInv
  <2>4. TabInv(b) /\ DOMAIN b = AppFields
    BY <2>2, <2>3, InitLastTx
  <2>5. [[d EXCEPT !.app = a] EXCEPT !.app = initLastTxBlock(@)] = r
    BY <1>1 DEF Shaped
  <2> HIDE DEF b
  <2>6. Shaped(r) /\ r.app = b /\ r.loads = d.loads
    BY <1>1, <2>4 DEF Shaped
  <2> HIDE DEF r
  <2>7. ResultInv(r)
    BY <1>3, <2>4, <2>6 DEF ResultInv
  <2> QED BY <1>4, <2>1, <2>5, <2>7, ResultBecomes
<1>5. CASE refreshed(l)
  <2> DEFINE shown == [d EXCEPT !.app.cursor = {l.account}, !.app.balances = chain.private[l.account]]
             r == IF l.latest THEN refreshLatest(shown, l.account) ELSE shown
  <2>1. /\ Shaped(shown) /\ shown.loads = d.loads
        /\ shown.app.cursor = {l.account} /\ shown.app.from = d.app.from /\ shown.app.txs = d.app.txs
        /\ shown.app.lastTx = d.app.lastTx /\ shown.app.recorded = d.app.recorded
    BY <1>1 DEF Shaped, AppFields
  <2>2. Become(Committed(r))
    BY <1>5 DEF refreshed, d
  <2> HIDE DEF shown
  <2>3. Single({l.account})
    BY DEF Single
  <2>4. ResultInv(shown)
    BY <1>3, <2>1, <2>3 DEF ResultInv, TabInv
  <2>5. ResultInv(r)
    BY <2>4, EffectsFit
  <2> HIDE DEF r
  <2> QED BY <2>2, <2>5, CommittedKeeps, ResultBecomes
<1>6. CASE pageAnswered(l)
  <2> DEFINE owner == IF l.from = {} THEN l.cursor ELSE UNION {f.cursor : f \in l.from}
             seen == UNION {f.last : f \in l.from}
             all == NewestFirst({t \in HistoryOf(owner, chain.height) : \A last \in seen : Newer(last, t)})
             page == FirstFew(all, PageSize)
             next == [cursor |-> owner, last |-> IF page = <<>> THEN seen ELSE {Last(page)}]
             complete == (Len(all) <= PageSize)
             r == [d EXCEPT !.app.from = {next}, !.app.complete = complete]
             m == [l EXCEPT !.kind = "stamps", !.txs = page]
  <2>1. Become(Send(r, m))
    BY <1>6 DEF pageAnswered, d
  <2>2. Single(owner)
    BY <1>2 DEF LoadInv, FromInv, Single
  <2>3. FromInv({next})
    <3> HIDE DEF owner
    <3>1. next.cursor = owner
      OBVIOUS
    <3> HIDE DEF next
    <3> QED BY <2>2, <3>1 DEF FromInv, Single
  <2>4. all \in Seq(Tx)
    <3> HIDE DEF owner, seen
    <3> DEFINE S == {t \in HistoryOf(owner, chain.height) : \A last \in seen : Newer(last, t)}
    <3>1. S \in SUBSET HistoryOf(owner, chain.height)
      OBVIOUS
    <3> HIDE DEF S
    <3>2. NewestFirst(S) \in Seq(Tx)
      BY <1>2, <2>2, <3>1, HistoryTyped
    <3> QED BY <3>2 DEF S
  <2> HIDE DEF all, next
  <2>5. page \in Seq(Tx)
    BY <2>4, DemoAssumption, FirstFewTyped
  <2> HIDE DEF page, complete
  <2>6. LoadInv(m)
    BY <1>2, <2>5 DEF LoadInv, LoadFields
  <2>7. /\ Shaped(r) /\ r.loads = d.loads
        /\ r.app.cursor = d.app.cursor /\ r.app.from = {next} /\ r.app.txs = d.app.txs
        /\ r.app.lastTx = d.app.lastTx /\ r.app.recorded = d.app.recorded
    <3> DEFINE a == [d.app EXCEPT !.from = {next}, !.complete = complete]
    <3>1. r = [d EXCEPT !.app = a]
      BY <1>1 DEF Shaped
    <3>2. /\ DOMAIN a = AppFields /\ a.cursor = d.app.cursor /\ a.from = {next} /\ a.txs = d.app.txs
          /\ a.lastTx = d.app.lastTx /\ a.recorded = d.app.recorded
      BY <1>1 DEF Shaped, AppFields
    <3> HIDE DEF a, r
    <3> QED BY <1>1, <3>1, <3>2 DEF Shaped
  <2> HIDE DEF m, r
  <2>8. ResultInv(r)
    BY <1>3, <2>3, <2>7 DEF ResultInv, TabInv
  <2> QED BY <2>1, <2>6, <2>8, SendFits, ResultBecomes
<1>7. CASE pageShown(l)
  <2> DEFINE txs == d.app.txs \o l.txs
  <2>1. Become([[d EXCEPT !.app.txs = txs, !.app.loading = FALSE] EXCEPT !.app = initLastTxBlock(@)])
    BY <1>7 DEF pageShown, d
  <2>2. txs \in Seq(Tx)
    BY <1>2, <1>3 DEF LoadInv, TabInv
  <2> HIDE DEF txs
  <2> QED BY <1>4, <2>1, <2>2
<1>8. CASE latestAnswered(l)
  <2> DEFINE all == NewestFirst(HistoryOf(l.cursor, chain.height + 1))
             newest == FirstFew(all, 1)
             fresh == IF ToSet(newest) \subseteq ToSet(app.txs) THEN <<>> ELSE newest
             txs == fresh \o d.app.txs
  <2>1. Become([[d EXCEPT !.app.txs = txs, !.app.loading = FALSE] EXCEPT !.app = initLastTxBlock(@)])
    BY <1>8 DEF latestAnswered, d
  <2>2. all \in Seq(Tx)
    BY <1>2, HistoryTyped DEF LoadInv
  <2> HIDE DEF all
  <2>3. newest \in Seq(Tx)
    BY <2>2, FirstFewTyped
  <2> HIDE DEF newest
  <2>4. fresh \in Seq(Tx) /\ d.app.txs \in Seq(Tx)
    BY <1>3, <2>3 DEF TabInv
  <2> HIDE DEF fresh
  <2>5. txs \in Seq(Tx)
    BY <2>4
  <2> HIDE DEF txs
  <2> QED BY <1>4, <2>1, <2>5
<1>9. CASE loadFails(l)
  <2> DEFINE q == [d EXCEPT !.app.loading = FALSE]
             r == IF l.kind # "refresh" THEN q ELSE IF l.latest THEN refreshLatest(d, l.account) ELSE d
  <2>1. Become(r)
    BY <1>9 DEF loadFails, d
  <2>2. /\ Shaped(q) /\ q.loads = d.loads
        /\ q.app.cursor = d.app.cursor /\ q.app.from = d.app.from /\ q.app.txs = d.app.txs
        /\ q.app.lastTx = d.app.lastTx /\ q.app.recorded = d.app.recorded
    BY <1>1 DEF Shaped, AppFields
  <2> HIDE DEF q
  <2>3. ResultInv(q)
    BY <1>3, <2>2, TabLike DEF ResultInv
  <2>4. ResultInv(r)
    BY <1>1, <2>3, EffectsFit
  <2> HIDE DEF r
  <2> QED BY <2>1, <2>4, ResultBecomes
<1> QED BY <1>5, <1>6, <1>7, <1>8, <1>9

\* The user.
LEMMA ClicksFit ==
    ASSUME FloorInv,
           \/ \E account \in Accounts : switch(account)
           \/ clickRefresh \/ clickHistory \/ togglePaymaster \/ initFeeConfig
           \/ \E token \in Tokens : selectFeeToken(token)
    PROVE  TabInv(app)' /\ LoadsInv(loads)'
PROOF
<1>1. DOMAIN app = AppFields /\ TabInv(app) /\ LoadsInv(loads)
  BY DEF FloorInv, FeeInv, AppInv, LoadsInv
<1>2. ASSUME NEW a, DOMAIN a = AppFields, TabInv(a),
             \/ Become(refreshEffect(Result(a, loads))) \/ Become(refreshAll(Result(a, loads)))
             \/ Become(fetchMore(Result(a, loads), a.account))
      PROVE  TabInv(app)' /\ LoadsInv(loads)'
  <2> DEFINE r == Result(a, loads)
  <2>1. ResultInv(r)
    BY <1>1, <1>2, ResultFacts DEF ResultInv
  <2> HIDE DEF r
  <2>2. ResultInv(refreshEffect(r)) /\ ResultInv(refreshAll(r)) /\ ResultInv(fetchMore(r, a.account))
    BY <2>1, EffectsFit
  <2>3. PICK q : ResultInv(q) /\ Become(q)
    BY <1>2, <2>2 DEF r
  <2> QED BY <2>3, ResultBecomes
<1>3. ASSUME NEW a, DOMAIN a = AppFields, a.cursor = app.cursor, a.from = app.from, a.txs = app.txs,
             a.lastTx = app.lastTx, a.recorded = app.recorded
      PROVE  TabInv(a)
  BY <1>1, <1>3, TabLike
<1>4. ASSUME NEW account \in Accounts, switch(account) PROVE TabInv(app)' /\ LoadsInv(loads)'
  <2> DEFINE left == {[t EXCEPT !.kept = FALSE] : t \in app.recorded}
             a == [app EXCEPT !.account = account, !.cursor = {}, !.balances = {}, !.txs = <<>>, !.complete = FALSE,
                              !.from = {}, !.autoFetched = FALSE, !.lastTx = {}, !.recorded = left]
  <2>1. /\ DOMAIN a = AppFields /\ a.cursor = {} /\ a.from = {} /\ a.txs = <<>> /\ a.lastTx = {}
        /\ a.recorded = left
    BY <1>1 DEF AppFields
  <2>5. \A t \in left : t \in Completed /\ ~t.kept
    BY <1>1 DEF TabInv, Floored, Completed
  <2>2. Become(refreshEffect([Result(app, loads) EXCEPT !.app = a]))
    BY <1>4, ZenonT(40) DEF switch, setActive, Result
  <2>3. [Result(app, loads) EXCEPT !.app = a] = Result(a, loads)
    BY DEF Result
  <2> HIDE DEF a, left
  <2>6. \A t \in left : Floored(t, {})
    BY <2>5 DEF Floored
  <2>4. TabInv(a)
    BY <2>1, <2>6, NothingFits DEF TabInv
  <2> QED BY <1>2, <2>1, <2>2, <2>3, <2>4
<1>5. CASE clickRefresh \/ clickHistory
  BY <1>1, <1>2, <1>5 DEF clickRefresh, clickHistory
<1>6. CASE togglePaymaster
  <2> DEFINE a == [app EXCEPT !.paymasterEnabled = ~@]
  <2>1. /\ DOMAIN a = AppFields /\ a.cursor = app.cursor /\ a.from = app.from /\ a.txs = app.txs
        /\ a.lastTx = app.lastTx /\ a.recorded = app.recorded
    BY <1>1 DEF AppFields
  <2>2. Become(refreshEffect(Result(a, loads)))
    BY <1>6 DEF togglePaymaster
  <2> HIDE DEF a
  <2> QED BY <1>2, <1>3, <2>1, <2>2
<1>7. CASE initFeeConfig
  <2> DEFINE a == [app EXCEPT !.feeAmount = TRUE]
  <2>1. /\ DOMAIN a = AppFields /\ a.cursor = app.cursor /\ a.from = app.from /\ a.txs = app.txs
        /\ a.lastTx = app.lastTx /\ a.recorded = app.recorded
    BY <1>1 DEF AppFields
  <2>2. Become(refreshEffect(Result(a, loads)))
    BY <1>7 DEF initFeeConfig
  <2> HIDE DEF a
  <2> QED BY <1>2, <1>3, <2>1, <2>2
<1>8. ASSUME NEW token \in Tokens, selectFeeToken(token) PROVE TabInv(app)' /\ LoadsInv(loads)'
  <2> DEFINE a == [app EXCEPT !.feeToken = {token}]
  <2>1. /\ DOMAIN a = AppFields /\ a.cursor = app.cursor /\ a.from = app.from /\ a.txs = app.txs
        /\ a.lastTx = app.lastTx /\ a.recorded = app.recorded
    BY <1>1 DEF AppFields
  <2>2. Become(refreshEffect(Result(a, loads)))
    BY <1>8 DEF selectFeeToken
  <2> HIDE DEF a
  <2> QED BY <1>2, <1>3, <2>1, <2>2
<1> QED BY <1>4, <1>5, <1>6, <1>7, <1>8

\* The part of FloorInv that the operations have.
OpsFloor == \A h \in Hooks : ops[h] # Idle => FloorOp(ops[h])

\* The operation of one hook goes on or ends.
LEMMA HookFits ==
    ASSUME FloorInv, NEW h \in Hooks, NEW new, new # Idle => FloorOp(new), ops' = [ops EXCEPT ![h] = new]
    PROVE  OpsFloor'
PROOF
<1>1. DOMAIN ops = Hooks /\ \A k \in Hooks : ops[k] # Idle => FloorOp(ops[k])
  BY DEF FloorInv, FeeInv
<1>2. \A k \in Hooks : ops'[k] = IF k = h THEN new ELSE ops[k]
  BY <1>1
<1>3. \A k \in Hooks : ops'[k] # Idle => FloorOp(ops'[k])
  BY <1>1, <1>2
<1> QED BY <1>3 DEF OpsFloor, FloorOp

\* The end of an operation refreshes the tab.
LEMMA SettleFits ==
    ASSUME FloorInv, NEW h \in Hooks, NEW a, DOMAIN a = AppFields, TabInv(a), settle(h, a)
    PROVE  TabInv(app)' /\ LoadsInv(loads)' /\ OpsFloor'
PROOF
<1> DEFINE r == Result(a, loads)
<1>1. ResultInv(r)
  BY ResultFacts DEF ResultInv, FloorInv, LoadsInv
<1>2. Become(refreshAll(r)) /\ ops' = [ops EXCEPT ![h] = Idle]
  BY DEF settle
<1> HIDE DEF r
<1>3. ResultInv(refreshAll(r))
  BY <1>1, EffectsFit
<1>4. OpsFloor'
  BY <1>2, HookFits
<1> QED BY <1>2, <1>3, <1>4, ResultBecomes

\* The receipt's block becomes the last one unless a later one is known.
LEMMA ReceiptFits ==
    ASSUME NEW a, DOMAIN a = AppFields, TabInv(a), NEW block \in Nat,
           NEW t \in Completed, t.block = block, NEW rec, rec = a.recorded \cup {t}
    PROVE  LET u == [updateLastTxBlockNumber(a, block) EXCEPT !.recorded = rec]
           IN  DOMAIN u = AppFields /\ TabInv(u)
PROOF
<1> DEFINE v == updateLastTxBlockNumber(a, block)
           u == [v EXCEPT !.recorded = rec]
<1>1. /\ DOMAIN v = AppFields /\ v.cursor = a.cursor /\ v.from = a.from /\ v.txs = a.txs
  BY DEF updateLastTxBlockNumber, AppFields
<1>2. /\ v.lastTx \in SUBSET Nat /\ Single(v.lastTx)
      /\ \E last \in v.lastTx : block <= last
      /\ \A r \in a.recorded : Floored(r, v.lastTx)
  <2>1. CASE a.lastTx = {} \/ \E last \in a.lastTx : block > last
    <3>1. v.lastTx = {block}
      BY <2>1 DEF updateLastTxBlockNumber, AppFields
    <3>2. \A r \in a.recorded : r \in Completed /\ (r.kept => r.block <= block)
      BY <2>1 DEF TabInv, Single, Floored, Completed
    <3> HIDE DEF v
    <3>3. \A r \in a.recorded : Floored(r, v.lastTx)
      BY <3>1, <3>2 DEF Floored
    <3> QED BY <3>1, <3>3 DEF Single
  <2>2. CASE ~(a.lastTx = {} \/ \E last \in a.lastTx : block > last)
    <3>1. v.lastTx = a.lastTx
      BY <2>2 DEF updateLastTxBlockNumber
    <3> HIDE DEF v
    <3>2. PICK last \in a.lastTx : last \in Nat /\ ~(block > last)
      BY <2>2 DEF TabInv
    <3> QED BY <3>1, <3>2 DEF TabInv
  <2> QED BY <2>1, <2>2
<1> HIDE DEF v
<1>3. /\ DOMAIN u = AppFields /\ u.cursor = a.cursor /\ u.from = a.from /\ u.txs = a.txs /\ u.lastTx = v.lastTx
      /\ u.recorded = rec
  BY <1>1 DEF AppFields
<1> HIDE DEF u
<1>4. \A r \in rec : Floored(r, v.lastTx)
  BY <1>2 DEF Floored
<1>5. TabInv(u)
  BY <1>2, <1>3, <1>4 DEF TabInv
<1> QED BY <1>3, <1>5 DEF u, v

\* An operation ends.
LEMMA EndsFit ==
    ASSUME FloorInv, NEW h \in Hooks, received(h) \/ throws(h)
    PROVE  TabInv(app)' /\ LoadsInv(loads)' /\ OpsFloor'
PROOF
<1>1. DOMAIN app = AppFields /\ TabInv(app)
  BY DEF FloorInv, FeeInv, AppInv
<1>2. CASE throws(h)
  BY <1>1, <1>2, SettleFits DEF throws
<1>3. CASE received(h)
  <2>1. PICK block \in ops[h].block :
            settle(h, [updateLastTxBlockNumber(app, block) EXCEPT
                         !.recorded = @ \cup {[account |-> ops[h].account, block |-> block,
                                                kept |-> ops[h].account = app.account]}])
    BY <1>3 DEF received
  <2>2. block \in Nat
    BY <1>3, <2>1 DEF received, FloorInv, FloorOp
  <2> DEFINE v == updateLastTxBlockNumber(app, block)
             t == [account |-> ops[h].account, block |-> block, kept |-> ops[h].account = app.account]
             rec == v.recorded \cup {t}
             u == [v EXCEPT !.recorded = rec]
  <2>3. settle(h, u)
    BY <2>1
  <2>4. v.recorded = app.recorded
    BY <1>1 DEF updateLastTxBlockNumber, AppFields
  <2>5. rec = app.recorded \cup {t}
    BY <2>4
  <2>7. t \in Completed /\ t.block = block
    <3>1. ops[h].account \in Accounts
      BY <1>3 DEF received, FloorInv, FeeInv, OpInv
    <3> QED BY <2>2, <3>1 DEF Completed
  <2> HIDE DEF rec, t
  <2>6. DOMAIN u = AppFields /\ TabInv(u)
    BY <1>1, <2>2, <2>5, <2>7, ReceiptFits
  <2> HIDE DEF u
  <2> QED BY <2>3, <2>6, SettleFits
<1> QED BY <1>2, <1>3

\* The floor is read when the awaits are over.
LEMMA EnterFits ==
    ASSUME TabInv(app), NEW op, DOMAIN op = OpFields, FloorOp(op), op.proving = {}
    PROVE  FloorOp(Enter(op))
PROOF
<1> DEFINE known == {t \in app.recorded : t.account = op.account}
           new == [op EXCEPT !.step = "wait", !.floor = app.lastTx, !.known = known]
<1>1. Enter(op) \in {op, new}
  BY DEF Enter, ReadFloor
<1>2. \A t \in known : Floored(t, app.lastTx)
  BY DEF TabInv
<1> HIDE DEF known
<1>3. /\ new.step = "wait" /\ new.floor = app.lastTx /\ new.known = known /\ new.proving = {}
      /\ new.block = op.block
  BY DEF OpFields
<1> HIDE DEF new
<1>4. FloorOp(new)
  BY <1>2, <1>3 DEF FloorOp, TabInv
<1> QED BY <1>1, <1>4

\* An await of an operation is over.
LEMMA StepFits ==
    ASSUME FloorInv, NEW h \in Hooks, step(h)
    PROVE  TabInv(app)' /\ LoadsInv(loads)' /\ LedgerInv' /\ OpsFloor'
PROOF
<1> DEFINE op == ops[h]
           new == [op EXCEPT !.rest = Tail(@)]
           s == Head(op.rest)
<1>1. /\ op # Idle /\ op.step = "await" /\ DOMAIN op = OpFields /\ FloorOp(op)
      /\ DOMAIN app = AppFields /\ TabInv(app) /\ LoadsInv(loads)
  BY DEF FloorInv, FeeInv, OpInv, AppInv, step, LoadsInv
<1>2. /\ chain' = IF s.do = "approve" THEN [chain EXCEPT !.allowance[new.account] = s.amount] ELSE chain
      /\ \/ settle(h, app)
         \/ ops' = [ops EXCEPT ![h] = Enter(new)] /\ UNCHANGED <<app, loads>>
  BY DEF step
<1>3. LedgerInv'
  <2>1. chain'.height = chain.height /\ chain'.txs = chain.txs
    BY <1>2 DEF FloorInv, FeeInv, ChainInv
  <2> QED BY <2>1 DEF FloorInv, LedgerInv
<1>4. /\ DOMAIN new = OpFields /\ new.step = "await" /\ new.floor = op.floor /\ new.proving = op.proving
      /\ new.known = op.known /\ new.block = op.block
  BY <1>1 DEF OpFields
<1> HIDE DEF new, op
<1>5. FloorOp(new) /\ new.proving = {}
  BY <1>1, <1>4 DEF FloorOp
<1>6. CASE settle(h, app)
  BY <1>1, <1>3, <1>6, SettleFits
<1>7. CASE ops' = [ops EXCEPT ![h] = Enter(new)] /\ UNCHANGED <<app, loads>>
  <2>1. FloorOp(Enter(new))
    BY <1>1, <1>4, <1>5, EnterFits
  <2>2. OpsFloor'
    BY <1>7, <2>1, HookFits
  <2>3. TabInv(app)' /\ LoadsInv(loads)'
    BY <1>1, <1>7
  <2> QED BY <1>3, <2>2, <2>3
<1> QED BY <1>2, <1>6, <1>7

\* The block is chosen, later than the floor; the proof is computed; the transaction is
\* executed in the block after the last one.
LEMMA ProvingFits ==
    ASSUME FloorInv, NEW h \in Hooks, chooseBlock(h) \/ prove(h) \/ submit(h)
    PROVE  TabInv(app)' /\ LoadsInv(loads)' /\ LedgerInv' /\ OpsFloor'
PROOF
<1> DEFINE op == ops[h]
<1>1. /\ op # Idle /\ DOMAIN op = OpFields /\ FloorOp(op) /\ DOMAIN ops = Hooks /\ op.account \in Accounts
      /\ TabInv(app) /\ LoadsInv(loads) /\ LedgerInv
  BY DEF FloorInv, FeeInv, OpInv, chooseBlock, prove, submit, LoadsInv
<1>2. TabInv(app)' /\ LoadsInv(loads)'
  <2>1. UNCHANGED <<app, loads>>
    BY DEF chooseBlock, prove, submit
  <2> QED BY <1>1, <2>1
<1>3. CASE chooseBlock(h)
  <2> DEFINE p == waitForProvingBlock(ops[h].floor, chain.height)
             new == [op EXCEPT !.step = "prove", !.proving = p]
  <2>1. ops' = [ops EXCEPT ![h].step = "prove", ![h].proving = p] /\ chain' = chain /\ p # {}
    BY <1>3 DEF chooseBlock
  <2>2. p \in SUBSET Int /\ \A q \in p, last \in op.floor : last <= q
    <3>1. /\ ~(\E last \in op.floor : last >= chain.height - PROVING_BLOCK_DEPTH)
          /\ p = {chain.height - PROVING_BLOCK_DEPTH}
      BY <2>1 DEF waitForProvingBlock
    <3>2. chain.height - PROVING_BLOCK_DEPTH \in Int /\ op.floor \in SUBSET Nat
      BY <1>1, DemoAssumption DEF LedgerInv, FloorOp
    <3> DEFINE q == chain.height - PROVING_BLOCK_DEPTH
    <3> HIDE DEF p, q, op
    <3>3. \A last \in op.floor : last \in Int /\ ~(last >= q)
      BY <3>1, <3>2 DEF q
    <3>4. p = {q} /\ q \in Int
      BY <3>1, <3>2 DEF q
    <3> QED BY <3>3, <3>4
  <2> HIDE DEF p
  <2>3. ops' = [ops EXCEPT ![h] = new]
    BY <1>1, <2>1
  <2>4. new.step = "prove" /\ new.floor = op.floor /\ new.proving = p /\ new.known = op.known /\ new.block = op.block
    BY <1>1 DEF OpFields
  <2> HIDE DEF new, op
  <2>5. \A q \in p, t \in op.known : t.kept => t.block <= q
    <3> SUFFICES ASSUME NEW q \in p, NEW t \in op.known, t.kept PROVE t.block <= q
      OBVIOUS
    <3>1. PICK last \in op.floor : t.block <= last
      BY <1>1 DEF FloorOp, Floored
    <3>2. t.block \in Nat /\ last \in Nat /\ q \in Int /\ last <= q
      BY <1>1, <2>2, <3>1 DEF FloorOp, Floored, Completed
    <3> QED BY <3>1, <3>2
  <2>6. FloorOp(new)
    BY <1>1, <2>2, <2>4, <2>5 DEF FloorOp
  <2>7. OpsFloor'
    BY <2>3, <2>6, HookFits
  <2>8. LedgerInv'
    BY <1>1, <2>1 DEF LedgerInv
  <2> QED BY <1>2, <2>7, <2>8
<1>4. CASE prove(h)
  <2> DEFINE new == [op EXCEPT !.step = "submit"]
  <2>1. ops' = [ops EXCEPT ![h].step = "submit"] /\ chain' = chain
    BY <1>4 DEF prove
  <2>2. ops' = [ops EXCEPT ![h] = new]
    BY <1>1, <2>1
  <2>3. /\ new.step = "submit" /\ new.floor = op.floor /\ new.proving = op.proving /\ new.known = op.known
        /\ new.block = op.block
    BY <1>1 DEF OpFields
  <2> HIDE DEF new, op
  <2>4. FloorOp(new)
    BY <1>1, <2>3 DEF FloorOp
  <2>5. OpsFloor'
    BY <2>2, <2>4, HookFits
  <2>6. LedgerInv'
    BY <1>1, <2>1 DEF LedgerInv
  <2> QED BY <1>2, <2>5, <2>6
<1>5. CASE submit(h)
  <2> DEFINE b == chain.height + 1
             new == [op EXCEPT !.step = "receipt", !.block = {b}]
             tx == [owner |-> op.account, block |-> b, id |-> Cardinality(chain.txs)]
  <2>1. ops' = [ops EXCEPT ![h].step = "receipt", ![h].block = {b}]
    BY <1>5 DEF submit
  <2>2. PICK held \in Outcomes(op) :
            chain' = [chain EXCEPT !.allowance[op.account] = @ - Pulled(op), !.private[op.account] = held,
                                   !.txs = @ \cup {[owner |-> op.account, block |-> chain.height + 1,
                                                    id |-> Cardinality(@)]}]
    BY <1>5 DEF submit
  <2>3. chain'.height = chain.height /\ chain'.txs = chain.txs \cup {tx}
    BY <2>2 DEF FloorInv, FeeInv, ChainInv
  <2>4. b \in Nat /\ Cardinality(chain.txs) \in Nat
    BY <1>1, FS_CardinalityType DEF LedgerInv
  <2> HIDE DEF b
  <2>5. tx \in Tx
    <3> DEFINE n == Cardinality(chain.txs)
    <3>1. n \in Nat
      BY <2>4
    <3> HIDE DEF n
    <3>2. [owner |-> op.account, block |-> b, id |-> n] \in Tx
      BY <1>1, <2>4, <3>1 DEF Tx
    <3> QED BY <3>2 DEF n
  <2> HIDE DEF tx
  <2>6. LedgerInv'
    <3>1. IsFiniteSet(chain.txs \cup {tx})
      BY <1>1, FS_AddElement DEF LedgerInv
    <3> QED BY <1>1, <2>3, <2>5, <3>1 DEF LedgerInv
  <2>7. ops' = [ops EXCEPT ![h] = new]
    BY <1>1, <2>1
  <2>8. /\ new.step = "receipt" /\ new.floor = op.floor /\ new.proving = op.proving /\ new.known = op.known
        /\ new.block = {b}
    BY <1>1 DEF OpFields
  <2> HIDE DEF new, op
  <2>9. FloorOp(new)
    BY <1>1, <2>4, <2>8 DEF FloorOp
  <2>10. OpsFloor'
    BY <2>7, <2>9, HookFits
  <2> QED BY <1>2, <2>6, <2>10
<1> QED BY <1>3, <1>4, <1>5

\* An operation starts: it knows nothing before it reads the floor.
LEMMA StartFits ==
    ASSUME FloorInv, NEW h \in Hooks, NEW kind \in Kinds, NEW deposits \in SUBSET Tokens, start(h, kind, deposits)
    PROVE  TabInv(app)' /\ LoadsInv(loads)' /\ LedgerInv' /\ OpsFloor'
PROOF
<1> DEFINE busy == ops[Other(h)] # Idle /\ ops[Other(h)].account = app.account
           rest == Awaits(kind, txConfig, deposits)
           pm == txConfig.pm /\ kind # "register"
           fee == txConfig.fee
           alone == ~busy
           op == [step |-> "await", rest |-> rest, account |-> app.account,
                  kind |-> kind, deposits |-> deposits, pm |-> pm,
                  fee |-> fee, floor |-> {}, proving |-> {}, block |-> {}, known |-> {},
                  alone |-> alone]
<1>1. /\ ops' = [k \in Hooks |-> IF k = h THEN Enter(op)
                                 ELSE IF busy THEN [ops[k] EXCEPT !.alone = FALSE] ELSE ops[k]]
      /\ UNCHANGED <<app, chain, loads>>
  BY DEF start
<1>2. TabInv(app) /\ LoadsInv(loads) /\ LedgerInv
  BY DEF FloorInv, LoadsInv
<1> HIDE DEF busy, rest, pm, fee, alone
<1>3. /\ DOMAIN op = OpFields /\ op.step = "await" /\ op.floor = {} /\ op.proving = {} /\ op.block = {}
      /\ op.known = {}
  BY DEF OpFields
<1> HIDE DEF op
<1>4. FloorOp(Enter(op))
  <2>1. FloorOp(op)
    BY <1>3 DEF FloorOp
  <2> QED BY <1>2, <1>3, <2>1, EnterFits
<1>5. ASSUME NEW k \in Hooks, k # h, ops'[k] # Idle PROVE FloorOp(ops'[k])
  <2>1. CASE ops'[k] = ops[k]
    BY <1>5, <2>1 DEF FloorInv
  <2>2. CASE busy
    <3> DEFINE o == ops[k]
               new == [o EXCEPT !.alone = FALSE]
    <3>1. k = Other(h)
      BY <1>5, HooksFacts
    <3>2. o # Idle
      BY <2>2, <3>1 DEF busy
    <3>3. DOMAIN o = OpFields /\ FloorOp(o)
      BY <3>2 DEF FloorInv, FeeInv, OpInv
    <3>4. ops'[k] = new
      BY <1>1, <1>5, <2>2
    <3> HIDE DEF o
    <3>5. /\ new.step = o.step /\ new.floor = o.floor /\ new.proving = o.proving /\ new.known = o.known
          /\ new.block = o.block
      BY <3>3 DEF OpFields
    <3> HIDE DEF new
    <3>6. FloorOp(new)
      BY <3>3, <3>5 DEF FloorOp
    <3> QED BY <3>4, <3>6
  <2> QED BY <1>1, <1>5, <2>1, <2>2
<1>6. \A k \in Hooks : ops'[k] # Idle => FloorOp(ops'[k])
  BY <1>1, <1>4, <1>5
<1>7. OpsFloor'
  BY <1>6 DEF OpsFloor, FloorOp
<1> QED BY <1>1, <1>2, <1>7 DEF LedgerInv

\* The chain when the tab is opened.
LEMMA LedgerBegins ==
    ASSUME DemoInit
    PROVE  LedgerInv
PROOF
<1> DEFINE past(a) == {[owner |-> a, block |-> b, id |-> 0] : b \in PastBlocks[a]}
           all == {past(a) : a \in Accounts}
<1>1. chain.height = StartBlock /\ chain.txs = UNION all
  <2> DEFINE txs == UNION {{[owner |-> a, block |-> b, id |-> 0] : b \in PastBlocks[a]} : a \in Accounts}
  <2>1. chain = [height |-> StartBlock, txs |-> txs, allowance |-> [a \in Accounts |-> 0], private |-> Private]
    BY DEF DemoInit
  <2>2. txs = UNION all
    OBVIOUS
  <2> HIDE DEF txs, all
  <2> QED BY <2>1, <2>2
<1>2. ASSUME NEW a \in Accounts PROVE past(a) \in SUBSET Tx /\ IsFiniteSet(past(a))
  <2> DEFINE f == [b \in PastBlocks[a] |-> [owner |-> a, block |-> b, id |-> 0]]
             P == past(a)
  <2>1. PastBlocks[a] \in SUBSET Nat /\ IsFiniteSet(PastBlocks[a])
    BY DemoAssumption
  <2>2. P \in SUBSET Tx
    BY <2>1 DEF Tx
  <2>3. f \in Surjection(PastBlocks[a], P)
    BY DEF Surjection
  <2> HIDE DEF f, P
  <2>4. IsFiniteSet(P)
    BY <2>1, <2>3, FS_Surjection
  <2> QED BY <2>2, <2>4 DEF P
<1> DEFINE g == [a \in Accounts |-> past(a)]
<1>3. g \in Surjection(Accounts, all)
  <2> HIDE DEF past
  <2> QED BY DEF Surjection
<1>4. \A T \in all : T \in SUBSET Tx /\ IsFiniteSet(T)
  BY <1>2
<1> HIDE DEF all, g
<1>5. IsFiniteSet(all)
  BY <1>3, DemoAssumption, FS_Surjection
<1>6. IsFiniteSet(UNION all) /\ UNION all \in SUBSET Tx
  BY <1>4, <1>5, FS_UNION
<1> QED BY <1>1, <1>6, DemoAssumption DEF LedgerInv

\* The tab as it is opened, or once everything it loads then has been answered.
LEMMA TabBegins ==
    ASSUME DemoInit
    PROVE  TabInv(app) /\ LoadsInv(loads)
PROOF
<1>1. LoadsInv(EmptyBag)
  BY DEF LoadsInv, BagToSet, EmptyBag, SetToBag
<1>2. ASSUME NEW account, NEW token PROVE ResultInv(Opened(account, token))
  <2> DEFINE a == [account |-> account, paymasterEnabled |-> TRUE, feeToken |-> token, feeAmount |-> FALSE,
                   balances |-> {}, cursor |-> {}, txs |-> <<>>, from |-> {}, autoFetched |-> FALSE,
                   loading |-> FALSE, complete |-> FALSE, lastTx |-> {}, recorded |-> {}]
             r == Result(a, EmptyBag)
  <2>1. DOMAIN a = AppFields /\ a.cursor = {} /\ a.from = {} /\ a.txs = <<>> /\ a.lastTx = {} /\ a.recorded = {}
    BY DEF AppFields
  <2>2. Opened(account, token) = refreshEffect(r)
    BY DEF Opened
  <2> HIDE DEF a
  <2>3. TabInv(a)
    BY <2>1, NothingFits DEF TabInv
  <2>4. ResultInv(r)
    BY <1>1, <2>1, <2>3, ResultFacts DEF ResultInv
  <2> HIDE DEF r
  <2> QED BY <2>2, <2>4, EffectsFit
<1>3. CASE ~budget.loaded
  <2>1. PICK token : app = Opened(budget.account, token).app /\ loads = Opened(budget.account, token).loads
    BY <1>3 DEF DemoInit
  <2> QED BY <1>2, <2>1 DEF ResultInv
<1>4. CASE budget.loaded
  <2> DEFINE account == budget.account
             t == CHOOSE t \in Private[account] : TRUE
             o == Opened(account, {t}).app
             all == NewestFirst(HistoryOf({account}, chain.height))
             page == FirstFew(all, PageSize)
             complete == (Len(all) <= PageSize)
             from == {[cursor |-> {account}, last |-> {Last(page)}]}
             a == [o EXCEPT !.feeAmount = TRUE, !.balances = Private[account], !.cursor = {account},
                            !.autoFetched = TRUE, !.txs = page, !.complete = complete, !.from = from]
  <2>1. app = Loaded(account).app /\ loads = Loaded(account).loads
    BY <1>4 DEF DemoInit
  <2>2. Loaded(account) = Result(initLastTxBlock(a), EmptyBag)
    BY DEF Loaded
  <2>3. Single({account})
    BY DEF Single
  <2>4. all \in Seq(Tx)
    BY <2>3, LedgerBegins, HistoryTyped
  <2> HIDE DEF all
  <2>5. page \in Seq(Tx)
    BY <2>4, DemoAssumption, FirstFewTyped
  <2>6. FromInv(from)
    <3> DEFINE n == [cursor |-> {account}, last |-> {Last(page)}]
    <3>1. n.cursor = {account} /\ from = {n}
      OBVIOUS
    <3> HIDE DEF n, from
    <3> QED BY <2>3, <3>1 DEF FromInv, Single
  <2> HIDE DEF page, complete, from, t
  <2>7. DOMAIN o = AppFields /\ TabInv(o)
    BY <1>2 DEF ResultInv, Shaped
  <2>11. o.recorded = {} /\ o.lastTx = {}
    <3> DEFINE b == [account |-> account, paymasterEnabled |-> TRUE, feeToken |-> {t}, feeAmount |-> FALSE,
                     balances |-> {}, cursor |-> {}, txs |-> <<>>, from |-> {}, autoFetched |-> FALSE,
                     loading |-> FALSE, complete |-> FALSE, lastTx |-> {}, recorded |-> {}]
    <3>1. o = [b EXCEPT !.cursor = {}]
      BY DEF Opened, refreshEffect, Send, Result
    <3> QED BY <3>1
  <2> HIDE DEF o
  <2>8. /\ DOMAIN a = AppFields /\ a.cursor = {account} /\ a.from = from /\ a.txs = page
        /\ a.lastTx = o.lastTx /\ a.recorded = o.recorded
    BY <2>7 DEF AppFields
  <2> HIDE DEF a
  <2>9. TabInv(a)
    BY <2>3, <2>5, <2>6, <2>7, <2>8 DEF TabInv
  <2>10. TabInv(initLastTxBlock(a))
    BY <2>8, <2>9, InitLastTx
  <2>12. app = initLastTxBlock(a) /\ loads = EmptyBag
    BY <2>1, <2>2 DEF Result
  <2> QED BY <1>1, <2>10, <2>12
<1> QED BY <1>3, <1>4

\* FloorInv is inductive.
THEOREM FloorsHold == DemoSpec => []FloorInv
PROOF
<1>1. FloorInv <=> FeeInv /\ TabInv(app) /\ LoadsInv(loads) /\ LedgerInv /\ OpsFloor
  BY DEF FloorInv, LoadsInv, OpsFloor
<1>2. DemoInit => FloorInv
  <2> SUFFICES ASSUME DemoInit PROVE FloorInv
    OBVIOUS
  <2>1. OpsFloor
    BY DEF DemoInit, OpsFloor
  <2> QED BY <1>1, <2>1, DemoBegins, LedgerBegins, TabBegins
<1>3. FloorInv /\ [DemoNext]_demoVars => FloorInv'
  <2> SUFFICES ASSUME FloorInv, [DemoNext]_demoVars PROVE TabInv(app)' /\ LoadsInv(loads)' /\ LedgerInv' /\ OpsFloor'
    BY FeesKept DEF FloorInv, LoadsInv, OpsFloor
  <2>1. ASSUME UNCHANGED ops PROVE OpsFloor'
    BY <1>1, <2>1 DEF OpsFloor, FloorOp
  <2>2. ASSUME UNCHANGED chain PROVE LedgerInv'
    BY <1>1, <2>2 DEF LedgerInv
  <2>3. CASE UNCHANGED demoVars
    <3>1. app' = app /\ loads' = loads /\ UNCHANGED ops /\ UNCHANGED chain
      BY <2>3 DEF demoVars
    <3>2. TabInv(app)' /\ LoadsInv(loads)'
      BY <1>1, <3>1
    <3> QED BY <2>1, <2>2, <3>1, <3>2
  <2>4. CASE \E l \in BagToSet(loads) :
                refreshed(l) \/ pageAnswered(l) \/ pageShown(l) \/ latestAnswered(l) \/ loadFails(l)
    <3>1. UNCHANGED ops /\ UNCHANGED chain
      BY <2>4 DEF refreshed, pageAnswered, pageShown, latestAnswered, loadFails, Answer
    <3>2. TabInv(app)' /\ LoadsInv(loads)'
      BY <2>4, AnswersFit
    <3> QED BY <2>1, <2>2, <3>1, <3>2
  <2>5. CASE \/ \E account \in Accounts : switch(account)
             \/ clickRefresh \/ clickHistory \/ togglePaymaster \/ initFeeConfig
             \/ \E token \in Tokens : selectFeeToken(token)
    <3>1. UNCHANGED ops /\ UNCHANGED chain
      BY <2>5 DEF switch, clickRefresh, clickHistory, togglePaymaster, initFeeConfig, selectFeeToken
    <3>2. TabInv(app)' /\ LoadsInv(loads)'
      BY <2>5, ClicksFit
    <3> QED BY <2>1, <2>2, <3>1, <3>2
  <2>6. CASE newBlock
    <3>1. app' = app /\ loads' = loads /\ UNCHANGED ops /\ chain' = [chain EXCEPT !.height = @ + 1]
      BY <2>6 DEF newBlock
    <3>2. TabInv(app)' /\ LoadsInv(loads)'
      BY <1>1, <3>1
    <3>3. chain'.height = chain.height + 1 /\ chain'.txs = chain.txs
      BY <3>1 DEF FloorInv, FeeInv, ChainInv
    <3>4. LedgerInv'
      BY <1>1, <3>3 DEF LedgerInv
    <3> QED BY <2>1, <3>1, <3>2, <3>4
  <2>7. CASE \E h \in Hooks, kind \in Kinds, deposits \in SUBSET Tokens : start(h, kind, deposits)
    BY <2>7, StartFits
  <2>8. CASE \E h \in Hooks : step(h) \/ chooseBlock(h) \/ prove(h) \/ submit(h)
    BY <2>8, StepFits, ProvingFits
  <2>9. CASE \E h \in Hooks : received(h) \/ throws(h)
    <3>1. UNCHANGED chain
      BY <2>9 DEF received, throws
    <3> QED BY <2>2, <2>9, <3>1, EndsFit
  <2> QED BY <2>3, <2>4, <2>5, <2>6, <2>7, <2>8, <2>9 DEF DemoNext
<1> QED BY <1>2, <1>3, PTL DEF DemoSpec

\* useLastTxBlock, waitForProvingBlock: every proof is computed on a state that holds the
\* transactions its account completed while it was active, if it has not been left
\* between then and the reading of the floor, for every depth, page size and history, and
\* however late requests are answered.  Of transactions before a switch it says nothing.
THEOREM ProvesOnOwnState == DemoSpec => []ProvesOwnState
PROOF
<1>1. FloorInv => ProvesOwnState
  BY DEF FloorInv, FloorOp, ProvesOwnState
<1> QED BY <1>1, FloorsHold, PTL
=============================================================================
