----------------------------- MODULE DemoPanels -----------------------------
(***************************************************************************)
(* The parts of the demo that keep a state of their own: the imported      *)
(* accounts (useAccounts), the prices and quotes shown by the DeFi panel   *)
(* (usePoolPrice, DefiPanel), and the choice of a pool (usePoolSelector,   *)
(* useDeployPool).  They share nothing with each other.                    *)
(***************************************************************************)
EXTENDS Integers, Sequences, FiniteSets, FiniteSetsExt, SequencesExt

CONSTANTS
    AccountLists,   \* lists that may be pasted: <<[admin, keys]>>
    Inputs,         \* token pairs and amounts the DeFi panel may be set to
    NoInput,        \* an input that asks for nothing: one token twice, no amount
    Hashes,         \* pool class hashes
    Pools,
    DefaultHash,
    DefaultPool,
    MaxRequests,    \* requests of a feed, searches and deployments
    MaxChunks       \* chunks of events of one search

ASSUME PanelsAssumption ==
    /\ AccountLists \subseteq Seq([admin : BOOLEAN, keys : BOOLEAN])
    /\ MaxRequests \in Nat /\ MaxChunks \in Nat

VARIABLES accounts, feeds, pools

panelVars == <<accounts, feeds, pools>>

-----------------------------------------------------------------------------
(* useAccounts.  Indexes count from 0.  Every tab of the origin writes the *)
(* same localStorage.                                                      *)

firstNonAdminIndex(list) ==
    LET users == {i \in DOMAIN list : ~list[i].admin}
    IN  IF users = {} THEN 0 ELSE Min(users) - 1

loadStoredIndex_unchecked(list, saved) ==
    IF saved = {} THEN firstNonAdminIndex(list) ELSE CHOOSE i \in saved : TRUE

loadStoredIndex(list, saved) ==
    IF \E i \in saved : i < Len(list) THEN CHOOSE i \in saved : TRUE ELSE firstNonAdminIndex(list)

\* Each entry has a signing key or a viewing key; an empty list is refused.
parseAccounts(list) == list # <<>> /\ \A i \in DOMAIN list : list[i].keys

importAccounts(list) ==
    /\ parseAccounts(list)
    /\ accounts' = [accounts EXCEPT
            !.list   = list,
            !.active = firstNonAdminIndex(list),
            !.stored = IF accounts.persist THEN {list} ELSE @,
            !.index  = IF accounts.persist THEN {firstNonAdminIndex(list)} ELSE @]
    /\ UNCHANGED <<feeds, pools>>

setActiveIndex(i) ==
    /\ i < Len(accounts.list)
    /\ accounts' = [accounts EXCEPT !.active = i, !.index = IF accounts.persist THEN {i} ELSE @]
    /\ UNCHANGED <<feeds, pools>>

\* Another tab imports a list, or makes another account of the list it has the active
\* one.  This tab reads the storage only when it is loaded.
otherTab(list) ==
    /\ accounts.persist /\ parseAccounts(list)
    /\ \/ accounts' = [accounts EXCEPT !.stored = {list}, !.index = {firstNonAdminIndex(list)}]
       \/ \E i \in 0 .. Len(list) - 1 : accounts' = [accounts EXCEPT !.index = {i}]
    /\ UNCHANGED <<feeds, pools>>

reload ==
    LET list == IF accounts.stored = {} THEN <<>> ELSE CHOOSE l \in accounts.stored : TRUE
    IN  /\ accounts' = [accounts EXCEPT
                !.list   = IF accounts.persist THEN list ELSE <<>>,
                !.active = IF accounts.persist THEN loadStoredIndex(list, accounts.index) ELSE 0]
        /\ UNCHANGED <<feeds, pools>>

-----------------------------------------------------------------------------
(* The feeds of the DeFi panel.  An effect asks again whenever its input   *)
(* changes and marks what it asked before as cancelled: live is the        *)
(* request that is not.                                                    *)

Ask(f, input) == [f EXCEPT !.inFlight = @ \cup {[id |-> f.asked, input |-> input]},
                           !.live = {f.asked}, !.asked = @ + 1]
Cancel(f, input) == [f EXCEPT !.input = input, !.live = {}, !.timer = FALSE]

\* An input that asks for nothing clears the price, but not the spinner.
usePoolPrice(f, input) ==
    IF input = NoInput THEN [Cancel(f, input) EXCEPT !.shown = {}]
    ELSE Ask([Cancel(f, input) EXCEPT !.loading = TRUE], input)

\* The quote is asked for when the input has not changed for a while.
avnuQuote(f, input) ==
    IF input = NoInput THEN [Cancel(f, input) EXCEPT !.shown = {}]
    ELSE [Cancel(f, input) EXCEPT !.timer = TRUE]

vesuPreview(f, input) ==
    IF input = NoInput THEN [Cancel(f, input) EXCEPT !.shown = {}]
    ELSE Ask(Cancel(f, input), input)

setInput(name, input) ==
    /\ input # feeds[name].input
    /\ feeds[name].asked < MaxRequests
    /\ feeds' = [feeds EXCEPT ![name] = CASE name = "price" -> usePoolPrice(@, input)
                                          [] name = "quote" -> avnuQuote(@, input)
                                          [] name = "preview" -> vesuPreview(@, input)]
    /\ UNCHANGED <<accounts, pools>>

quoteTimer ==
    /\ feeds["quote"].timer
    /\ feeds' = [feeds EXCEPT !["quote"] = Ask([@ EXCEPT !.timer = FALSE, !.loading = TRUE], @.input)]
    /\ UNCHANGED <<accounts, pools>>

\* A cancelled answer is dropped.
isLive_any(f, r) == TRUE

isLive(f, r) == r.id \in f.live

\* An answer, or an error, which clears what is shown.
Answered(f, r, ok) ==
    IF isLive(f, r) THEN [f EXCEPT !.inFlight = @ \ {r}, !.live = {}, !.loading = FALSE,
                                   !.shown = IF ok THEN {r.input} ELSE {}]
    ELSE [f EXCEPT !.inFlight = @ \ {r}]

feedAnswered(name, r, ok) ==
    /\ r \in feeds[name].inFlight
    /\ feeds' = [feeds EXCEPT ![name] = Answered(@, r, ok)]
    /\ UNCHANGED <<accounts, pools>>

-----------------------------------------------------------------------------
(* usePoolSelector and useDeployPool.  The selection is stored for a class *)
(* hash in the localStorage that every tab writes; known, a history        *)
(* variable: this tab has read or written what is stored.  A search reads  *)
(* the deployment events chunk by chunk; live is the one whose controller  *)
(* is not aborted.                                                         *)

loadStoredAddress(hash, stored) ==
    IF \E s \in stored : s.hash = hash THEN (CHOOSE s \in stored : TRUE).selected ELSE DefaultPool

saveSelection(hash, pool) == {[hash |-> hash, selected |-> pool, known |-> TRUE]}

Reread(stored) == {[s EXCEPT !.known = TRUE] : s \in stored}

\* Another tab, with a class hash of its own, selects or deploys a pool.
otherTabSelects(hash, pool) ==
    /\ pools' = [pools EXCEPT !.stored = {[hash |-> hash, selected |-> pool, known |-> FALSE]}]
    /\ UNCHANGED <<accounts, feeds>>

selectPool(pool) ==
    /\ pools' = [pools EXCEPT !.active = pool, !.stored = saveSelection(pools.hash, pool)]
    /\ UNCHANGED <<accounts, feeds>>

stopSearch(p) == [p EXCEPT !.live = {}]

\* A change of class hash restores what was selected for it.
setClassHash(hash) ==
    /\ hash # pools.hash
    /\ pools' = stopSearch([pools EXCEPT !.hash = hash, !.active = loadStoredAddress(hash, pools.stored),
                                         !.stored = Reread(@)])
    /\ UNCHANGED <<accounts, feeds>>

searchPools ==
    /\ pools.asked < MaxRequests
    /\ pools' = [stopSearch(pools) EXCEPT
                    !.live = {pools.asked}, !.asked = @ + 1,
                    !.runs = @ \cup {[id |-> pools.asked, chunks |-> 0, started |-> FALSE]}]
    /\ UNCHANGED <<accounts, feeds>>

Shown(run, done) == {[id |-> run.id, chunks |-> run.chunks, done |-> done]}

\* The panel is emptied for the search even if it has been aborted meanwhile.
heightAnswered(run) ==
    /\ run \in pools.runs /\ ~run.started
    /\ pools' = [pools EXCEPT !.search = Shown(run, FALSE),
                              !.runs = (@ \ {run}) \cup IF run.id \in pools.live
                                                        THEN {[run EXCEPT !.started = TRUE]} ELSE {}]
    /\ UNCHANGED <<accounts, feeds>>

\* What a search shows of a chunk: nothing once it is aborted.
showChunk_always(p, run, done) == [p EXCEPT !.search = Shown(run, done)]

showChunk(p, run, done) == IF run.id \in p.live THEN [p EXCEPT !.search = Shown(run, done)] ELSE p

eventsAnswered(run, more) ==
    /\ run \in pools.runs /\ run.started
    /\ more => run.chunks < MaxChunks
    /\ LET next == [run EXCEPT !.chunks = @ + 1]
           goes == more /\ run.id \in pools.live
       IN  pools' = [showChunk(pools, next, ~more) EXCEPT
                        !.runs = (@ \ {run}) \cup IF goes THEN {next} ELSE {}]
    /\ UNCHANGED <<accounts, feeds>>

\* A failed chunk ends the search with what it has; a failed height leaves
\* the panel as it is.
searchFails(run) ==
    /\ run \in pools.runs
    /\ pools' = [pools EXCEPT !.runs = @ \ {run},
                              !.search = IF run.started /\ run.id \in pools.live
                                         THEN {[s EXCEPT !.done = TRUE] : s \in @} ELSE @]
    /\ UNCHANGED <<accounts, feeds>>

stop == pools' = stopSearch(pools) /\ UNCHANGED <<accounts, feeds>>

closeSearch ==
    /\ pools' = [stopSearch(pools) EXCEPT !.search = {}]
    /\ UNCHANGED <<accounts, feeds>>

\* The closure of a deployment keeps the class hash it was started with.
deploy ==
    /\ pools.deploying = {}
    /\ pools.asked < MaxRequests
    /\ pools' = [pools EXCEPT !.deploying = {pools.hash}, !.asked = @ + 1]
    /\ UNCHANGED <<accounts, feeds>>

addPool(p, hash, pool) == [p EXCEPT !.active = pool, !.stored = saveSelection(hash, pool)]

deployed(pool) ==
    /\ \E hash \in pools.deploying : pools' = [addPool(pools, hash, pool) EXCEPT !.deploying = {}]
    /\ UNCHANGED <<accounts, feeds>>

deployFails ==
    /\ pools.deploying # {}
    /\ pools' = [pools EXCEPT !.deploying = {}]
    /\ UNCHANGED <<accounts, feeds>>

reopen ==
    /\ pools' = [pools EXCEPT !.hash = DefaultHash, !.active = loadStoredAddress(DefaultHash, pools.stored),
                              !.stored = Reread(@), !.search = {}, !.live = {}, !.runs = {}, !.deploying = {}]
    /\ UNCHANGED <<accounts, feeds>>

-----------------------------------------------------------------------------
Feeds == {"price", "quote", "preview"}

PanelsInit ==
    /\ \E persist \in BOOLEAN :
         accounts = [persist |-> persist, list |-> <<>>, active |-> 0, stored |-> {}, index |-> {}]
    /\ feeds = [f \in Feeds |-> [input |-> NoInput, asked |-> 0, inFlight |-> {}, live |-> {}, timer |-> FALSE,
                                 loading |-> FALSE, shown |-> {}]]
    /\ pools = [hash |-> DefaultHash, active |-> DefaultPool, stored |-> {}, search |-> {}, live |-> {},
                asked |-> 0, runs |-> {}, deploying |-> {}]

AccountsNext ==
    \/ \E list \in AccountLists : importAccounts(list) \/ otherTab(list)
    \/ \E list \in AccountLists : \E i \in 0..Len(list) : setActiveIndex(i)
    \/ reload

FeedNext(name) ==
    \/ \E input \in Inputs \cup {NoInput} : setInput(name, input)
    \/ \E r \in feeds[name].inFlight, ok \in BOOLEAN : feedAnswered(name, r, ok)

PoolsNext ==
    \/ \E pool \in Pools : selectPool(pool) \/ deployed(pool)
    \/ \E hash \in Hashes : setClassHash(hash) \/ \E pool \in Pools : otherTabSelects(hash, pool)
    \/ searchPools \/ stop \/ closeSearch \/ deploy \/ deployFails \/ reopen
    \/ \E run \in pools.runs : heightAnswered(run) \/ searchFails(run) \/ \E more \in BOOLEAN : eventsAnswered(run, more)

\* The panels are on screen together.
PanelsNext == AccountsNext \/ (\E name \in Feeds : FeedNext(name)) \/ quoteTimer \/ PoolsNext

PanelsSpec == PanelsInit /\ [][PanelsNext]_panelVars

-----------------------------------------------------------------------------
(* Properties.                                                             *)

\* usePoolPrice, DefiPanel: a price, quote or preview shown is that of the
\* inputs on screen, or the one for those inputs is still awaited; a late
\* answer never replaces it.
ShownFits ==
    \A f \in Feeds : feeds[f].shown \subseteq {feeds[f].input} \/ feeds[f].live # {} \/ feeds[f].timer

\* What the browser stored as chosen can be used again.  useAccounts: when
\* there are accounts, one is active, also after a reload of a list another
\* tab has replaced by a shorter one, or of an index another tab has moved.
\* usePoolSelector: the selection stored for the class hash in use is the
\* pool in use, so that a reload or a change of class hash and back restores
\* it, until another tab stores its own: the hook reads the storage only when
\* it is mounted and when the class hash changes, and does not notice.
ChoiceRestored ==
    /\ accounts.list # <<>> => accounts.active < Len(accounts.list)
    /\ \A s \in pools.stored : s.known /\ s.hash = pools.hash => s.selected = pools.active

\* usePoolSelector: pools found by a search never replace those shown by a
\* search started after it.
OlderNeverReplaces ==
    [][\A new \in pools'.search \ pools.search, old \in pools.search : new.chunks > 0 => new.id >= old.id]_pools
=============================================================================
