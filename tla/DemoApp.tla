------------------------------- MODULE DemoApp -------------------------------
(***************************************************************************)
(* The demo: one browser tab over several accounts.  Two hooks run         *)
(* operations, useTransactions ("actions") and useTransactionBuilder       *)
(* ("builder"), each one at a time; they share the block number of the     *)
(* last pool transaction and the STRK allowance.  Meanwhile the displayed  *)
(* state and the history are loaded; a load keeps the account it was       *)
(* started for, while what it writes belongs to the tab.                   *)
(*                                                                         *)
(* An operation is the list of its awaits.  A React commit, with the       *)
(* effects it runs, is part of the step that caused it.                    *)
(***************************************************************************)
EXTENDS Integers, Sequences, FiniteSets, FiniteSetsExt, SequencesExt, Bags, ActionClassifier

CONSTANTS
    Accounts,
    Tokens,               \* STRK among them
    STRK,
    PoolFee,              \* what collect_fee pulls from the caller, in STRK
    DepositAmount,
    PROVING_BLOCK_DEPTH,
    PageSize,             \* maxTransactions of a history page
    StartBlock,           \* the height of the chain when the tab is opened
    PastBlocks,           \* account -> blocks of its earlier pool transactions
    Private,              \* account -> tokens it has private notes of
    Budgets               \* the tab at first [loaded, account] and bounds on what happens
                          \* next: [ops, kinds, switches, clicks, toggles, faults, blocks]

ASSUME DemoAssumption ==
    /\ STRK \in Tokens /\ IsFiniteSet(Tokens)
    /\ PoolFee \in Nat /\ DepositAmount \in Nat
    /\ StartBlock \in Nat /\ PROVING_BLOCK_DEPTH \in Nat /\ PageSize \in Nat
    /\ IsFiniteSet(Accounts)
    /\ \A a \in Accounts : PastBlocks[a] \subseteq Nat /\ IsFiniteSet(PastBlocks[a])
    /\ \A b \in Budgets : b.account \in Accounts

VARIABLES
    app,     \* the tab: account, configuration, displayed state, registry, history, last block
    chain,   \* height, pool transactions, STRK allowance to the pool, private balances
    ops,     \* hook -> the operation it runs
    loads,   \* a bag of the requests in flight
    budget   \* what is left of the chosen element of Budgets

demoVars == <<app, chain, ops, loads, budget>>

Hooks == {"actions", "builder"}
Other(h) == CHOOSE k \in Hooks : k # h

Idle == [step |-> "idle"]

-----------------------------------------------------------------------------
(* Loads: usePrivateState, useHistory and the effects of App.              *)

\* from is where a page starts: none, or the cursor of the page before it.
Load(kind, account, cursor, from, txs, latest) ==
    [kind |-> kind, account |-> account, cursor |-> cursor, from |-> from, txs |-> txs, latest |-> latest]

\* A step's result: the tab and the requests in flight.
Result(a, ls) == [app |-> a, loads |-> ls]
Send(r, l) == [r EXCEPT !.loads = @ (+) SetToBag({l})]

\* App's effect on [refresh], which changes with the account and with the
\* configuration: the registry is emptied and the state loaded again.
refreshEffect(r) ==
    Send(Result([r.app EXCEPT !.cursor = {}], r.loads),
         Load("refresh", r.app.account, {}, {}, <<>>, FALSE))

\* refreshAll: the same, then the latest transaction.
refreshAll(r) ==
    Send(Result([r.app EXCEPT !.cursor = {}], r.loads),
         Load("refresh", r.app.account, {}, {}, <<>>, TRUE))

isValidFeeToken(token, balances) == token # {} /\ token \subseteq balances

\* The fee is paid in a token that has a private balance, if there is one.
feeTokenEffect(r) ==
    IF isValidFeeToken(r.app.feeToken, r.app.balances) \/ r.app.balances = {} THEN r
    ELSE refreshEffect([r EXCEPT !.app.feeToken = {CHOOSE t \in r.app.balances : TRUE}])

\* fetchMore of the account's closure: one history request at a time, and
\* none before the registry holds a cursor.
fetchMore(r, account) ==
    IF r.app.loading \/ r.app.cursor = {} THEN r
    ELSE Send([r EXCEPT !.app.loading = TRUE],
              Load("page", account, r.app.cursor, r.app.from, <<>>, FALSE))

refreshLatest(r, account) ==
    IF r.app.loading \/ r.app.cursor = {} THEN r
    ELSE Send([r EXCEPT !.app.loading = TRUE],
              Load("latest", account, r.app.cursor, {}, <<>>, FALSE))

\* The first page is fetched once, when the cursor becomes available.
autoFetch(r) ==
    IF r.app.autoFetched \/ r.app.cursor = {} THEN r
    ELSE fetchMore([r EXCEPT !.app.autoFetched = TRUE], r.app.account)

\* The effects of a commit, in the order the hooks are called.
Committed(r) == feeTokenEffect(autoFetch(r))

\* The last block is initialised from the first transactions shown.
initLastTxBlock(a) ==
    IF a.lastTx = {} /\ a.txs # <<>> THEN [a EXCEPT !.lastTx = {Max({t.block : t \in ToSet(a.txs)})}] ELSE a

updateLastTxBlockNumber_always(a, block) == [a EXCEPT !.lastTx = {block}]

updateLastTxBlockNumber(a, block) ==
    IF a.lastTx = {} \/ \E last \in a.lastTx : block > last THEN [a EXCEPT !.lastTx = {block}] ELSE a

\* Everything kept per account is reset; a history request in flight is not.
setActive(r, account) ==
    refreshEffect([r EXCEPT !.app.account = account, !.app.cursor = {}, !.app.balances = {},
                            !.app.txs = <<>>, !.app.complete = FALSE, !.app.from = {}, !.app.autoFetched = FALSE,
                            !.app.lastTx = {},
                            !.app.recorded = {[t EXCEPT !.kept = FALSE] : t \in @}])

FirstFew(s, n) == SubSeq(s, 1, Min({n, Len(s)}))

\* By block; the id stands for the order the service gives those of one block.
Newer(s, t) == s.block > t.block \/ (s.block = t.block /\ s.id > t.id)

\* The transactions of the owner of a cursor.
HistoryOf(cursor, height) == {t \in chain.txs : t.owner \in cursor /\ t.block <= height}

\* Transactions in the order they are shown: each after those that are newer.
NewestFirst(txs) ==
    [i \in 1..Cardinality(txs) |-> CHOOSE t \in txs : Cardinality({u \in txs : Newer(u, t)}) = i - 1]

Become(r) == app' = r.app /\ loads' = r.loads

Answer(l) == BagIn(l, loads) /\ UNCHANGED <<chain, ops>>
Drop(l) == Result(app, loads (-) SetToBag({l}))

\* usePrivateState.refresh: whatever account is shown by now, the registry
\* and the displayed state become those of the load's account.
refreshed(l) ==
    /\ l.kind = "refresh"
    /\ Answer(l)
    /\ LET shown == [Drop(l) EXCEPT !.app.cursor = {l.account}, !.app.balances = chain.private[l.account]]
       IN  Become(Committed(IF l.latest THEN refreshLatest(shown, l.account) ELSE shown))
    /\ UNCHANGED budget

\* A page, read on from the cursor of the page before if there is one: the
\* cursor moves at once, the transactions are shown when the times of their
\* blocks are known.
pageAnswered(l) ==
    /\ l.kind = "page"
    /\ Answer(l)
    /\ LET owner == IF l.from = {} THEN l.cursor ELSE UNION {f.cursor : f \in l.from}
           seen  == UNION {f.last : f \in l.from}
           all   == NewestFirst({t \in HistoryOf(owner, chain.height) : \A last \in seen : Newer(last, t)})
           page  == FirstFew(all, PageSize)
           next  == [cursor |-> owner, last |-> IF page = <<>> THEN seen ELSE {Last(page)}]
       IN  Become(Send([Drop(l) EXCEPT !.app.from = {next}, !.app.complete = (Len(all) <= PageSize)],
                       [l EXCEPT !.kind = "stamps", !.txs = page]))
    /\ UNCHANGED budget

pageShown(l) ==
    /\ l.kind = "stamps"
    /\ Answer(l)
    /\ LET r == [Drop(l) EXCEPT !.app.txs = @ \o l.txs, !.app.loading = FALSE]
       IN  Become([r EXCEPT !.app = initLastTxBlock(@)])
    /\ UNCHANGED budget

\* The newest transaction, put first unless it is already shown.
latestAnswered(l) ==
    /\ l.kind = "latest"
    /\ Answer(l)
    /\ LET newest == FirstFew(NewestFirst(HistoryOf(l.cursor, chain.height + 1)), 1)
           fresh  == IF ToSet(newest) \subseteq ToSet(app.txs) THEN <<>> ELSE newest
           r      == [Drop(l) EXCEPT !.app.txs = fresh \o @, !.app.loading = FALSE]
       IN  Become([r EXCEPT !.app = initLastTxBlock(@)])
    /\ UNCHANGED budget

\* A failed refresh empties the registry but for its cursor; refreshAll goes on.
loadFails(l) ==
    /\ budget.faults > 0
    /\ budget' = [budget EXCEPT !.faults = @ - 1]
    /\ Answer(l)
    /\ Become(IF l.kind # "refresh" THEN [Drop(l) EXCEPT !.app.loading = FALSE]
              ELSE IF l.latest THEN refreshLatest(Drop(l), l.account) ELSE Drop(l))

-----------------------------------------------------------------------------
(* The awaits of each operation before it is proved.  c is the             *)
(* configuration its closure holds: [pm, fee].                             *)

Do(name) == [do |-> name, amount |-> 0]
Approve(amount) == [do |-> "approve", amount |-> amount]

fetchPaymasterFee(c) == IF c.pm THEN <<Do("fee")>> ELSE <<>>

\* Without a paymaster the account is the caller and pays the pool's fee.
ensureFeeApproval(c, alreadyCovered) ==
    IF c.pm \/ alreadyCovered \/ c.fee = 0 THEN <<>> ELSE <<Approve(c.fee)>>

\* Registering never uses the paymaster.
register(c) == ensureFeeApproval([c EXCEPT !.pm = FALSE], FALSE)

mint == <<Do("mint"), Do("balances")>>

\* The allowance an approve sets; of another token than STRK it is not kept.
approveFor(token, amount) == IF token = STRK THEN Approve(amount) ELSE Do("approve token")

\* A deposit of STRK folds the fee into its own approve.
deposit_alone(c, token) ==
    fetchPaymasterFee(c) \o <<approveFor(token, DepositAmount)>> \o ensureFeeApproval(c, ~c.pm /\ token = STRK)

deposit(c, token) ==
    LET strkDeposit == ~c.pm /\ token = STRK
    IN  fetchPaymasterFee(c)
        \o <<approveFor(token, DepositAmount + IF strkDeposit THEN c.fee ELSE 0)>>
        \o ensureFeeApproval(c, strkDeposit)

withdraw(c) == fetchPaymasterFee(c) \o ensureFeeApproval(c, FALSE)

transfer(c) == fetchPaymasterFee(c) \o ensureFeeApproval(c, FALSE)

swap(c) == fetchPaymasterFee(c) \o ensureFeeApproval(c, FALSE)

\* Only through the paymaster.
avnuSwap(c) == IF c.pm THEN fetchPaymasterFee(c) \o <<Do("quote"), Do("calls")>> ELSE <<Do("refuse")>>

vesuSupply(c) == fetchPaymasterFee(c) \o ensureFeeApproval(c, FALSE)

vesuWithdraw(c) == <<Do("preview")>> \o fetchPaymasterFee(c) \o ensureFeeApproval(c, FALSE)

\* The builder: with the paymaster the approvals are signed and submitted
\* with the transaction, without it each is a transaction of its own.  It
\* never approves the pool's fee.
executeBatch(c, deposits) ==
    IF c.pm THEN <<Do("fee")>> \o IF deposits = {} THEN <<>> ELSE <<Do("sign")>>
    ELSE Each(SetToSeq(deposits), LAMBDA t : approveFor(t, DepositAmount))

Kinds == {"register", "mint", "deposit", "withdraw", "transfer", "swap", "avnuSwap",
          "vesuSupply", "vesuWithdraw", "batch"}

\* The awaits of an operation; deposits is the set of tokens it deposits.
Awaits(kind, c, deposits) ==
    CASE kind = "register"     -> register(c)
      [] kind = "mint"         -> mint
      [] kind = "deposit"      -> deposit(c, CHOOSE t \in deposits : TRUE)
      [] kind = "withdraw"     -> withdraw(c)
      [] kind = "transfer"     -> transfer(c)
      [] kind = "swap"         -> swap(c)
      [] kind = "avnuSwap"     -> avnuSwap(c)
      [] kind = "vesuSupply"   -> vesuSupply(c)
      [] kind = "vesuWithdraw" -> vesuWithdraw(c)
      [] kind = "batch"        -> executeBatch(c, deposits)

-----------------------------------------------------------------------------
(* Operations.                                                             *)

\* The paymaster is used when it is on and a private balance is displayed.
txConfig == [pm |-> app.paymasterEnabled /\ app.balances # {},
             fee |-> IF app.feeAmount THEN PoolFee ELSE 0]

\* When the awaits before it are over, the last block is read: the floor of
\* the proving block, whichever account is active by then.  recorded, a history
\* variable, holds every transaction completed in this tab, and whether its account
\* was the active one then and has been ever since (kept).
ReadFloor(op) ==
    [op EXCEPT !.step = "wait", !.floor = app.lastTx,
               !.known = {t \in app.recorded : t.account = op.account}]

Enter(op) == IF op.rest # <<>> THEN op ELSE ReadFloor(op)

\* alone, a history variable: no operation of the other hook for the same
\* account has run at the same time.
start(h, kind, deposits) ==
    LET busy == ops[Other(h)] # Idle /\ ops[Other(h)].account = app.account
        op   == [step |-> "await", rest |-> Awaits(kind, txConfig, deposits), account |-> app.account,
                 kind |-> kind, deposits |-> deposits, pm |-> txConfig.pm /\ kind # "register",
                 fee |-> txConfig.fee, floor |-> {}, proving |-> {}, block |-> {}, known |-> {},
                 alone |-> ~busy]
    IN  /\ ops[h] = Idle
        /\ (h = "builder") <=> (kind = "batch")
        /\ kind \in budget.kinds /\ budget.ops > 0
        /\ kind \in {"deposit"} => Cardinality(deposits) = 1
        /\ kind \notin {"deposit", "batch"} => deposits = {}
        /\ budget' = [budget EXCEPT !.ops = @ - 1]
        /\ ops' = [k \in Hooks |-> IF k = h THEN Enter(op)
                                   ELSE IF busy THEN [ops[k] EXCEPT !.alone = FALSE] ELSE ops[k]]
        /\ UNCHANGED <<app, chain, loads>>

\* A settled operation frees its hook and refreshes the account shown now.
settle(h, a) ==
    /\ ops' = [ops EXCEPT ![h] = Idle]
    /\ Become(refreshAll(Result(a, loads)))

\* One await of an operation is over.  An approve sets the allowance.
step(h) ==
    /\ ops[h] # Idle /\ ops[h].step = "await" /\ Head(ops[h].rest).do # "refuse"
    /\ LET op == [ops[h] EXCEPT !.rest = Tail(@)]
           s  == Head(ops[h].rest)
       IN  /\ chain' = IF s.do = "approve" THEN [chain EXCEPT !.allowance[op.account] = s.amount] ELSE chain
           /\ IF op.rest = <<>> /\ op.kind = "mint" THEN settle(h, app)
              ELSE ops' = [ops EXCEPT ![h] = Enter(op)] /\ UNCHANGED <<app, loads>>
    /\ UNCHANGED budget

\* The block to prove at: the loop reads the chain's height until the floor
\* is deep enough.
waitForProvingBlock(floor, latest) ==
    IF \E last \in floor : last >= latest - PROVING_BLOCK_DEPTH THEN {} ELSE {latest - PROVING_BLOCK_DEPTH}

chooseBlock(h) ==
    /\ ops[h] # Idle /\ ops[h].step = "wait"
    /\ waitForProvingBlock(ops[h].floor, chain.height) # {}
    /\ ops' = [ops EXCEPT ![h].step = "prove", ![h].proving = waitForProvingBlock(ops[h].floor, chain.height)]
    /\ UNCHANGED <<app, chain, loads, budget>>

\* createProofInvocation and executeWithInvocation.
prove(h) ==
    /\ ops[h] # Idle /\ ops[h].step = "prove"
    /\ ops' = [ops EXCEPT ![h].step = "submit"]
    /\ UNCHANGED <<app, chain, loads, budget>>

\* STRK the pool pulls from the account: its fee, unless the paymaster is
\* the caller, and what is deposited.  The builder's deposits through the
\* paymaster are approved in the transaction itself.
Pulled(op) == (IF op.pm THEN 0 ELSE PoolFee)
              + (IF STRK \in op.deposits /\ ~(op.pm /\ op.kind = "batch") THEN DepositAmount ELSE 0)

\* The tokens the account may have private notes of afterwards.
Outcomes(op) ==
    LET held == chain.private[op.account]
    IN  CASE op.kind \in {"register", "deposit", "batch"} -> {held \cup op.deposits}
          [] op.kind \in {"withdraw", "transfer"} -> {held} \cup {held \ {t} : t \in held}
          [] OTHER -> {(held \ {t}) \cup {u} : t \in held, u \in Tokens}

\* The transaction is executed in the pre-confirmed block.
submit(h) ==
    /\ ops[h] # Idle /\ ops[h].step = "submit"
    /\ LET op == ops[h]
       IN  /\ Pulled(op) <= chain.allowance[op.account]
           /\ \E held \in Outcomes(op) :
                chain' = [chain EXCEPT !.allowance[op.account] = @ - Pulled(op),
                                       !.private[op.account] = held,
                                       !.txs = @ \cup {[owner |-> op.account, block |-> chain.height + 1,
                                                       id |-> Cardinality(@)]}]
           /\ ops' = [ops EXCEPT ![h].step = "receipt", ![h].block = {chain.height + 1}]
    /\ UNCHANGED <<app, loads, budget>>

\* The receipt's block becomes the last one, whichever account is shown.
received(h) ==
    /\ ops[h] # Idle /\ ops[h].step = "receipt"
    /\ \E block \in ops[h].block :
         settle(h, [updateLastTxBlockNumber(app, block) EXCEPT
                      !.recorded = @ \cup {[account |-> ops[h].account, block |-> block,
                                             kept |-> ops[h].account = app.account]}])
    /\ UNCHANGED <<chain, budget>>

\* A step throws: the pool reverts for want of allowance, AVNU needs the
\* paymaster, or any call fails.
throws(h) ==
    /\ ops[h] # Idle
    /\ LET op == ops[h]
           refused == \/ op.step = "await" /\ Head(op.rest).do = "refuse"
                      \/ op.step = "submit" /\ Pulled(op) > chain.allowance[op.account]
       IN  /\ refused \/ budget.faults > 0
           /\ budget' = IF refused THEN budget ELSE [budget EXCEPT !.faults = @ - 1]
    /\ settle(h, app)
    /\ UNCHANGED chain

-----------------------------------------------------------------------------
(* The user and the chain.                                                 *)

Spend(what) == budget[what] > 0 /\ budget' = [budget EXCEPT ![what] = @ - 1]

switch(account) ==
    /\ account # app.account
    /\ Spend("switches")
    /\ Become(setActive(Result(app, loads), account))
    /\ UNCHANGED <<chain, ops>>

clickRefresh ==
    /\ Spend("clicks")
    /\ Become(refreshAll(Result(app, loads)))
    /\ UNCHANGED <<chain, ops>>

clickHistory ==
    /\ app.cursor # {} /\ ~app.complete
    /\ Spend("clicks")
    /\ Become(fetchMore(Result(app, loads), app.account))
    /\ UNCHANGED <<chain, ops>>

togglePaymaster ==
    /\ app.balances # {}
    /\ Spend("toggles")
    /\ Become(refreshEffect(Result([app EXCEPT !.paymasterEnabled = ~@], loads)))
    /\ UNCHANGED <<chain, ops>>

selectFeeToken(token) ==
    /\ app.paymasterEnabled /\ token \in app.balances /\ {token} # app.feeToken
    /\ Spend("toggles")
    /\ Become(refreshEffect(Result([app EXCEPT !.feeToken = {token}], loads)))
    /\ UNCHANGED <<chain, ops>>

\* The pool's fee is read once, when the tab is opened; a failure is final.
initFeeConfig ==
    /\ ~app.feeAmount
    /\ Become(refreshEffect(Result([app EXCEPT !.feeAmount = TRUE], loads)))
    /\ UNCHANGED <<chain, ops, budget>>

newBlock ==
    /\ Spend("blocks")
    /\ chain' = [chain EXCEPT !.height = @ + 1]
    /\ UNCHANGED <<app, ops, loads>>

\* The tab as it is opened, with the fee token of an earlier visit, or once
\* everything it loads then has been answered.
Opened(account, token) ==
    refreshEffect(Result([account |-> account, paymasterEnabled |-> TRUE, feeToken |-> token, feeAmount |-> FALSE,
                          balances |-> {}, cursor |-> {}, txs |-> <<>>, from |-> {}, autoFetched |-> FALSE,
                          loading |-> FALSE, complete |-> FALSE, lastTx |-> {}, recorded |-> {}], EmptyBag))

Loaded(account) ==
    LET all  == NewestFirst(HistoryOf({account}, chain.height))
        page == FirstFew(all, PageSize)
    IN  Result(initLastTxBlock(
            [Opened(account, {CHOOSE t \in Private[account] : TRUE}).app EXCEPT
                !.feeAmount = TRUE, !.balances = Private[account], !.cursor = {account}, !.autoFetched = TRUE,
                !.txs = page, !.complete = (Len(all) <= PageSize),
                !.from = {[cursor |-> {account}, last |-> {Last(page)}]}]), EmptyBag)

DemoInit ==
    /\ budget \in Budgets
    /\ chain = [height    |-> StartBlock,
                txs       |-> UNION {{[owner |-> a, block |-> b, id |-> 0] : b \in PastBlocks[a]} : a \in Accounts},
                allowance |-> [a \in Accounts |-> 0],
                private   |-> Private]
    /\ ops = [h \in Hooks |-> Idle]
    /\ \E r \in IF budget.loaded THEN {Loaded(budget.account)}
               ELSE {Opened(budget.account, token) : token \in {{}} \cup {{t} : t \in Tokens}} :
         app = r.app /\ loads = r.loads

DemoNext ==
    \/ \E l \in BagToSet(loads) : refreshed(l) \/ pageAnswered(l) \/ pageShown(l) \/ latestAnswered(l) \/ loadFails(l)
    \/ \E h \in Hooks, kind \in Kinds, deposits \in SUBSET Tokens : start(h, kind, deposits)
    \/ \E h \in Hooks : step(h) \/ chooseBlock(h) \/ prove(h) \/ submit(h) \/ received(h) \/ throws(h)
    \/ \E account \in Accounts : switch(account)
    \/ clickRefresh \/ clickHistory \/ togglePaymaster \/ initFeeConfig \/ newBlock
    \/ \E token \in Tokens : selectFeeToken(token)

DemoSpec == DemoInit /\ [][DemoNext]_demoVars

-----------------------------------------------------------------------------
(* Properties.                                                             *)

\* useLastTxBlock, waitForProvingBlock: a proof is computed on a state that contains
\* every transaction of the account completed before the floor was read, through
\* either hook: otherwise it would spend notes those transactions have spent.  This
\* is so of a transaction completed while its account was active, if no other account
\* has been made active between then and the reading of the floor.  Of the others
\* nothing is said: a switch forgets the floor, and an operation whose account is not
\* the active one reads the floor of the account that is.
ProvesOwnState ==
    \A h \in Hooks : ops[h] # Idle =>
        \A proving \in ops[h].proving, t \in ops[h].known : t.kept => t.block <= proving

\* The fee can be paid.  ensureFeeApproval, deposit: once the pool's fee is
\* known, an operation of useTransactions that is its own caller and runs
\* alone reaches the pool with the allowance that is pulled from it, fee and
\* deposit together.  App: whenever the paymaster can be used, its fee is to
\* be paid in a token that has a private balance in the state displayed,
\* whichever load wrote it.
FeePayable ==
    /\ LET op == ops["actions"]
       IN  op # Idle => (op.step = "submit" /\ op.fee = PoolFee /\ op.alone
                           => chain.allowance[op.account] >= Pulled(op))
    /\ app.balances # {} => app.feeToken # {} /\ app.feeToken \subseteq app.balances
=============================================================================
