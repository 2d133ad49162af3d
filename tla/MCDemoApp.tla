------------------------------ MODULE MCDemoApp ------------------------------
(***************************************************************************)
(* The demo on small instances.  Its parts share no state: a behaviour is  *)
(* one of a single part, chosen at first.                                  *)
(***************************************************************************)
EXTENDS DemoApp, DemoPanels

CONSTANTS Executor, Forwarder

VARIABLES part, entry   \* the part at work; the history entry on display

First == CHOOSE a \in Accounts : TRUE
Second == CHOOSE a \in Accounts : a # First

-----------------------------------------------------------------------------
(* What the user does: three operations through both hooks; two while the  *)
(* account is switched; one of any kind with a failure and the paymaster   *)
(* turned off; a tab just opened, a switch, a click, a failed load.        *)

Budget(loaded, n, kinds, switches, clicks, toggles, faults, blocks) ==
    [loaded |-> loaded, account |-> First, ops |-> n, kinds |-> kinds, switches |-> switches, clicks |-> clicks,
     toggles |-> toggles, faults |-> faults, blocks |-> blocks]

MCBudgets ==
    {Budget(TRUE, 3, {"withdraw", "batch"}, 0, 0, 0, 0, 4),
     Budget(TRUE, 2, {"withdraw"}, 1, 0, 0, 0, 4),
     Budget(TRUE, 1, Kinds, 0, 0, 1, 1, 1),
     Budget(FALSE, 0, {}, 1, 1, 1, 1, 0)}

Past == [a \in Accounts |-> IF a = First THEN {1} ELSE {1, 2}]
Holdings == [a \in Accounts |-> IF a = First THEN {STRK} ELSE Tokens \ {STRK}]

-----------------------------------------------------------------------------
(* The history of one transaction, for its sender and for a recipient.     *)

Movement(to, t, n) == [toAddress |-> to, token |-> t, amount |-> n]
NoteFor(to, t, n) == [to |-> to, token |-> t, amount |-> n]
Filled(to, t) == [depositor |-> Executor, to |-> to, token |-> t, amount |-> 1]

Acts ==
    [sender      : {First},
     notes       : SeqOf({NoteFor(to, t, 1) : to \in Accounts, t \in Tokens} \cup {NoteFor(Second, STRK, 2)}, 2),
     open        : {<<>>} \cup {<<Filled(to, t)>> : to \in Accounts, t \in Tokens},
     deposits    : {<<>>, <<[token |-> STRK, amount |-> 1]>>},
     withdrawals : SeqOf({Movement(to, t, 1) : to \in Accounts \cup {Executor, Forwarder}, t \in Tokens}, 1)
                   \cup {<<Movement(Executor, STRK, 2), Movement(Forwarder, STRK, 1)>>,
                         <<Movement(First, STRK, 1), Movement(Executor, STRK, 1)>>},
     registered  : {FALSE}]

Registration ==
    [sender |-> First, notes |-> <<>>, open |-> <<>>, deposits |-> <<>>, withdrawals |-> <<>>, registered |-> TRUE]

\* The cursors the viewer's discovery leaves: its incoming channels, and the
\* channels it has opened.
Incoming(act, viewer) ==
    {[sender |-> act.sender, token |-> t, noteIndex |-> Len(NotesIn(act, <<act.sender, viewer>>, t))] : t \in Tokens}
Outgoing(act, viewer) ==
    IF viewer # act.sender THEN {}
    ELSE {[recipient |-> to, key |-> TRUE, token |-> t, noteNonce |-> Len(NotesIn(act, <<viewer, to>>, t))] :
            to \in Accounts, t \in Tokens}

Display(act, viewer, known) ==
    {toDisplayTransactions(tx, viewer, Tokens, {Executor}, IF known THEN {Forwarder} ELSE {}) :
        tx \in fetchHistory(act, viewer,
                   buildHistoryCursor(viewer, Incoming(act, viewer), Outgoing(act, viewer)))}

show ==
    /\ entry = {}
    /\ \E act \in Acts \cup {Registration}, viewer \in Accounts, known \in BOOLEAN :
         entry' = {[act |-> act, viewer |-> viewer, known |-> known]}

\* classifyTransaction, computeBalanceUpdates: a transaction that made notes
\* shows the sender what its holdings changed by, and a recipient what it
\* received, when the fee recipient is known and the sender withdrew only the
\* fee; "Reorganized" is shown only of a transaction that moved nothing but
\* fees out.
HistoryTrue ==
    \A e \in entry : \A d \in Display(e.act, e.viewer, e.known) :
        LET noted == e.act.notes \o e.act.open # <<>>
            plain == e.known /\ e.act.open = <<>> /\ \A w \in ToSet(e.act.withdrawals) : w.toAddress = Forwarder
        IN  /\ ((noted /\ e.viewer = e.act.sender) \/ plain) =>
                 \A t \in Tokens : d.balanceUpdates[t] = Change(e.act, e.viewer, t)
            /\ Has(d.actions, "transferSelf") =>
                 /\ e.viewer = e.act.sender
                 /\ \A t \in Tokens : Change(e.act, e.viewer, t) =
                        -Sum(SelectSeq(e.act.withdrawals, LAMBDA w : w.toAddress = Forwarder), t)

-----------------------------------------------------------------------------
vars == <<demoVars, panelVars, part, entry>>

\* The operations have nothing to do while another part is at work.
Init ==
    /\ part \in {"app", "history", "accounts", "pools"} \cup Feeds
    /\ entry = {}
    /\ DemoInit /\ PanelsInit
    /\ part # "app" => budget = CHOOSE b \in Budgets : ~b.loaded
    /\ part # "app" => app.feeToken = {}
    /\ part # "accounts" => ~accounts.persist

Next ==
    \/ part = "app"      /\ DemoNext     /\ UNCHANGED <<panelVars, part, entry>>
    \/ part = "history"  /\ show         /\ UNCHANGED <<demoVars, panelVars, part>>
    \/ part = "accounts" /\ AccountsNext /\ UNCHANGED <<demoVars, part, entry>>
    \/ part = "pools"    /\ PoolsNext    /\ UNCHANGED <<demoVars, part, entry>>
    \/ part = "quote"    /\ quoteTimer   /\ UNCHANGED <<demoVars, part, entry>>
    \/ \E f \in Feeds : part = f /\ FeedNext(f) /\ UNCHANGED <<demoVars, part, entry>>

Spec == Init /\ [][Next]_vars

-----------------------------------------------------------------------------
Entry(admin) == [admin |-> admin, keys |-> TRUE]
MCLists == {<<>>, <<Entry(FALSE)>>, <<Entry(TRUE), Entry(FALSE)>>, <<Entry(TRUE), Entry(FALSE), Entry(FALSE)>>,
            <<[admin |-> FALSE, keys |-> FALSE]>>}
=============================================================================
