--------------------------- MODULE PoolAccounting ---------------------------
(***************************************************************************)
(* The pool's books: what its notes are worth against the tokens it holds. *)
(***************************************************************************)
EXTENDS PoolEntries

IsSpent(st, note_id) ==
    \E a \in DOMAIN st :
        /\ MapOf(a) = "nullifiers"
        /\ a[2] = note_id[2] /\ a[3] = note_id[3] /\ a[4] = note_id[4]

UnspentNotes(st, token) == {a \in NotesOf(st) : a[3] = token /\ ~IsSpent(st, a)}

\* The sum of the values of f, which are amounts: it counts the units of every value.
Total(f) == Cardinality({u \in (DOMAIN f) \X Amount : u[2] < f[u[1]]})

\* What the unspent notes of a token amount to, decoded as use_note decodes them.
Liabilities(st, token) ==
    Total([a \in UnspentNotes(st, token) |-> decode_note_amount(st[a], a[4])])

(***************************************************************************)
(* Solvency: the pool holds at least the tokens that its unspent notes are *)
(* worth, and in the middle of a transaction that reaches a TransferTo it  *)
(* has what is withdrawn (the comment in _apply_transfer_to says so).  No  *)
(* single check enforces it: it follows from the zero final balances of    *)
(* main, the write-once nullifiers and notes, and the deposit of open      *)
(* notes.                                                                  *)
(***************************************************************************)
Solvency ==
    /\ \A t \in Token : pool_balance[t] >= Liabilities(store, t)
    /\ AtAction("TransferTo") => CurrentAction.amount <= tx.balance[CurrentAction.token]

-----------------------------------------------------------------------------
(***************************************************************************)
(* The inductive invariant behind Solvency.  A server action credits the   *)
(* transaction that executes it (it moves tokens in, or spends a note) or  *)
(* debits it (it moves tokens out, or creates a note).  The compiler       *)
(* balances the two over the whole list, and a transaction in the middle   *)
(* of its list still has the credits that cover the rest of its debits.    *)
(***************************************************************************)
\* The note that a nullifier spends.
NoteOf(nullifier) == compute_note_id(nullifier[2], nullifier[3], nullifier[4])

\* What x brings in and takes out of a token; a spent note is read in st.
Credit(x, st, token) ==
    IF x.type = "TransferFrom" /\ x.token = token THEN x.amount
    ELSE IF Writes(x, "nullifiers") /\ x.address[3] = token
         THEN decode_note_amount(st[NoteOf(x.address)], x.address[4])
         ELSE 0

Debit(x, token) ==
    IF x.type = "TransferTo" /\ x.token = token THEN x.amount
    ELSE IF Writes(x, "notes") /\ x.address[3] = token
         THEN decode_note_amount(x.value, x.address[4])
         ELSE 0

\* The credits and the debits of the actions from position pc on.
Credits(actions, st, token, pc) ==
    Total([i \in pc .. Len(actions) |-> Credit(actions[i], st, token)])

Debits(actions, token, pc) ==
    Total([i \in pc .. Len(actions) |-> Debit(actions[i], token)])

Balanced(actions, st) ==
    \A t \in Token : Credits(actions, st, t, 1) = Debits(actions, t, 1)

\* Every note that is spent is in st: none is created by the actions themselves.
SpendsFrom(actions, st) ==
    \A i \in 1 .. Len(actions) :
        Writes(actions[i], "nullifiers") => NoteOf(actions[i].address) \in DOMAIN st

\* Withdrawals come last: all that follows one is a withdrawal or an invoke.
WithdrawsLast(actions) ==
    \A i, j \in 1 .. Len(actions) :
        (i < j /\ actions[i].type = "TransferTo") =>
            actions[j].type \in {"TransferTo", "Invoke", "InvokeWithComputation"}

\* The books hold an open note in the token of its subchannel.
OpenTokens(st) ==
    \A a \in NotesOf(st) : st[a].salt = OPEN_NOTE_SALT => st[a].token = a[3]

StoreBooks ==
    /\ IsFiniteSet(DOMAIN store)
    /\ OpenTokens(store)
    /\ \A t \in Token : pool_balance[t] >= Liabilities(store, t)

SessionBooks ==
    mode = "compile" =>
        /\ SpendsFrom(session.actions, closed.store)
        /\ WithdrawsLast(session.actions)
        /\ \A i \in 1 .. Len(session.actions) :
               /\ Writes(session.actions[i], "notes") => session.phase >= Phase.CreateEncNote
               /\ session.actions[i].type = "TransferTo" => session.phase >= Phase.Withdraw
        /\ \A t \in Token :
               Credits(session.actions, closed.store, t, 1) =
                   session.balances[t] + Debits(session.actions, t, 1)

ProofBooks ==
    \A p \in proofs :
        SpendsFrom(p.actions, store) /\ WithdrawsLast(p.actions) /\ Balanced(p.actions, store)

TxBooks ==
    mode = "apply" =>
        /\ IsFiniteSet(DOMAIN tx.store)
        /\ OpenTokens(tx.store)
        /\ \A t \in Token :
               tx.balance[t] + Credits(tx.proof.actions, store, t, tx.pc) >=
                   Liabilities(tx.store, t) + Debits(tx.proof.actions, t, tx.pc)

BooksInv == StoreBooks /\ SessionBooks /\ ProofBooks /\ TxBooks
=============================================================================
