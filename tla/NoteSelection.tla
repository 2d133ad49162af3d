---------------------------- MODULE NoteSelection ----------------------------
(***************************************************************************)
(* The part of the compiler that balances a request: which tokens it needs *)
(* notes of, which notes it spends, and where the surplus goes.            *)
(***************************************************************************)
EXTENDS PoolSimulator

AmountsPositive(acts) ==
    /\ \A x \in SetOf(acts.deposits) \cup SetOf(acts.uses) \cup SetOf(acts.withdraws) : x.amount > 0
    /\ \A x \in SetOf(acts.creates) : x.amount = Open \/ x.amount > 0

\* Inputs less outputs, for every token that the request moves.
balances(acts) ==
    LET enc == SelectSeq(acts.creates, LAMBDA x : x.amount # Open)
        total(s, t) == SumOf(OfToken(s, t), Amount)
    IN  [t \in {x.token : x \in SetOf(acts.deposits) \cup SetOf(acts.uses)
                                   \cup SetOf(acts.withdraws) \cup SetOf(enc)} |->
            total(acts.deposits, t) + total(acts.uses, t) - total(acts.withdraws, t) - total(enc, t)]

tokensToDiscover(acts, opts, reg) ==
    LET bal == balances(acts)
    IN  CASE opts.notes = "none" -> {}
          [] opts.notes = "all" -> Tokens
          [] OTHER -> {t \in DOMAIN bal :
                /\ \/ bal[t] < 0
                   \/ opts.select = "all" /\ \E x \in SetOf(acts.surpluses) : x.token = t
                /\ opts.notes = "refresh" \/ t \notin DOMAIN reg.notes}

LargestFirst(notes) == SetToSortSeq(notes, LAMBDA a, b : a.amount > b.amount)

\* The notes taken for a balance: largest first until it is covered, or all.
selectNotes(avail, balance, opts) ==
    LET sorted == LargestFirst(avail)
        covers(n) == balance + SumOf(SubSeq(sorted, 1, n), Amount) >= 0
        enough == {n \in 1..Len(sorted) : covers(n)}
    IN  CASE opts.select = "all" -> sorted
          [] opts.select = "naive" /\ balance < 0 ->
                SubSeq(sorted, 1, IF enough = {} THEN Len(sorted)
                                  ELSE CHOOSE n \in enough : \A m \in enough : n <= m)
          [] OTHER -> <<>>

\* One token of the request: inputs are added for a deficit, then an output for
\* the surplus.  It goes to the surplus recipient, by default back to a user who
\* deposits.
settleToken(r, t, balance, used, reg, opts) ==
    LET picked == selectNotes(NotesOf(reg.notes, t) \ used, balance, opts)
        left == balance + SumOf(picked, Amount)
        taken == [r EXCEPT !.acts.uses = @ \o picked]
        asked == OfToken(r.acts.surpluses, t)
        deposited == OfToken(r.acts.deposits, t) # <<>>
        own == [recipient |-> Me, withdraw |-> FALSE, token |-> t]
        surplus == IF asked # <<>> THEN asked[1] ELSE own
        kept == IF asked # <<>> THEN taken ELSE [taken EXCEPT !.acts.surpluses = Append(@, own)]
    IN  CASE r.error # "none" -> r
          [] left < 0 -> [taken EXCEPT !.error = "insufficient"]
          [] left = 0 -> taken
          [] asked = <<>> /\ ~deposited -> [taken EXCEPT !.error = "surplus"]
          [] surplus.withdraw ->
                [kept EXCEPT !.acts.withdraws = Append(@, [recipient |-> surplus.recipient,
                                                           token |-> t, amount |-> left])]
          [] OTHER ->
                [kept EXCEPT !.acts.creates = Append(@, [recipient |-> surplus.recipient,
                                                         token |-> t, amount |-> left])]

=============================================================================
