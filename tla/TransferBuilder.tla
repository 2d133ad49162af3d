--------------------------- MODULE TransferBuilder ---------------------------
(***************************************************************************)
(* The SDK's builders: what a request is before anything is discovered.    *)
(* A request is collected per token and joined into one set of actions.    *)
(***************************************************************************)
EXTENDS Integers, Sequences, FiniteSets, SequencesExt

CONSTANTS Me, Others, Tokens

Users == {Me} \cup Others

\* The amount of an open note, which the invoked contract fills.
Open == -1

\* f with f[k] = v, whether or not k was in its domain.
Put(f, k, v) == [x \in DOMAIN f \cup {k} |-> IF x = k THEN v ELSE f[x]]
Empty == [x \in {} |-> {}]
SetOf(s) == {s[i] : i \in DOMAIN s}
SumOf(s, W(_)) == FoldLeft(LAMBDA acc, x : acc + W(x), 0, s)
Amount(x) == x.amount
OfToken(s, t) == SelectSeq(s, LAMBDA x : x.token = t)

-----------------------------------------------------------------------------
(***************************************************************************)
(* The builder: a request is collected per token.                          *)
(***************************************************************************)

TokenOperationsBuilder(t) ==
    [token |-> t, openTokens |-> <<>>, uses |-> <<>>, deposits |-> <<>>,
     creates |-> <<>>, withdraws |-> <<>>, surplus |-> {}]

PrivateTransfersBuilder(tbs) ==
    [register |-> FALSE, open |-> <<>>, tokens |-> tbs, surplus |-> {},
     invoke |-> FALSE, clear |-> FALSE]

register(b) == [b EXCEPT !.register = TRUE]

setup(b, r) == [b EXCEPT !.open = Append(@, r)]

invoke(b) == [b EXCEPT !.invoke = TRUE]

surplusToAll(b, r, wd) == [b EXCEPT !.surplus = {[recipient |-> r, withdraw |-> wd]}]

setupToken(tb, r) ==
    [tb EXCEPT !.openTokens = Append(@, [recipient |-> r, token |-> tb.token])]

inputs(tb, notes) == [tb EXCEPT !.uses = @ \o SetToSeq(notes)]

\* A deposit with a recipient is a deposit and a transfer.
deposit(tb, amt, recipients) ==
    [tb EXCEPT !.deposits = Append(@, [token |-> tb.token, amount |-> amt]),
               !.creates = @ \o SetToSeq({[recipient |-> r, token |-> tb.token, amount |-> amt]
                                          : r \in recipients})]

withdraw(tb, amt, to) ==
    [tb EXCEPT !.withdraws = Append(@, [token |-> tb.token, amount |-> amt, recipient |-> to])]

transfer(tb, r, amt) ==
    [tb EXCEPT !.creates = Append(@, [recipient |-> r, token |-> tb.token, amount |-> amt])]

surplusTo(tb, r, wd) == [tb EXCEPT !.surplus = {[recipient |-> r, withdraw |-> wd]}]

\* The operations of all tokens joined, with the surplus recipient of each:
\* its own, or the builder's.
collectActions(b) ==
    LET joined(F(_)) == FlattenSeq([i \in DOMAIN b.tokens |-> F(b.tokens[i])])
        surplus(tb) == IF tb.surplus # {} THEN tb.surplus ELSE b.surplus
    IN  [register   |-> b.register,
         open       |-> b.open,
         openTokens |-> joined(LAMBDA tb : tb.openTokens),
         deposits   |-> joined(LAMBDA tb : tb.deposits),
         uses       |-> joined(LAMBDA tb : tb.uses),
         creates    |-> joined(LAMBDA tb : tb.creates),
         withdraws  |-> joined(LAMBDA tb : tb.withdraws),
         surpluses  |-> joined(LAMBDA tb : SetToSeq({[recipient |-> s.recipient,
                                 withdraw |-> s.withdraw, token |-> tb.token] : s \in surplus(tb)})),
         invoke     |-> b.invoke]

(***************************************************************************)
(* The requests of SimplePrivateTransfers, which forgets the notes of its  *)
(* registry before every one of them.                                      *)
(***************************************************************************)

Simple(tbs) == [PrivateTransfersBuilder(tbs) EXCEPT !.clear = TRUE]

simpleDeposit(t, amt) == Simple(<<deposit(TokenOperationsBuilder(t), amt, {})>>)

simpleWithdraw(t, amt) ==
    Simple(<<surplusTo(withdraw(TokenOperationsBuilder(t), amt, Me), Me, FALSE)>>)

simpleTransfer(t, r, amt) ==
    Simple(<<surplusTo(transfer(TokenOperationsBuilder(t), r, amt), Me, FALSE)>>)

simpleSwap(from, amt, to) ==
    invoke(Simple(<<surplusTo(withdraw(TokenOperationsBuilder(from), amt, Me), Me, FALSE),
                    transfer(TokenOperationsBuilder(to), Me, Open)>>))
=============================================================================
