---------------------------- MODULE ClientBuilder ----------------------------
(***************************************************************************)
(* The dapp client's operation builder, and the translation of the actions *)
(* it collects into the SDK's own builder when they are proved.            *)
(***************************************************************************)
EXTENDS TransferBuilder

(***************************************************************************)
(* The client's builder: a list of actions.  The calldata of an invoke may *)
(* name open notes of the transaction, by the order of their creation.     *)
(***************************************************************************)

PrivacyBuilder == [actions |-> <<>>, openNoteCount |-> 0, invoked |-> FALSE, thrown |-> FALSE]

append(b, a) == [b EXCEPT !.actions = Append(@, a)]

Strk20Action(type, t, amt, to) ==
    [type |-> type, token |-> t, amount |-> amt, recipient |-> to, calldata |-> <<>>]

createOpenNote(b, t) ==
    IF b.invoked THEN [b EXCEPT !.thrown = TRUE]
    ELSE append([b EXCEPT !.openNoteCount = @ + 1], Strk20Action("transfer", t, Open, Me))

\* The placeholders of the open notes created so far, and of the pool.
invokeArgs(b) == [i \in 1..b.openNoteCount |-> [kind |-> "openNote", index |-> i]]
                 \o <<[kind |-> "poolAddress", index |-> 0]>>

\* An invoke whose calldata passes on everything it was given.
InvokePhase(b, type) ==
    append([b EXCEPT !.invoked = TRUE],
           [Strk20Action(type, Me, 0, Me) EXCEPT !.calldata = invokeArgs(b)])

\* A shadow account's invoke carries calls, and no placeholders.
appendInvokePhase(b) ==
    append([b EXCEPT !.invoked = TRUE], Strk20Action("shadow_account_invoke", Me, 0, Me))

\* One call of a builder method; a builder that threw is not used again.
Call(b, c) ==
    CASE b.thrown -> b
      [] c.op = "createOpenNote" -> createOpenNote(b, c.token)
      [] c.op \in {"deposit", "withdraw", "transfer"} ->
             append(b, Strk20Action(c.op, c.token, c.amount, c.to))
      [] c.op \in {"invoke", "compute_and_invoke"} -> InvokePhase(b, c.op)
      [] c.op = "shadow_account_invoke" -> appendInvokePhase(b)

Build(calls) == FoldLeft(Call, PrivacyBuilder, calls)

(***************************************************************************)
(* Proving: the actions are replayed on the SDK's builder, which keeps the *)
(* operations of each token together, tokens in the order of first use.    *)
(***************************************************************************)

\* builder.with(token): what is collected for the token, and the builder after an
\* operation on it.
TokenBuilder(b, t) ==
    IF \E i \in DOMAIN b.tokens : b.tokens[i].token = t
    THEN b.tokens[CHOOSE i \in DOMAIN b.tokens : b.tokens[i].token = t]
    ELSE TokenOperationsBuilder(t)

With(b, tb) ==
    LET at == {i \in DOMAIN b.tokens : b.tokens[i].token = tb.token}
    IN  [b EXCEPT !.tokens = IF at = {} THEN Append(@, tb)
                             ELSE [i \in DOMAIN @ |-> IF i \in at THEN tb ELSE @[i]]]

\* r = [builder, calldata of the invoke, thrown].
replay(r, a) ==
    CASE r.thrown -> r
      [] a.type = "deposit" ->
             [r EXCEPT !.builder = With(@, deposit(TokenBuilder(@, a.token), a.amount, {}))]
      [] a.type = "withdraw" ->
             [r EXCEPT !.builder = With(@, withdraw(TokenBuilder(@, a.token), a.amount, a.recipient))]
      [] a.type = "transfer" ->
             [r EXCEPT !.builder = With(@, transfer(TokenBuilder(@, a.token), a.recipient, a.amount))]
      [] r.builder.invoke -> [r EXCEPT !.thrown = TRUE]
      [] OTHER -> [r EXCEPT !.builder = invoke(@), !.calldata = a.calldata]

translate(actions) ==
    FoldLeft(replay, [builder |-> PrivateTransfersBuilder(<<>>), calldata |-> <<>>,
                      thrown |-> FALSE], actions)

\* The open notes an invoke may deposit into, in the order they are created in.
invokeBuilderArgs(creates) == SelectSeq(creates, LAMBDA n : n.amount = Open)

\* The open notes the calldata names; a placeholder past them throws.
InRange(calldata, openNotes) ==
    \A i \in DOMAIN calldata : calldata[i].kind = "openNote" => calldata[i].index \in DOMAIN openNotes

substitute(calldata, openNotes) ==
    LET named == SelectSeq(calldata, LAMBDA x : x.kind = "openNote")
    IN  [i \in DOMAIN named |-> openNotes[named[i].index]]

=============================================================================
