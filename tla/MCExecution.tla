----------------------------- MODULE MCExecution -----------------------------
(***************************************************************************)
(* Two submissions of one wallet: two tokens, the fee paid in one of them, *)
(* a signer of each kind, both transports.                                 *)
(***************************************************************************)
EXTENDS Execution

Op(op, t, amt) == [op |-> op, token |-> t, amount |-> amt, to |-> CHOOSE o \in Others : TRUE]

\* A payment, a deposit, a swap whose proceeds fill open notes, and what the
\* builders refuse: a second invoke, a note opened after the invoke.
Swap == CHOOSE t \in Tokens : t # FeeToken
MCPrograms ==
    {<<Op("withdraw", FeeToken, 1)>>,
     <<Op("deposit", FeeToken, 2)>>,
     <<Op("withdraw", FeeToken, 1), Op("createOpenNote", Swap, 0), Op("createOpenNote", FeeToken, 0),
       Op("invoke", Swap, 0)>>,
     <<Op("transfer", Swap, 1), Op("compute_and_invoke", Swap, 0)>>,
     <<Op("shadow_account_invoke", Swap, 0), Op("invoke", Swap, 0)>>,
     <<Op("invoke", Swap, 0), Op("createOpenNote", Swap, 0)>>}

Signer(kind, chain, v) == [kind |-> kind, snChain |-> SnChain, evmChain |-> chain, v |-> v]
MCConfigs ==
    {[signer |-> Signer("snip12", 1, 27), transport |-> "plain", pinned |-> FALSE, node |-> TRUE],
     [signer |-> Signer("eip712_hash", 1, 27), transport |-> "ohttp", pinned |-> FALSE, node |-> FALSE],
     [signer |-> Signer("eip712_typed", 1, 0), transport |-> "ohttp", pinned |-> TRUE, node |-> FALSE],
     [signer |-> Signer("eip712_typed", 1, 37), transport |-> "plain", pinned |-> FALSE, node |-> FALSE]}

\* The user is registered and has been paid notes of the given amounts.
Paid(amounts) ==
    [EmptyLedger EXCEPT
        !.keys = @ \cup {Me}, !.paid[FeeToken] = Len(amounts),
        !.notes = {[from |-> CHOOSE o \in Others : TRUE, token |-> FeeToken, idx |-> i - 1, amount |-> amounts[i]]
                      : i \in DOMAIN amounts}]

\* The user has, besides, a channel to itself with a subchannel of the fee token.
Settled(l) == [l EXCEPT !.out = <<Me>>, !.subs[Me] = <<FeeToken>>]

\* A new user, and one with notes who has also paid before.
MCLedgers == {EmptyLedger, Settled(Paid(<<1, 1, 1>>))}

\* One note, larger than a fee.
MCOneNote == {Paid(<<3>>)}

=============================================================================
