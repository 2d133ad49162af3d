------------------------------ MODULE MCWallet ------------------------------
(***************************************************************************)
(* Instances of Wallet: a user, one other user, two tokens.                *)
(***************************************************************************)
EXTENDS Wallet

CONSTANTS alice, bob, strk, eth

MCMe == alice
MCOthers == {bob}
MCTokens == {strk, eth}

T(t) == TokenOperationsBuilder(t)

Opts(r, s, c, n, sel, const, counted) ==
    [autoRegister |-> r, autoSetup |-> s, channels |-> c, notes |-> n, select |-> sel,
     registryConst |-> const, counted |-> counted]

SimpleOptions == Opts(TRUE, TRUE, "refresh", "refresh", "all", FALSE, TRUE)
Cached == Opts(TRUE, TRUE, "missing", "missing", "naive", FALSE, FALSE)
Careful == Opts(TRUE, TRUE, "refresh", "all", "naive", TRUE, TRUE)
Manual == Opts(FALSE, FALSE, "none", "none", "none", FALSE, TRUE)

\* Deposit, pay, withdraw and swap; a deposit sent to somebody else; channels set
\* up by hand; an amount that is not positive.
MCRequests ==
    LET q(b, o) == [builder |-> b, options |-> o]
        sent == PrivateTransfersBuilder(<<deposit(T(strk), 1, {bob})>>)
        byHand == setup(register(PrivateTransfersBuilder(<<setupToken(T(strk), bob)>>)), bob)
        paid == surplusToAll(PrivateTransfersBuilder(<<transfer(T(strk), bob, 1)>>), bob, TRUE)
    IN  { q(simpleDeposit(strk, 2), SimpleOptions),
          q(simpleTransfer(strk, bob, 1), SimpleOptions),
          q(simpleWithdraw(strk, 0), SimpleOptions),
          q(simpleSwap(strk, 1, eth), Cached),
          q(sent, Cached), q(byHand, Manual),
          q(paid, Careful) }

\* The same deposit and payment with notes that are refreshed, and not forgotten
\* first.
Refreshed == Opts(TRUE, TRUE, "refresh", "refresh", "naive", FALSE, TRUE)
MCRefreshedRequests ==
    {[builder |-> [b EXCEPT !.clear = FALSE], options |-> Refreshed]
       : b \in {simpleDeposit(strk, 2), simpleTransfer(strk, bob, 1)}}

MCInputOptions == {Cached, Manual}
=============================================================================
