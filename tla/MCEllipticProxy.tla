-------------------------- MODULE MCEllipticProxy ---------------------------
(***************************************************************************)
(* Instances of the screening service for TLC.  Good is spelled in two     *)
(* ways; Bad is denied by every configuration.  The second version of the  *)
(* secret allows Good whatever Elliptic says; the third does not validate. *)
(***************************************************************************)
EXTENDS EllipticProxy, TLC

CONSTANTS Good, Bad, Stripped, Padded, BadAddr, Junk, Wallet, Bridge, c1, c2, c3

MCfeltOf == (Stripped :> Good @@ Padded :> Good @@ BadAddr :> Bad @@ Junk :> Invalid)

Base ==
    [url |-> "live", chainId |-> "SN_MAIN", timeout |-> 1, rateLimitPerMinute |-> 1,
     maxBodyBytes |-> 1, configCacheTtl |-> 2, blockedCacheTtl |-> 2,
     partners |-> (Wallet :> "w" @@ Bridge :> "b"), listsParse |-> TRUE,
     additionalBlockedAddresses |-> {Bad}, blockOverrideAddresses |-> {},
     signingKey |-> "k1"]

\* Good is allowed whatever Elliptic says; blocks are remembered for less long.
GoodAllowed == [Base EXCEPT !.blockOverrideAddresses = {Good}, !.blockedCacheTtl = 1]
MockOnMain == [Base EXCEPT !.url = "mock"]

MCConfigs == <<Base, GoodAllowed, MockOnMain>>

Request(partner, hmac, address) ==
    [headers |-> TRUE, partner |-> partner, hmac |-> hmac, age |-> 0, size |-> 1,
     address |-> address]

MCRequests == {Request(Wallet, "w", Stripped), Request(Bridge, "b", BadAddr)}

Element(percentage, usd, counterparty, counterparty_usd) ==
    [contribution_percentage |-> percentage, contribution_usd |-> usd,
     counterparty_percentage |-> counterparty, counterparty_usd |-> counterparty_usd]

Body(status, rule, score, elements) ==
    [process_status |-> status, destination |-> <<>>,
     source |-> <<[rule_id |-> rule, risk_score |-> score, matched_elements |-> elements]>>]

MCBodies ==
    {Body("complete", "ILLICIT_ACTIVITY", 0, <<Element(20, 11, 0, 0)>>),
     Body("complete", "ILLICIT_ACTIVITY", 0, <<Element(20, 11, 0, 0), Element(1, 4989, 0, 0)>>)}

Calls == Permutations(Call)
=============================================================================
