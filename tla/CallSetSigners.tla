--------------------------- MODULE CallSetSigners ---------------------------
(***************************************************************************)
(* The signers of the dapp client.  A hash is the term that was hashed, so *)
(* two hashes agree exactly when what they bind agrees.  The account on    *)
(* chain recomputes the term from what it received.  A signer answers the  *)
(* set of its signature, empty when it throws.                             *)
(***************************************************************************)
EXTENDS Integers, Sequences

CONSTANTS
    Account,       \* the address of the user's account
    Mask,          \* 2^128: addresses below it are their own low half
    SnChain        \* the Starknet chain

ASSUME SignerAssumption == Account \in Nat /\ Mask \in Nat \ {0}

Low(a) == a % Mask

(***************************************************************************)
(* SNIP-12: the CallSet of a Starknet account.                             *)
(***************************************************************************)

hashCall(c) == <<"Call", c.to, c.selector, c.data>>

hashCallSet(calls, additionalData) ==
    <<"CallSet", [i \in DOMAIN calls |-> hashCall(calls[i])], additionalData>>

computeCallSetHash(account, calls, chain, additionalData) ==
    <<"StarkNet Message", <<"StarknetDomain", "CallSet", 1, chain, 1>>, account,
      hashCallSet(calls, additionalData)>>

(***************************************************************************)
(* EIP-712: the same CallSet for an account owned by an EVM key, and the   *)
(* outside execution the paymaster relays.  The domain holds only the low  *)
(* half of the account's address.                                          *)
(***************************************************************************)

eip712DomainSeparator(d) == <<"EIP712Domain", d.name, d.version, d.chainId, d.verifyingContract>>

wrapEip712(separator, structHash) == <<"1901", separator, structHash>>

\* keccak over 32-byte words, with type hashes of its own.
hashCall712(c) == <<"Call(uint256)", c.to, c.selector, c.data>>

hashCallSet712(calls, additionalData) ==
    <<"CallSet(uint256)", [i \in DOMAIN calls |-> hashCall712(calls[i])], additionalData>>

computeCallSet712Hash(account, calls, snChain, evmChain, additionalData) ==
    wrapEip712(eip712DomainSeparator([name |-> snChain, version |-> "2", chainId |-> evmChain,
                                      verifyingContract |-> Low(account)]),
               hashCallSet712(calls, additionalData))

hashOutsideExecution(m) ==
    <<"OutsideExecution", [i \in DOMAIN m.calls |-> hashCall712(m.calls[i])],
      m.caller, m.nonce, m.execute_after, m.execute_before>>

computeOutsideExecution712Hash(domain, message) ==
    wrapEip712(eip712DomainSeparator(domain), hashOutsideExecution(message))

callSetTypedData(account, calls, snChain, evmChain, additionalData) ==
    [primaryType |-> "CallSet",
     domain      |-> [name |-> snChain, version |-> "2", chainId |-> evmChain,
                      verifyingContract |-> Low(account)],
     message     |-> [calls |-> calls, additional_data |-> additionalData]]

outsideExecutionTypedData(account, snChain, evmChain, message) ==
    [primaryType |-> "OutsideExecution",
     domain      |-> [name |-> snChain, version |-> "2", chainId |-> evmChain,
                      verifyingContract |-> Low(account)],
     message     |-> message]

\* What a browser wallet hashes when it is handed typed data.
signTypedData_v4(td) ==
    wrapEip712(eip712DomainSeparator(td.domain),
               IF td.primaryType = "CallSet"
               THEN hashCallSet712(td.message.calls, td.message.additional_data)
               ELSE hashOutsideExecution(td.message))

\* The recovery byte: 0 and 1 become 27 and 28, anything else but these is refused.
parseEthSignature(digest, v) ==
    IF v \notin {0, 1, 27, 28} THEN {}
    ELSE {[digest |-> digest, v |-> IF v < 27 THEN v + 27 ELSE v]}

toSixFelt(parts, evmChain) == {<<p.digest, p.v, evmChain>> : p \in parts}

(***************************************************************************)
(* The three signers: [kind, snChain, evmChain, v], v being the recovery   *)
(* byte the wallet answers with.                                           *)
(***************************************************************************)

\* The secp256k1 components over a digest: from a raw key, or from a wallet
\* that was handed the typed data.
signParts(signer, digest, td) ==
    IF signer.kind = "eip712_hash"
    THEN {[digest |-> digest, v |-> 27]}
    ELSE parseEthSignature(signTypedData_v4(td), signer.v)

\* A Starknet key signs the SNIP-12 hash of the calls, and messages as they are
\* (signMessage).
Snip12CallSetSigner(signer, calls) == {computeCallSetHash(Account, calls, signer.snChain, <<>>)}

signTransaction(signer, calls) ==
    IF signer.kind = "snip12" THEN Snip12CallSetSigner(signer, calls)
    ELSE toSixFelt(signParts(signer,
                             computeCallSet712Hash(Account, calls, signer.snChain,
                                                   signer.evmChain, <<>>),
                             callSetTypedData(Account, calls, signer.snChain,
                                              signer.evmChain, <<>>)),
                   signer.evmChain)

outsideExecutionHash(td) == computeOutsideExecution712Hash(td.domain, td.message)


\* Only an outside execution is signed by an EIP-712 signer, and the chain
\* that goes with the signature is that of the signed domain.
signMessage(signer, td) ==
    IF signer.kind = "snip12" THEN {<<"snip12", Account, td>>}
    ELSE IF td.primaryType # "OutsideExecution" THEN {}
    ELSE toSixFelt(signParts(signer, outsideExecutionHash(td), td), td.domain.chainId)

(***************************************************************************)
(* The account on chain: it recomputes the term, for the chain it runs on  *)
(* and, for an EVM key, the EVM chain the signature names.                 *)
(***************************************************************************)

is_valid_call_set(kind, calls, sig) ==
    IF kind = "snip12"
    THEN sig = computeCallSetHash(Account, calls, SnChain, <<>>)
    ELSE /\ sig[2] \in {27, 28}
         /\ sig[1] = computeCallSet712Hash(Account, calls, SnChain, sig[3], <<>>)

is_valid_outside_execution(kind, td, sig) ==
    IF kind = "snip12"
    THEN sig = <<"snip12", Account, td>>
    ELSE /\ sig[2] \in {27, 28}
         /\ sig[1] = computeOutsideExecution712Hash(
                         [name |-> SnChain, version |-> "2", chainId |-> sig[3],
                          verifyingContract |-> Low(Account)], td.message)

=============================================================================
