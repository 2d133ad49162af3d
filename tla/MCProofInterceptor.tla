------------------------- MODULE MCProofInterceptor -------------------------
(***************************************************************************)
(* Instances of the proof interceptor for TLC.  User deposits and swaps    *)
(* into an open note, only swaps, or interacts through a shadow account.   *)
(* One unit of time is a second: the pause after a first failure.          *)
(***************************************************************************)
EXTENDS ProofInterceptor, TLC

CONSTANTS User, UserPadded, Helper, Shadow, PoolAddr, Junk, t1, t2

MCFelt == {User, Helper, Shadow, PoolAddr}
MCAddress == MCFelt \cup {UserPadded, Junk}
MCcanonical == [f \in MCFelt |-> f]
MCfeltOf == MCcanonical @@ (UserPadded :> User @@ Junk :> Invalid)
MCshadowOf == [f \in MCFelt |-> Shadow]
MCCall == Tx \X (0 .. 1)

Env ==
    [screening |-> TRUE, complete |-> TRUE, tlsCert |-> FALSE, tlsKey |-> FALSE,
     maxBodyBytes |-> 1, blockNonPoolTx |-> TRUE, timeoutMs |-> 2, maxRetries |-> 1,
     totalTimeoutMs |-> 2, policyTtlMs |-> 1, policyTimeoutMs |-> 1]

MCEnvs == {Env, [Env EXCEPT !.screening = FALSE], [Env EXCEPT !.complete = FALSE],
           [Env EXCEPT !.tlsCert = TRUE]}

Always(policy) == [f \in MCFelt |-> policy]
MCPolicies == {Always("absent"), Always("Required"), Always("Delegated")}

Deposit == [variant |-> "Deposit"]
CreateOpenNote == [variant |-> "CreateOpenNote"]
InvokeExternal == [variant |-> "InvokeExternal", contract_address |-> Helper]
ComputeAndInvoke ==
    [variant |-> "ComputeAndInvoke", contract_address |-> Helper, computeDecodes |-> TRUE,
     invokeDecodes |-> TRUE, openNotes |-> 1]

Pays(user, actions) ==
    [size |-> 1, defects |-> {},
     tx |-> [calls |-> 1, to |-> PoolAddr, decodes |-> TRUE, user |-> user,
             viewingKeyParses |-> TRUE, actions |-> actions]]

Shield == Pays(UserPadded, <<Deposit, CreateOpenNote, InvokeExternal>>)
Swap == Pays(User, <<CreateOpenNote, InvokeExternal>>)
Dapp == Pays(User, <<CreateOpenNote, ComputeAndInvoke>>)

MCRequests ==
    {Shield, Swap, Dapp,
     [Dapp EXCEPT !.tx.viewingKeyParses = FALSE],
     [Shield EXCEPT !.tx.to = Junk],
     [Shield EXCEPT !.defects = {"version", "transaction"}]}

Txs == Permutations(Tx)
=============================================================================
