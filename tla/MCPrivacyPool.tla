--------------------------- MODULE MCPrivacyPool ---------------------------
(***************************************************************************)
(* Instances of the pool for TLC.  Alice and Bob are users, Swap is an     *)
(* external contract that fills open notes, Pool is the contract itself.   *)
(* The group has order 7: private keys 1 and 2 are canonical, 6 and 5 are  *)
(* their negations.  Amounts have width 4 or 3, so sums can overflow.      *)
(***************************************************************************)
EXTENDS PoolAccounting, TLC

VARIABLE scenario   \* which inputs the behaviour is about: a field of Scenarios

CONSTANTS Alice, Bob, Swap, Pool, NoOne, T, U, Auditor1, Auditor2, Screener1, Screener2,
          Class1, Class2

MCAddresses == {Alice, Bob, Swap, Pool}
MCHash == [p \in Index \X Salt |-> (3 + p[1] + p[2]) % AMOUNT_MODULUS]

MCAdmin ==
    [paused |-> FALSE, auditor_public_key |-> Auditor1, screener_public_key |-> Screener1,
     fee_amount |-> 0, fee_collector |-> ZeroAddr, proof_validity_blocks |-> 2,
     class_hash |-> Class1, policies |-> [a \in ContractAddress |-> "Required"]]

FreshAttestations ==
    [depositor : {Alice, Bob, Swap}, issued_at : 0 .. 2, signer : {Screener1}]

-----------------------------------------------------------------------------
\* Registration and channels: two users, two outgoing indices, two subchannels.
AB == compute_channel_key(Alice, 1, Bob, 2)
AA == compute_channel_key(Alice, 1, Alice, 1)

ChannelCallers == {<<Alice, 1>>, <<Alice, 2>>, <<Bob, 2>>}
ChannelActions ==
    {[type |-> "SetViewingKey"]}
      \cup [type : {"OpenChannel"}, recipient_addr : {Alice, Bob}, index : {0, 1}]
      \cup [type : {"OpenSubchannel"}, recipient_addr : {Bob}, recipient_public_key : {2},
            channel_key : {AB}, index : {0, 1}, token : {T, U}]
      \cup [type : {"CreateEncNote"}, recipient_addr : {Bob}, recipient_public_key : {2},
            token : {T}, amount : {0}, index : {0, 1}, salt : {2}]

-----------------------------------------------------------------------------
(***************************************************************************)
(* A pool in use: Alice and Bob have registered, Alice has channels to Bob *)
(* and to herself, each with a subchannel for T (and for U to herself),    *)
(* and holds one note of 2 T.                                              *)
(***************************************************************************)
Registration(user, key) ==
    (public_key_entry(user) :> [public_key |-> derive_public_key(key)])
      @@ (enc_private_key_entry(user) :>
            [auditor_public_key |-> Auditor1, private_key |-> key])

OpenedChannel(ck, index) ==
    (ChannelMarkerOf(ck) :> [exists |-> TRUE])
      @@ (compute_outgoing_channel_id(SenderOf(ck), SenderKeyOf(ck), index) :>
            [recipient_addr |-> RecipientOf(ck)])

OpenedSubchannel(ck, index, token) ==
    (compute_subchannel_id(ck, index) :> [token |-> token])
      @@ (SubchannelMarkerOf(ck, token) :> [exists |-> TRUE])

ChannelsInUse ==
    Registration(Alice, 1) @@ Registration(Bob, 2)
      @@ OpenedChannel(AB, 0) @@ OpenedSubchannel(AB, 0, T)
      @@ OpenedChannel(AA, 1) @@ OpenedSubchannel(AA, 0, T) @@ OpenedSubchannel(AA, 1, U)

PoolInUse ==
    ChannelsInUse @@ (compute_note_id(AA, T, 0) :> enc_note_packed_value(0, 2, 2))

InitInUse ==
    InitWith(PoolInUse,
             [r \in ContractAddress |->
                 CASE r = Alice -> <<ChannelInfoOf(AA)>>
                   [] r = Bob -> <<ChannelInfoOf(AB)>>
                   [] OTHER -> <<>>],
             [t \in Token |-> IF t = T THEN 2 ELSE 0])

\* Spending: Alice and Bob move, split and withdraw notes; 6 and 5 negate 1 and 2.
SpendCallers == {<<Alice, 1>>, <<Alice, 6>>, <<Bob, 2>>, <<Bob, 5>>}
SpendActions ==
    [type : {"Deposit"}, token : {T}, amount : {0, 2}]
      \cup [type : {"UseNote"}, channel_key : {AA}, token : {T}, index : {0, 1}]
      \cup [type : {"UseNote"}, channel_key : {AB}, token : {T}, index : {0}]
      \cup [type : {"CreateEncNote"}, recipient_addr : {Bob}, recipient_public_key : {2},
            token : {T}, amount : {1, 2}, index : {0, 1}, salt : {1, 2}]
      \cup [type : {"CreateEncNote"}, recipient_addr : {Alice}, recipient_public_key : {1},
            token : {T}, amount : {1}, index : {1}, salt : {3}]
      \cup [type : {"Withdraw"}, to_addr : {Alice, Pool}, token : {T}, amount : {0, 1, 2}]

\* Open notes: Alice withdraws to Swap, which fills open notes of hers in U.
OpenNoteCallers == {<<Alice, 1>>}
OpenNoteActions ==
    [type : {"Deposit"}, token : {T}, amount : {2}]
      \cup [type : {"UseNote"}, channel_key : {AA}, token : {T}, index : {0}]
      \cup [type : {"UseNote"}, channel_key : {AA}, token : {U}, index : {0}]
      \cup [type : {"CreateOpenNote"}, recipient_addr : {Alice}, recipient_public_key : {1},
            token : {U}, index : {0, 1}]
      \cup [type : {"Withdraw"}, to_addr : {Swap}, token : {T}, amount : {2}]
      \cup [type : {"Withdraw"}, to_addr : {Bob}, token : {U}, amount : {1}]
      \cup [type : {"InvokeExternal", "ComputeAndInvoke"}, contract_address : {Swap, Pool}]
OpenNoteAdminCalls ==
    [type : {"set_open_note_screening_policy"}, depositor : {Swap},
     policy : {"Exempt", "Delegated"}]
      \cup [type : {"set_screener_public_key"}, key : {Screener2}]

-----------------------------------------------------------------------------
\* Governance: registrations race rotations, fee changes, pauses and upgrades.
AdminCallers == {<<Alice, 1>>, <<Bob, 2>>}
RegistrationActions == {[type |-> "SetViewingKey"]}
GovernorCalls ==
    [type : {"set_auditor_public_key"}, key : {Auditor2}]
      \cup [type : {"set_fee_amount"}, fee_amount : {0, 1}]
      \cup [type : {"set_fee_collector"}, fee_collector : {Bob, NoOne}]
      \cup [type : {"set_proof_validity_blocks"}, blocks : {0, 1}]
      \cup [type : {"set_paused"}, paused : BOOLEAN]
      \cup [type : {"replace_to"}, class_hash : {Class2}]

-----------------------------------------------------------------------------
(***************************************************************************)
(* Every behaviour is about one scenario: its callers, client actions and  *)
(* governors' calls, within its bounds.  A run covers several of them, so  *)
(* that its state space is their union and not their product.              *)
(***************************************************************************)
Scenario(callers, actions, calls, blocks, nproofs, steps) ==
    [callers |-> callers, actions |-> actions, calls |-> calls, blocks |-> blocks,
     proofs |-> nproofs, steps |-> steps]

Scenarios ==
    [channels |-> Scenario(ChannelCallers, ChannelActions, {}, 4, 3, 8),
     governance |-> Scenario(AdminCallers, RegistrationActions, GovernorCalls, 4, 2, 2),
     spending |-> Scenario(SpendCallers, SpendActions, {}, 3, 2, 4),
     open_notes |-> Scenario(OpenNoteCallers, OpenNoteActions, OpenNoteAdminCalls, 2, 2, 6)]

AllCallers == UNION {Scenarios[s].callers : s \in DOMAIN Scenarios}
AllActions == UNION {Scenarios[s].actions : s \in DOMAIN Scenarios}
AllCalls == UNION {Scenarios[s].calls : s \in DOMAIN Scenarios}

WithinBounds ==
    /\ block' <= Scenarios[scenario].blocks
    /\ Cardinality(proofs') <= Scenarios[scenario].proofs
    /\ Len(session'.actions) <= Scenarios[scenario].steps
    /\ UNCHANGED scenario

\* Next, with the scenario's inputs.
ScenarioNext ==
    \/ \E c \in Scenarios[scenario].callers : start_compile(c[1], c[2]) /\ WithinBounds
    \/ \E c \in Scenarios[scenario].actions : client_action(c) /\ WithinBounds
    \/ finish_compile /\ WithinBounds
    \/ abort_compile /\ WithinBounds
    \/ apply_step /\ WithinBounds
    \/ \E c \in Scenarios[scenario].calls : admin_call(c) /\ WithinBounds
    \/ \E seconds \in BlockTimes : new_block(seconds) /\ WithinBounds

NewPoolInit == Init /\ scenario \in {"channels", "governance"}
NewPoolSpec == NewPoolInit /\ [][ScenarioNext]_<<vars, scenario>>

UsedPoolInit == InitInUse /\ scenario \in {"spending", "open_notes"}
UsedPoolSpec == UsedPoolInit /\ [][ScenarioNext]_<<vars, scenario>>
=============================================================================
