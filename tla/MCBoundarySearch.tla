-------------------------- MODULE MCBoundarySearch --------------------------
(***************************************************************************)
(* The two ways the end of a subchannel is found: the service's boundary   *)
(* search, over subchannels of up to MaxNotes notes probed with offsets    *)
(* 0, 1, 3, 7, 15; and the scans of the SDK's contract discovery, with a   *)
(* first offset and step of 2.  A behaviour is one of either.              *)
(***************************************************************************)
EXTENDS BoundarySearch, ContractDiscovery

VARIABLE part

MCPow2 == [k \in ProbeIndex |-> 2 ^ k]

P1 == CHOOSE p \in Peers : TRUE
T1 == CHOOSE t \in Tokens : TRUE
T2 == CHOOSE t \in Tokens : t # T1

Pool(keys, channels, tokens, count, spent) ==
    [keys |-> keys, channels |-> channels,
     tokens |-> [p \in Peers |-> IF p = P1 THEN tokens ELSE <<>>],
     count  |-> [p \in Peers |-> [t \in Tokens |-> IF p = P1 THEN count[t] ELSE 0]],
     spent  |-> {Note(P1, T1, i) : i \in spent}]

Counts(a, b) == [t \in Tokens |-> IF t = T1 THEN a ELSE b]

Scenario(what, sessions, others_, failures, in) ==
    [pool |-> in, left |-> [what |-> what, sessions |-> sessions, steps |-> others_, failures |-> failures]]

Empty == Pool({}, <<>>, <<>>, Counts(0, 0), {})
Registered == Pool({P1}, <<>>, <<>>, Counts(0, 0), {})
OneToken(notes, spent) == Pool(Peers, <<P1>>, <<T1>>, Counts(notes, 0), spent)
TwoTokens == Pool(Peers, <<P1>>, <<T1, T2>>, Counts(3, 1), {0})

\* A session over a pool of some size, with a step of another user and a
\* failed call; and two sessions, the second resumed from the first or not.
MCScenarios ==
    {Scenario(what, 1, 1, 1, in) : what \in {"notes", "channels"}, in \in {OneToken(4, {1}), OneToken(6, {0, 3}), TwoTokens}}
    \cup {Scenario(what, 2, 1, 0, in) : what \in {"notes", "channels"}, in \in {Empty, Registered, OneToken(1, {}), OneToken(3, {0})}}

MCInit ==
    \/ part = "service" /\ Init
       /\ pool = Empty /\ cursor = NoCursor /\ session = NoSession
       /\ left = [what |-> "none", sessions |-> 0, steps |-> 0, failures |-> 0]
    \/ part = "sdk" /\ cdInit
       /\ phase = "done" /\ n_notes = 0 /\ known = 0 /\ start = 0 /\ bounds = NoBounds /\ steps = 0 /\ total = 0

MCNext ==
    \/ part = "service" /\ Next   /\ UNCHANGED <<cdVars, part>>
    \/ part = "sdk"     /\ cdNext /\ UNCHANGED <<vars, part>>

MCSpec == MCInit /\ [][MCNext]_<<part, vars, cdVars>>
=============================================================================
