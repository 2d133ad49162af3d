--------------------------- MODULE MCIncomingSync ---------------------------
(***************************************************************************)
(* Instances of incoming synchronisation for TLC.  Ann and Ben send notes  *)
(* in T and U, and V fills a channel up.  The probes cover three notes per *)
(* subchannel (exponent 2), the budget is the least the service accepts.   *)
(***************************************************************************)
EXTENDS IncomingSync, TLC

CONSTANTS Ann, Ben, T, U, V

MCPow2 == [k \in ProbeIndex |-> 2 ^ k]

\* A chain with the given senders, tokens of Ann and Ben, and numbers of notes.
MCChain(channels, ann, ben, annT, annU, benT, benU, spent) ==
    [channels |-> channels,
     subchannels |-> (Ann :> ann @@ Ben :> ben),
     n_notes |-> (<<Ann, T>> :> annT @@ <<Ann, U>> :> annU
                    @@ <<Ben, T>> :> benT @@ <<Ben, U>> :> benU
                    @@ <<Ann, V>> :> 0 @@ <<Ben, V>> :> 0),
     spent |-> spent]

OneChannel == MCChain(<<Ann>>, <<T>>, <<>>, 2, 0, 0, 0, {<<<<Ann, T>>, 0>>})
OneMoreNote == MCChain(<<Ann>>, <<T>>, <<>>, 3, 0, 0, 0, {<<<<Ann, T>>, 0>>})
OneMoreToken == MCChain(<<Ann>>, <<T, U>>, <<>>, 2, 1, 0, 0, {<<<<Ann, T>>, 0>>})
OneMoreChannel == MCChain(<<Ann, Ben>>, <<T>>, <<T>>, 2, 0, 1, 0, {<<<<Ann, T>>, 0>>})
TwoChannels ==
    MCChain(<<Ann, Ben>>, <<T, U>>, <<T, U>>, 3, 1, 1, 0,
            {<<<<Ann, T>>, 0>>, <<<<Ann, T>>, 2>>})


\* As many subchannels as a cursor may hold; the two channels above are as many
\* channels, which matters to a session that resumes with both.
FullChannel == MCChain(<<Ann>>, <<T, U, V>>, <<>>, 1, 0, 0, 0, {})

\* The chain may grow between two sessions and under one that is not pinned; a session
\* without a cursor may be filtered, one with a cursor asks for every token.
GrowingChains == {OneChannel, OneMoreNote, OneMoreToken, OneMoreChannel, TwoChannels, FullChannel}
Call(filter, pinned, resume) == [filter |-> filter, pinned |-> pinned, resume |-> resume]
AllSessions ==
    {Call(NoFilter, TRUE, TRUE), Call(NoFilter, FALSE, FALSE), Call({T}, FALSE, FALSE)}

\* Sessions start on one channel, on two, and on one that is full.
StartingChains == {OneChannel, OneMoreChannel, FullChannel}
=============================================================================
