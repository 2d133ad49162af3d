-------------------------- MODULE ContractDiscovery --------------------------
(***************************************************************************)
(* ContractDiscoveryProvider: the SDK finds the user's notes, or its       *)
(* outgoing channels, by reading the pool's views itself.  Every call is   *)
(* answered from the state the pool has by then, in any order; a session   *)
(* is over when its tracker has nothing pending.                           *)
(***************************************************************************)
EXTENDS Integers, Sequences, FiniteSets, FiniteSetsExt, SequencesExt, Bags

CONSTANTS
    Peers,            \* the senders of the user's notes, or its recipients
    Tokens,
    Scenarios,        \* how a behaviour begins, with its bounds: sessions,
                      \* steps of others and failed calls
    INITIAL_OFFSET,   \* the first slot a scan reads, counted from its start
    INITIAL_STEP      \* how far it reads next; doubled every time

ASSUME ScanAssumption == INITIAL_OFFSET \in Nat \ {0} /\ INITIAL_STEP \in Nat \ {0}

VARIABLES
    pool,      \* [keys, channels, tokens, count, spent], what the views read
    cursor,    \* what the caller keeps: [notes, channels, total]
    session,   \* the discovery at work, or what the last one returned
    left       \* what remains of the bounds

cdVars == <<pool, cursor, session, left>>

Nobody == [none |-> TRUE]
Nothing == [x \in {} |-> x]
Put(f, k, v) == [x \in DOMAIN f \cup {k} |-> IF x = k THEN v ELSE f[x]]

NoSession == [pc |-> "none"]
NoCursor == [notes |-> Nothing, channels |-> Nothing, total |-> 0]

Note(p, t, i) == [peer |-> p, token |-> t, index |-> i]
NotesIn(chain) == UNION {{Note(p, t, i) : i \in 0 .. chain.count[p][t] - 1} : p \in Peers, t \in Tokens}

Distinct(list) == \A i, j \in DOMAIN list : list[i] = list[j] => i = j

\* What the contract keeps true of its storage: a channel is opened to a registered key,
\* one for a peer; it has one subchannel for a token, and notes only in those.
PoolOK(chain) ==
    /\ chain \in [keys : SUBSET Peers, channels : Seq(Peers), tokens : [Peers -> Seq(Tokens)],
                  count : [Peers -> [Tokens -> Nat]], spent : SUBSET NotesIn(chain)]
    /\ Distinct(chain.channels) /\ ToSet(chain.channels) \subseteq chain.keys
    /\ \A p \in Peers :
          /\ Distinct(chain.tokens[p])
          /\ chain.tokens[p] # <<>> => p \in ToSet(chain.channels)
          /\ \A t \in Tokens : chain.count[p][t] > 0 => t \in ToSet(chain.tokens[p])

ASSUME ScenarioAssumption ==
    /\ "all" \notin Peers /\ "total-only" \notin Peers
    /\ \A scenario \in Scenarios :
          /\ PoolOK(scenario.pool)
          /\ scenario.left \in [what : {"notes", "channels"}, sessions : Nat, steps : Nat, failures : Nat]

-----------------------------------------------------------------------------
(* Scanning.  Slots are filled in order.  A pending call reads slot at of   *)
(* probe; lo, hi and step are what its continuation needs.                 *)

Probe(on, p, t) == [on |-> on, peer |-> p, token |-> t]
channelProbe == Probe("channel", Nobody, Nobody)
subchannelProbe(p) == Probe("subchannel", p, Nobody)
noteProbe(p, t) == Probe("note", p, t)

Call(do, probe, at, lo, hi, step) ==
    [do |-> do, probe |-> probe, at |-> at, lo |-> lo, hi |-> hi, step |-> step]

Filled(probe, i) ==
    CASE probe.on = "channel"    -> i < Len(pool.channels)
      [] probe.on = "subchannel" -> i < Len(pool.tokens[probe.peer])
      [] probe.on = "note"       -> i < pool.count[probe.peer][probe.token]

\* Tracker.add
Track(s, calls) == [s EXCEPT !.pending = @ (+) SetToBag(calls)]

\* Whether only the number of slots is wanted.
lengthOnly(s, probe) ==
    s.what = "channels" /\ (probe.on = "note" \/ (probe.on = "channel" /\ s.asked = {"total-only"}))

Touch(s, probe, lo, hi) ==
    IF lengthOnly(s, probe) THEN s
    ELSE Track(s, {Call("touch", probe, i, 0, 0, 0) : i \in lo .. hi - 1})

Bisect(s, probe, lo, hi) ==
    IF lo >= hi THEN s ELSE Track(s, {Call("bisect", probe, (lo + hi) \div 2, lo, hi, 0)})

\* Wherever it starts, the slots before it are read as well.
ScanFrom(probe, from) == Call("scan", probe, from + INITIAL_OFFSET, 0, 0, INITIAL_STEP)
Scan(s, probe, from) == Track(s, {ScanFrom(probe, from)})

\* What a scan or a bisection does with the answer.
Continue(s, c, filled) ==
    CASE c.do = "scan" /\ filled ->
            Track(Touch(s, c.probe, c.lo, c.at),
                  {Call("scan", c.probe, c.at + c.step, c.at + 1, c.hi, 2 * c.step)})
      [] c.do = "scan" /\ ~filled -> Bisect(s, c.probe, c.lo, c.at)
      [] c.do = "bisect" /\ filled -> Bisect(Touch(s, c.probe, c.lo, c.at), c.probe, c.at + 1, c.hi)
      [] c.do = "bisect" /\ ~filled -> Bisect(s, c.probe, c.lo, c.at)
      [] OTHER -> s

-----------------------------------------------------------------------------
(* NotesDiscovery.                                                         *)

foundChannel(s, i) ==
    LET p == pool.channels[i + 1]
    IN  Scan([s EXCEPT !.cursor.notes = Put(@, p, [sub |-> 0, indexes |-> Nothing])], subchannelProbe(p), 0)

\* Tokens the caller did not ask for are passed over.
foundSubchannel(s, p, k) ==
    LET t == pool.tokens[p][k + 1]
    IN  IF s.asked # {} /\ t \notin s.asked THEN s
        ELSE Scan([s EXCEPT !.cursor.notes[p] = [sub |-> Max({@.sub, k}), indexes |-> Put(@.indexes, t, 0)]],
                  noteProbe(p, t), 0)

addNote(s, p, t, i) ==
    [s EXCEPT !.found = @ (+) SetToBag({Note(p, t, i)}), !.cursor.notes[p].indexes[t] = Max({@, i + 1})]

addNoteIfNotSpent(s, p, t, i) == IF Note(p, t, i) \in pool.spent THEN s ELSE addNote(s, p, t, i)

\* A slot below one that is filled: the nullifier is read before the note.
touchNote(s, c) ==
    IF Note(c.probe.peer, c.probe.token, c.at) \in pool.spent THEN s
    ELSE Track(s, {Call("note", c.probe, c.at, 0, 0, 0)})

-----------------------------------------------------------------------------
(* ChannelsDiscovery.                                                      *)

subchannelScan(s, p) == ScanFrom(subchannelProbe(p), Cardinality(DOMAIN s.cursor.channels[p].tokens))

\* Of each of these recipients.  A channel known without a key counts as having
\* one: its subchannels are looked for under no key, which throws.
discoverChannel(s, recipients) ==
    LET known == recipients \cap DOMAIN s.cursor.channels
        keyed == {p \in known : s.cursor.channels[p].key}
    IN  Track([s EXCEPT !.failed = @ \/ keyed # known],
              {Call("get_public_key", subchannelProbe(p), 0, 0, 0, 0) : p \in recipients \ known}
              \cup {subchannelScan(s, p) : p \in keyed})

gotPublicKey(s, p) ==
    IF p \notin pool.keys THEN s
    ELSE Track([s EXCEPT !.cursor.channels = Put(@, p, [key |-> FALSE, tokens |-> Nothing])],
               {Call("channel_exists", subchannelProbe(p), 0, 0, 0, 0)})

gotChannel(s, p) ==
    IF ~Contains(pool.channels, p) THEN s
    ELSE Track([s EXCEPT !.cursor.channels[p].key = TRUE], {subchannelScan(s, p)})

foundOutgoing(s, i) ==
    LET counted == [s EXCEPT !.cursor.total = Max({@, i + 1})]
    IN  IF s.asked = {"total-only"} THEN counted ELSE discoverChannel(counted, {pool.channels[i + 1]})

\* Mutant: the notes of a subchannel that is known are not counted again.
foundToken_known(s, p, k) ==
    LET t == pool.tokens[p][k + 1]
        r == [s EXCEPT !.cursor.channels[p].tokens = Put(@, t, [index |-> k, nonce |-> 0]),
                       !.shared = @ \ {<<p, t>>}]
    IN  IF t \in DOMAIN s.cursor.channels[p].tokens THEN r ELSE Scan(r, noteProbe(p, t), 0)

\* The counter is set back to zero, and counted again from there.  It is no
\* longer the object the caller's channel holds.
foundToken(s, p, k) ==
    LET t == pool.tokens[p][k + 1]
    IN  Scan([s EXCEPT !.cursor.channels[p].tokens = Put(@, t, [index |-> k, nonce |-> 0]),
                       !.shared = @ \ {<<p, t>>}], noteProbe(p, t), 0)

countNote(s, p, t, i) == [s EXCEPT !.cursor.channels[p].tokens[t].nonce = Max({@, i + 1})]

\* clone shares the counters of a channel with the caller's: what one counts
\* the other holds, whether or not the session returns.
Counted(c) ==
    IF session.what = "channels" /\ c.probe.on = "note" /\ Filled(c.probe, c.at)
       /\ <<c.probe.peer, c.probe.token>> \in session.shared
    THEN [cursor EXCEPT !.channels[c.probe.peer].tokens[c.probe.token].nonce = Max({@, c.at + 1})]
    ELSE cursor

-----------------------------------------------------------------------------
(* Sessions.                                                               *)

\* The effect of reading a filled slot.
Hit(s, c) ==
    LET p == c.probe.peer
        t == c.probe.token
    IN  CASE s.what = "notes" /\ c.probe.on = "channel"       -> foundChannel(s, c.at)
          [] s.what = "notes" /\ c.probe.on = "subchannel"    -> foundSubchannel(s, p, c.at)
          [] s.what = "notes" /\ c.probe.on = "note"          -> Track(s, {Call("nullifier", c.probe, c.at, 0, 0, 0)})
          [] s.what = "channels" /\ c.probe.on = "channel"    -> foundOutgoing(s, c.at)
          [] s.what = "channels" /\ c.probe.on = "subchannel" -> foundToken(s, p, c.at)
          [] s.what = "channels" /\ c.probe.on = "note"       -> countNote(s, p, t, c.at)

Begin(what, asked, from) ==
    [pc |-> "running", what |-> what, asked |-> asked, fresh |-> (from = NoCursor), cursor |-> from,
     chain |-> pool, pending |-> EmptyBag, found |-> EmptyBag, failed |-> FALSE,
     shared |-> UNION {{p} \X DOMAIN from.channels[p].tokens : p \in DOMAIN from.channels}]

\* asked: the tokens wanted, none for all of them.
discoverNotes(asked, from) ==
    session' = Track(Begin("notes", asked, from),
                     {Call("get_num_of_channels", channelProbe, 0, Cardinality(DOMAIN from.notes), 0, 0)}
                     \cup {ScanFrom(subchannelProbe(p), from.notes[p].sub) : p \in DOMAIN from.notes}
                     \cup UNION {{ScanFrom(noteProbe(p, t), from.notes[p].indexes[t]) :
                                     t \in DOMAIN from.notes[p].indexes} : p \in DOMAIN from.notes})

\* asked: {"all"}, {"total-only"}, or the recipients wanted.
discoverChannels(asked, from) ==
    LET s == Begin("channels", asked, from)
        keyed == {p \in DOMAIN from.channels : from.channels[p].key}
        first == IF asked \in {{"all"}, {"total-only"}} THEN Scan(s, channelProbe, from.total)
                 ELSE discoverChannel(s, asked)
    IN  session' = Track(first, {subchannelScan(s, p) : p \in keyed}
                                \cup UNION {{ScanFrom(noteProbe(p, t), from.channels[p].tokens[t].nonce) :
                                                t \in DOMAIN from.channels[p].tokens} : p \in keyed})

begin ==
    /\ session.pc # "running" /\ left.sessions > 0
    /\ left' = [left EXCEPT !.sessions = @ - 1]
    /\ \E from \in {cursor, NoCursor} :
          \/ left.what = "notes" /\ \E asked \in {{}} \cup {{t} : t \in Tokens} : discoverNotes(asked, from)
          \/ left.what = "channels"
             /\ \E asked \in {{"all"}, {"total-only"}} \cup {{p} : p \in Peers} : discoverChannels(asked, from)
    /\ UNCHANGED <<pool, cursor>>

\* A view answers.
answer(c) ==
    /\ session.pc = "running" /\ BagIn(c, session.pending)
    /\ LET s == [session EXCEPT !.pending = @ (-) SetToBag({c})]
           p == c.probe.peer
           t == c.probe.token
       IN  session' =
             CASE c.do = "get_num_of_channels" -> Bisect(s, channelProbe, c.lo, Len(pool.channels))
               [] c.do = "get_public_key" -> gotPublicKey(s, p)
               [] c.do = "channel_exists" -> gotChannel(s, p)
               [] c.do = "nullifier"      -> addNoteIfNotSpent(s, p, t, c.at)
               [] c.do = "note"           -> addNote(s, p, t, c.at)
               [] c.do = "touch" /\ s.what = "notes" /\ c.probe.on = "note" -> touchNote(s, c)
               [] OTHER -> Continue(IF Filled(c.probe, c.at) THEN Hit(s, c) ELSE s, c, Filled(c.probe, c.at))
    /\ cursor' = Counted(c)
    /\ UNCHANGED <<pool, left>>

\* A view fails for good: the tracker records it, and what awaited it ends.
callFails(c) ==
    /\ session.pc = "running" /\ BagIn(c, session.pending) /\ left.failures > 0
    /\ session' = [session EXCEPT !.pending = @ (-) SetToBag({c}), !.failed = TRUE]
    /\ left' = [left EXCEPT !.failures = @ - 1]
    /\ UNCHANGED <<pool, cursor>>

\* Mutant: what was found before a failure is returned.
wait_lenient ==
    /\ session.pc = "running" /\ session.pending = EmptyBag
    /\ session' = [session EXCEPT !.pc = "returned"] /\ cursor' = session.cursor
    /\ UNCHANGED <<pool, left>>

\* Tracker.wait: nothing is pending.  The caller keeps the cursor returned.
wait ==
    /\ session.pc = "running" /\ session.pending = EmptyBag
    /\ IF session.failed THEN session' = NoSession /\ UNCHANGED cursor
       ELSE session' = [session EXCEPT !.pc = "returned"] /\ cursor' = session.cursor
    /\ UNCHANGED <<pool, left>>

-----------------------------------------------------------------------------
(* The pool, changed by its other users and by the user's other devices.   *)

others ==
    /\ left.steps > 0
    /\ left' = [left EXCEPT !.steps = @ - 1]
    /\ \/ \E p \in Peers \ pool.keys : pool' = [pool EXCEPT !.keys = @ \cup {p}]
       \/ \E p \in pool.keys \ ToSet(pool.channels) : pool' = [pool EXCEPT !.channels = Append(@, p)]
       \/ \E p \in ToSet(pool.channels), t \in Tokens :
             ~Contains(pool.tokens[p], t) /\ pool' = [pool EXCEPT !.tokens[p] = Append(@, t)]
       \/ \E p \in Peers, t \in Tokens :
             Contains(pool.tokens[p], t) /\ pool' = [pool EXCEPT !.count[p][t] = @ + 1]
       \/ \E n \in NotesIn(pool) \ pool.spent : pool' = [pool EXCEPT !.spent = @ \cup {n}]
    /\ UNCHANGED <<cursor, session>>

cdInit ==
    /\ cursor = NoCursor /\ session = NoSession
    /\ \E scenario \in Scenarios : pool = scenario.pool /\ left = scenario.left

cdNext ==
    \/ begin \/ wait \/ others
    \/ session.pc = "running" /\ \E c \in BagToSet(session.pending) : answer(c) \/ callFails(c)

cdSpec == cdInit /\ [][cdNext]_cdVars

-----------------------------------------------------------------------------
(* What a transfer to a recipient needs first: its registration, a channel,*)
(* a subchannel for the token, or nothing.                                 *)

SetupRequirement == [Register |-> 0, SetupChannel |-> 1, SetupToken |-> 2, Ready |-> 3]

toSetupRequirement(channel, t) ==
    IF ~channel.key THEN SetupRequirement.SetupChannel
    ELSE IF t \notin DOMAIN channel.tokens THEN SetupRequirement.SetupToken
    ELSE SetupRequirement.Ready

\* From the channels a session without a cursor returned.
discoverRequirement(channels, p, t) ==
    IF p \in DOMAIN channels THEN toSetupRequirement(channels[p], t) ELSE SetupRequirement.Register

-----------------------------------------------------------------------------
Returned(what) == session.pc = "returned" /\ session.what = what

\* discoverNotes: every note there was when a session began, of a token asked
\* for and still unspent, is among those returned, and none that was spent
\* before; whatever changes meanwhile, in whatever order the views answer (the
\* nullifier before the note or after it), resumed from a cursor or not.
\* Without a cursor each is returned once.  (With one, every scan begins at
\* slot 0 again, and a note is found by the scan of its token and by that of
\* its subchannel.)
NotesExact ==
    Returned("notes") =>
        /\ \A n \in NotesIn(session.chain) \ pool.spent :
              (session.asked = {} \/ n.token \in session.asked) => BagIn(n, session.found)
        /\ BagToSet(session.found) \cap session.chain.spent = {}
        /\ session.fresh => \A n \in BagToSet(session.found) : session.found[n] = 1

Asked(p) == session.asked = {"all"} \/ p \in session.asked

\* The requirement in a state of the pool.
Needed(chain, p, t) ==
    CASE p \notin chain.keys                  -> SetupRequirement.Register
      [] p \in chain.keys \ ToSet(chain.channels) -> SetupRequirement.SetupChannel
      [] OTHER -> IF Contains(chain.tokens[p], t) THEN SetupRequirement.Ready ELSE SetupRequirement.SetupToken

\* discoverChannels: every channel asked for that was open when a session
\* began is returned with its key, each of its tokens with its index, and each
\* note counter lies between the number of notes then and the number now, so
\* that no note is created at an index already in use.  discoverRequirement:
\* the answer was true at some time during the session, though its parts were
\* read at different times: never less than what was set up when it began,
\* never more than what is by now.
ChannelsTrue ==
    Returned("channels") =>
        /\ session.asked \in {{"all"}, {"total-only"}} =>
              Len(session.chain.channels) <= session.cursor.total /\ session.cursor.total <= Len(pool.channels)
        /\ \A p \in ToSet(session.chain.channels) : Asked(p) =>
              /\ p \in DOMAIN session.cursor.channels /\ session.cursor.channels[p].key
              /\ \A k \in DOMAIN session.chain.tokens[p] :
                    LET t == session.chain.tokens[p][k]
                        known == session.cursor.channels[p].tokens
                    IN  /\ t \in DOMAIN known
                        /\ known[t].index = k - 1
                        /\ session.chain.count[p][t] <= known[t].nonce
                        /\ known[t].nonce <= pool.count[p][t]
        /\ session.fresh => \A p \in session.asked \cap Peers, t \in Tokens :
              LET answered == discoverRequirement(session.cursor.channels, p, t)
              IN  Needed(session.chain, p, t) <= answered /\ answered <= Needed(pool, p, t)
=============================================================================
