------------------------ MODULE IncomingSync_proofs -------------------------
(***************************************************************************)
(* The tasks of a discovery request stay within its budget, no note is     *)
(* delivered twice, and a call that completes has returned all it was to   *)
(* return: two inductive invariants of the synchronisation (SyncInv: reads *)
(* add up, cursors are past what was returned; FoundInv: what is still to  *)
(* be returned is ahead of them) and the proofs of these three properties, *)
(* for every number of senders and tokens, every budget that the service   *)
(* accepts and every chain.                                                *)
(***************************************************************************)
EXTENDS IncomingSync, FiniteSetTheorems, TLAPS

-----------------------------------------------------------------------------
(***************************************************************************)
(* Types.                                                                  *)
(***************************************************************************)
\* Maps from some of the keys.
Maps(Key, Value) == UNION {[keys -> Value] : keys \in SUBSET Key}

Index == Nat \cup {None}
Note == Subchannel \X Nat

SubchannelCursors ==
    [note_discovery_complete : BOOLEAN, last_note_index : Index, total_n_notes : Index]
ChannelCursors ==
    [subchannel_discovery_complete : BOOLEAN, last_subchannel_index : Index,
     subchannels : Maps(Token, SubchannelCursors)]
Cursors ==
    [channel_discovery_complete : BOOLEAN, total_n_channels : Index,
     last_channel_index : Index, channels : Maps(Sender, ChannelCursors)]

\* The SDK's own cursors.
IncomingChannel ==
    [subchannelIdIndex : Nat, noteIndexes : Maps(Token, Nat), totalNoteCounts : Maps(Token, Index)]

Tasks ==
    [pc : {"idle", "boundary", "probing", "bisecting", "scan", "reading"},
     bounds : [lower : Nat, upper : Nat], steps : Nat, cache : SUBSET Nat, batch : Nat]

Requests ==
    [active : BOOLEAN, cursor : Cursors, remaining : Nat, reads : Nat, notes : SUBSET Note,
     new_channels : SUBSET Sender, channel_task : [Sender -> {"idle", "subchannels"}],
     note_task : [Subchannel -> Tasks]]

Calls ==
    [phase : {"idle", "paging"}, outcome : {"none", "complete", "missing_channel_key", "failed"},
     filter : {NoFilter} \cup SUBSET Token, pinned : BOOLEAN, cursor : Cursors,
     incomingChannels : Maps(Sender, IncomingChannel), notes : SUBSET Note,
     began : SUBSET Note, known : SUBSET Sender]

\* The counts that the SDK keeps are those of the subchannels whose index it keeps.
SameTokens(incoming) ==
    \A s \in DOMAIN incoming : DOMAIN incoming[s].noteIndexes = DOMAIN incoming[s].totalNoteCounts

SyncTyped ==
    /\ chain \in Chains
    /\ sdk \in Calls /\ SameTokens(sdk.incomingChannels)
    /\ kept \in Maps(Sender, IncomingChannel) /\ SameTokens(kept)
    /\ delivered \subseteq Note
    /\ req \in Requests
    /\ sessions \in Nat

-----------------------------------------------------------------------------
(***************************************************************************)
(* The inductive invariant.                                                *)
(***************************************************************************)
\* No more channels are counted than there are.
Counted(cursor) == cursor.total_n_channels <= Len(chain.channels)

Known(sc) ==
    sc[1] \in DOMAIN req.cursor.channels /\ sc[2] \in DOMAIN ChannelCursor(sc[1]).subchannels

\* The steps left for a search, should they be the ones that bisect this distance.
StepsSuffice(task) ==
    /\ task.bounds.lower < task.bounds.upper
    /\ \E r \in ProbeIndex : /\ task.bounds.upper - task.bounds.lower <= Pow2[r]
                             /\ task.steps + r <= max_note_log_index

\* Tasks work on what the cursor holds; notes are not scanned while the channel of the
\* task still lists its subchannels.
TasksFit ==
    /\ ~req.active => req = NoRequest
    /\ req.active => sdk.phase = "paging"
    /\ \A s \in Sender : req.channel_task[s] = "subchannels" =>
          /\ s \in DOMAIN req.cursor.channels
          /\ \A sc \in Subchannel : sc[1] = s => Task(sc) = NoTask
    /\ \A sc \in Subchannel :
          /\ Task(sc).pc # "idle" => Known(sc)
          /\ Task(sc).pc = "bisecting" => StepsSuffice(Task(sc))

\* The reads that a task has reserved and not made.
Reserved(task) ==
    IF task.pc = "probing" THEN boundary_budget
    ELSE IF task.pc = "bisecting" THEN max_note_log_index - task.steps
    ELSE IF task.pc = "reading" THEN COST_NOTE * task.batch
    ELSE 0

Reservations == [sc \in Subchannel |-> Reserved(Task(sc))]

\* The sum of a function from subchannels to reads: the units it counts.
Total(f) == Cardinality({u \in Subchannel \X (0 .. server_budget) : u[2] < f[u[1]]})

\* What is neither read nor left is reserved.
BudgetBalanced ==
    /\ Reservations \in [Subchannel -> 0 .. server_budget]
    /\ req.active => req.reads + req.remaining + Total(Reservations) = server_budget

\* The subchannel of this token is among those that were listed up to this index.
Listed(sc, index) ==
    \E j \in DOMAIN chain.subchannels[sc[1]] :
        j <= index + 1 /\ chain.subchannels[sc[1]][j] = sc[2]

TokensListed(cursor) ==
    \A sc \in Subchannel :
        (sc[1] \in DOMAIN cursor.channels /\ sc[2] \in DOMAIN cursor.channels[sc[1]].subchannels) =>
            Listed(sc, cursor.channels[sc[1]].last_subchannel_index)

\* A cursor is past a note: it will not lead to it again.
Past(cursor, n) ==
    /\ n[1][1] \in DOMAIN cursor.channels
    /\ Listed(n[1], cursor.channels[n[1][1]].last_subchannel_index)
    /\ n[1][2] \in DOMAIN cursor.channels[n[1][1]].subchannels =>
          n[2] <= cursor.channels[n[1][1]].subchannels[n[1][2]].last_note_index

\* The same for the cursor that the wallet keeps.
KeptTokensListed ==
    \A sc \in Subchannel :
        (sc[1] \in DOMAIN kept /\ sc[2] \in DOMAIN kept[sc[1]].noteIndexes) =>
            Listed(sc, kept[sc[1]].subchannelIdIndex - 1)

KeptPast(n) ==
    /\ n[1][1] \in DOMAIN kept
    /\ Listed(n[1], kept[n[1][1]].subchannelIdIndex - 1)
    /\ n[1][2] \in DOMAIN kept[n[1][1]].noteIndexes => n[2] < kept[n[1][1]].noteIndexes[n[1][2]]

CursorsPast ==
    /\ KeptTokensListed
    /\ \A n \in delivered : KeptPast(n)
    /\ sdk.phase = "idle" => sdk.notes = {}
    /\ sdk.phase = "paging" =>
          /\ TokensListed(sdk.cursor)
          /\ DOMAIN sdk.incomingChannels \subseteq DOMAIN sdk.cursor.channels
    /\ (sdk.phase = "paging" /\ ~req.active) =>
          \A n \in delivered \cup sdk.notes : Past(sdk.cursor, n)
    /\ req.active =>
          /\ TokensListed(req.cursor)
          /\ DOMAIN sdk.incomingChannels \subseteq DOMAIN req.cursor.channels
          /\ \A n \in delivered \cup sdk.notes \cup req.notes : Past(req.cursor, n)

SyncInv ==
    /\ SyncTyped
    /\ sdk.phase = "paging" => Counted(sdk.cursor)
    /\ req.active => Counted(req.cursor)
    /\ TasksFit
    /\ BudgetBalanced
    /\ CursorsPast
    /\ DeliveredOnce

-----------------------------------------------------------------------------
(***************************************************************************)
(* Maps, and the constants.                                                *)
(***************************************************************************)

\* What it is to be a map.
LEMMA MapFacts ==
    ASSUME NEW Key, NEW Value, NEW m
    PROVE  m \in Maps(Key, Value) <=> DOMAIN m \subseteq Key /\ m \in [DOMAIN m -> Value]
PROOF
BY DEF Maps

\* The empty map.
LEMMA EmptyMapFacts ==
    ASSUME NEW Key, NEW Value
    PROVE  EmptyMap \in Maps(Key, Value) /\ DOMAIN EmptyMap = {}
PROOF
<1>1. DOMAIN EmptyMap = {}
  BY DEF EmptyMap
<1>2. EmptyMap \in [{} -> Value]
  BY DEF EmptyMap
<1> QED BY <1>1, <1>2, MapFacts

\* A map with one more key, or with another value.
LEMMA PutFacts ==
    ASSUME NEW m \in Maps(Token, SubchannelCursors), NEW k \in Token,
           NEW v \in SubchannelCursors
    PROVE  /\ Put(m, k, v) \in Maps(Token, SubchannelCursors)
           /\ DOMAIN Put(m, k, v) = DOMAIN m \cup {k}
           /\ Put(m, k, v)[k] = v
           /\ \A x \in DOMAIN m : x # k => Put(m, k, v)[x] = m[x]
PROOF
<1>1. DOMAIN m \subseteq Token /\ m \in [DOMAIN m -> SubchannelCursors]
  BY MapFacts
<1>2. DOMAIN Put(m, k, v) = DOMAIN m \cup {k}
  BY DEF Put
<1>3. Put(m, k, v) \in [DOMAIN m \cup {k} -> SubchannelCursors]
  BY <1>1 DEF Put
<1>4. Put(m, k, v) \in Maps(Token, SubchannelCursors)
  BY <1>1, <1>2, <1>3, MapFacts
<1> QED BY <1>2, <1>4 DEF Put

\* The reads that the probes and the bisection of a search may make.
LEMMA ConstantFacts ==
    /\ max_note_log_index \in Nat /\ boundary_budget \in 0 .. server_budget
    /\ boundary_budget = 2 * max_note_log_index + 1 /\ PROBES = max_note_log_index + 1
    /\ server_budget \in Nat /\ max_note_log_index <= server_budget
    /\ COST_NUM_CHANNELS <= server_budget
PROOF
<1>1. max_note_log_index \in Nat
  BY LastNoteIndexAssumption
<1>2. server_budget \in Nat /\ server_budget >= min_server_budget
  BY IncomingSyncAssumption
<1> QED BY <1>1, <1>2 DEF boundary_budget, PROBES, min_server_budget, COST_NUM_CHANNELS,
           COST_CHANNEL_INFO, COST_SUBCHANNEL_INFO, COST_NOTE_PROBING, COST_NOTE

-----------------------------------------------------------------------------
(***************************************************************************)
(* Sums of reservations.                                                   *)
(***************************************************************************)
Units(f) == {u \in Subchannel \X (0 .. server_budget) : u[2] < f[u[1]]}

\* The units are finitely many.
LEMMA UnitsFinite ==
    ASSUME NEW f
    PROVE  /\ IsFiniteSet(Subchannel)
           /\ IsFiniteSet(Units(f)) /\ Total(f) = Cardinality(Units(f)) /\ Total(f) \in Nat
PROOF
<1>1. IsFiniteSet(Subchannel)
  BY FS_Product, IncomingSyncAssumption DEF Subchannel
<1>2. IsFiniteSet(0 .. server_budget)
  BY FS_Interval, ConstantFacts
<1>3. IsFiniteSet(Subchannel \X (0 .. server_budget))
  BY <1>1, <1>2, FS_Product
<1>4. IsFiniteSet(Units(f))
  BY <1>3, FS_Subset DEF Units
<1> QED BY <1>1, <1>4, FS_CardinalityType DEF Total, Units

\* A sum is the value at one subchannel and the units of the others.
LEMMA TotalSplit ==
    ASSUME NEW f \in [Subchannel -> 0 .. server_budget], NEW sc \in Subchannel
    PROVE  LET rest == {u \in Units(f) : u[1] # sc}
           IN  IsFiniteSet(rest) /\ Cardinality(rest) \in Nat
               /\ Total(f) = Cardinality(rest) + f[sc]
PROOF
<1> DEFINE rest == {u \in Units(f) : u[1] # sc}
           c == f[sc]
           own == {sc} \X (0 .. (c - 1))
<1>1. c \in Nat /\ c <= server_budget /\ server_budget \in Nat
  BY ConstantFacts
<1>2. IsFiniteSet(Units(f)) /\ Total(f) = Cardinality(Units(f))
  BY UnitsFinite
<1>3. IsFiniteSet(rest) /\ Cardinality(rest) \in Nat
  BY <1>2, FS_Subset, FS_CardinalityType
<1>4. IsFiniteSet(0 .. (c - 1)) /\ Cardinality(0 .. (c - 1)) = c
  <2> DEFINE b == c - 1
  <2>1. 0 \in Int /\ b \in Int
    BY <1>1
  <2>2. /\ IsFiniteSet(0 .. b)
        /\ Cardinality(0 .. b) = IF 0 > b THEN 0 ELSE b - 0 + 1
    <3> HIDE DEF b
    <3> QED BY <2>1, FS_Interval
  <2> QED BY <1>1, <2>2
<1>5. IsFiniteSet(own) /\ Cardinality(own) = c
  <2> DEFINE A == 0 .. (c - 1)
             S == {sc}
  <2>1. IsFiniteSet(A) /\ Cardinality(A) = c /\ IsFiniteSet(S) /\ Cardinality(S) = 1
    BY <1>4, FS_Singleton
  <2> HIDE DEF A, S
  <2>2. IsFiniteSet(S \X A) /\ Cardinality(S \X A) = Cardinality(S) * Cardinality(A)
    BY <2>1, FS_Product
  <2>3. Cardinality(S \X A) = c
    <3> HIDE DEF c
    <3> QED BY <1>1, <2>1, <2>2
  <2> QED BY <2>2, <2>3 DEF A, S
<1>6. Units(f) = rest \cup own
  <2>1. \A n : n \in 0 .. (c - 1) <=> n \in 0 .. server_budget /\ n < c
    BY <1>1
  <2>2. ASSUME NEW u \in Units(f) PROVE u \in rest \cup own
    BY <2>1 DEF Units
  <2>3. ASSUME NEW u \in own PROVE u \in Units(f)
    BY <2>1 DEF Units
  <2> QED BY <2>2, <2>3
<1>7. rest \cap own = {}
  OBVIOUS
<1> HIDE DEF rest, own, c
<1>8. Cardinality(rest \cup own) = Cardinality(rest) + Cardinality(own) - Cardinality(rest \cap own)
  BY <1>3, <1>5, FS_Union
<1>9. Cardinality(rest \cap own) = 0
  BY <1>7, FS_EmptySet
<1>10. Total(f) = Cardinality(rest) + c
  BY <1>1, <1>2, <1>3, <1>5, <1>6, <1>8, <1>9
<1> QED BY <1>3, <1>10, Zenon DEF rest, c

\* A sum changes by as much as its one value that changes.
LEMMA TotalChange ==
    ASSUME NEW f \in [Subchannel -> 0 .. server_budget], NEW g \in [Subchannel -> 0 .. server_budget],
           NEW sc \in Subchannel, \A x \in Subchannel : x # sc => g[x] = f[x]
    PROVE  Total(g) + f[sc] = Total(f) + g[sc] /\ Total(f) \in Nat /\ Total(g) \in Nat
PROOF
<1> DEFINE rest(h) == {u \in Units(h) : u[1] # sc}
<1>1. rest(f) = rest(g)
  BY DEF Units
<1>2. Cardinality(rest(f)) \in Nat /\ Total(f) = Cardinality(rest(f)) + f[sc]
  BY TotalSplit
<1>3. Cardinality(rest(g)) \in Nat /\ Total(g) = Cardinality(rest(g)) + g[sc]
  BY TotalSplit
<1>4. f[sc] \in Nat /\ g[sc] \in Nat /\ Total(f) \in Nat /\ Total(g) \in Nat
  BY UnitsFinite, ConstantFacts
<1> HIDE DEF rest
<1> QED BY <1>1, <1>2, <1>3, <1>4

\* Nothing is reserved.
LEMMA TotalZero ==
    ASSUME NEW f, \A sc \in Subchannel : f[sc] = 0
    PROVE  Total(f) = 0
PROOF
<1>1. Units(f) = {}
  BY ConstantFacts DEF Units
<1> QED BY <1>1, UnitsFinite, FS_EmptySet

-----------------------------------------------------------------------------
(***************************************************************************)
(* A step of a note task.                                                  *)
(***************************************************************************)

\* The parts of a request.
LEMMA RequestParts ==
    ASSUME NEW r \in Requests
    PROVE  /\ r.active \in BOOLEAN /\ r.cursor \in Cursors /\ r.remaining \in Nat
           /\ r.reads \in Nat /\ r.notes \subseteq Note /\ r.new_channels \subseteq Sender
           /\ r.channel_task \in [Sender -> {"idle", "subchannels"}]
           /\ r.note_task \in [Subchannel -> Tasks]
           /\ r.cursor.channels \in Maps(Sender, ChannelCursors)
PROOF
BY DEF Requests, Cursors

\* The cursor of a subchannel, and what is around it.
LEMMA NoteCursorParts ==
    ASSUME NEW cursor \in Cursors, NEW sc \in Subchannel,
           sc[1] \in DOMAIN cursor.channels, sc[2] \in DOMAIN cursor.channels[sc[1]].subchannels
    PROVE  /\ cursor.channels \in [DOMAIN cursor.channels -> ChannelCursors]
           /\ DOMAIN cursor.channels \subseteq Sender
           /\ cursor.channels[sc[1]] \in ChannelCursors
           /\ cursor.channels[sc[1]].subchannels \in
                 [DOMAIN cursor.channels[sc[1]].subchannels -> SubchannelCursors]
           /\ DOMAIN cursor.channels[sc[1]].subchannels \subseteq Token
           /\ cursor.channels[sc[1]].subchannels[sc[2]] \in SubchannelCursors
PROOF
<1>1. cursor.channels \in Maps(Sender, ChannelCursors)
  BY DEF Cursors
<1>2. /\ cursor.channels \in [DOMAIN cursor.channels -> ChannelCursors]
      /\ DOMAIN cursor.channels \subseteq Sender
  BY <1>1, MapFacts
<1>3. cursor.channels[sc[1]] \in ChannelCursors
  BY <1>2
<1>4. cursor.channels[sc[1]].subchannels \in Maps(Token, SubchannelCursors)
  BY <1>3 DEF ChannelCursors
<1>5. /\ cursor.channels[sc[1]].subchannels \in
            [DOMAIN cursor.channels[sc[1]].subchannels -> SubchannelCursors]
      /\ DOMAIN cursor.channels[sc[1]].subchannels \subseteq Token
  BY <1>4, MapFacts
<1> QED BY <1>2, <1>3, <1>5

\* A cursor in which the cursor of one subchannel is replaced.
LEMMA CursorUpdate ==
    ASSUME NEW old \in Cursors, NEW sc \in Subchannel, NEW new \in SubchannelCursors,
           sc[1] \in DOMAIN old.channels, sc[2] \in DOMAIN old.channels[sc[1]].subchannels,
           NEW cursor,
           cursor = [old EXCEPT !.channels[sc[1]].subchannels[sc[2]] = new]
    PROVE  /\ cursor \in Cursors
           /\ cursor.total_n_channels = old.total_n_channels
           /\ cursor.last_channel_index = old.last_channel_index
           /\ cursor.channel_discovery_complete = old.channel_discovery_complete
           /\ DOMAIN cursor.channels = DOMAIN old.channels
           /\ \A s \in DOMAIN old.channels :
                 /\ cursor.channels[s].subchannel_discovery_complete =
                        old.channels[s].subchannel_discovery_complete
                 /\ cursor.channels[s].last_subchannel_index = old.channels[s].last_subchannel_index
                 /\ DOMAIN cursor.channels[s].subchannels = DOMAIN old.channels[s].subchannels
                 /\ \A t \in DOMAIN old.channels[s].subchannels :
                       cursor.channels[s].subchannels[t] =
                           IF s = sc[1] /\ t = sc[2] THEN new ELSE old.channels[s].subchannels[t]
PROOF
<1> DEFINE channels == old.channels
           ch == channels[sc[1]]
           subs == ch.subchannels
           newSubs == [subs EXCEPT ![sc[2]] = new]
           newCh == [ch EXCEPT !.subchannels = newSubs]
           newChannels == [channels EXCEPT ![sc[1]] = newCh]
<1>1. /\ channels \in [DOMAIN channels -> ChannelCursors] /\ DOMAIN channels \subseteq Sender
      /\ ch \in ChannelCursors /\ subs \in [DOMAIN subs -> SubchannelCursors]
      /\ DOMAIN subs \subseteq Token
  BY NoteCursorParts
<1>2. cursor = [old EXCEPT !.channels = newChannels]
  OBVIOUS
<1> HIDE DEF newSubs
<1>3. /\ newSubs \in [DOMAIN subs -> SubchannelCursors]
      /\ DOMAIN newSubs = DOMAIN subs
      /\ newSubs[sc[2]] = new /\ \A t \in DOMAIN subs : t # sc[2] => newSubs[t] = subs[t]
  <2>1. sc[2] \in DOMAIN subs
    OBVIOUS
  <2> HIDE DEF subs
  <2> QED BY <1>1, <2>1 DEF newSubs
<1>4. newSubs \in Maps(Token, SubchannelCursors)
  <2> HIDE DEF subs
  <2> QED BY <1>1, <1>3, MapFacts
<1> HIDE DEF newCh
<1>5. /\ newCh \in ChannelCursors /\ newCh.subchannels = newSubs
      /\ newCh.last_subchannel_index = ch.last_subchannel_index
      /\ newCh.subchannel_discovery_complete = ch.subchannel_discovery_complete
  <2> HIDE DEF ch
  <2> QED BY <1>1, <1>4 DEF newCh, ChannelCursors
<1> HIDE DEF newChannels
<1>6. /\ newChannels \in [DOMAIN channels -> ChannelCursors] /\ DOMAIN newChannels = DOMAIN channels
      /\ newChannels[sc[1]] = newCh
      /\ \A s \in DOMAIN channels : s # sc[1] => newChannels[s] = channels[s]
  <2>1. sc[1] \in DOMAIN channels
    OBVIOUS
  <2> HIDE DEF channels
  <2> QED BY <1>1, <1>5, <2>1 DEF newChannels
<1>7. newChannels \in Maps(Sender, ChannelCursors)
  <2> HIDE DEF channels
  <2> QED BY <1>1, <1>6, MapFacts
<1>8. /\ cursor \in Cursors /\ cursor.total_n_channels = old.total_n_channels
      /\ cursor.last_channel_index = old.last_channel_index
      /\ cursor.channel_discovery_complete = old.channel_discovery_complete
      /\ cursor.channels = newChannels
  BY <1>2, <1>7 DEF Cursors
<1>9. ASSUME NEW s \in DOMAIN old.channels
      PROVE  /\ cursor.channels[s].subchannel_discovery_complete =
                    old.channels[s].subchannel_discovery_complete
             /\ cursor.channels[s].last_subchannel_index = old.channels[s].last_subchannel_index
             /\ DOMAIN cursor.channels[s].subchannels = DOMAIN old.channels[s].subchannels
             /\ \A t \in DOMAIN old.channels[s].subchannels :
                   cursor.channels[s].subchannels[t] =
                       IF s = sc[1] /\ t = sc[2] THEN new ELSE old.channels[s].subchannels[t]
  <2>1. CASE s = sc[1]
    BY <1>3, <1>5, <1>6, <1>8, <2>1
  <2>2. CASE s # sc[1]
    BY <1>6, <1>8, <2>2
  <2> QED BY <2>1, <2>2, SMTT(30)
<1> QED BY <1>6, <1>8, <1>9

\* What a step of a task changes of the request.
LEMMA TaskStepParts ==
    ASSUME req \in Requests, NEW sc \in Subchannel, Known(sc),
           NEW task \in Tasks, NEW cursor \in SubchannelCursors, NEW reads \in Nat,
           NEW taken \in Int, taken <= req.remaining, NEW notes \in SUBSET Note,
           TaskStep(sc, task, cursor, reads, taken, notes)
    PROVE  /\ req' \in Requests
           /\ req'.active = req.active /\ req'.channel_task = req.channel_task
           /\ req'.reads = req.reads + reads /\ req'.remaining = req.remaining - taken
           /\ req'.notes = req.notes \cup notes
           /\ req'.note_task = [req.note_task EXCEPT ![sc] = task]
           /\ req'.cursor = [req.cursor EXCEPT !.channels[sc[1]].subchannels[sc[2]] = cursor]
           /\ UNCHANGED <<chain, sdk, kept, delivered, sessions>>
PROOF
<1> DEFINE newCursor == [req.cursor EXCEPT !.channels[sc[1]].subchannels[sc[2]] = cursor]
           newTasks == [req.note_task EXCEPT ![sc] = task]
<1>1. /\ req' = [req EXCEPT !.note_task = newTasks, !.cursor = newCursor,
                            !.reads = req.reads + reads, !.remaining = req.remaining - taken,
                            !.notes = req.notes \cup notes]
      /\ UNCHANGED <<chain, sdk, kept, delivered, sessions>>
  BY DEF TaskStep, Requests
<1>2. newCursor \in Cursors
  <2> DEFINE old == req.cursor
  <2>1. /\ old \in Cursors /\ sc[1] \in DOMAIN old.channels
        /\ sc[2] \in DOMAIN old.channels[sc[1]].subchannels
    BY RequestParts DEF Known, ChannelCursor
  <2> HIDE DEF old
  <2>2. newCursor = [old EXCEPT !.channels[sc[1]].subchannels[sc[2]] = cursor]
    BY DEF old
  <2> HIDE DEF newCursor
  <2> QED BY <2>1, <2>2, CursorUpdate
<1>3. newTasks \in [Subchannel -> Tasks]
  BY RequestParts
<1>4. /\ req.reads + reads \in Nat /\ req.remaining - taken \in Nat
      /\ req.notes \cup notes \subseteq Note
  BY RequestParts
<1> HIDE DEF newCursor, newTasks
<1>5. /\ req' \in Requests
      /\ req'.active = req.active /\ req'.channel_task = req.channel_task
      /\ req'.reads = req.reads + reads /\ req'.remaining = req.remaining - taken
      /\ req'.notes = req.notes \cup notes
      /\ req'.note_task = newTasks /\ req'.cursor = newCursor
  BY <1>1, <1>2, <1>3, <1>4 DEF Requests
<1> QED BY <1>1, <1>5 DEF newCursor, newTasks

\* A task at work belongs to a request that is active, and its subchannel is known.
LEMMA AtWork ==
    ASSUME SyncInv, NEW sc \in Subchannel, Task(sc).pc # "idle"
    PROVE  /\ req.active /\ Known(sc) /\ Task(sc) \in Tasks
           /\ NoteCursor(sc) \in SubchannelCursors
           /\ start_index(NoteCursor(sc)) \in Nat
           /\ start_index(NoteCursor(sc)) = NoteCursor(sc).last_note_index + 1
           /\ req \in Requests /\ req.remaining \in Nat /\ req.reads \in Nat
PROOF
<1>1. req \in Requests
  BY DEF SyncInv, SyncTyped
<1>2. req.active
  <2> SUFFICES ASSUME ~req.active PROVE FALSE
    BY <1>1, RequestParts
  <2>1. req = NoRequest
    BY DEF SyncInv, TasksFit
  <2>2. Task(sc) = NoTask
    BY <2>1 DEF Task, NoRequest
  <2> QED BY <2>2 DEF NoTask
<1>3. Known(sc)
  BY DEF SyncInv, TasksFit
<1>4. Task(sc) \in Tasks /\ req.remaining \in Nat /\ req.reads \in Nat /\ req.cursor \in Cursors
  BY <1>1, RequestParts DEF Task
<1>5. NoteCursor(sc) \in SubchannelCursors
  BY <1>3, <1>4, NoteCursorParts DEF NoteCursor, Known, ChannelCursor
<1>6. NoteCursor(sc).last_note_index \in Index
  BY <1>5 DEF SubchannelCursors
<1>7. /\ start_index(NoteCursor(sc)) = NoteCursor(sc).last_note_index + 1
      /\ start_index(NoteCursor(sc)) \in Nat
  <2> DEFINE l == NoteCursor(sc).last_note_index
  <2>1. l \in Nat \cup {-1}
    BY <1>6 DEF Index, None
  <2> HIDE DEF l
  <2>2. l + 1 \in Nat
    BY <2>1
  <2> QED BY <2>2 DEF start_index, l
<1> QED BY <1>1, <1>2, <1>3, <1>4, <1>5, <1>7

\* A step that reads what the task had reserved, or what it takes, keeps the balance.
LEMMA BalanceKept ==
    ASSUME req \in Requests, BudgetBalanced, req.active, NEW sc \in Subchannel,
           NEW task, Reserved(task) \in Nat, NEW reads \in Nat, NEW taken \in Int,
           taken <= req.remaining, Reserved(task) + reads = Reserved(Task(sc)) + taken,
           req' \in Requests, req'.note_task = [req.note_task EXCEPT ![sc] = task],
           req'.reads = req.reads + reads, req'.remaining = req.remaining - taken
    PROVE  BudgetBalanced'
PROOF
<1> DEFINE f == Reservations
           g == Reservations'
           N == server_budget
<1>1. /\ f \in [Subchannel -> 0 .. N] /\ f[sc] = Reserved(Task(sc))
      /\ req.reads + req.remaining + Total(f) = N
  BY DEF BudgetBalanced, Reservations
<1>2. /\ req.note_task \in [Subchannel -> Tasks] /\ req.reads \in Nat /\ req.remaining \in Nat
      /\ N \in Nat
  BY RequestParts, ConstantFacts
<1>3. g = [x \in Subchannel |-> Reserved(req'.note_task[x])]
  BY DEF Reservations, Task
<1>4. g[sc] = Reserved(task) /\ \A x \in Subchannel : x # sc => g[x] = f[x]
  <2>1. req'.note_task[sc] = task
    BY <1>2
  <2>2. \A x \in Subchannel : x # sc => req'.note_task[x] = req.note_task[x]
    BY <1>2
  <2> QED BY <1>3, <2>1, <2>2 DEF Reservations, Task
<1> HIDE DEF f, g, N
<1>5. PICK rest \in Nat : Total(f) = rest + f[sc]
  BY <1>1, TotalSplit DEF N
<1>6. f[sc] \in Nat
  BY <1>1, <1>2
<1>7. g[sc] \in 0 .. N
  <2>1. g[sc] + reads = f[sc] + taken
    BY <1>1, <1>4
  <2>2. g[sc] \in Nat
    BY <1>4
  <2> HIDE DEF Total
  <2> QED BY <1>1, <1>2, <1>5, <1>6, <2>1, <2>2
<1>8. g \in [Subchannel -> 0 .. N]
  <2>1. \A x \in Subchannel : g[x] \in 0 .. N
    BY <1>1, <1>4, <1>7
  <2>2. g = [x \in Subchannel |-> g[x]]
    BY <1>3
  <2> QED BY <2>1, <2>2
<1>9. Total(g) + f[sc] = Total(f) + g[sc] /\ Total(f) \in Nat /\ Total(g) \in Nat
  BY <1>1, <1>4, <1>8, TotalChange DEF N
<1>10. req'.reads + req'.remaining + Total(g) = N
  <2>1. g[sc] + reads = f[sc] + taken /\ g[sc] \in Nat
    BY <1>1, <1>4
  <2> HIDE DEF Total
  <2> QED BY <1>1, <1>2, <1>6, <1>9, <2>1
<1>11. (Total(Reservations))' = Total(g)
  BY DEF Total, g
<1> QED BY <1>8, <1>10, <1>11 DEF BudgetBalanced, g, N

\* A cursor whose subchannel moves on stays past the notes it was past, and is past the
\* notes up to its new index.
LEMMA PastKept ==
    ASSUME NEW old \in Cursors, NEW sc \in Subchannel, NEW new \in SubchannelCursors,
           sc[1] \in DOMAIN old.channels, sc[2] \in DOMAIN old.channels[sc[1]].subchannels,
           NEW cursor, DOMAIN cursor.channels = DOMAIN old.channels,
           \A s \in DOMAIN old.channels :
               /\ cursor.channels[s].last_subchannel_index = old.channels[s].last_subchannel_index
               /\ DOMAIN cursor.channels[s].subchannels = DOMAIN old.channels[s].subchannels
               /\ \A t \in DOMAIN old.channels[s].subchannels :
                     cursor.channels[s].subchannels[t] =
                         IF s = sc[1] /\ t = sc[2] THEN new ELSE old.channels[s].subchannels[t],
           old.channels[sc[1]].subchannels[sc[2]].last_note_index <= new.last_note_index,
           TokensListed(old)
    PROVE  /\ TokensListed(cursor)
           /\ \A n \in Note : Past(old, n) => Past(cursor, n)
           /\ \A n \in Note : n[1] = sc /\ n[2] <= new.last_note_index => Past(cursor, n)
PROOF
<1>1. /\ DOMAIN cursor.channels = DOMAIN old.channels
      /\ \A s \in DOMAIN old.channels :
            /\ cursor.channels[s].last_subchannel_index = old.channels[s].last_subchannel_index
            /\ DOMAIN cursor.channels[s].subchannels = DOMAIN old.channels[s].subchannels
            /\ \A t \in DOMAIN old.channels[s].subchannels :
                  cursor.channels[s].subchannels[t] =
                      IF s = sc[1] /\ t = sc[2] THEN new ELSE old.channels[s].subchannels[t]
  BY SMTT(30)
<1>2. /\ new.last_note_index \in Nat \cup {-1}
      /\ old.channels[sc[1]].subchannels[sc[2]].last_note_index \in Nat \cup {-1}
  BY NoteCursorParts DEF SubchannelCursors, Index, None
<1>3. TokensListed(cursor)
  BY <1>1 DEF TokensListed
<1>4. ASSUME NEW n \in Note, Past(old, n) PROVE Past(cursor, n)
  <2> DEFINE s == n[1][1]
             t == n[1][2]
  <2>1. /\ s \in DOMAIN old.channels /\ Listed(n[1], old.channels[s].last_subchannel_index)
        /\ t \in DOMAIN old.channels[s].subchannels =>
              n[2] <= old.channels[s].subchannels[t].last_note_index
    BY <1>4 DEF Past
  <2>2. /\ s \in DOMAIN cursor.channels
        /\ Listed(n[1], cursor.channels[s].last_subchannel_index)
    BY <1>1, <2>1
  <2>3. ASSUME t \in DOMAIN cursor.channels[s].subchannels
        PROVE  n[2] <= cursor.channels[s].subchannels[t].last_note_index
    <3>1. /\ t \in DOMAIN old.channels[s].subchannels
          /\ cursor.channels[s].subchannels[t] =
                IF s = sc[1] /\ t = sc[2] THEN new ELSE old.channels[s].subchannels[t]
      BY <1>1, <2>1, <2>3, SMTT(30)
    <3>2. n[2] <= old.channels[s].subchannels[t].last_note_index
      BY <2>1, <3>1
    <3>3. CASE s = sc[1] /\ t = sc[2]
      <4>1. n[2] \in Nat
        BY DEF Note
      <4>2. n[2] <= old.channels[sc[1]].subchannels[sc[2]].last_note_index
        BY <3>2, <3>3
      <4>3. n[2] <= new.last_note_index
        BY <1>2, <4>1, <4>2
      <4> QED BY <3>1, <3>3, <4>3
    <3>4. CASE ~(s = sc[1] /\ t = sc[2])
      BY <3>1, <3>2, <3>4
    <3> QED BY <3>3, <3>4
  <2> QED BY <2>2, <2>3 DEF Past
<1>5. ASSUME NEW n \in Note, n[1] = sc, n[2] <= new.last_note_index PROVE Past(cursor, n)
  <2>1. Listed(sc, cursor.channels[sc[1]].last_subchannel_index)
    BY <1>1, <1>3 DEF TokensListed
  <2>2. cursor.channels[sc[1]].subchannels[sc[2]] = new
    <3> DEFINE s == sc[1]
               t == sc[2]
    <3>1. s \in DOMAIN old.channels /\ t \in DOMAIN old.channels[s].subchannels
      OBVIOUS
    <3>2. s = sc[1] /\ t = sc[2]
      OBVIOUS
    <3>3. \A u \in DOMAIN old.channels[s].subchannels :
              cursor.channels[s].subchannels[u] =
                  IF s = sc[1] /\ u = sc[2] THEN new ELSE old.channels[s].subchannels[u]
      <4> HIDE DEF s
      <4> QED BY <1>1, <3>1, Zenon
    <3>4. cursor.channels[s].subchannels[t] = new
      <4> HIDE DEF s, t
      <4> QED BY <3>1, <3>2, <3>3, Zenon
    <3> QED BY <3>4
  <2> QED BY <1>1, <1>5, <2>1, <2>2 DEF Past
<1> QED BY <1>3, <1>4, <1>5

\* A step of a task keeps the invariant when it accounts for its reads and moves the
\* index of its subchannel past the notes it returns.
LEMMA TaskStepInv ==
    ASSUME SyncInv, NEW sc \in Subchannel, Task(sc).pc # "idle",
           NEW task \in Tasks, task.pc = "bisecting" => StepsSuffice(task),
           NEW cursor \in SubchannelCursors,
           NoteCursor(sc).last_note_index <= cursor.last_note_index,
           NEW reads \in Nat, NEW taken \in Int, taken <= req.remaining,
           Reserved(task) \in Nat, Reserved(task) + reads = Reserved(Task(sc)) + taken,
           NEW notes \in SUBSET Note,
           \A n \in notes : /\ n[1] = sc /\ NoteCursor(sc).last_note_index < n[2]
                            /\ n[2] <= cursor.last_note_index,
           TaskStep(sc, task, cursor, reads, taken, notes)
    PROVE  SyncInv'
PROOF
<1>1. /\ req.active /\ Known(sc) /\ NoteCursor(sc) \in SubchannelCursors
      /\ req \in Requests /\ req.remaining \in Nat /\ req.reads \in Nat
  BY AtWork
<1>2. /\ req' \in Requests
      /\ req'.active = req.active /\ req'.channel_task = req.channel_task
      /\ req'.reads = req.reads + reads /\ req'.remaining = req.remaining - taken
      /\ req'.notes = req.notes \cup notes
      /\ req'.note_task = [req.note_task EXCEPT ![sc] = task]
      /\ req'.cursor = [req.cursor EXCEPT !.channels[sc[1]].subchannels[sc[2]] = cursor]
      /\ UNCHANGED <<chain, sdk, kept, delivered, sessions>>
  BY <1>1, TaskStepParts
<1> DEFINE old == req.cursor
           new == req'.cursor
<1>3. /\ old \in Cursors /\ sc[1] \in DOMAIN old.channels
      /\ sc[2] \in DOMAIN old.channels[sc[1]].subchannels
      /\ old.channels[sc[1]].subchannels[sc[2]] = NoteCursor(sc)
      /\ new = [old EXCEPT !.channels[sc[1]].subchannels[sc[2]] = cursor]
      /\ req.note_task \in [Subchannel -> Tasks]
  BY <1>1, <1>2, RequestParts DEF Known, ChannelCursor, NoteCursor
<1> HIDE DEF old, new
<1>4. /\ DOMAIN new.channels = DOMAIN old.channels
      /\ new.total_n_channels = old.total_n_channels
      /\ \A s \in DOMAIN old.channels :
            DOMAIN new.channels[s].subchannels = DOMAIN old.channels[s].subchannels
  BY <1>3, CursorUpdate
<1>5. SyncTyped' /\ (sdk.phase = "paging" => Counted(sdk.cursor))'
  BY <1>2 DEF SyncInv, SyncTyped, Counted
<1>6. (req.active => Counted(req.cursor))'
  BY <1>1, <1>2, <1>4 DEF SyncInv, Counted, old, new
<1>7. TasksFit'
  <2>1. \A x \in Subchannel : Task(x)' = IF x = sc THEN task ELSE Task(x)
    BY <1>2, <1>3 DEF Task
  <2>2. \A x \in Subchannel : Known(x) => Known(x)'
    BY <1>4 DEF Known, ChannelCursor, old, new
  <2>3. ASSUME NEW s \in Sender, req'.channel_task[s] = "subchannels"
        PROVE  /\ s \in DOMAIN req'.cursor.channels
               /\ \A x \in Subchannel : x[1] = s => Task(x)' = NoTask
    <3>1. /\ s \in DOMAIN req.cursor.channels
          /\ \A x \in Subchannel : x[1] = s => Task(x) = NoTask
      BY <1>2, <2>3 DEF SyncInv, TasksFit
    <3>2. Task(sc) # NoTask
      BY DEF NoTask
    <3> QED BY <1>4, <2>1, <3>1, <3>2 DEF old, new
  <2>4. ASSUME NEW x \in Subchannel
        PROVE  /\ Task(x)'.pc # "idle" => Known(x)'
               /\ Task(x)'.pc = "bisecting" => StepsSuffice(Task(x))'
    <3>1. CASE x = sc
      <4>1. StepsSuffice(Task(x))' <=> StepsSuffice(task)
        BY <2>1, <3>1 DEF StepsSuffice
      <4> QED BY <1>1, <2>1, <2>2, <3>1, <4>1
    <3>2. CASE x # sc
      <4>1. Task(x)' = Task(x)
        BY <2>1, <3>2
      <4>2. StepsSuffice(Task(x))' <=> StepsSuffice(Task(x))
        BY <4>1 DEF StepsSuffice
      <4> QED BY <2>2, <4>1, <4>2 DEF SyncInv, TasksFit
    <3> QED BY <3>1, <3>2
  <2>5. (~req.active => req = NoRequest)' /\ (req.active => sdk.phase = "paging")'
    BY <1>1, <1>2 DEF SyncInv, TasksFit
  <2> QED BY <2>3, <2>4, <2>5 DEF TasksFit
<1>8. BudgetBalanced'
  BY <1>1, <1>2, BalanceKept DEF SyncInv
<1>9. /\ TokensListed(new)
      /\ \A n \in Note : Past(old, n) => Past(new, n)
      /\ \A n \in Note : n[1] = sc /\ n[2] <= cursor.last_note_index => Past(new, n)
  <2>1. TokensListed(old)
    BY <1>1 DEF SyncInv, CursorsPast, old
  <2>2. old.channels[sc[1]].subchannels[sc[2]].last_note_index <= cursor.last_note_index
    BY <1>3
  <2>3. /\ DOMAIN new.channels = DOMAIN old.channels
        /\ \A s \in DOMAIN old.channels :
              /\ new.channels[s].last_subchannel_index = old.channels[s].last_subchannel_index
              /\ DOMAIN new.channels[s].subchannels = DOMAIN old.channels[s].subchannels
              /\ \A t \in DOMAIN old.channels[s].subchannels :
                    new.channels[s].subchannels[t] =
                        IF s = sc[1] /\ t = sc[2] THEN cursor ELSE old.channels[s].subchannels[t]
    BY <1>3, CursorUpdate
  <2>4. /\ old \in Cursors /\ sc[1] \in DOMAIN old.channels
        /\ sc[2] \in DOMAIN old.channels[sc[1]].subchannels
    BY <1>3
  <2> QED BY <2>1, <2>2, <2>3, <2>4, PastKept
<1>10. \A n \in delivered \cup sdk.notes \cup req.notes : n \in Note /\ Past(old, n)
  <2>1. delivered \subseteq Note /\ sdk.notes \subseteq Note /\ req.notes \subseteq Note
    BY <1>1, RequestParts DEF SyncInv, SyncTyped, Calls
  <2> QED BY <1>1, <2>1 DEF SyncInv, CursorsPast, old
<1>11. CursorsPast'
  <2>1. /\ \A n : KeptPast(n)' <=> KeptPast(n)
        /\ KeptTokensListed' <=> KeptTokensListed
        /\ \A c : TokensListed(c)' <=> TokensListed(c)
        /\ \A c, n : Past(c, n)' <=> Past(c, n)
    BY <1>2 DEF KeptPast, KeptTokensListed, TokensListed, Past, Listed
  <2>2. \A n \in delivered \cup sdk.notes \cup req'.notes : Past(new, n)
    BY <1>2, <1>9, <1>10, ZenonT(30)
  <2>3. TokensListed(req.cursor)' /\ \A n \in delivered \cup sdk.notes \cup req'.notes : Past(req.cursor, n)'
    BY <1>2, <1>9, <2>2 DEF new, TokensListed, Past, Listed
  <2>4. /\ KeptTokensListed' /\ \A n \in delivered : KeptPast(n)'
        /\ sdk.phase = "idle" => sdk.notes = {}
    BY <2>1 DEF SyncInv, CursorsPast
  <2>5. /\ (sdk.phase = "paging" => TokensListed(sdk.cursor))'
        /\ (sdk.phase = "paging" => DOMAIN sdk.incomingChannels \subseteq DOMAIN sdk.cursor.channels)'
    BY <1>2 DEF SyncInv, CursorsPast, TokensListed, Listed
  <2>6. (DOMAIN sdk.incomingChannels \subseteq DOMAIN req.cursor.channels)'
    BY <1>1, <1>2, <1>4 DEF SyncInv, CursorsPast, old, new
  <2> QED BY <1>1, <1>2, <2>3, <2>4, <2>5, <2>6 DEF CursorsPast
<1>12. DeliveredOnce'
  <2>1. \A n \in notes : n \notin delivered \cup sdk.notes
    <3> SUFFICES ASSUME NEW n \in notes, n \in delivered \cup sdk.notes PROVE FALSE
      OBVIOUS
    <3>1. Past(old, n) /\ n[1] = sc /\ NoteCursor(sc).last_note_index < n[2] /\ n \in Note
      BY <1>10
    <3>2. n[2] <= NoteCursor(sc).last_note_index
      BY <1>3, <3>1 DEF Past
    <3>3. n[2] \in Nat /\ NoteCursor(sc).last_note_index \in Nat \cup {-1}
      BY <1>1, <3>1 DEF Note, SubchannelCursors, Index, None
    <3> QED BY <3>1, <3>2, <3>3
  <2>2. PageNotes' = {n \in req'.notes : Passes(sdk.filter, n)}
    BY <1>2 DEF PageNotes
  <2>3. \A n \in req.notes : Passes(sdk.filter, n) => n \notin delivered \cup sdk.notes
    BY DEF SyncInv, DeliveredOnce, PageNotes
  <2> QED BY <1>2, <2>1, <2>2, <2>3 DEF DeliveredOnce
<1> QED BY <1>5, <1>6, <1>7, <1>8, <1>11, <1>12 DEF SyncInv

\* A step that returns no note and leaves the index of its subchannel.
LEMMA QuietStepInv ==
    ASSUME SyncInv, NEW sc \in Subchannel, Task(sc).pc # "idle",
           NEW task \in Tasks, task.pc = "bisecting" => StepsSuffice(task),
           NEW cursor \in SubchannelCursors,
           cursor.last_note_index = NoteCursor(sc).last_note_index,
           NEW reads \in Nat, NEW taken \in Int, taken <= req.remaining,
           Reserved(task) \in Nat, Reserved(task) + reads = Reserved(Task(sc)) + taken,
           TaskStep(sc, task, cursor, reads, taken, {})
    PROVE  SyncInv'
PROOF
<1>1. NoteCursor(sc) \in SubchannelCursors
  BY AtWork
<1>2. NoteCursor(sc).last_note_index \in Nat \cup {-1}
  BY <1>1 DEF SubchannelCursors, Index, None
<1>3. NoteCursor(sc).last_note_index <= cursor.last_note_index
  BY <1>2
<1> QED BY <1>3, TaskStepInv

\* A task that reserves nothing.
LEMMA NoTaskFacts ==
    /\ NoTask \in Tasks /\ NoTask.pc = "idle" /\ Reserved(NoTask) = 0
    /\ NoTask.batch = 0 /\ NoTask.steps = 0 /\ NoTask.cache = {}
PROOF
BY DEF NoTask, Tasks, Reserved

\* The reservation for a search is taken.
LEMMA ReserveBoundaryInv ==
    ASSUME SyncInv, NEW sc \in Subchannel, reserve_boundary(sc)
    PROVE  SyncInv'
PROOF
<1> DEFINE task == [NoTask EXCEPT !.pc = "probing"]
           cursor == NoteCursor(sc)
           taken == boundary_budget
<1>1. /\ Task(sc).pc = "boundary" /\ boundary_budget <= req.remaining
      /\ TaskStep(sc, task, cursor, 0, taken, {})
  <2>1. /\ Task(sc).pc = "boundary" /\ req.remaining >= boundary_budget
        /\ TaskStep(sc, task, cursor, 0, taken, {})
    BY DEF reserve_boundary, CanConsume
  <2>2. req.remaining \in Nat /\ boundary_budget \in Nat
    BY <2>1, AtWork, ConstantFacts
  <2> HIDE DEF task, cursor, taken
  <2> QED BY <2>1, <2>2
<1>2. cursor \in SubchannelCursors /\ Task(sc).pc # "idle"
  BY <1>1, AtWork
<1>3. task \in Tasks /\ task.pc = "probing"
  BY DEF NoTask, Tasks
<1>4. Reserved(task) = boundary_budget /\ Reserved(Task(sc)) = 0 /\ boundary_budget \in Nat
  BY <1>1, <1>3, ConstantFacts DEF Reserved
<1>5. cursor.last_note_index = NoteCursor(sc).last_note_index
  OBVIOUS
<1>6. Reserved(task) + 0 = Reserved(Task(sc)) + taken /\ taken \in Int /\ Reserved(task) \in Nat
  BY <1>4
<1>7. 0 \in Nat /\ taken <= req.remaining
  BY <1>1
<1> HIDE DEF task, cursor, taken
<1> QED BY <1>1, <1>2, <1>3, <1>5, <1>6, <1>7, QuietStepInv

\* A task gives up for want of budget, or knows the number of its notes already.
LEMMA NoSearchInv ==
    ASSUME SyncInv, NEW sc \in Subchannel, boundary_has_more(sc) \/ boundary_cached(sc)
    PROVE  SyncInv'
PROOF
<1>1. PICK task \in {NoTask, [NoTask EXCEPT !.pc = "scan"]} :
         TaskStep(sc, task, NoteCursor(sc), 0, 0, {})
  BY DEF boundary_has_more, boundary_cached
<1>2. Task(sc).pc = "boundary"
  BY DEF boundary_has_more, boundary_cached
<1>3. NoteCursor(sc) \in SubchannelCursors /\ req.remaining \in Nat
  BY <1>2, AtWork
<1>4. task \in Tasks /\ task.pc \in {"idle", "scan"}
  BY DEF NoTask, Tasks
<1>5. Reserved(task) = 0 /\ Reserved(Task(sc)) = 0
  BY <1>2, <1>4 DEF Reserved
<1>6. 0 \in Nat /\ 0 \in Int /\ 0 <= req.remaining /\ Reserved(task) \in Nat
      /\ Reserved(task) + 0 = Reserved(Task(sc)) + 0
  BY <1>3, <1>5
<1>7. Task(sc).pc # "idle" /\ task.pc # "bisecting"
  BY <1>2, <1>4
<1> QED BY <1>1, <1>3, <1>4, <1>6, <1>7, QuietStepInv

\* A bisection step keeps the bounds apart and at least halves their distance.
LEMMA BisectHalves ==
    ASSUME NEW n \in Nat, NEW b \in [lower : Nat, upper : Nat], Unresolved(b)
    PROVE  /\ midpoint(b) \in Nat
           /\ b.lower < midpoint(b) /\ midpoint(b) < b.upper
           /\ bisect_boundary(n, b) \in [lower : Nat, upper : Nat]
           /\ bisect_boundary(n, b).lower < bisect_boundary(n, b).upper
           /\ 2 * (bisect_boundary(n, b).upper - bisect_boundary(n, b).lower)
                <= (b.upper - b.lower) + 1
PROOF
<1>1. b.lower \in Nat /\ b.upper \in Nat /\ b = [lower |-> b.lower, upper |-> b.upper]
  OBVIOUS
<1>2. midpoint(b) \in Nat /\ b.lower < midpoint(b) /\ midpoint(b) < b.upper
      /\ 2 * (midpoint(b) - b.lower) <= b.upper - b.lower
      /\ 2 * (b.upper - midpoint(b)) <= (b.upper - b.lower) + 1
  BY <1>1, SMT DEF Unresolved, midpoint
<1>3. CASE Exists(n, midpoint(b))
  <2>1. bisect_boundary(n, b) = [lower |-> midpoint(b), upper |-> b.upper]
    BY <1>1, <1>3 DEF bisect_boundary
  <2> QED BY <1>1, <1>2, <2>1
<1>4. CASE ~Exists(n, midpoint(b))
  <2>1. bisect_boundary(n, b) = [lower |-> b.lower, upper |-> midpoint(b)]
    BY <1>1, <1>4 DEF bisect_boundary
  <2> QED BY <1>1, <1>2, <2>1
<1> QED BY <1>3, <1>4

\* The distance between two consecutive probes is a power of two.
LEMMA ProbeGap ==
    ASSUME NEW k \in ProbeIndex \ {0}
    PROVE  /\ k - 1 \in ProbeIndex
           /\ probe_offset(k) \in Nat /\ probe_offset(k - 1) \in Nat
           /\ probe_offset(k) - probe_offset(k - 1) = Pow2[k - 1]
           /\ Pow2[k - 1] \in Nat \ {0}
PROOF
<1>1. k \in ProbeIndex /\ k - 1 \in ProbeIndex /\ k > 0
  BY LastNoteIndexAssumption DEF ProbeIndex
<1>2. Pow2[k - 1] \in Nat \ {0} /\ Pow2[k] \in Nat \ {0} /\ Pow2[k] = 2 * Pow2[k - 1]
  BY <1>1, LastNoteIndexAssumption
<1> QED BY <1>1, <1>2 DEF probe_offset

\* Halving a distance bounded by a power of two bounds it by the one before.
LEMMA HalvePow2 ==
    ASSUME NEW r \in ProbeIndex, NEW w \in Nat, NEW v \in Nat,
           w >= 2, w <= Pow2[r], 2 * v <= w + 1
    PROVE  r - 1 \in ProbeIndex /\ v <= Pow2[r - 1]
PROOF
<1>1. r # 0
  BY LastNoteIndexAssumption DEF ProbeIndex
<1>2. r - 1 \in ProbeIndex /\ Pow2[r] = 2 * Pow2[r - 1] /\ Pow2[r - 1] \in Nat
  BY <1>1, LastNoteIndexAssumption DEF ProbeIndex
<1> QED BY <1>2, SMT

\* The probes find a bracket whose bisection the reservation covers.
LEMMA ProbeInv ==
    ASSUME SyncInv, NEW sc \in Subchannel, probe(sc)
    PROVE  SyncInv'
PROOF
<1> DEFINE start == start_index(NoteCursor(sc))
<1>1. Task(sc).pc = "probing"
  BY DEF probe
<1>2. PICK k \in ProbeIndex \ {0} :
         TaskStep(sc,
             [NoTask EXCEPT !.pc = "bisecting", !.bounds = exponential_probe(start, k),
                            !.cache = {start + probe_offset(j) : j \in 0 .. (k - 1)}],
             NoteCursor(sc), PROBES, 0, {})
  BY DEF probe
<1> DEFINE bounds == exponential_probe(start, k)
           cache == {start + probe_offset(j) : j \in 0 .. (k - 1)}
           task == [NoTask EXCEPT !.pc = "bisecting", !.bounds = bounds, !.cache = cache]
<1>3. /\ NoteCursor(sc) \in SubchannelCursors /\ req.remaining \in Nat /\ start \in Nat
      /\ Task(sc).pc # "idle"
  BY <1>1, AtWork
<1>4. /\ max_note_log_index \in Nat /\ boundary_budget = 2 * max_note_log_index + 1
      /\ PROBES = max_note_log_index + 1
  BY ConstantFacts
<1> HIDE DEF start
<1>5. /\ k - 1 \in ProbeIndex /\ probe_offset(k) \in Nat /\ probe_offset(k - 1) \in Nat
      /\ probe_offset(k) - probe_offset(k - 1) = Pow2[k - 1] /\ Pow2[k - 1] \in Nat \ {0}
  BY ProbeGap
<1>6. /\ bounds = [lower |-> start + probe_offset(k - 1), upper |-> start + probe_offset(k)]
      /\ bounds \in [lower : Nat, upper : Nat]
  BY <1>3, <1>5 DEF exponential_probe
<1>7. cache \in SUBSET Nat
  <2>1. ASSUME NEW j \in 0 .. (k - 1) PROVE start + probe_offset(j) \in Nat
    <3>1. j \in ProbeIndex
      BY <1>4 DEF ProbeIndex
    <3>2. Pow2[j] \in Nat \ {0}
      BY <3>1, LastNoteIndexAssumption
    <3> QED BY <1>3, <3>2 DEF probe_offset
  <2> QED BY <2>1
<1> HIDE DEF bounds, cache
<1>8. /\ task \in Tasks /\ task.pc = "bisecting" /\ task.steps = 0 /\ task.bounds = bounds
  BY <1>6, <1>7 DEF NoTask, Tasks
<1>9. StepsSuffice(task)
  <2>1. bounds.lower < bounds.upper /\ bounds.upper - bounds.lower <= Pow2[k - 1]
    BY <1>3, <1>5, <1>6
  <2>2. task.steps + (k - 1) <= max_note_log_index
    BY <1>4, <1>8 DEF ProbeIndex
  <2> HIDE DEF task
  <2> QED BY <1>5, <1>8, <2>1, <2>2 DEF StepsSuffice
<1>10. Reserved(task) = max_note_log_index /\ Reserved(Task(sc)) = boundary_budget
  <2> HIDE DEF task
  <2> QED BY <1>1, <1>4, <1>8 DEF Reserved
<1>11. TaskStep(sc, task, NoteCursor(sc), PROBES, 0, {})
  BY <1>2 DEF bounds, cache, start
<1> HIDE DEF task
<1>12. /\ PROBES \in Nat /\ 0 \in Int /\ 0 <= req.remaining /\ Reserved(task) \in Nat
       /\ Reserved(task) + PROBES = Reserved(Task(sc)) + 0
  BY <1>3, <1>4, <1>10
<1> QED BY <1>3, <1>8, <1>9, <1>11, <1>12, QuietStepInv

\* An empty subchannel gives back the reservation for the bisection.
LEMMA ProbeEmptyInv ==
    ASSUME SyncInv, NEW sc \in Subchannel, probe_empty(sc)
    PROVE  SyncInv'
PROOF
<1> DEFINE cursor == [NoteCursor(sc) EXCEPT !.total_n_notes = 0, !.note_discovery_complete = TRUE]
           taken == -max_note_log_index
<1>1. Task(sc).pc = "probing" /\ TaskStep(sc, NoTask, cursor, PROBES, taken, {})
  BY DEF probe_empty
<1>2. /\ NoteCursor(sc) \in SubchannelCursors /\ req.remaining \in Nat /\ Task(sc).pc # "idle"
  BY <1>1, AtWork
<1>3. /\ max_note_log_index \in Nat /\ boundary_budget = 2 * max_note_log_index + 1
      /\ PROBES = max_note_log_index + 1
  BY ConstantFacts
<1>4. cursor \in SubchannelCursors /\ cursor.last_note_index = NoteCursor(sc).last_note_index
  BY <1>2 DEF SubchannelCursors, Index
<1>5. /\ NoTask \in Tasks /\ NoTask.pc # "bisecting" /\ Reserved(NoTask) = 0
      /\ Reserved(Task(sc)) = boundary_budget
  BY <1>1, NoTaskFacts DEF Reserved
<1>6. /\ PROBES \in Nat /\ taken \in Int /\ taken <= req.remaining /\ Reserved(NoTask) \in Nat
      /\ Reserved(NoTask) + PROBES = Reserved(Task(sc)) + taken
  BY <1>2, <1>3, <1>5
<1> HIDE DEF cursor, taken
<1> QED BY <1>1, <1>2, <1>4, <1>5, <1>6, QuietStepInv

\* A bisection step reads once, and the steps that remain suffice.
LEMMA BisectInv ==
    ASSUME SyncInv, NEW sc \in Subchannel, bisect(sc)
    PROVE  SyncInv'
PROOF
<1> DEFINE n == chain.n_notes[sc]
           old == Task(sc).bounds
           mid == midpoint(old)
           bounds == bisect_boundary(n, old)
           cache == IF Exists(n, mid) THEN Task(sc).cache \cup {mid} ELSE Task(sc).cache
           task == [Task(sc) EXCEPT !.bounds = bounds, !.steps = Task(sc).steps + 1, !.cache = cache]
<1>1. /\ Task(sc).pc = "bisecting" /\ Unresolved(old)
      /\ TaskStep(sc, task, NoteCursor(sc), 1, 0, {})
  BY DEF bisect
<1>2. /\ NoteCursor(sc) \in SubchannelCursors /\ req.remaining \in Nat /\ Task(sc).pc # "idle"
      /\ Task(sc) \in Tasks
  BY <1>1, AtWork
<1>3. max_note_log_index \in Nat
  BY ConstantFacts
<1>4. old \in [lower : Nat, upper : Nat] /\ Task(sc).steps \in Nat /\ Task(sc).cache \in SUBSET Nat
  BY <1>2 DEF Tasks
<1>5. n \in Nat
  <2>1. chain \in Chain
    BY IncomingSyncAssumption DEF SyncInv, SyncTyped
  <2> QED BY <2>1 DEF Chain
<1>6. /\ old.lower < old.upper
      /\ \E r \in ProbeIndex : /\ old.upper - old.lower <= Pow2[r]
                               /\ Task(sc).steps + r <= max_note_log_index
  BY <1>1 DEF SyncInv, TasksFit, StepsSuffice
<1> HIDE DEF n, old
<1>7. /\ mid \in Nat /\ bounds \in [lower : Nat, upper : Nat] /\ bounds.lower < bounds.upper
      /\ 2 * (bounds.upper - bounds.lower) <= (old.upper - old.lower) + 1
  BY <1>1, <1>4, <1>5, BisectHalves
<1>8. cache \in SUBSET Nat
  BY <1>4, <1>7
<1> HIDE DEF bounds, cache, mid
<1>9. /\ task \in Tasks /\ task.pc = "bisecting" /\ task.steps = Task(sc).steps + 1
      /\ task.bounds = bounds
  <2> DEFINE t == Task(sc)
             steps == t.steps + 1
  <2>1. t \in Tasks /\ steps \in Nat /\ t.pc = "bisecting"
    BY <1>1, <1>2, <1>4
  <2>2. task = [t EXCEPT !.bounds = bounds, !.steps = steps, !.cache = cache]
    OBVIOUS
  <2> HIDE DEF t, steps, task
  <2>3. /\ task \in Tasks /\ task.pc = "bisecting" /\ task.steps = steps
        /\ task.bounds = bounds
    BY <1>7, <1>8, <2>1, <2>2 DEF Tasks
  <2> QED BY <2>3 DEF t, steps
<1> HIDE DEF task
<1>10. PICK r \in ProbeIndex : /\ old.upper - old.lower <= Pow2[r]
                               /\ Task(sc).steps + r <= max_note_log_index
  BY <1>6
<1>11. r - 1 \in ProbeIndex /\ bounds.upper - bounds.lower <= Pow2[r - 1]
  <2> DEFINE w == old.upper - old.lower
             v == bounds.upper - bounds.lower
  <2>1. w \in Nat /\ v \in Nat /\ w >= 2 /\ 2 * v <= w + 1 /\ w <= Pow2[r]
    BY <1>1, <1>4, <1>6, <1>7, <1>10 DEF Unresolved
  <2> HIDE DEF w, v
  <2>2. r - 1 \in ProbeIndex /\ v <= Pow2[r - 1]
    BY <2>1, HalvePow2
  <2> QED BY <2>2 DEF v
<1>12. task.steps + (r - 1) <= max_note_log_index /\ task.steps <= max_note_log_index
  BY <1>3, <1>4, <1>9, <1>10, <1>11 DEF ProbeIndex
<1>13. StepsSuffice(task)
  BY <1>7, <1>9, <1>11, <1>12 DEF StepsSuffice
<1>14. /\ Reserved(task) = max_note_log_index - (Task(sc).steps + 1)
       /\ Reserved(Task(sc)) = max_note_log_index - Task(sc).steps
  BY <1>1, <1>9 DEF Reserved
<1>15. /\ 1 \in Nat /\ 0 \in Int /\ 0 <= req.remaining /\ Reserved(task) \in Nat
       /\ Reserved(task) + 1 = Reserved(Task(sc)) + 0
  BY <1>2, <1>3, <1>4, <1>9, <1>12, <1>14
<1> QED BY <1>1, <1>2, <1>9, <1>13, <1>15, QuietStepInv

\* The end of a search gives back the steps it did not take.
LEMMA FinishBoundaryInv ==
    ASSUME SyncInv, NEW sc \in Subchannel, finish_boundary(sc)
    PROVE  SyncInv'
PROOF
<1> DEFINE task == [NoTask EXCEPT !.pc = "scan", !.cache = Task(sc).cache]
           cursor == [NoteCursor(sc) EXCEPT !.total_n_notes = Task(sc).bounds.lower + 1]
           taken == -reclaimed_steps(Task(sc).steps)
<1>1. Task(sc).pc = "bisecting" /\ TaskStep(sc, task, cursor, 0, taken, {})
  BY DEF finish_boundary
<1>2. /\ NoteCursor(sc) \in SubchannelCursors /\ req.remaining \in Nat /\ Task(sc).pc # "idle"
      /\ Task(sc) \in Tasks
  BY <1>1, AtWork
<1>3. max_note_log_index \in Nat
  BY ConstantFacts
<1>4. Task(sc).bounds.lower \in Nat /\ Task(sc).steps \in Nat /\ Task(sc).cache \in SUBSET Nat
  BY <1>2 DEF Tasks
<1>5. Task(sc).steps <= max_note_log_index
  <2>1. PICK r \in ProbeIndex : Task(sc).steps + r <= max_note_log_index
    BY <1>1 DEF SyncInv, TasksFit, StepsSuffice
  <2> QED BY <1>3, <1>4, <2>1 DEF ProbeIndex
<1>6. task \in Tasks /\ task.pc = "scan"
  BY <1>4 DEF NoTask, Tasks
<1>7. cursor \in SubchannelCursors /\ cursor.last_note_index = NoteCursor(sc).last_note_index
  <2> DEFINE total == Task(sc).bounds.lower + 1
  <2>1. total \in Index
    BY <1>4 DEF Index
  <2> HIDE DEF total
  <2> QED BY <1>2, <2>1 DEF SubchannelCursors, total
<1>8. Reserved(task) = 0 /\ Reserved(Task(sc)) = max_note_log_index - Task(sc).steps
  <2> HIDE DEF task
  <2> QED BY <1>1, <1>6 DEF Reserved
<1>9. taken = Task(sc).steps - max_note_log_index
  BY <1>3, <1>4 DEF reclaimed_steps
<1> HIDE DEF task, cursor, taken
<1>10. /\ 0 \in Nat /\ taken \in Int /\ taken <= req.remaining /\ Reserved(task) \in Nat
       /\ Reserved(task) + 0 = Reserved(Task(sc)) + taken
  BY <1>2, <1>3, <1>4, <1>5, <1>8, <1>9
<1>11. task.pc # "bisecting"
  BY <1>6
<1> QED BY <1>1, <1>2, <1>6, <1>7, <1>10, <1>11, QuietStepInv

\* The larger and the smaller of two numbers.
LEMMA MaxMinOfTwo ==
    ASSUME NEW a \in Int, NEW b \in Int
    PROVE  /\ Max({a, b}) = IF a >= b THEN a ELSE b
           /\ Min({a, b}) = IF a <= b THEN a ELSE b
PROOF
<1> DEFINE m == IF a >= b THEN a ELSE b
           l == IF a <= b THEN a ELSE b
<1>1. m \in {a, b} /\ \A y \in {a, b} : m >= y
  OBVIOUS
<1>2. \A x \in {a, b} : (\A y \in {a, b} : x >= y) => x = m
  OBVIOUS
<1>3. l \in {a, b} /\ \A y \in {a, b} : l <= y
  OBVIOUS
<1>4. \A x \in {a, b} : (\A y \in {a, b} : x <= y) => x = l
  OBVIOUS
<1> HIDE DEF m, l
<1>5. Max({a, b}) = m
  BY <1>1, <1>2 DEF Max
<1>6. Min({a, b}) = l
  BY <1>3, <1>4 DEF Min
<1> QED BY <1>5, <1>6 DEF m, l

\* What the budget allows of some items.
LEMMA ConsumeUpTo ==
    ASSUME NEW remaining \in Nat, NEW items \in Nat, NEW cost \in Nat \ {0}
    PROVE  /\ consume_up_to(remaining, items, cost) \in 0 .. items
           /\ consume_up_to(remaining, items, cost) * cost <= remaining
PROOF
<1> DEFINE q == remaining \div cost
           c == consume_up_to(remaining, items, cost)
<1>1. q \in Nat /\ q * cost <= remaining
  OBVIOUS
<1> HIDE DEF q
<1>2. c = IF items <= q THEN items ELSE q
  <2>1. c = Min({items, q})
    BY DEF consume_up_to, q
  <2> HIDE DEF c
  <2> QED BY <1>1, <2>1, MaxMinOfTwo
<1> HIDE DEF c
<1>3. c \in 0 .. items /\ c <= q
  BY <1>1, <1>2
<1>4. c * cost <= q * cost
  BY <1>1, <1>3
<1>5. c * cost <= remaining
  BY <1>1, <1>3, <1>4
<1> QED BY <1>3, <1>5 DEF c

\* The notes that a scan has left.
LEMMA NotesLeftType ==
    ASSUME SyncInv, NEW sc \in Subchannel, Task(sc).pc # "idle"
    PROVE  NotesLeft(sc) \in Nat
PROOF
<1> DEFINE left == NoteCursor(sc).total_n_notes - start_index(NoteCursor(sc))
<1>1. NoteCursor(sc) \in SubchannelCursors /\ start_index(NoteCursor(sc)) \in Nat
  BY AtWork
<1>2. NoteCursor(sc).total_n_notes \in Nat \cup {-1}
  BY <1>1 DEF SubchannelCursors, Index, None
<1>3. left \in Int
  BY <1>1, <1>2
<1> HIDE DEF left
<1>4. Max({left, 0}) \in Nat
  BY <1>3, MaxMinOfTwo
<1> QED BY <1>4 DEF NotesLeft, left

\* A scan reserves both reads of the notes of its batch.
LEMMA ReserveScanInv ==
    ASSUME SyncInv, NEW sc \in Subchannel, reserve_scan(sc)
    PROVE  SyncInv'
PROOF
<1> DEFINE batch == consume_up_to(req.remaining, NotesLeft(sc), COST_NOTE)
           done == ScanComplete(sc, batch)
           reading == [Task(sc) EXCEPT !.pc = "reading", !.batch = batch]
           taken == batch * COST_NOTE
           ended == [NoteCursor(sc) EXCEPT !.note_discovery_complete = done]
<1>1. /\ Task(sc).pc = "scan"
      /\ \/ TaskStep(sc, reading, NoteCursor(sc), 0, taken, {})
         \/ TaskStep(sc, NoTask, ended, 0, 0, {})
  BY DEF reserve_scan
<1>2. /\ NoteCursor(sc) \in SubchannelCursors /\ req.remaining \in Nat /\ Task(sc).pc # "idle"
      /\ Task(sc) \in Tasks
  BY <1>1, AtWork
<1>3. NotesLeft(sc) \in Nat
  BY <1>1, NotesLeftType
<1>4. batch \in Nat /\ taken <= req.remaining
  <2>1. req.remaining \in Nat /\ NotesLeft(sc) \in Nat /\ COST_NOTE \in Nat \ {0}
    BY <1>2, <1>3 DEF COST_NOTE
  <2>2. batch \in 0 .. NotesLeft(sc) /\ batch * COST_NOTE <= req.remaining
    BY <2>1, ConsumeUpTo
  <2> HIDE DEF batch
  <2> QED BY <2>1, <2>2
<1>5. done \in BOOLEAN
  BY DEF ScanComplete
<1> HIDE DEF batch, done
<1>6. Reserved(Task(sc)) = 0
  BY <1>1 DEF Reserved
<1>7. CASE TaskStep(sc, reading, NoteCursor(sc), 0, taken, {})
  <2>1. reading \in Tasks /\ reading.pc = "reading" /\ reading.batch = batch
    BY <1>2, <1>4 DEF Tasks
  <2> HIDE DEF reading
  <2>2. Reserved(reading) = COST_NOTE * batch
    BY <2>1 DEF Reserved
  <2>3. /\ 0 \in Nat /\ taken \in Int /\ Reserved(reading) \in Nat
        /\ Reserved(reading) + 0 = Reserved(Task(sc)) + taken
    BY <1>4, <1>6, <2>2 DEF COST_NOTE
  <2>4. reading.pc # "bisecting"
    BY <2>1
  <2> HIDE DEF taken
  <2> QED BY <1>2, <1>4, <1>7, <2>1, <2>3, <2>4, QuietStepInv
<1>8. CASE TaskStep(sc, NoTask, ended, 0, 0, {})
  <2>1. ended \in SubchannelCursors /\ ended.last_note_index = NoteCursor(sc).last_note_index
    BY <1>2, <1>5 DEF SubchannelCursors
  <2>2. /\ 0 \in Nat /\ 0 \in Int /\ 0 <= req.remaining /\ Reserved(NoTask) \in Nat
        /\ Reserved(NoTask) + 0 = Reserved(Task(sc)) + 0
    BY <1>2, <1>6, NoTaskFacts
  <2>3. NoTask \in Tasks /\ NoTask.pc # "bisecting"
    BY NoTaskFacts
  <2> HIDE DEF ended
  <2> QED BY <1>2, <1>8, <2>1, <2>2, <2>3, QuietStepInv
<1> QED BY <1>1, <1>7, <1>8

\* A batch returns notes past the index of its cursor and moves the index over them.
LEMMA ProcessNoteBatchInv ==
    ASSUME SyncInv, NEW sc \in Subchannel, process_note_batch(sc)
    PROVE  SyncInv'
PROOF
<1> DEFINE indices == BatchIndices(sc)
           spent == {i \in indices : <<sc, i>> \in chain.spent}
           skipped == spent \cup (indices \cap Task(sc).cache)
           batch == Task(sc).batch
           done == ScanComplete(sc, batch)
           last == last_index(sc)
           cursor == [NoteCursor(sc) EXCEPT !.last_note_index = last,
                                            !.note_discovery_complete = done]
           reads == 2 * batch - Cardinality(skipped)
           taken == -Cardinality(skipped) * COST_NOTE_PROBING
           notes == {<<sc, i>> : i \in indices \ spent}
           start == start_index(NoteCursor(sc))
<1>1. Task(sc).pc = "reading" /\ TaskStep(sc, NoTask, cursor, reads, taken, notes)
  BY DEF process_note_batch
<1>2. /\ NoteCursor(sc) \in SubchannelCursors /\ req.remaining \in Nat /\ Task(sc).pc # "idle"
      /\ Task(sc) \in Tasks /\ start \in Nat /\ start = NoteCursor(sc).last_note_index + 1
  BY <1>1, AtWork
<1>3. /\ batch \in Nat /\ NoteCursor(sc).last_note_index \in Nat \cup {-1} /\ done \in BOOLEAN
  BY <1>2 DEF Tasks, SubchannelCursors, Index, None, ScanComplete
<1>4. last = start + batch - 1 /\ indices = start .. last
  BY DEF last_index, BatchIndices
<1>5. Reserved(Task(sc)) = 2 * batch
  BY <1>1 DEF Reserved, COST_NOTE
<1> HIDE DEF start, batch, done
<1>6. /\ last \in Nat \cup {-1} /\ NoteCursor(sc).last_note_index <= last
      /\ NoteCursor(sc).last_note_index < start
  BY <1>2, <1>3, <1>4
<1>7. /\ Cardinality(skipped) \in Nat /\ Cardinality(skipped) <= batch
  <2> HIDE DEF last
  <2>1. start \in Int /\ last \in Int
    BY <1>2, <1>6
  <2>2. IsFiniteSet(start .. last)
        /\ Cardinality(start .. last) = IF start > last THEN 0 ELSE last - start + 1
    BY <2>1, FS_Interval
  <2>3. Cardinality(start .. last) = batch
    <3> DEFINE card == Cardinality(start .. last)
    <3>1. last = start + batch - 1 /\ start \in Nat /\ batch \in Nat
      BY <1>2, <1>3, <1>4
    <3>2. card = IF start > last THEN 0 ELSE last - start + 1
      BY <2>2
    <3> HIDE DEF card
    <3>3. card = batch
      BY <3>1, <3>2
    <3> QED BY <3>3 DEF card
  <2>4. IsFiniteSet(indices) /\ Cardinality(indices) = batch /\ skipped \subseteq indices
    BY <1>4, <2>2, <2>3
  <2> HIDE DEF indices, skipped
  <2> QED BY <2>4, FS_Subset, FS_CardinalityType
<1> HIDE DEF last
<1>8. cursor \in SubchannelCursors /\ cursor.last_note_index = last
  BY <1>2, <1>3, <1>6 DEF SubchannelCursors, Index, None
<1>9. /\ NoTask \in Tasks /\ NoTask.pc # "bisecting" /\ Reserved(NoTask) = 0
      /\ Reserved(NoTask) \in Nat
  BY NoTaskFacts
<1>10. /\ reads \in Nat /\ taken \in Int /\ taken <= req.remaining
       /\ Reserved(NoTask) + reads = Reserved(Task(sc)) + taken
  <2> HIDE DEF skipped
  <2> QED BY <1>2, <1>3, <1>5, <1>7, <1>9 DEF COST_NOTE_PROBING
<1>11. /\ notes \in SUBSET Note
       /\ \A n \in notes : /\ n[1] = sc /\ NoteCursor(sc).last_note_index < n[2]
                           /\ n[2] <= cursor.last_note_index
  <2>1. ASSUME NEW i \in indices
        PROVE  i \in Nat /\ NoteCursor(sc).last_note_index < i /\ i <= last
    BY <1>2, <1>3, <1>4, <1>6
  <2>2. ASSUME NEW n \in notes PROVE \E i \in indices : n = <<sc, i>>
    OBVIOUS
  <2> HIDE DEF indices, cursor, notes
  <2>3. ASSUME NEW n \in notes
        PROVE  /\ n \in Note /\ n[1] = sc /\ NoteCursor(sc).last_note_index < n[2]
               /\ n[2] <= cursor.last_note_index
    <3>1. PICK i \in indices : n = <<sc, i>>
      BY <2>2
    <3>2. n \in Note /\ n[1] = sc /\ n[2] = i
      BY <2>1, <3>1 DEF Note
    <3> QED BY <1>8, <2>1, <3>2
  <2> QED BY <2>3
<1>12. NoteCursor(sc).last_note_index <= cursor.last_note_index
  BY <1>6, <1>8
<1> HIDE DEF cursor, reads, taken, notes
<1> QED BY <1>1, <1>2, <1>8, <1>9, <1>10, <1>11, <1>12, TaskStepInv

\* Every step of a note task.
LEMMA NoteStepInv ==
    ASSUME SyncInv, NEW sc \in Subchannel, NoteStep(sc)
    PROVE  SyncInv'
PROOF
BY ReserveBoundaryInv, NoSearchInv, ProbeInv, ProbeEmptyInv, BisectInv, FinishBoundaryInv,
   ReserveScanInv, ProcessNoteBatchInv DEF NoteStep

-----------------------------------------------------------------------------
(***************************************************************************)
(* The tasks that list subchannels.                                        *)
(***************************************************************************)

\* A cursor in which the cursor of one channel is replaced.
LEMMA ChannelUpdate ==
    ASSUME NEW old \in Cursors, NEW s \in Sender, NEW new \in ChannelCursors,
           s \in DOMAIN old.channels, NEW cursor, cursor = [old EXCEPT !.channels[s] = new]
    PROVE  /\ cursor \in Cursors
           /\ cursor.total_n_channels = old.total_n_channels
           /\ cursor.last_channel_index = old.last_channel_index
           /\ cursor.channel_discovery_complete = old.channel_discovery_complete
           /\ DOMAIN cursor.channels = DOMAIN old.channels
           /\ cursor.channels[s] = new
           /\ \A x \in DOMAIN old.channels : x # s => cursor.channels[x] = old.channels[x]
PROOF
<1> DEFINE channels == old.channels
           newChannels == [channels EXCEPT ![s] = new]
<1>1. cursor = [old EXCEPT !.channels = newChannels]
  OBVIOUS
<1>2. /\ channels \in [DOMAIN channels -> ChannelCursors] /\ DOMAIN channels \subseteq Sender
  BY MapFacts DEF Cursors
<1>3. s \in DOMAIN channels
  OBVIOUS
<1> HIDE DEF channels
<1>4. /\ newChannels \in [DOMAIN channels -> ChannelCursors] /\ DOMAIN newChannels = DOMAIN channels
      /\ newChannels[s] = new
      /\ \A x \in DOMAIN channels : x # s => newChannels[x] = channels[x]
  BY <1>2, <1>3
<1> HIDE DEF newChannels
<1>5. newChannels \in Maps(Sender, ChannelCursors)
  BY <1>2, <1>4, MapFacts
<1>6. /\ cursor \in Cursors /\ cursor.total_n_channels = old.total_n_channels
      /\ cursor.last_channel_index = old.last_channel_index
      /\ cursor.channel_discovery_complete = old.channel_discovery_complete
      /\ cursor.channels = newChannels
  BY <1>1, <1>5 DEF Cursors
<1> QED BY <1>4, <1>6 DEF channels

\* A channel whose next subchannel is listed.
ListNext(ch, token) ==
    [ch EXCEPT !.last_subchannel_index = ch.last_subchannel_index + 1,
               !.subchannels = IF token \in DOMAIN ch.subchannels THEN ch.subchannels
                               ELSE Put(ch.subchannels, token, NewSubchannelCursor)]

\* What the next subchannel changes of the cursor of its channel.
LEMMA ListNextFacts ==
    ASSUME NEW ch \in ChannelCursors, NEW token \in Token
    PROVE  /\ ListNext(ch, token) \in ChannelCursors
           /\ ListNext(ch, token).last_subchannel_index = ch.last_subchannel_index + 1
           /\ ch.last_subchannel_index \in Nat \cup {-1}
           /\ ListNext(ch, token).subchannel_discovery_complete = ch.subchannel_discovery_complete
           /\ DOMAIN ListNext(ch, token).subchannels = DOMAIN ch.subchannels \cup {token}
           /\ \A t \in DOMAIN ch.subchannels : ListNext(ch, token).subchannels[t] = ch.subchannels[t]
           /\ token \notin DOMAIN ch.subchannels =>
                 ListNext(ch, token).subchannels[token] = NewSubchannelCursor
PROOF
<1> DEFINE subs == ch.subchannels
           newSubs == IF token \in DOMAIN subs THEN subs ELSE Put(subs, token, NewSubchannelCursor)
           index == ch.last_subchannel_index + 1
<1>1. subs \in Maps(Token, SubchannelCursors) /\ ch.last_subchannel_index \in Nat \cup {-1}
  BY DEF ChannelCursors, Index, None
<1>2. NewSubchannelCursor \in SubchannelCursors
  BY DEF NewSubchannelCursor, SubchannelCursors, Index, None
<1>3. index \in Index
  BY <1>1 DEF Index
<1>4. ListNext(ch, token) = [ch EXCEPT !.last_subchannel_index = index, !.subchannels = newSubs]
  BY DEF ListNext
<1> HIDE DEF subs
<1>5. /\ newSubs \in Maps(Token, SubchannelCursors)
      /\ DOMAIN newSubs = DOMAIN subs \cup {token}
      /\ \A t \in DOMAIN subs : newSubs[t] = subs[t]
      /\ token \notin DOMAIN subs => newSubs[token] = NewSubchannelCursor
  <2>1. CASE token \in DOMAIN subs
    BY <1>1, <2>1
  <2>2. CASE token \notin DOMAIN subs
    <3> DEFINE put == Put(subs, token, NewSubchannelCursor)
    <3>1. /\ put \in Maps(Token, SubchannelCursors) /\ DOMAIN put = DOMAIN subs \cup {token}
          /\ \A t \in DOMAIN subs : t # token => put[t] = subs[t]
          /\ put[token] = NewSubchannelCursor
      BY <1>1, <1>2, PutFacts
    <3>2. newSubs = put
      BY <2>2
    <3> HIDE DEF put, newSubs
    <3> QED BY <2>2, <3>1, <3>2
  <2> QED BY <2>1, <2>2
<1> HIDE DEF newSubs, index
<1>6. /\ ListNext(ch, token) \in ChannelCursors
      /\ ListNext(ch, token).last_subchannel_index = index
      /\ ListNext(ch, token).subchannel_discovery_complete = ch.subchannel_discovery_complete
      /\ ListNext(ch, token).subchannels = newSubs
  BY <1>3, <1>4, <1>5 DEF ChannelCursors
<1> QED BY <1>1, <1>5, <1>6 DEF subs, index

\* Listing the next subchannel of a channel leads to no note that the cursor is past: a
\* channel has one subchannel for a token.
LEMMA ListNextPast ==
    ASSUME NEW old \in Cursors, NEW s \in Sender, s \in DOMAIN old.channels, chain \in Chains,
           old.channels[s].last_subchannel_index + 2 \in DOMAIN chain.subchannels[s],
           NEW token \in Token,
           token = chain.subchannels[s][old.channels[s].last_subchannel_index + 2],
           NEW cursor, DOMAIN cursor.channels = DOMAIN old.channels,
           cursor.channels[s] = ListNext(old.channels[s], token),
           \A x \in DOMAIN old.channels : x # s => cursor.channels[x] = old.channels[x],
           TokensListed(old)
    PROVE  TokensListed(cursor) /\ \A n \in Note : Past(old, n) => Past(cursor, n)
PROOF
<1> DEFINE ch == old.channels[s]
           new == cursor.channels[s]
           last == ch.last_subchannel_index
<1>1. ch \in ChannelCursors
  BY MapFacts DEF Cursors
<1> HIDE DEF ch, new
<1>2. new = ListNext(ch, token)
  BY ZenonT(30) DEF ch, new
<1>3. /\ new.last_subchannel_index = last + 1 /\ last \in Nat \cup {-1}
      /\ DOMAIN new.subchannels = DOMAIN ch.subchannels \cup {token}
      /\ \A t \in DOMAIN ch.subchannels : new.subchannels[t] = ch.subchannels[t]
  BY <1>1, <1>2, ListNextFacts
<1>4. last + 2 \in DOMAIN chain.subchannels[s] /\ token = chain.subchannels[s][last + 2]
  BY DEF ch
<1> HIDE DEF last
<1>5. chain.subchannels[s] \in Seq(Token)
  BY IncomingSyncAssumption DEF Chain
<1>6. ASSUME NEW sc \in Subchannel, sc[1] = s, Listed(sc, last) PROVE Listed(sc, last + 1)
  BY <1>3, <1>5, <1>6 DEF Listed
<1>7. ASSUME NEW sc \in Subchannel, sc[1] = s, sc[2] = token PROVE Listed(sc, last + 1)
  BY <1>3, <1>4, <1>7 DEF Listed
<1>8. ASSUME NEW sc \in Subchannel, sc[1] = s, Listed(sc, last) PROVE sc[2] # token
  <2>1. PICK j \in DOMAIN chain.subchannels[s] : j <= last + 1 /\ chain.subchannels[s][j] = sc[2]
    BY <1>8 DEF Listed
  <2>2. j \in Nat /\ j # last + 2
    BY <1>3, <1>5, <2>1, SMTT(30)
  <2> QED BY <1>4, <2>1, <2>2, IncomingSyncAssumption
<1>9. TokensListed(cursor)
  <2> SUFFICES ASSUME NEW sc \in Subchannel, sc[1] \in DOMAIN cursor.channels,
                      sc[2] \in DOMAIN cursor.channels[sc[1]].subchannels
               PROVE  Listed(sc, cursor.channels[sc[1]].last_subchannel_index)
    BY Zenon DEF TokensListed
  <2>1. CASE sc[1] = s
    <3>1. sc[2] \in DOMAIN ch.subchannels => Listed(sc, last)
      BY <2>1, ZenonT(30) DEF TokensListed, ch, last
    <3>2. Listed(sc, last + 1)
      BY <1>3, <1>6, <1>7, <2>1, <3>1 DEF new
    <3> QED BY <1>3, <2>1, <3>2 DEF new
  <2>2. CASE sc[1] # s
    BY <2>2 DEF TokensListed
  <2> QED BY <2>1, <2>2
<1>10. ASSUME NEW n \in Note, Past(old, n) PROVE Past(cursor, n)
  <2>1. n[1] \in Subchannel
    BY ZenonT(30) DEF Note
  <2>2. CASE n[1][1] = s
    <3>1. /\ Listed(n[1], last)
          /\ n[1][2] \in DOMAIN ch.subchannels => n[2] <= ch.subchannels[n[1][2]].last_note_index
      BY <1>10, <2>2 DEF Past, ch, last
    <3>2. Listed(n[1], last + 1) /\ n[1][2] # token
      BY <1>6, <1>8, <2>1, <2>2, <3>1
    <3>3. n[1][2] \in DOMAIN new.subchannels => n[2] <= new.subchannels[n[1][2]].last_note_index
      BY <1>3, <3>1, <3>2
    <3> QED BY <1>3, <2>2, <3>2, <3>3 DEF Past, new
  <2>3. CASE n[1][1] # s
    BY <1>10, <2>3 DEF Past
  <2> QED BY <2>2, <2>3
<1> QED BY <1>9, <1>10

\* A channel task at work belongs to a request that is active.
LEMMA ChannelAtWork ==
    ASSUME SyncInv, NEW s \in Sender, req.channel_task[s] = "subchannels"
    PROVE  /\ req.active /\ sdk.phase = "paging" /\ req \in Requests /\ req.remaining \in Nat
           /\ req.reads \in Nat /\ req.cursor \in Cursors /\ s \in DOMAIN req.cursor.channels
           /\ ChannelCursor(s) \in ChannelCursors
           /\ \A sc \in Subchannel : sc[1] = s => Task(sc) = NoTask
PROOF
<1>1. req \in Requests
  BY DEF SyncInv, SyncTyped
<1>2. req.active
  <2> SUFFICES ASSUME ~req.active PROVE FALSE
    BY <1>1, RequestParts
  <2>1. req = NoRequest
    BY DEF SyncInv, TasksFit
  <2> QED BY <2>1 DEF NoRequest
<1>3. /\ sdk.phase = "paging" /\ s \in DOMAIN req.cursor.channels
      /\ \A sc \in Subchannel : sc[1] = s => Task(sc) = NoTask
  BY <1>2 DEF SyncInv, TasksFit
<1>4. req.remaining \in Nat /\ req.reads \in Nat /\ req.cursor \in Cursors
  BY <1>1, RequestParts
<1>5. ChannelCursor(s) \in ChannelCursors
  BY <1>3, <1>4, MapFacts DEF Cursors, ChannelCursor
<1> QED BY <1>1, <1>2, <1>3, <1>4, <1>5

\* The next read of a channel lists a subchannel, or ends the list.
LEMMA DiscoverSubchannelInv ==
    ASSUME SyncInv, NEW s \in Sender, discover_subchannel(s)
    PROVE  SyncInv'
PROOF
<1> DEFINE old == req.cursor
           ch == ChannelCursor(s)
           tokens == chain.subchannels[s]
           index == ch.last_subchannel_index + 1
           token == tokens[index + 1]
           newCh == IF index < Len(tokens) THEN ListNext(ch, token)
                    ELSE [ch EXCEPT !.subchannel_discovery_complete = TRUE]
           new == [old EXCEPT !.channels[s] = newCh]
<1>1. /\ req.channel_task[s] = "subchannels" /\ req.remaining >= COST_SUBCHANNEL_INFO
      /\ UNCHANGED <<chain, sdk, kept, delivered, sessions>>
      /\ req' = [req EXCEPT !.remaining = req.remaining - COST_SUBCHANNEL_INFO,
                            !.reads = req.reads + COST_SUBCHANNEL_INFO, !.cursor.channels[s] = newCh]
  BY DEF discover_subchannel, MoreSubchannels, CanConsume, ListNext
<1>2. /\ req.active /\ req \in Requests /\ req.remaining \in Nat /\ sdk.phase = "paging"
      /\ req.reads \in Nat /\ old \in Cursors /\ s \in DOMAIN old.channels
      /\ ch \in ChannelCursors /\ ch = old.channels[s]
  BY <1>1, ChannelAtWork DEF ChannelCursor
<1>3. tokens \in Seq(Token) /\ chain \in Chains
  BY IncomingSyncAssumption DEF SyncInv, SyncTyped, Chain
<1>4. ch.last_subchannel_index \in Nat \cup {-1}
  BY <1>2 DEF ChannelCursors, Index, None
<1>5. index < Len(tokens) => index + 1 \in DOMAIN tokens /\ token \in Token
  <2>1. index \in Nat
    BY <1>4
  <2> HIDE DEF index, tokens
  <2> QED BY <1>3, <2>1
<1>6. newCh \in ChannelCursors /\ DOMAIN ch.subchannels \subseteq DOMAIN newCh.subchannels
  <2>1. CASE index < Len(tokens)
    <3>1. token \in Token /\ newCh = ListNext(ch, token)
      BY <1>5, <2>1
    <3> HIDE DEF token, newCh, ch
    <3> QED BY <1>2, <3>1, ListNextFacts
  <2>2. CASE ~(index < Len(tokens))
    <3>1. newCh = [ch EXCEPT !.subchannel_discovery_complete = TRUE]
      BY <2>2
    <3> HIDE DEF newCh, ch
    <3> QED BY <1>2, <3>1 DEF ChannelCursors
  <2> QED BY <2>1, <2>2
<1>7. /\ new \in Cursors /\ new.total_n_channels = old.total_n_channels
      /\ DOMAIN new.channels = DOMAIN old.channels /\ new.channels[s] = newCh
      /\ \A x \in DOMAIN old.channels : x # s => new.channels[x] = old.channels[x]
  <2>1. new = [old EXCEPT !.channels[s] = newCh]
    OBVIOUS
  <2> HIDE DEF newCh, new, old
  <2> QED BY <1>2, <1>6, <2>1, ChannelUpdate
<1>8. TokensListed(old)
  BY <1>2 DEF SyncInv, CursorsPast
<1>9. TokensListed(new) /\ \A n \in Note : Past(old, n) => Past(new, n)
  <2>1. CASE index < Len(tokens)
    <3>1. /\ newCh = ListNext(ch, token) /\ token \in Token
          /\ old.channels[s].last_subchannel_index + 2 \in DOMAIN chain.subchannels[s]
          /\ token = chain.subchannels[s][old.channels[s].last_subchannel_index + 2]
      <4> DEFINE last == ch.last_subchannel_index
      <4>1. last + 2 = index + 1
        <5>1. last \in Int /\ index = last + 1
          BY <1>4
        <5> HIDE DEF last, index
        <5> QED BY <5>1
      <4>2. last = old.channels[s].last_subchannel_index
        BY <1>2
      <4>3. newCh = ListNext(ch, token)
        BY <2>1, Zenon
      <4> HIDE DEF newCh, last
      <4> QED BY <1>5, <2>1, <4>1, <4>2, <4>3
    <3>2. new.channels[s] = ListNext(old.channels[s], token)
      BY <1>2, <1>7, <3>1
    <3> HIDE DEF new, old, newCh, ch, token, index, tokens
    <3> QED BY <1>2, <1>3, <1>7, <1>8, <3>1, <3>2, ListNextPast
  <2>2. CASE ~(index < Len(tokens))
    <3>1. newCh = [ch EXCEPT !.subchannel_discovery_complete = TRUE]
      BY <2>2
    <3> HIDE DEF newCh, ch
    <3>2. /\ newCh.last_subchannel_index = ch.last_subchannel_index
          /\ newCh.subchannels = ch.subchannels
      BY <1>2, <3>1 DEF ChannelCursors
    <3>3. \A x \in DOMAIN old.channels :
              /\ new.channels[x].last_subchannel_index = old.channels[x].last_subchannel_index
              /\ new.channels[x].subchannels = old.channels[x].subchannels
      BY <1>2, <1>7, <3>2
    <3> HIDE DEF new, old
    <3> QED BY <1>7, <1>8, <3>3 DEF TokensListed, Past
  <2> QED BY <2>1, <2>2
<1>10. /\ req' \in Requests /\ req'.active = req.active /\ req'.channel_task = req.channel_task
       /\ req'.reads = req.reads + COST_SUBCHANNEL_INFO
       /\ req'.remaining = req.remaining - COST_SUBCHANNEL_INFO
       /\ req'.notes = req.notes /\ req'.note_task = req.note_task /\ req'.cursor = new
  <2> DEFINE remaining == req.remaining - COST_SUBCHANNEL_INFO
             reads == req.reads + COST_SUBCHANNEL_INFO
  <2>1. req' = [req EXCEPT !.remaining = remaining, !.reads = reads, !.cursor = new]
    <3> HIDE DEF newCh
    <3> QED BY <1>1, <1>2 DEF Requests
  <2>2. remaining \in Nat /\ reads \in Nat
    BY <1>1, <1>2 DEF COST_SUBCHANNEL_INFO
  <2> HIDE DEF remaining, reads, new
  <2>3. /\ req' \in Requests /\ req'.active = req.active /\ req'.channel_task = req.channel_task
        /\ req'.reads = reads /\ req'.remaining = remaining
        /\ req'.notes = req.notes /\ req'.note_task = req.note_task /\ req'.cursor = new
    BY <1>2, <1>7, <2>1, <2>2 DEF Requests
  <2> QED BY <2>3 DEF remaining, reads
<1> HIDE DEF new, old, newCh, ch, token, index, tokens
<1>11. SyncTyped' /\ (sdk.phase = "paging" => Counted(sdk.cursor))'
  BY <1>1, <1>10 DEF SyncInv, SyncTyped, Counted
<1>12. (req.active => Counted(req.cursor))'
  BY <1>1, <1>2, <1>7, <1>10 DEF SyncInv, Counted, old
<1>13. \A sc \in Subchannel : Task(sc)' = Task(sc)
  BY <1>10 DEF Task
<1>14. TasksFit'
  <2>1. \A sc \in Subchannel : Known(sc) => Known(sc)'
    <3>1. \A x \in DOMAIN old.channels : DOMAIN old.channels[x].subchannels \subseteq DOMAIN new.channels[x].subchannels
      BY <1>2, <1>6, <1>7
    <3> QED BY <1>7, <1>10, <3>1 DEF Known, ChannelCursor, old
  <2>2. \A sc \in Subchannel : StepsSuffice(Task(sc))' <=> StepsSuffice(Task(sc))
    BY <1>13 DEF StepsSuffice
  <2>3. \A sc \in Subchannel : /\ (Task(sc).pc # "idle" => Known(sc))'
                               /\ (Task(sc).pc = "bisecting" => StepsSuffice(Task(sc)))'
    BY <1>13, <2>1, <2>2 DEF SyncInv, TasksFit
  <2>4. \A x \in Sender : req'.channel_task[x] = "subchannels" =>
            /\ x \in DOMAIN req'.cursor.channels
            /\ \A sc \in Subchannel : sc[1] = x => Task(sc)' = NoTask
    BY <1>7, <1>10, <1>13 DEF SyncInv, TasksFit, old
  <2> QED BY <1>1, <1>2, <1>10, <2>3, <2>4 DEF TasksFit
<1>15. BudgetBalanced'
  <2>1. Reservations' = Reservations
    BY <1>13 DEF Reservations, Reserved
  <2>2. (Total(Reservations))' = Total(Reservations)
    BY <2>1 DEF Total
  <2>3. /\ Reservations \in [Subchannel -> 0 .. server_budget]
        /\ req.reads + req.remaining + Total(Reservations) = server_budget
        /\ Total(Reservations) \in Nat
    BY <1>2, UnitsFinite DEF SyncInv, BudgetBalanced
  <2>4. req'.reads + req'.remaining + Total(Reservations) = server_budget
    <3> DEFINE total == Total(Reservations)
    <3> HIDE DEF total
    <3>1. total \in Nat /\ req.reads + req.remaining + total = server_budget
      BY <2>3 DEF total
    <3>2. req'.reads + req'.remaining + total = server_budget
      BY <1>2, <1>10, <3>1 DEF COST_SUBCHANNEL_INFO
    <3> QED BY <3>2 DEF total
  <2> QED BY <2>1, <2>2, <2>3, <2>4 DEF BudgetBalanced
<1>16. \A n \in delivered \cup sdk.notes \cup req.notes : n \in Note /\ Past(old, n)
  <2>1. delivered \subseteq Note /\ sdk.notes \subseteq Note /\ req.notes \subseteq Note
    BY <1>2, RequestParts DEF SyncInv, SyncTyped, Calls
  <2> QED BY <1>2, <2>1 DEF SyncInv, CursorsPast, old
<1>17. CursorsPast'
  <2>1. \A n \in delivered \cup sdk.notes \cup req.notes : Past(new, n)
    BY <1>9, <1>16, ZenonT(30)
  <2>2. /\ TokensListed(req.cursor)'
        /\ \A n \in delivered \cup sdk.notes \cup req'.notes : Past(req.cursor, n)'
    BY <1>1, <1>9, <1>10, <2>1 DEF TokensListed, Past, Listed
  <2>3. /\ KeptTokensListed' /\ \A n \in delivered : KeptPast(n)'
        /\ sdk.phase = "idle" => sdk.notes = {}
    BY <1>1 DEF SyncInv, CursorsPast, KeptTokensListed, KeptPast, Listed
  <2>4. /\ (sdk.phase = "paging" => TokensListed(sdk.cursor))'
        /\ (sdk.phase = "paging" => DOMAIN sdk.incomingChannels \subseteq DOMAIN sdk.cursor.channels)'
    BY <1>1 DEF SyncInv, CursorsPast, TokensListed, Listed
  <2>5. (DOMAIN sdk.incomingChannels \subseteq DOMAIN req.cursor.channels)'
    BY <1>1, <1>2, <1>7, <1>10 DEF SyncInv, CursorsPast, old
  <2> QED BY <1>1, <1>2, <1>10, <2>2, <2>3, <2>4, <2>5, SMTT(30) DEF CursorsPast
<1>18. DeliveredOnce'
  <2>1. PageNotes' = PageNotes
    BY <1>1, <1>10 DEF PageNotes
  <2> QED BY <1>1, <2>1 DEF SyncInv, DeliveredOnce
<1> QED BY <1>11, <1>12, <1>14, <1>15, <1>17, <1>18 DEF SyncInv

\* A channel whose subchannels are listed starts the tasks of those with notes to find.
LEMMA StartNotesInv ==
    ASSUME SyncInv, NEW s \in Sender, start_notes(s)
    PROVE  SyncInv'
PROOF
<1> DEFINE Starts(sc) == /\ sc[1] = s /\ sc[2] \in DOMAIN ChannelCursor(s).subchannels
                         /\ ~ChannelCursor(s).subchannels[sc[2]].note_discovery_complete
           begun == [NoTask EXCEPT !.pc = "boundary"]
           tasks == [sc \in Subchannel |-> IF Starts(sc) THEN begun ELSE req.note_task[sc]]
           work == [req.channel_task EXCEPT ![s] = "idle"]
<1>1. /\ req.channel_task[s] = "subchannels"
      /\ req' = [req EXCEPT !.channel_task = work, !.note_task = tasks]
      /\ UNCHANGED <<chain, sdk, kept, delivered, sessions>>
  BY DEF start_notes
<1>2. /\ req.active /\ req \in Requests /\ sdk.phase = "paging"
      /\ \A sc \in Subchannel : sc[1] = s => Task(sc) = NoTask
      /\ s \in DOMAIN req.cursor.channels
  BY <1>1, ChannelAtWork
<1>3. begun \in Tasks /\ begun.pc = "boundary" /\ Reserved(begun) = 0
  <2>1. begun \in Tasks /\ begun.pc = "boundary"
    BY DEF NoTask, Tasks
  <2> HIDE DEF begun
  <2> QED BY <2>1 DEF Reserved
<1> HIDE DEF begun, Starts
<1>4. tasks \in [Subchannel -> Tasks] /\ work \in [Sender -> {"idle", "subchannels"}]
  BY <1>2, <1>3, RequestParts
<1>5. /\ work[s] = "idle" /\ \A x \in Sender : x # s => work[x] = req.channel_task[x]
  BY <1>2, RequestParts
<1>6. \A sc \in Subchannel : tasks[sc] = IF Starts(sc) THEN begun ELSE Task(sc)
  BY DEF Task
<1> HIDE DEF tasks, work
<1>7. /\ req' \in Requests /\ req'.active = req.active /\ req'.channel_task = work
      /\ req'.reads = req.reads /\ req'.remaining = req.remaining
      /\ req'.notes = req.notes /\ req'.note_task = tasks /\ req'.cursor = req.cursor
  BY <1>1, <1>2, <1>4 DEF Requests
<1>8. SyncTyped' /\ (sdk.phase = "paging" => Counted(sdk.cursor))'
  BY <1>1, <1>7 DEF SyncInv, SyncTyped, Counted
<1>9. (req.active => Counted(req.cursor))'
  BY <1>1, <1>7 DEF SyncInv, Counted
<1>10. \A sc \in Subchannel : Task(sc)' = IF Starts(sc) THEN begun ELSE Task(sc)
  BY <1>6, <1>7 DEF Task
<1>11. TasksFit'
  <2>1. \A sc \in Subchannel : Known(sc)' <=> Known(sc)
    BY <1>7 DEF Known, ChannelCursor
  <2>2. \A sc \in Subchannel : Starts(sc) => sc[1] = s /\ Known(sc)
    BY <1>2 DEF Starts, Known
  <2>3. ASSUME NEW sc \in Subchannel
        PROVE  /\ (Task(sc).pc # "idle" => Known(sc))'
               /\ (Task(sc).pc = "bisecting" => StepsSuffice(Task(sc)))'
    <3>1. CASE Starts(sc)
      BY <1>3, <1>10, <2>1, <2>2, <3>1
    <3>2. CASE ~Starts(sc)
      <4>1. Task(sc)' = Task(sc)
        BY <1>10, <3>2
      <4>2. StepsSuffice(Task(sc))' <=> StepsSuffice(Task(sc))
        BY <4>1 DEF StepsSuffice
      <4> QED BY <2>1, <4>1, <4>2 DEF SyncInv, TasksFit
    <3> QED BY <3>1, <3>2
  <2>4. ASSUME NEW x \in Sender, req'.channel_task[x] = "subchannels"
        PROVE  /\ x \in DOMAIN req'.cursor.channels
               /\ \A sc \in Subchannel : sc[1] = x => Task(sc)' = NoTask
    <3>1. x # s /\ req.channel_task[x] = "subchannels"
      BY <1>5, <1>7, <2>4
    <3>2. /\ x \in DOMAIN req.cursor.channels
          /\ \A sc \in Subchannel : sc[1] = x => Task(sc) = NoTask
      BY <3>1 DEF SyncInv, TasksFit
    <3> QED BY <1>7, <1>10, <2>2, <3>1, <3>2
  <2> QED BY <1>1, <1>2, <1>7, <2>3, <2>4 DEF TasksFit
<1>12. BudgetBalanced'
  <2>1. ASSUME NEW sc \in Subchannel PROVE Reserved(Task(sc)') = Reserved(Task(sc))
    <3>1. CASE Starts(sc)
      <4>1. Task(sc) = NoTask
        BY <1>2, <3>1 DEF Starts
      <4> QED BY <1>3, <1>10, <3>1, <4>1, NoTaskFacts
    <3>2. CASE ~Starts(sc)
      BY <1>10, <3>2
    <3> QED BY <3>1, <3>2
  <2>2. Reservations' = Reservations
    <3>1. Reservations' = [sc \in Subchannel |-> Reserved(Task(sc)')]
      BY DEF Reservations, Reserved
    <3> QED BY <2>1, <3>1 DEF Reservations
  <2>3. (Total(Reservations))' = Total(Reservations)
    BY <2>2 DEF Total
  <2> QED BY <1>7, <2>2, <2>3 DEF SyncInv, BudgetBalanced
<1>13. CursorsPast'
  <2>1. /\ TokensListed(req.cursor) /\ DOMAIN sdk.incomingChannels \subseteq DOMAIN req.cursor.channels
        /\ \A n \in delivered \cup sdk.notes \cup req.notes : Past(req.cursor, n)
    BY <1>2, ZenonT(30) DEF SyncInv, CursorsPast
  <2>2. /\ TokensListed(req.cursor)'
        /\ (DOMAIN sdk.incomingChannels \subseteq DOMAIN req.cursor.channels)'
        /\ \A n \in delivered \cup sdk.notes \cup req'.notes : Past(req.cursor, n)'
    BY <1>1, <1>7, <2>1 DEF TokensListed, Past, Listed
  <2>3. /\ KeptTokensListed' /\ \A n \in delivered : KeptPast(n)'
        /\ sdk.phase = "idle" => sdk.notes = {}
    BY <1>1 DEF SyncInv, CursorsPast, KeptTokensListed, KeptPast, Listed
  <2>4. /\ (sdk.phase = "paging" => TokensListed(sdk.cursor))'
        /\ (sdk.phase = "paging" => DOMAIN sdk.incomingChannels \subseteq DOMAIN sdk.cursor.channels)'
    BY <1>1 DEF SyncInv, CursorsPast, TokensListed, Listed
  <2> QED BY <1>1, <1>2, <1>7, <2>2, <2>3, <2>4 DEF CursorsPast
<1>14. DeliveredOnce'
  <2>1. PageNotes' = PageNotes
    BY <1>1, <1>7 DEF PageNotes
  <2> QED BY <1>1, <2>1 DEF SyncInv, DeliveredOnce
<1> QED BY <1>8, <1>9, <1>11, <1>12, <1>13, <1>14 DEF SyncInv

-----------------------------------------------------------------------------
(***************************************************************************)
(* The chain grows.                                                        *)
(***************************************************************************)

\* An element of a prefix has its place in the whole.
LEMMA PrefixElement ==
    ASSUME NEW S, NEW a \in Seq(S), NEW b \in Seq(S), IsPrefix(a, b)
    PROVE  Len(a) <= Len(b) /\ \A j \in DOMAIN a : j \in DOMAIN b /\ b[j] = a[j]
PROOF
<1>1. Len(a) <= Len(b) /\ SubSeq(a, 1, Len(a)) = SubSeq(b, 1, Len(a))
  BY DEF IsPrefix
<1>2. \A j \in 1 .. Len(a) : SubSeq(a, 1, Len(a))[j] = a[j] /\ SubSeq(b, 1, Len(a))[j] = b[j]
  BY <1>1
<1> QED BY <1>1, <1>2

\* What was listed stays listed.
LEMMA GrowListed ==
    ASSUME chain \in Chains, chain' \in Chains, Extends(chain, chain')
    PROVE  /\ Len(chain.channels) <= Len(chain'.channels)
           /\ Len(chain.channels) \in Nat /\ Len(chain'.channels) \in Nat
           /\ \A sc \in Subchannel, i \in Int : Listed(sc, i) => Listed(sc, i)'
PROOF
<1>1. chain \in Chain /\ chain' \in Chain
  BY IncomingSyncAssumption
<1>2. /\ chain.channels \in Seq(Sender) /\ chain'.channels \in Seq(Sender)
      /\ IsPrefix(chain.channels, chain'.channels)
  BY <1>1 DEF Chain, Extends
<1>3. Len(chain.channels) <= Len(chain'.channels)
  BY <1>2, PrefixElement
<1>4. ASSUME NEW sc \in Subchannel, NEW i \in Int, Listed(sc, i) PROVE Listed(sc, i)'
  <2> DEFINE a == chain.subchannels[sc[1]]
             b == chain'.subchannels[sc[1]]
  <2>1. sc[1] \in Sender
    BY DEF Subchannel
  <2>2. a \in Seq(Token) /\ b \in Seq(Token) /\ IsPrefix(a, b)
    BY <1>1, <2>1 DEF Chain, Extends
  <2>3. PICK j \in DOMAIN a : j <= i + 1 /\ a[j] = sc[2]
    BY <1>4 DEF Listed
  <2> HIDE DEF a, b
  <2>4. j \in DOMAIN b /\ b[j] = a[j]
    BY <2>2, PrefixElement
  <2>5. \E k \in DOMAIN b : k <= i + 1 /\ b[k] = sc[2]
    BY <2>3, <2>4
  <2> QED BY <2>5 DEF Listed, b
<1> QED BY <1>2, <1>3, <1>4

\* Between requests nothing is reserved.
LEMMA IdleBalanced == req = NoRequest => BudgetBalanced /\ TasksFit /\ PageNotes = {}
PROOF
<1> SUFFICES ASSUME req = NoRequest PROVE BudgetBalanced /\ TasksFit /\ PageNotes = {}
  OBVIOUS
<1>1. ~req.active /\ req.notes = {}
  BY DEF NoRequest
<1>2. \A sc \in Subchannel : Task(sc) = NoTask
  BY DEF NoRequest, Task
<1>3. \A s \in Sender : req.channel_task[s] = "idle"
  BY DEF NoRequest
<1>4. Reservations \in [Subchannel -> 0 .. server_budget]
  BY <1>2, NoTaskFacts, ConstantFacts DEF Reservations
<1>5. TasksFit
  BY <1>1, <1>2, <1>3, NoTaskFacts DEF TasksFit
<1> QED BY <1>1, <1>4, <1>5 DEF BudgetBalanced, PageNotes

\* The types of the initial values.
LEMMA InitialTypes ==
    /\ NewCursor \in Cursors /\ NoRequest \in Requests /\ NoSession \in Calls
    /\ ~NoRequest.active /\ NoRequest.notes = {} /\ NoSession.notes = {}
    /\ NoSession.phase = "idle" /\ NoSession.incomingChannels = EmptyMap
    /\ DOMAIN NewCursor.channels = {} /\ NewCursor.total_n_channels = -1
    /\ NewCursor.last_channel_index = -1 /\ ~NewCursor.channel_discovery_complete
    /\ NoSession.outcome = "none"
    /\ EmptyMap \in Maps(Sender, IncomingChannel) /\ SameTokens(EmptyMap)
PROOF
<1>1. /\ EmptyMap \in Maps(Sender, IncomingChannel) /\ EmptyMap \in Maps(Sender, ChannelCursors)
      /\ DOMAIN EmptyMap = {}
  BY EmptyMapFacts
<1>2. NewCursor \in Cursors
  BY <1>1 DEF NewCursor, Cursors, Index, None
<1>3. NoRequest \in Requests
  BY <1>2, NoTaskFacts DEF NoRequest, Requests
<1>4. NoSession \in Calls
  BY <1>1, <1>2 DEF NoSession, Calls
<1> QED BY <1>1, <1>2, <1>3, <1>4 DEF NewCursor, NoRequest, NoSession, SameTokens, None

\* No call and no request.
Idle ==
    /\ chain \in Chains
    /\ sdk \in Calls /\ sdk.phase = "idle" /\ sdk.notes = {} /\ sdk.incomingChannels = EmptyMap
    /\ kept \in Maps(Sender, IncomingChannel) /\ SameTokens(kept)
    /\ delivered \subseteq Note
    /\ req = NoRequest
    /\ sessions \in Nat
    /\ KeptTokensListed
    /\ \A n \in delivered : KeptPast(n)

\* Between calls the invariant is about what the wallet keeps.
LEMMA IdleInv == Idle => SyncInv
PROOF
<1> SUFFICES ASSUME Idle PROVE SyncInv
  OBVIOUS
<1>1. ~req.active /\ sdk.phase = "idle"
  BY InitialTypes DEF Idle
<1>2. SyncTyped
  BY InitialTypes DEF Idle, SyncTyped
<1>3. BudgetBalanced /\ TasksFit /\ PageNotes = {}
  BY IdleBalanced DEF Idle
<1>4. CursorsPast
  BY <1>1 DEF Idle, CursorsPast
<1>5. DeliveredOnce
  BY <1>3 DEF DeliveredOnce
<1> QED BY <1>1, <1>2, <1>3, <1>4, <1>5 DEF SyncInv

\* The initial states.
LEMMA SyncInit == Init => SyncInv
PROOF
<1> SUFFICES ASSUME Init PROVE Idle
  BY IdleInv
<1>1. chain \in Chains
  BY IncomingSyncAssumption DEF Init
<1>2. KeptTokensListed /\ \A n \in delivered : KeptPast(n)
  BY EmptyMapFacts DEF Init, KeptTokensListed
<1> QED BY <1>1, <1>2, InitialTypes DEF Init, Idle

\* A call that ends with an error leaves what the wallet keeps.
LEMMA EndedInv ==
    ASSUME SyncInv, missing_channel_key \/ fail_request
    PROVE  SyncInv'
PROOF
<1>1. PICK outcome \in {"missing_channel_key", "failed"} :
         sdk' = [NoSession EXCEPT !.outcome = outcome]
  BY DEF missing_channel_key, fail_request
<1>2. req' = NoRequest /\ UNCHANGED <<chain, kept, delivered, sessions>>
  BY DEF missing_channel_key, fail_request
<1>3. /\ sdk' \in Calls /\ sdk'.phase = "idle" /\ sdk'.notes = {}
      /\ sdk'.incomingChannels = EmptyMap
  BY <1>1, InitialTypes DEF Calls
<1>4. KeptTokensListed' /\ \A n \in delivered : KeptPast(n)'
  BY <1>2 DEF SyncInv, CursorsPast, KeptTokensListed, KeptPast, Listed
<1>5. Idle'
  BY <1>2, <1>3, <1>4 DEF Idle, SyncInv, SyncTyped
<1> QED BY <1>5, IdleInv, PTL

\* The growth of the chain between or during the requests.
LEMMA GrowInv ==
    ASSUME SyncInv, grow
    PROVE  SyncInv'
PROOF
<1>1. /\ chain \in Chains /\ chain' \in Chains /\ Extends(chain, chain')
      /\ sdk' = IF sdk.phase = "idle" THEN NoSession ELSE sdk
      /\ UNCHANGED <<kept, delivered, req, sessions>>
  BY DEF grow, SyncInv, SyncTyped
<1>2. /\ Len(chain.channels) <= Len(chain'.channels)
      /\ Len(chain.channels) \in Nat /\ Len(chain'.channels) \in Nat
      /\ \A sc \in Subchannel, i \in Int : Listed(sc, i) => Listed(sc, i)'
  BY <1>1, GrowListed
<1>3. /\ sdk \in Calls /\ kept \in Maps(Sender, IncomingChannel) /\ delivered \subseteq Note
      /\ req \in Requests /\ sdk.cursor \in Cursors /\ req.cursor \in Cursors
      /\ sdk.notes \subseteq Note /\ req.notes \subseteq Note
  BY RequestParts DEF SyncInv, SyncTyped, Calls
<1>4. KeptTokensListed' /\ \A n \in delivered : KeptPast(n)'
  <2>1. \A s \in DOMAIN kept : kept[s].subchannelIdIndex - 1 \in Int
    <3>1. \A s \in DOMAIN kept : kept[s] \in IncomingChannel
      BY <1>3, MapFacts
    <3> QED BY <3>1 DEF IncomingChannel
  <2>2. KeptTokensListed /\ \A n \in delivered : KeptPast(n)
    BY DEF SyncInv, CursorsPast
  <2>3. ASSUME NEW sc \in Subchannel, sc[1] \in DOMAIN kept,
               Listed(sc, kept[sc[1]].subchannelIdIndex - 1)
        PROVE  Listed(sc, kept[sc[1]].subchannelIdIndex - 1)'
    <3> DEFINE i == kept[sc[1]].subchannelIdIndex - 1
    <3>1. i \in Int /\ Listed(sc, i)
      BY <2>1, <2>3
    <3>2. i' = i
      BY <1>1
    <3> HIDE DEF i
    <3>3. Listed(sc, i)'
      BY <1>2, <3>1, <3>2 DEF Listed
    <3> QED BY <3>3 DEF i
  <2>4. KeptTokensListed'
    BY <1>1, <2>2, <2>3 DEF KeptTokensListed
  <2>5. ASSUME NEW n \in delivered PROVE KeptPast(n)'
    <3>1. n[1] \in Subchannel /\ KeptPast(n)
      BY <1>3, <2>2 DEF Note
    <3>2. Listed(n[1], kept[n[1][1]].subchannelIdIndex - 1)'
      BY <2>3, <3>1 DEF KeptPast
    <3> QED BY <1>1, <3>1, <3>2 DEF KeptPast
  <2> QED BY <2>4, <2>5
<1>5. CASE sdk.phase = "idle"
  <2>1. req = NoRequest
    BY <1>3, <1>5, RequestParts DEF SyncInv, TasksFit
  <2>2. Idle'
    BY <1>1, <1>4, <1>5, <2>1, InitialTypes DEF Idle, SyncInv, SyncTyped
  <2> QED BY <2>2, IdleInv, PTL
<1>6. CASE sdk.phase = "paging"
  <2>1. sdk' = sdk
    BY <1>1, <1>6
  <2>2. ASSUME NEW cursor \in Cursors
        PROVE  /\ cursor.total_n_channels <= Len(chain.channels) =>
                      cursor.total_n_channels <= Len(chain'.channels)
               /\ TokensListed(cursor) => TokensListed(cursor)'
               /\ \A n \in Note : Past(cursor, n) => Past(cursor, n)'
    <3>1. cursor.total_n_channels \in Int
      BY DEF Cursors, Index, None
    <3>2. \A s \in DOMAIN cursor.channels : cursor.channels[s].last_subchannel_index \in Int
      <4>1. \A s \in DOMAIN cursor.channels : cursor.channels[s] \in ChannelCursors
        BY MapFacts DEF Cursors
      <4> QED BY <4>1 DEF ChannelCursors, Index, None
    <3>3. TokensListed(cursor) => TokensListed(cursor)'
      BY <1>2, <3>2 DEF TokensListed
    <3>4. ASSUME NEW n \in Note, Past(cursor, n) PROVE Past(cursor, n)'
      BY <1>2, <3>2, <3>4 DEF Past, Note
    <3> QED BY <1>2, <3>1, <3>3, <3>4
  <2>3. SyncTyped'
    BY <1>1, <2>1 DEF SyncInv, SyncTyped
  <2>4. (sdk.phase = "paging" => Counted(sdk.cursor))' /\ (req.active => Counted(req.cursor))'
    BY <1>1, <1>3, <1>6, <2>1, <2>2 DEF SyncInv, Counted
  <2>5. TasksFit' /\ BudgetBalanced' /\ DeliveredOnce'
    <3>2. TasksFit'
      BY <1>1, <2>1 DEF SyncInv, TasksFit, Task, Known, ChannelCursor, StepsSuffice
    <3>3. BudgetBalanced'
      BY <1>1 DEF SyncInv, BudgetBalanced, Reservations, Reserved, Task, Total
    <3>4. DeliveredOnce'
      BY <1>1, <2>1 DEF SyncInv, DeliveredOnce, PageNotes
    <3> QED BY <3>2, <3>3, <3>4
  <2>6. CursorsPast'
    <3> DEFINE sc == sdk.cursor
               rc == req.cursor
    <3>1. sc' = sc /\ rc' = rc /\ sc \in Cursors /\ rc \in Cursors
      BY <1>1, <1>3, <2>1
    <3>2. /\ (TokensListed(sc) => TokensListed(sc)') /\ (TokensListed(rc) => TokensListed(rc)')
          /\ \A n \in Note : (Past(sc, n) => Past(sc, n)') /\ (Past(rc, n) => Past(rc, n)')
      <4> HIDE DEF sc, rc
      <4>1. /\ (TokensListed(sc) => TokensListed(sc)')
            /\ \A n \in Note : Past(sc, n) => Past(sc, n)'
        BY <2>2, <3>1 DEF TokensListed, Past, Listed
      <4>2. /\ (TokensListed(rc) => TokensListed(rc)')
            /\ \A n \in Note : Past(rc, n) => Past(rc, n)'
        BY <2>2, <3>1 DEF TokensListed, Past, Listed
      <4> QED BY <4>1, <4>2
    <3> QED BY <1>1, <1>3, <1>4, <1>6, <2>1, <3>2 DEF SyncInv, CursorsPast
  <2> QED BY <2>3, <2>4, <2>5, <2>6 DEF SyncInv
<1> QED BY <1>3, <1>5, <1>6 DEF Calls

-----------------------------------------------------------------------------
(***************************************************************************)
(* A request begins.                                                       *)
(***************************************************************************)

\* The next channels, so many of them, are found; if there are no more, all that were
\* counted are.
FindsMore(c, old, new, batch) ==
    LET first == old.last_channel_index + 1
        total == new.total_n_channels
    IN  /\ total = IF old.total_n_channels = None THEN Len(c.channels) ELSE old.total_n_channels
        /\ new.last_channel_index = old.last_channel_index + batch
        /\ DOMAIN new.channels =
               DOMAIN old.channels \cup {c.channels[i] : i \in (first + 1) .. (first + batch)}
        /\ batch > 0 => first + batch <= total
        /\ new.channel_discovery_complete => first + batch >= total

\* The channels that a request discovers are the next ones, and the reads for them are
\* within the budget.
LEMMA ChannelsFound ==
    ASSUME chain \in Chains, NEW cursor \in Cursors,
           cursor.total_n_channels <= Len(chain.channels)
    PROVE  LET f == discover_incoming_channels_paginated(cursor)
           IN  /\ f.reads \in 0 .. server_budget
               /\ f.found \subseteq Sender
               /\ f.cursor \in Cursors
               /\ f.cursor.total_n_channels <= Len(chain.channels)
               /\ DOMAIN cursor.channels \subseteq DOMAIN f.cursor.channels
               /\ \A s \in DOMAIN f.cursor.channels :
                     f.cursor.channels[s] = IF s \in DOMAIN cursor.channels
                                            THEN cursor.channels[s] ELSE NewChannelCursor
               /\ f.cursor = cursor \/ \E batch \in Nat : FindsMore(chain, cursor, f.cursor, batch)
PROOF
<1> DEFINE f == discover_incoming_channels_paginated(cursor)
           known == DOMAIN cursor.channels
           slots == max_channels - Cardinality(known)
           first == cursor.last_channel_index + 1
           counted == cursor.total_n_channels # None
           count_cost == IF cursor.total_n_channels = None THEN COST_NUM_CHANNELS ELSE 0
           total == IF cursor.total_n_channels = None THEN Len(chain.channels)
                    ELSE cursor.total_n_channels
           remaining_channels == Max({total - first, 0})
           num_channels == Min({remaining_channels, slots})
           batch == consume_up_to(server_budget - count_cost, num_channels, COST_CHANNEL_INFO)
           found == {chain.channels[i] : i \in (first + 1) .. (first + batch)}
           channels == [s \in known \cup found |->
                           IF s \in known THEN cursor.channels[s] ELSE NewChannelCursor]
           all == AllChannelsFound(batch, num_channels, remaining_channels)
           reads == count_cost + batch * COST_CHANNEL_INFO
           L == Len(chain.channels)
<1>1. chain.channels \in Seq(Sender) /\ L \in Nat
  BY IncomingSyncAssumption DEF Chain
<1>2. /\ cursor.last_channel_index \in Nat \cup {-1} /\ cursor.total_n_channels \in Nat \cup {-1}
      /\ cursor.channels \in Maps(Sender, ChannelCursors) /\ cursor.channel_discovery_complete \in BOOLEAN
  BY DEF Cursors, Index, None
<1>3. cursor.channels \in [known -> ChannelCursors] /\ known \subseteq Sender
  BY <1>2, MapFacts
<1>4. IsFiniteSet(known) /\ Cardinality(known) \in Nat
  <2> HIDE DEF known
  <2> QED BY <1>3, IncomingSyncAssumption, FS_Subset, FS_CardinalityType
<1>5. server_budget \in Nat /\ COST_NUM_CHANNELS <= server_budget /\ max_channels \in Nat
  BY ConstantFacts, IncomingSyncAssumption
<1>6. CASE cursor.channel_discovery_complete \/ slots <= 0
  <2>1. f = [cursor |-> cursor, reads |-> 0, found |-> {}]
    BY <1>6 DEF discover_incoming_channels_paginated
  <2> HIDE DEF f
  <2>2. f.cursor = cursor /\ f.reads = 0 /\ f.found = {}
    BY <2>1
  <2>3. \A s \in DOMAIN f.cursor.channels :
            f.cursor.channels[s] = IF s \in DOMAIN cursor.channels
                                   THEN cursor.channels[s] ELSE NewChannelCursor
    BY <2>2
  <2> QED BY <1>5, <2>2, <2>3 DEF f
<1>7. CASE ~(cursor.channel_discovery_complete \/ slots <= 0)
  <2>1. f = [cursor |->
                [cursor EXCEPT !.total_n_channels = total, !.channels = channels,
                               !.last_channel_index = cursor.last_channel_index + batch,
                               !.channel_discovery_complete = all],
             reads |-> reads, found |-> found]
    BY <1>7 DEF discover_incoming_channels_paginated
  <2>2. total \in Nat /\ total <= L /\ count_cost \in 0 .. 1 /\ server_budget - count_cost \in Nat
    BY <1>1, <1>2, <1>5 DEF None, COST_NUM_CHANNELS
  <2>3. slots \in Nat /\ first \in Nat
    <3> HIDE DEF known
    <3> QED BY <1>2, <1>4, <1>5, <1>7
  <2> HIDE DEF slots, first, total, count_cost, L
  <2>4. /\ remaining_channels \in Nat
        /\ remaining_channels = IF total - first >= 0 THEN total - first ELSE 0
    <3> DEFINE d == total - first
    <3>1. d \in Int
      BY <2>2, <2>3
    <3> HIDE DEF d
    <3>2. Max({d, 0}) = IF d >= 0 THEN d ELSE 0
      BY <3>1, MaxMinOfTwo
    <3>3. Max({d, 0}) \in Nat
      BY <3>1, <3>2
    <3> QED BY <3>2, <3>3 DEF d
  <2> HIDE DEF remaining_channels
  <2>5. num_channels \in Nat /\ num_channels <= remaining_channels
    <3>1. remaining_channels \in Int /\ slots \in Int
      BY <2>3, <2>4
    <3>2. num_channels = IF remaining_channels <= slots THEN remaining_channels ELSE slots
      BY <3>1, MaxMinOfTwo
    <3> HIDE DEF num_channels
    <3>3. remaining_channels \in Nat /\ slots \in Nat
      BY <2>3, <2>4
    <3> QED BY <3>2, <3>3
  <2> HIDE DEF num_channels
  <2>6. batch \in 0 .. num_channels /\ batch * COST_CHANNEL_INFO <= server_budget - count_cost
    <3> DEFINE budget == server_budget - count_cost
    <3>1. budget \in Nat /\ COST_CHANNEL_INFO \in Nat \ {0}
      BY <2>2 DEF COST_CHANNEL_INFO
    <3> HIDE DEF budget
    <3>2. /\ consume_up_to(budget, num_channels, COST_CHANNEL_INFO) \in 0 .. num_channels
          /\ consume_up_to(budget, num_channels, COST_CHANNEL_INFO) * COST_CHANNEL_INFO <= budget
      BY <2>5, <3>1, ConsumeUpTo
    <3> QED BY <3>2 DEF budget
  <2> HIDE DEF batch
  <2>7. reads \in 0 .. server_budget
    BY <1>5, <2>2, <2>5, <2>6 DEF COST_CHANNEL_INFO
  <2>8. batch \in Nat /\ (batch > 0 => first + batch <= total)
    BY <2>2, <2>3, <2>4, <2>5, <2>6
  <2>9. found \subseteq Sender
    <3>1. ASSUME NEW i \in (first + 1) .. (first + batch) PROVE i \in 1 .. L
      BY <1>1, <2>2, <2>3, <2>8 DEF L
    <3>2. \A i \in 1 .. L : chain.channels[i] \in Sender
      BY <1>1 DEF L
    <3> QED BY <3>1, <3>2
  <2> HIDE DEF found, known
  <2>10. NewChannelCursor \in ChannelCursors
    BY EmptyMapFacts DEF NewChannelCursor, ChannelCursors, Index, None
  <2>11. channels \in [known \cup found -> ChannelCursors] /\ DOMAIN channels = known \cup found
    BY <1>3, <2>10
  <2>12. channels \in Maps(Sender, ChannelCursors)
    <3> HIDE DEF channels
    <3> QED BY <1>3, <2>9, <2>11, MapFacts
  <2>13. \A s \in DOMAIN channels :
             channels[s] = IF s \in known THEN cursor.channels[s] ELSE NewChannelCursor
    BY <2>11
  <2>14. all \in BOOLEAN
    BY DEF AllChannelsFound
  <2>15. cursor.last_channel_index + batch \in Index /\ total \in Index
    BY <1>2, <2>2, <2>8 DEF Index, None
  <2> DEFINE last == cursor.last_channel_index + batch
             new == [cursor EXCEPT !.total_n_channels = total, !.channels = channels,
                                   !.last_channel_index = last,
                                   !.channel_discovery_complete = all]
  <2>16. f.cursor = new /\ f.reads = reads /\ f.found = found
    <3> HIDE DEF f, reads, all, channels
    <3> QED BY <2>1
  <2> HIDE DEF channels, all, last, reads, f
  <2>17. /\ new \in Cursors /\ new.channels = channels /\ new.total_n_channels = total
         /\ new.last_channel_index = last /\ new.channel_discovery_complete = all
    BY <2>12, <2>14, <2>15 DEF Cursors, last
  <2> HIDE DEF new
  <2>19. all => first + batch >= total
    <3> SUFFICES ASSUME batch = remaining_channels PROVE first + batch >= total
      BY DEF all, AllChannelsFound
    <3> QED BY <2>2, <2>3, <2>4
  <2>20. FindsMore(chain, cursor, f.cursor, batch)
    <3>1. DOMAIN f.cursor.channels = known \cup found
      BY <2>11, <2>16, <2>17
    <3>2. /\ f.cursor.total_n_channels = total /\ f.cursor.last_channel_index = last
          /\ f.cursor.channel_discovery_complete = all
      BY <2>16, <2>17
    <3> QED BY <2>8, <2>19, <3>1, <3>2 DEF FindsMore, known, found, first, total, last, L
  <2>18. /\ f.reads \in 0 .. server_budget
         /\ f.found \subseteq Sender
         /\ f.cursor \in Cursors
         /\ f.cursor.total_n_channels <= L
         /\ known \subseteq DOMAIN f.cursor.channels
         /\ \A s \in DOMAIN f.cursor.channels :
               f.cursor.channels[s] = IF s \in known THEN cursor.channels[s] ELSE NewChannelCursor
    BY <2>2, <2>7, <2>9, <2>11, <2>13, <2>16, <2>17
  <2> QED BY <2>8, <2>18, <2>20 DEF f, known, L
<1> QED BY <1>6, <1>7

\* A request begins with its whole budget, less what it read for the channels.
LEMMA BeginRequestInv ==
    ASSUME SyncInv, begin_request
    PROVE  SyncInv'
PROOF
<1> DEFINE cursor == sdk.cursor
           f == IF all_channels_processed(sdk.cursor)
                THEN discover_incoming_channels_paginated(sdk.cursor)
                ELSE [cursor |-> sdk.cursor, reads |-> 0, found |-> {}]
           new == f.cursor
           channels == new.channels
           work == [s \in Sender |->
                       IF s \in DOMAIN channels /\ ~channel_is_complete(channels[s])
                       THEN "subchannels" ELSE "idle"]
           remaining == server_budget - f.reads
           reads == f.reads
           found == f.found
<1>1. /\ sdk.phase = "paging" /\ ~req.active
      /\ req' = [NoRequest EXCEPT !.active = TRUE, !.cursor = new, !.remaining = remaining,
                                  !.reads = reads, !.new_channels = found, !.channel_task = work]
      /\ UNCHANGED <<chain, sdk, kept, delivered, sessions>>
  BY DEF begin_request
<1>2. /\ chain \in Chains /\ cursor \in Cursors /\ cursor.total_n_channels <= Len(chain.channels)
      /\ delivered \subseteq Note /\ sdk.notes \subseteq Note
  BY <1>1 DEF SyncInv, SyncTyped, Calls, Counted
<1>3. server_budget \in Nat
  BY ConstantFacts
<1>4. /\ reads \in 0 .. server_budget /\ found \subseteq Sender /\ new \in Cursors
      /\ new.total_n_channels <= Len(chain.channels)
      /\ DOMAIN cursor.channels \subseteq DOMAIN new.channels
      /\ \A s \in DOMAIN new.channels :
            new.channels[s] = IF s \in DOMAIN cursor.channels
                              THEN cursor.channels[s] ELSE NewChannelCursor
  <2>1. CASE all_channels_processed(sdk.cursor)
    <3>1. f = discover_incoming_channels_paginated(cursor)
      BY <2>1
    <3> HIDE DEF cursor, f
    <3> QED BY <1>2, <3>1, ChannelsFound
  <2>2. CASE ~all_channels_processed(sdk.cursor)
    <3>1. f = [cursor |-> cursor, reads |-> 0, found |-> {}]
      BY <2>2
    <3> HIDE DEF cursor, f
    <3>2. f.cursor = cursor /\ f.reads = 0 /\ f.found = {}
      BY <3>1
    <3> QED BY <1>2, <1>3, <3>2
  <2> QED BY <2>1, <2>2
<1>5. work \in [Sender -> {"idle", "subchannels"}]
      /\ \A s \in Sender : work[s] = "subchannels" => s \in DOMAIN channels
  <2> HIDE DEF channels
  <2> QED OBVIOUS
<1>6. remaining \in Nat /\ reads \in Nat /\ reads + remaining = server_budget
  BY <1>3, <1>4
<1> HIDE DEF cursor, f, new, work, remaining, reads, found
<1>7. /\ req' \in Requests /\ req'.active /\ req'.cursor = new /\ req'.remaining = remaining
      /\ req'.reads = reads /\ req'.channel_task = work /\ req'.notes = {}
      /\ req'.note_task = [sc \in Subchannel |-> NoTask]
  BY <1>1, <1>4, <1>5, <1>6, InitialTypes DEF Requests, NoRequest
<1>8. SyncTyped' /\ (sdk.phase = "paging" => Counted(sdk.cursor))'
  BY <1>1, <1>7 DEF SyncInv, SyncTyped, Counted
<1>9. (req.active => Counted(req.cursor))'
  BY <1>1, <1>4, <1>7 DEF Counted
<1>10. \A sc \in Subchannel : Task(sc)' = NoTask
  BY <1>7 DEF Task
<1>11. TasksFit'
  BY <1>1, <1>5, <1>7, <1>10, NoTaskFacts DEF TasksFit
<1>12. BudgetBalanced'
  <2> DEFINE g == Reservations'
  <2>1. g = [sc \in Subchannel |-> 0]
    <3>1. g = [sc \in Subchannel |-> Reserved(Task(sc)')]
      BY DEF Reservations, Reserved
    <3> HIDE DEF g
    <3> QED BY <1>10, <3>1, NoTaskFacts
  <2> HIDE DEF g
  <2>2. g \in [Subchannel -> 0 .. server_budget] /\ Total(g) = 0
    BY <1>3, <2>1, TotalZero
  <2>3. (Total(Reservations))' = Total(g)
    BY DEF Total, g
  <2>4. req'.reads + req'.remaining + 0 = server_budget
    BY <1>3, <1>6, <1>7
  <2> QED BY <2>2, <2>3, <2>4 DEF BudgetBalanced, g
<1>13. TokensListed(new) /\ \A n \in Note : Past(cursor, n) => Past(new, n)
  <2>1. TokensListed(cursor)
    BY <1>1 DEF SyncInv, CursorsPast, cursor
  <2>2. DOMAIN NewChannelCursor.subchannels = {}
    BY EmptyMapFacts DEF NewChannelCursor
  <2>3. TokensListed(new)
    BY <1>4, <2>1, <2>2 DEF TokensListed
  <2>4. ASSUME NEW n \in Note, Past(cursor, n) PROVE Past(new, n)
    BY <1>4, <2>4 DEF Past
  <2> QED BY <2>3, <2>4
<1>14. CursorsPast'
  <2>1. \A n \in delivered \cup sdk.notes : Past(new, n)
    BY <1>1, <1>2, <1>13, SMTT(30) DEF SyncInv, CursorsPast, cursor
  <2>2. /\ TokensListed(req.cursor)'
        /\ \A n \in delivered \cup sdk.notes \cup req'.notes : Past(req.cursor, n)'
    BY <1>1, <1>7, <1>13, <2>1 DEF TokensListed, Past, Listed
  <2>3. /\ KeptTokensListed' /\ \A n \in delivered : KeptPast(n)'
        /\ sdk.phase = "idle" => sdk.notes = {}
    BY <1>1 DEF SyncInv, CursorsPast, KeptTokensListed, KeptPast, Listed
  <2>4. /\ (sdk.phase = "paging" => TokensListed(sdk.cursor))'
        /\ (sdk.phase = "paging" => DOMAIN sdk.incomingChannels \subseteq DOMAIN sdk.cursor.channels)'
    BY <1>1 DEF SyncInv, CursorsPast, TokensListed, Listed
  <2>5. (DOMAIN sdk.incomingChannels \subseteq DOMAIN req.cursor.channels)'
    BY <1>1, <1>4, <1>7 DEF SyncInv, CursorsPast, cursor
  <2> QED BY <1>1, <1>7, <2>2, <2>3, <2>4, <2>5 DEF CursorsPast
<1>15. DeliveredOnce'
  BY <1>7 DEF DeliveredOnce, PageNotes
<1> QED BY <1>8, <1>9, <1>11, <1>12, <1>14, <1>15 DEF SyncInv

-----------------------------------------------------------------------------
(***************************************************************************)
(* The SDK: the cursor it keeps, and its calls.                            *)
(***************************************************************************)

\* The cursor of a call that resumes stands where the kept one stands, for the tokens
\* that the caller asks for.
LEMMA ResumedCursor ==
    ASSUME NEW incoming \in Maps(Sender, IncomingChannel), SameTokens(incoming), NEW filter
    PROVE  LET api == notesCursorToApiCursor(incoming, filter)
           IN  /\ api \in Cursors /\ api.total_n_channels = -1
               /\ api.last_channel_index = Cardinality(DOMAIN incoming) - 1
               /\ ~api.channel_discovery_complete
               /\ DOMAIN api.channels = DOMAIN incoming /\ DOMAIN incoming \subseteq Sender
               /\ \A s \in DOMAIN incoming :
                     /\ api.channels[s].last_subchannel_index = incoming[s].subchannelIdIndex - 1
                     /\ DOMAIN api.channels[s].subchannels \subseteq DOMAIN incoming[s].noteIndexes
                     /\ \A t \in DOMAIN api.channels[s].subchannels :
                           /\ api.channels[s].subchannels[t].last_note_index =
                                  incoming[s].noteIndexes[t] - 1
                           /\ incoming[s].noteIndexes[t] \in Nat
PROOF
<1> DEFINE api == notesCursorToApiCursor(incoming, filter)
           Sub(s) == buildSubchannelCursors(incoming[s], filter)
           Done(s) == filter # NoFilter /\ Cardinality(filter) = Cardinality(DOMAIN Sub(s))
           Ch(s) == [subchannel_discovery_complete |-> Done(s),
                     last_subchannel_index |-> incoming[s].subchannelIdIndex - 1,
                     subchannels |-> Sub(s)]
           channels == [s \in DOMAIN incoming |-> Ch(s)]
           last == last_channel_index(incoming)
<1>1. DOMAIN incoming \subseteq Sender /\ incoming \in [DOMAIN incoming -> IncomingChannel]
  BY MapFacts
<1>2. api = [NewCursor EXCEPT !.last_channel_index = last, !.channels = channels]
  BY DEF notesCursorToApiCursor
<1>3. last \in Index
  <2> DEFINE c == Cardinality(DOMAIN incoming)
  <2>1. c \in Nat
    BY <1>1, IncomingSyncAssumption, FS_Subset, FS_CardinalityType
  <2> HIDE DEF c
  <2>2. c - 1 \in Nat \cup {-1}
    BY <2>1
  <2> QED BY <2>2 DEF last_channel_index, Index, None, c
<1>4. ASSUME NEW s \in DOMAIN incoming
      PROVE  /\ Sub(s) \in Maps(Token, SubchannelCursors)
             /\ DOMAIN Sub(s) \subseteq DOMAIN incoming[s].noteIndexes
             /\ \A t \in DOMAIN Sub(s) : /\ Sub(s)[t].last_note_index = incoming[s].noteIndexes[t] - 1
                                         /\ incoming[s].noteIndexes[t] \in Nat
  <2> DEFINE icc == incoming[s]
             tokens == {u \in DOMAIN icc.noteIndexes : filter = NoFilter \/ u \in filter}
             Cur(t) == [NewSubchannelCursor EXCEPT !.last_note_index = icc.noteIndexes[t] - 1,
                                                   !.total_n_notes = icc.totalNoteCounts[t]]
  <2>1. icc \in IncomingChannel
    BY <1>1
  <2>2. icc.noteIndexes \in Maps(Token, Nat) /\ icc.totalNoteCounts \in Maps(Token, Index)
    BY <2>1 DEF IncomingChannel
  <2>3. /\ DOMAIN icc.noteIndexes \subseteq Token /\ icc.noteIndexes \in [DOMAIN icc.noteIndexes -> Nat]
        /\ icc.totalNoteCounts \in [DOMAIN icc.totalNoteCounts -> Index]
    BY <2>2, MapFacts
  <2>4. DOMAIN icc.noteIndexes = DOMAIN icc.totalNoteCounts
    BY DEF SameTokens
  <2>5. Sub(s) = [t \in tokens |-> Cur(t)]
    BY DEF buildSubchannelCursors
  <2> HIDE DEF icc
  <2>6. ASSUME NEW t \in tokens
        PROVE  /\ Cur(t) \in SubchannelCursors /\ Cur(t).last_note_index = icc.noteIndexes[t] - 1
               /\ icc.noteIndexes[t] \in Nat
    <3> DEFINE l == icc.noteIndexes[t] - 1
               n == icc.totalNoteCounts[t]
    <3>1. icc.noteIndexes[t] \in Nat /\ n \in Index
      BY <2>3, <2>4
    <3>2. l \in Index
      BY <3>1 DEF Index, None
    <3> HIDE DEF l, n
    <3>3. /\ [NewSubchannelCursor EXCEPT !.last_note_index = l, !.total_n_notes = n] \in SubchannelCursors
          /\ [NewSubchannelCursor EXCEPT !.last_note_index = l, !.total_n_notes = n].last_note_index = l
      BY <3>1, <3>2 DEF NewSubchannelCursor, SubchannelCursors
    <3> QED BY <3>1, <3>3 DEF l, n
  <2> HIDE DEF tokens, Cur, Sub
  <2>7. Sub(s) \in [tokens -> SubchannelCursors] /\ DOMAIN Sub(s) = tokens
        /\ \A t \in tokens : Sub(s)[t] = Cur(t)
    BY <2>5, <2>6
  <2>8. tokens \subseteq Token /\ tokens \subseteq DOMAIN icc.noteIndexes
    BY <2>3 DEF tokens
  <2>9. Sub(s) \in Maps(Token, SubchannelCursors)
    BY <2>7, <2>8, MapFacts
  <2> QED BY <2>6, <2>7, <2>8, <2>9 DEF icc
<1> HIDE DEF Sub
<1>5. ASSUME NEW s \in DOMAIN incoming
      PROVE  /\ Ch(s) \in ChannelCursors /\ Ch(s).subchannels = Sub(s)
             /\ Ch(s).last_subchannel_index = incoming[s].subchannelIdIndex - 1
  <2> DEFINE i == incoming[s].subchannelIdIndex - 1
  <2>1. i \in Index
    <3>1. incoming[s].subchannelIdIndex \in Nat
      BY <1>1 DEF IncomingChannel
    <3> QED BY <3>1 DEF Index, None
  <2>2. Done(s) \in BOOLEAN
    OBVIOUS
  <2> HIDE DEF i, Done
  <2>3. Sub(s) \in Maps(Token, SubchannelCursors)
    BY <1>4
  <2> QED BY <2>1, <2>2, <2>3 DEF ChannelCursors, i
<1> HIDE DEF Ch
<1>6. channels \in [DOMAIN incoming -> ChannelCursors] /\ DOMAIN channels = DOMAIN incoming
      /\ \A s \in DOMAIN incoming : channels[s] = Ch(s)
  BY <1>5
<1> HIDE DEF channels
<1>7. channels \in Maps(Sender, ChannelCursors)
  BY <1>1, <1>6, MapFacts
<1> HIDE DEF api, last
<1>8. /\ api \in Cursors /\ api.channels = channels /\ api.total_n_channels = -1
      /\ api.last_channel_index = last /\ ~api.channel_discovery_complete
  BY <1>2, <1>3, <1>7, InitialTypes DEF Cursors, NewCursor
<1>9. ASSUME NEW s \in DOMAIN incoming
      PROVE  /\ api.channels[s].last_subchannel_index = incoming[s].subchannelIdIndex - 1
             /\ DOMAIN api.channels[s].subchannels \subseteq DOMAIN incoming[s].noteIndexes
             /\ \A t \in DOMAIN api.channels[s].subchannels :
                   /\ api.channels[s].subchannels[t].last_note_index = incoming[s].noteIndexes[t] - 1
                   /\ incoming[s].noteIndexes[t] \in Nat
  BY <1>4, <1>5, <1>6, <1>8
<1>10. DOMAIN api.channels = DOMAIN incoming
  BY <1>6, <1>8
<1>11. api.last_channel_index = Cardinality(DOMAIN incoming) - 1
  BY <1>8 DEF last, last_channel_index
<1> QED BY <1>1, <1>8, <1>9, <1>10, <1>11 DEF api

\* A call begins from the kept cursor, or from nothing.
LEMMA DiscoverNotesInv ==
    ASSUME SyncInv, NEW c \in Sessions, discover_notes(c.filter, c.pinned, c.resume)
    PROVE  SyncInv'
PROOF
<1> DEFINE resumed == c.resume /\ kept # EmptyMap
           api == notesCursorToApiCursor(kept, c.filter)
           cursor == IF resumed THEN api ELSE NewCursor
           filter == c.filter
           pinned == c.pinned
           began == NotesOf(chain)
           known == IF resumed THEN DOMAIN kept ELSE {}
<1>1. /\ sdk.phase = "idle"
      /\ sdk' = [NoSession EXCEPT !.phase = "paging", !.filter = filter, !.pinned = pinned,
                                  !.cursor = cursor, !.began = began, !.known = known]
      /\ delivered' = IF resumed THEN delivered ELSE {}
      /\ sessions' = sessions + 1
      /\ UNCHANGED <<chain, kept, req>>
  BY DEF discover_notes
<1>2. /\ kept \in Maps(Sender, IncomingChannel) /\ SameTokens(kept) /\ delivered \subseteq Note
      /\ req \in Requests /\ sessions \in Nat /\ chain \in Chains
  BY DEF SyncInv, SyncTyped
<1>3. /\ api \in Cursors /\ api.total_n_channels = -1
      /\ DOMAIN api.channels = DOMAIN kept /\ DOMAIN kept \subseteq Sender
      /\ \A s \in DOMAIN kept :
            /\ api.channels[s].last_subchannel_index = kept[s].subchannelIdIndex - 1
            /\ DOMAIN api.channels[s].subchannels \subseteq DOMAIN kept[s].noteIndexes
            /\ \A t \in DOMAIN api.channels[s].subchannels :
                  /\ api.channels[s].subchannels[t].last_note_index = kept[s].noteIndexes[t] - 1
                  /\ kept[s].noteIndexes[t] \in Nat
  BY <1>2, ResumedCursor
<1>4. filter \in {NoFilter} \cup SUBSET Token /\ pinned \in BOOLEAN
  BY IncomingSyncAssumption
<1>5. began \subseteq Note
  <2>1. max_note_log_index \in ProbeIndex
    BY LastNoteIndexAssumption DEF ProbeIndex
  <2>2. Pow2[max_note_log_index] \in Nat
    BY <2>1, LastNoteIndexAssumption
  <2>3. 0 .. Pow2[max_note_log_index] \subseteq Nat
    BY <2>2
  <2> QED BY <2>3 DEF NotesOf, Note
<1> HIDE DEF api
<1>6. cursor \in Cursors /\ cursor.total_n_channels = -1
  BY <1>3, InitialTypes
<1>7. known \subseteq Sender
  BY <1>3
<1>8. req = NoRequest
  BY <1>1, <1>2, RequestParts DEF SyncInv, TasksFit
<1>9. TokensListed(cursor)
  <2>1. CASE resumed
    <3>1. KeptTokensListed
      BY DEF SyncInv, CursorsPast
    <3>2. TokensListed(api)
      BY <1>3, <3>1 DEF TokensListed, KeptTokensListed
    <3> QED BY <2>1, <3>2
  <2>2. CASE ~resumed
    <3>1. TokensListed(NewCursor)
      BY InitialTypes DEF TokensListed
    <3> QED BY <2>2, <3>1
  <2> QED BY <2>1, <2>2
<1>10. \A n \in delivered' : Past(cursor, n)
  <2>1. CASE resumed
    <3>1. ASSUME NEW n \in delivered PROVE Past(api, n)
      <4>1. KeptPast(n) /\ n[2] \in Nat
        BY <1>2 DEF SyncInv, CursorsPast, Note
      <4>2. /\ n[1][1] \in DOMAIN api.channels
            /\ Listed(n[1], api.channels[n[1][1]].last_subchannel_index)
        BY <1>3, <4>1 DEF KeptPast
      <4>3. ASSUME n[1][2] \in DOMAIN api.channels[n[1][1]].subchannels
            PROVE  n[2] <= api.channels[n[1][1]].subchannels[n[1][2]].last_note_index
        <5> DEFINE next == kept[n[1][1]].noteIndexes[n[1][2]]
                   last == api.channels[n[1][1]].subchannels[n[1][2]].last_note_index
        <5>1. last = next - 1 /\ next \in Nat /\ n[2] < next
          BY <1>3, <4>1, <4>3 DEF KeptPast
        <5> HIDE DEF next, last
        <5>2. n[2] <= last
          BY <4>1, <5>1
        <5> QED BY <5>2 DEF last
      <4> QED BY <4>2, <4>3 DEF Past
    <3> QED BY <1>1, <2>1, <3>1
  <2>2. CASE ~resumed
    BY <1>1, <2>2
  <2> QED BY <2>1, <2>2
<1> HIDE DEF cursor, filter, pinned, began, known
<1>11. /\ sdk' \in Calls /\ sdk'.phase = "paging" /\ sdk'.cursor = cursor /\ sdk'.notes = {}
       /\ sdk'.incomingChannels = EmptyMap
  BY <1>1, <1>4, <1>5, <1>6, <1>7, InitialTypes DEF Calls
<1>12. SyncTyped'
  BY <1>1, <1>2, <1>11, InitialTypes DEF SyncTyped, SameTokens
<1>13. (sdk.phase = "paging" => Counted(sdk.cursor))' /\ (req.active => Counted(req.cursor))'
  <2>1. Len(chain.channels) \in Nat
    BY <1>2, IncomingSyncAssumption DEF Chain
  <2>2. sdk'.cursor.total_n_channels <= Len(chain'.channels)
    BY <1>1, <1>6, <1>11, <2>1
  <2> QED BY <1>1, <1>8, <2>2, InitialTypes DEF Counted
<1>14. req' = NoRequest /\ ~req'.active
  BY <1>1, <1>8, InitialTypes
<1>15. BudgetBalanced' /\ TasksFit' /\ PageNotes' = {}
  <2>1. (req = NoRequest)'
    BY <1>14
  <2>2. (BudgetBalanced /\ TasksFit /\ PageNotes = {})'
    BY <2>1, IdleBalanced, PTL
  <2> QED BY <2>2
<1>16. CursorsPast'
  <2>1. KeptTokensListed' /\ \A n \in delivered' : KeptPast(n)'
    BY <1>1, SMTT(30) DEF SyncInv, CursorsPast, KeptTokensListed, KeptPast, Listed
  <2>2. TokensListed(sdk.cursor)' /\ \A n \in delivered' : Past(sdk.cursor, n)'
    BY <1>1, <1>9, <1>10, <1>11 DEF TokensListed, Past, Listed
  <2>3. (DOMAIN sdk.incomingChannels \subseteq DOMAIN sdk.cursor.channels)'
    BY <1>11, EmptyMapFacts
  <2> QED BY <1>11, <1>14, <2>1, <2>2, <2>3 DEF CursorsPast
<1>17. DeliveredOnce'
  BY <1>15 DEF DeliveredOnce
<1> QED BY <1>12, <1>13, <1>15, <1>16, <1>17 DEF SyncInv

\* The cursor that the SDK keeps of a page stands where the page's cursor stands.
LEMMA KeptCursor ==
    ASSUME NEW cursor \in Cursors
    PROVE  LET channels == apiCursorToNotesCursor(cursor)
           IN  /\ DOMAIN channels = DOMAIN cursor.channels /\ DOMAIN channels \subseteq Sender
               /\ \A s \in DOMAIN channels :
                     /\ channels[s] \in IncomingChannel
                     /\ channels[s].subchannelIdIndex - 1 = cursor.channels[s].last_subchannel_index
                     /\ DOMAIN channels[s].noteIndexes = DOMAIN cursor.channels[s].subchannels
                     /\ DOMAIN channels[s].totalNoteCounts = DOMAIN cursor.channels[s].subchannels
                     /\ \A t \in DOMAIN channels[s].noteIndexes :
                           /\ channels[s].noteIndexes[t] =
                                  cursor.channels[s].subchannels[t].last_note_index + 1
                           /\ cursor.channels[s].subchannels[t].last_note_index \in Nat \cup {-1}
PROOF
<1> DEFINE channels == apiCursorToNotesCursor(cursor)
           Subs(s) == cursor.channels[s].subchannels
           Indexes(s) == [t \in DOMAIN Subs(s) |-> noteIndex(Subs(s)[t])]
           Counts(s) == [t \in DOMAIN Subs(s) |-> Subs(s)[t].total_n_notes]
           Next1(s) == cursor.channels[s].last_subchannel_index + 1
<1>1. channels = [s \in DOMAIN cursor.channels |->
                     [subchannelIdIndex |-> Next1(s), noteIndexes |-> Indexes(s),
                      totalNoteCounts |-> Counts(s)]]
  BY DEF apiCursorToNotesCursor
<1>2. /\ DOMAIN cursor.channels \subseteq Sender
      /\ cursor.channels \in [DOMAIN cursor.channels -> ChannelCursors]
  BY MapFacts DEF Cursors
<1>3. ASSUME NEW s \in DOMAIN cursor.channels
      PROVE  /\ Next1(s) \in Nat /\ Next1(s) - 1 = cursor.channels[s].last_subchannel_index
             /\ DOMAIN Indexes(s) = DOMAIN Subs(s) /\ DOMAIN Counts(s) = DOMAIN Subs(s)
             /\ Indexes(s) \in Maps(Token, Nat) /\ Counts(s) \in Maps(Token, Index)
             /\ \A t \in DOMAIN Subs(s) : /\ Indexes(s)[t] = Subs(s)[t].last_note_index + 1
                                          /\ Subs(s)[t].last_note_index \in Nat \cup {-1}
  <2> DEFINE ch == cursor.channels[s]
             subs == ch.subchannels
             last == ch.last_subchannel_index
             indexes == [t \in DOMAIN subs |-> noteIndex(subs[t])]
             counts == [t \in DOMAIN subs |-> subs[t].total_n_notes]
  <2>1. ch \in ChannelCursors
    BY <1>2
  <2> HIDE DEF ch
  <2>2. last \in Nat \cup {-1} /\ subs \in Maps(Token, SubchannelCursors)
    BY <2>1 DEF ChannelCursors, Index, None
  <2> HIDE DEF last, subs
  <2>3. last + 1 \in Nat /\ (last + 1) - 1 = last
    BY <2>2
  <2>4. DOMAIN subs \subseteq Token /\ subs \in [DOMAIN subs -> SubchannelCursors]
    BY <2>2, MapFacts
  <2>5. ASSUME NEW t \in DOMAIN subs
        PROVE  /\ noteIndex(subs[t]) = subs[t].last_note_index + 1 /\ noteIndex(subs[t]) \in Nat
               /\ subs[t].last_note_index \in Nat \cup {-1} /\ subs[t].total_n_notes \in Index
    <3>1. subs[t].last_note_index \in Nat \cup {-1} /\ subs[t].total_n_notes \in Index
      BY <2>4 DEF SubchannelCursors, Index, None
    <3>2. subs[t].last_note_index + 1 \in Nat
      BY <3>1
    <3> QED BY <3>1, <3>2 DEF noteIndex
  <2>6. indexes \in [DOMAIN subs -> Nat] /\ DOMAIN indexes = DOMAIN subs
        /\ \A t \in DOMAIN subs : indexes[t] = subs[t].last_note_index + 1
    BY <2>5
  <2>7. counts \in [DOMAIN subs -> Index] /\ DOMAIN counts = DOMAIN subs
    BY <2>5
  <2> HIDE DEF indexes, counts
  <2>8. indexes \in Maps(Token, Nat) /\ counts \in Maps(Token, Index)
    BY <2>4, <2>6, <2>7, MapFacts
  <2> QED BY <2>3, <2>5, <2>6, <2>7, <2>8 DEF indexes, counts, subs, last, ch
<1> HIDE DEF Indexes, Counts, Next1
<1>4. DOMAIN channels = DOMAIN cursor.channels
  BY <1>1
<1>5. ASSUME NEW s \in DOMAIN cursor.channels
      PROVE  /\ channels[s].subchannelIdIndex = Next1(s) /\ channels[s].noteIndexes = Indexes(s)
             /\ channels[s].totalNoteCounts = Counts(s)
             /\ channels[s] \in IncomingChannel
  <2>1. channels[s] = [subchannelIdIndex |-> Next1(s), noteIndexes |-> Indexes(s),
                       totalNoteCounts |-> Counts(s)]
    BY <1>1
  <2>2. Next1(s) \in Nat /\ Indexes(s) \in Maps(Token, Nat) /\ Counts(s) \in Maps(Token, Index)
    BY <1>3
  <2> HIDE DEF channels
  <2> QED BY <2>1, <2>2 DEF IncomingChannel
<1> HIDE DEF channels
<1>6. ASSUME NEW s \in DOMAIN channels
      PROVE  /\ channels[s] \in IncomingChannel
             /\ channels[s].subchannelIdIndex - 1 = cursor.channels[s].last_subchannel_index
             /\ DOMAIN channels[s].noteIndexes = DOMAIN cursor.channels[s].subchannels
             /\ DOMAIN channels[s].totalNoteCounts = DOMAIN cursor.channels[s].subchannels
             /\ \A t \in DOMAIN channels[s].noteIndexes :
                   /\ channels[s].noteIndexes[t] =
                          cursor.channels[s].subchannels[t].last_note_index + 1
                   /\ cursor.channels[s].subchannels[t].last_note_index \in Nat \cup {-1}
  BY <1>3, <1>4, <1>5
<1> QED BY <1>2, <1>4, <1>6 DEF channels

\* An answer: its notes and its cursor become the call's, or the wallet's when the cursor
\* is complete.
LEMMA ReceivePageInv ==
    ASSUME SyncInv, receive_page
    PROVE  SyncInv'
PROOF
<1> DEFINE cursor == req.cursor
           channels == apiCursorToNotesCursor(cursor)
           before == sdk.incomingChannels
           incoming == [s \in DOMAIN before \cup DOMAIN channels |->
                           IF s \in DOMAIN channels THEN channels[s] ELSE before[s]]
           page == PageNotes
           all == delivered \cup sdk.notes \cup page
<1>1. /\ req.active /\ req' = NoRequest /\ UNCHANGED <<chain, sessions>>
      /\ \/ /\ delivered' = all /\ kept' = incoming
            /\ sdk' = [NoSession EXCEPT !.outcome = "complete", !.filter = sdk.filter,
                                        !.began = sdk.began, !.known = sdk.known]
         \/ /\ delivered' = delivered /\ kept' = kept
            /\ sdk' = [sdk EXCEPT !.cursor = cursor, !.incomingChannels = incoming,
                                  !.notes = sdk.notes \cup page]
  BY DEF receive_page, RequestDone
<1>2. /\ req \in Requests /\ sdk \in Calls /\ cursor \in Cursors /\ chain \in Chains
      /\ before \in Maps(Sender, IncomingChannel) /\ SameTokens(before)
      /\ delivered \subseteq Note /\ sdk.notes \subseteq Note /\ req.notes \subseteq Note
      /\ sessions \in Nat /\ kept \in Maps(Sender, IncomingChannel) /\ SameTokens(kept)
  BY RequestParts DEF SyncInv, SyncTyped, Calls
<1>3. page \subseteq req.notes
  BY DEF PageNotes
<1>4. /\ sdk.phase = "paging" /\ TokensListed(cursor) /\ DOMAIN before \subseteq DOMAIN cursor.channels
      /\ \A n \in all : n \in Note /\ Past(cursor, n)
      /\ cursor.total_n_channels <= Len(chain.channels)
  BY <1>1, <1>2, <1>3 DEF SyncInv, TasksFit, CursorsPast, Counted
<1> HIDE DEF cursor, page
<1>5. /\ DOMAIN channels = DOMAIN cursor.channels /\ DOMAIN channels \subseteq Sender
      /\ \A s \in DOMAIN channels :
            /\ channels[s] \in IncomingChannel
            /\ channels[s].subchannelIdIndex - 1 = cursor.channels[s].last_subchannel_index
            /\ DOMAIN channels[s].noteIndexes = DOMAIN cursor.channels[s].subchannels
            /\ DOMAIN channels[s].totalNoteCounts = DOMAIN cursor.channels[s].subchannels
            /\ \A t \in DOMAIN channels[s].noteIndexes :
                  /\ channels[s].noteIndexes[t] =
                         cursor.channels[s].subchannels[t].last_note_index + 1
                  /\ cursor.channels[s].subchannels[t].last_note_index \in Nat \cup {-1}
  BY <1>2, KeptCursor
<1> HIDE DEF channels
<1>6. DOMAIN incoming = DOMAIN channels /\ \A s \in DOMAIN channels : incoming[s] = channels[s]
  BY <1>4, <1>5
<1>7. incoming \in [DOMAIN channels -> IncomingChannel]
  BY <1>4, <1>5
<1> HIDE DEF incoming, before
<1>8. incoming \in Maps(Sender, IncomingChannel) /\ SameTokens(incoming)
  BY <1>5, <1>6, <1>7, MapFacts DEF SameTokens
<1>9. CASE /\ delivered' = all /\ kept' = incoming
           /\ sdk' = [NoSession EXCEPT !.outcome = "complete", !.filter = sdk.filter,
                                       !.began = sdk.began, !.known = sdk.known]
  <2>1. /\ sdk' \in Calls /\ sdk'.phase = "idle" /\ sdk'.notes = {}
        /\ sdk'.incomingChannels = EmptyMap
    <3>1. sdk.filter \in {NoFilter} \cup SUBSET Token /\ sdk.began \subseteq Note /\ sdk.known \subseteq Sender
      BY <1>2 DEF Calls
    <3> QED BY <1>9, <3>1, InitialTypes DEF Calls
  <2>2. KeptTokensListed'
    <3> SUFFICES ASSUME NEW sc \in Subchannel, sc[1] \in DOMAIN incoming,
                        sc[2] \in DOMAIN incoming[sc[1]].noteIndexes
                 PROVE  Listed(sc, incoming[sc[1]].subchannelIdIndex - 1)
      BY <1>1, <1>9 DEF KeptTokensListed, Listed
    <3> QED BY <1>4, <1>5, <1>6 DEF TokensListed
  <2>3. ASSUME NEW n \in delivered' PROVE KeptPast(n)'
    <3>1. n \in Note /\ Past(cursor, n)
      BY <1>4, <1>9
    <3>2. /\ n[1][1] \in DOMAIN incoming
          /\ Listed(n[1], incoming[n[1][1]].subchannelIdIndex - 1)
      BY <1>5, <1>6, <3>1 DEF Past
    <3>3. ASSUME n[1][2] \in DOMAIN incoming[n[1][1]].noteIndexes
          PROVE  n[2] < incoming[n[1][1]].noteIndexes[n[1][2]]
      <4> DEFINE next == incoming[n[1][1]].noteIndexes[n[1][2]]
                 last == cursor.channels[n[1][1]].subchannels[n[1][2]].last_note_index
      <4>1. /\ n[1][1] \in DOMAIN channels /\ incoming[n[1][1]] = channels[n[1][1]]
            /\ n[1][2] \in DOMAIN channels[n[1][1]].noteIndexes
        BY <1>6, <3>2, <3>3, Zenon
      <4>2. DOMAIN channels[n[1][1]].noteIndexes = DOMAIN cursor.channels[n[1][1]].subchannels
        BY <1>5, <4>1, Zenon
      <4>3. n[2] <= last
        BY <3>1, <4>1, <4>2, Zenon DEF Past
      <4>4. channels[n[1][1]].noteIndexes[n[1][2]] = last + 1 /\ last \in Nat \cup {-1}
        BY <1>5, <4>1, Zenon
      <4>5. next = last + 1 /\ last \in Nat \cup {-1} /\ n[2] <= last
        BY <4>1, <4>3, <4>4, Zenon
      <4>6. n[2] \in Nat
        BY <3>1 DEF Note
      <4> HIDE DEF next, last
      <4>7. n[2] < next
        BY <4>5, <4>6
      <4> QED BY <4>7, Zenon DEF next
    <3> QED BY <1>1, <1>9, <3>2, <3>3 DEF KeptPast, Listed
  <2>4. Idle'
    <3>1. SameTokens(kept)' /\ kept' \in Maps(Sender, IncomingChannel)
      BY <1>8, <1>9 DEF SameTokens
    <3>2. delivered' \subseteq Note
      BY <1>4, <1>9
    <3> QED BY <1>1, <1>2, <2>1, <2>2, <2>3, <3>1, <3>2 DEF Idle
  <2> QED BY <2>4, IdleInv, PTL
<1>10. CASE /\ delivered' = delivered /\ kept' = kept
            /\ sdk' = [sdk EXCEPT !.cursor = cursor, !.incomingChannels = incoming,
                                  !.notes = sdk.notes \cup page]
  <2> DEFINE notes == sdk.notes \cup page
  <2>1. notes \subseteq Note
    BY <1>2, <1>3
  <2> HIDE DEF notes
  <2>2. /\ sdk' \in Calls /\ sdk'.phase = "paging" /\ sdk'.notes = notes
        /\ sdk'.incomingChannels = incoming /\ sdk'.cursor = cursor
    <3>1. sdk' = [sdk EXCEPT !.cursor = cursor, !.incomingChannels = incoming, !.notes = notes]
      BY <1>10 DEF notes
    <3> QED BY <1>2, <1>4, <1>8, <2>1, <3>1 DEF Calls
  <2>3. SyncTyped'
    BY <1>1, <1>2, <1>8, <1>10, <2>2, InitialTypes DEF SyncTyped, SameTokens
  <2>4. ~req'.active
    BY <1>1, InitialTypes
  <2>5. (sdk.phase = "paging" => Counted(sdk.cursor))' /\ (req.active => Counted(req.cursor))'
    BY <1>1, <1>4, <2>2, <2>4 DEF Counted
  <2>6. BudgetBalanced' /\ TasksFit' /\ PageNotes' = {}
    <3>1. (req = NoRequest)'
      BY <1>1
    <3>2. (BudgetBalanced /\ TasksFit /\ PageNotes = {})'
      BY <3>1, IdleBalanced, PTL
    <3> QED BY <3>2
  <2>7. CursorsPast'
    <3>1. KeptTokensListed' /\ \A n \in delivered' : KeptPast(n)'
      BY <1>1, <1>10 DEF SyncInv, CursorsPast, KeptTokensListed, KeptPast, Listed
    <3>2. TokensListed(sdk.cursor)' /\ \A n \in delivered' \cup sdk'.notes : Past(sdk.cursor, n)'
      BY <1>1, <1>4, <1>10, <2>2 DEF TokensListed, Past, Listed, notes
    <3>3. (DOMAIN sdk.incomingChannels \subseteq DOMAIN sdk.cursor.channels)'
      BY <1>5, <1>6, <2>2
    <3> QED BY <2>2, <2>4, <3>1, <3>2, <3>3 DEF CursorsPast
  <2>8. DeliveredOnce'
    BY <2>6 DEF DeliveredOnce
  <2> QED BY <2>3, <2>5, <2>6, <2>7, <2>8 DEF SyncInv
<1> QED BY <1>1, <1>9, <1>10

-----------------------------------------------------------------------------
\* SyncInv is inductive.
LEMMA SyncNext == SyncInv /\ [Next]_vars => SyncInv'
PROOF
<1> SUFFICES ASSUME SyncInv, [Next]_vars PROVE SyncInv'
  OBVIOUS
<1>1. CASE \E c \in Sessions : discover_notes(c.filter, c.pinned, c.resume)
  BY <1>1, DiscoverNotesInv
<1>2. CASE begin_request
  BY <1>2, BeginRequestInv
<1>3. CASE \E s \in Sender : discover_subchannel(s) \/ start_notes(s)
  BY <1>3, DiscoverSubchannelInv, StartNotesInv
<1>4. CASE \E sc \in Subchannel : NoteStep(sc)
  BY <1>4, NoteStepInv
<1>5. CASE receive_page
  BY <1>5, ReceivePageInv
<1>6. CASE missing_channel_key \/ fail_request
  BY <1>6, EndedInv
<1>7. CASE grow
  BY <1>7, GrowInv
<1>8. CASE UNCHANGED vars
  <2>1. /\ SyncTyped' /\ (sdk.phase = "paging" => Counted(sdk.cursor))'
        /\ (req.active => Counted(req.cursor))'
    BY <1>8 DEF vars, SyncInv, SyncTyped, Counted
  <2>2. TasksFit' /\ DeliveredOnce'
    BY <1>8 DEF vars, SyncInv, TasksFit, Task, Known, ChannelCursor, StepsSuffice, DeliveredOnce, PageNotes
  <2>3. BudgetBalanced'
    <3>1. Reservations' = Reservations
      BY <1>8 DEF vars, Reservations, Reserved, Task
    <3>2. (Total(Reservations))' = Total(Reservations)
      BY <3>1, Zenon DEF Total
    <3> QED BY <1>8, <3>1, <3>2 DEF vars, SyncInv, BudgetBalanced
  <2>4. CursorsPast'
    <3>1. /\ chain' = chain /\ sdk' = sdk /\ req' = req /\ kept' = kept /\ delivered' = delivered
          /\ CursorsPast
      BY <1>8 DEF vars, SyncInv
    <3>2. KeptTokensListed' /\ \A n \in delivered : KeptPast(n)'
      BY <3>1 DEF CursorsPast, KeptTokensListed, KeptPast, Listed
    <3>3. sdk.phase = "paging" => TokensListed(sdk.cursor)'
      BY <3>1 DEF CursorsPast, TokensListed, Listed
    <3>4. req.active => TokensListed(req.cursor)'
      BY <3>1, SMTT(30) DEF CursorsPast, TokensListed, Listed
    <3>5. /\ sdk.phase = "paging" /\ ~req.active =>
                \A n \in delivered \cup sdk.notes : Past(sdk.cursor, n)'
          /\ req.active => \A n \in delivered \cup sdk.notes \cup req.notes : Past(req.cursor, n)'
      BY <3>1 DEF CursorsPast, Past, Listed
    <3> QED BY <3>1, <3>2, <3>3, <3>4, <3>5 DEF CursorsPast
  <2> QED BY <2>1, <2>2, <2>3, <2>4 DEF SyncInv
<1> QED BY <1>1, <1>2, <1>3, <1>4, <1>5, <1>6, <1>7, <1>8 DEF Next, ServiceStep

(***************************************************************************)
(* The invariant of the synchronisation holds for every budget that the    *)
(* service accepts, however its tasks interleave and the chain grows:      *)
(* reads, what is left and what the tasks reserve add up to the budget,    *)
(* and every cursor is past the notes that were returned.                  *)
(***************************************************************************)
THEOREM SyncHolds == Spec => []SyncInv
PROOF
BY SyncInit, SyncNext, PTL DEF Spec

(***************************************************************************)
(* The concurrent tasks of a request never read more than its budget, and  *)
(* when they are done exactly what was not read is left (IoBudget,         *)
(* process_channel, find_last_note_index, discover_notes).                 *)
(***************************************************************************)
THEOREM BudgetIsRespected == Spec => []BudgetRespected
PROOF
<1>1. SyncInv => BudgetRespected
  <2> SUFFICES ASSUME SyncInv, req.active PROVE
                   /\ req.remaining >= 0 /\ req.reads + req.remaining <= server_budget
                   /\ RequestDone => req.reads + req.remaining = server_budget
    BY DEF BudgetRespected
  <2> DEFINE total == Total(Reservations)
  <2>1. /\ req.remaining \in Nat /\ req.reads \in Nat /\ server_budget \in Nat
        /\ req.reads + req.remaining + total = server_budget /\ total \in Nat
    BY RequestParts, UnitsFinite, ConstantFacts DEF SyncInv, SyncTyped, BudgetBalanced
  <2>2. RequestDone => total = 0
    <3> SUFFICES ASSUME RequestDone PROVE total = 0
      OBVIOUS
    <3>1. \A sc \in Subchannel : Task(sc).pc = "idle"
      BY DEF RequestDone
    <3>2. \A sc \in Subchannel : Reservations[sc] = 0
      BY <3>1 DEF Reservations, Reserved
    <3> QED BY <3>2, TotalZero
  <2> HIDE DEF total
  <2> QED BY <2>1, <2>2
<1> QED BY <1>1, SyncHolds, PTL

(***************************************************************************)
(* No note is returned twice, by two pages of a session or by a session    *)
(* that resumes from the cursor of an earlier one, whatever filters they   *)
(* have and whichever sessions failed in between (apiCursorToNotesCursor,  *)
(* notesCursorToApiCursor, process_note_batch).                            *)
(***************************************************************************)
THEOREM NotesAreDeliveredOnce == Spec => []DeliveredOnce
PROOF
<1>1. SyncInv => DeliveredOnce
  BY DEF SyncInv
<1> QED BY <1>1, SyncHolds, PTL

-----------------------------------------------------------------------------
(***************************************************************************)
(* Completeness: the inductive invariant.  What is still to be found is    *)
(* ahead of the cursor, at every level, and what is marked complete has    *)
(* left nothing out.                                                       *)
(***************************************************************************)
\* What a call is to return of this chain: CompleteDiscovery.
Wanted(call, c) ==
    {n \in call.began \ c.spent : n[1][1] \notin call.known /\ Passes(call.filter, n)}

\* The channel will be found: it is listed later, and counted if there is a count.
ChannelAhead(c, cursor, s) ==
    \E j \in DOMAIN c.channels :
        /\ c.channels[j] = s /\ j > cursor.last_channel_index + 1
        /\ cursor.total_n_channels # None => j <= cursor.total_n_channels

\* The subchannel will be listed.
SubchannelAhead(c, channel_cursor, sc) ==
    \E k \in DOMAIN c.subchannels[sc[1]] :
        c.subchannels[sc[1]][k] = sc[2] /\ k > channel_cursor.last_subchannel_index + 1

\* The note was found, or it is among those that are counted or will be.
NoteAhead(subchannel_cursor, found, n) ==
    /\ n[2] <= subchannel_cursor.last_note_index => n \in found
    /\ subchannel_cursor.total_n_notes = None => subchannel_cursor.last_note_index = None
    /\ subchannel_cursor.total_n_notes # None => n[2] < subchannel_cursor.total_n_notes
    /\ subchannel_cursor.note_discovery_complete => n[2] <= subchannel_cursor.last_note_index

InChannel(c, channel_cursor, found, n) ==
    IF n[1][2] \in DOMAIN channel_cursor.subchannels
    THEN NoteAhead(channel_cursor.subchannels[n[1][2]], found, n)
    ELSE ~channel_cursor.subchannel_discovery_complete /\ SubchannelAhead(c, channel_cursor, n[1])

Ahead(c, cursor, found, n) ==
    IF n[1][1] \in DOMAIN cursor.channels
    THEN InChannel(c, cursor.channels[n[1][1]], found, n)
    ELSE ~cursor.channel_discovery_complete /\ ChannelAhead(c, cursor, n[1][1])

\* The first channels, up to this number, are known; no more are known than that.
FirstChannels(c, known, number) ==
    /\ number <= Len(c.channels) /\ Cardinality(known) <= number
    /\ \A j \in 1 .. number : c.channels[j] \in known

\* The cursor leads to all that is wanted and not found.
Leads(c, cursor, found, wanted) ==
    /\ FirstChannels(c, DOMAIN cursor.channels, cursor.last_channel_index + 1)
    /\ \A n \in wanted : Ahead(c, cursor, found, n)

\* A search looks above all that is wanted; a scan knows the number of the notes.
TasksReach ==
    \A sc \in Subchannel :
        /\ Task(sc).pc = "probing" => NoteCursor(sc).total_n_notes = None
        /\ Task(sc).pc = "bisecting" =>
              \A n \in Wanted(sdk, chain) : n[1] = sc => n[2] < Task(sc).bounds.upper
        /\ Task(sc).pc \in {"scan", "reading"} => NoteCursor(sc).total_n_notes # None

FoundInv ==
    /\ sdk.phase = "paging" => sdk.outcome = "none" /\ sdk.began \subseteq NotesOf(chain)
    /\ FirstChannels(chain, DOMAIN kept, Cardinality(DOMAIN kept))
    /\ (sdk.phase = "paging" /\ ~req.active) =>
          Leads(chain, sdk.cursor, delivered \cup sdk.notes, Wanted(sdk, chain))
    /\ req.active =>
          Leads(chain, req.cursor, delivered \cup sdk.notes \cup req.notes, Wanted(sdk, chain))
    /\ TasksReach
    /\ CompleteDiscovery

-----------------------------------------------------------------------------
(***************************************************************************)
(* Note tasks.                                                             *)
(***************************************************************************)

\* What is wanted is on the chain.
LEMMA WantedFacts ==
    ASSUME SyncInv, FoundInv, sdk.phase = "paging", NEW n \in Wanted(sdk, chain)
    PROVE  /\ n \in Note /\ n[1] \in Subchannel /\ n[1][1] \in Sender /\ n[1][2] \in Token /\ n[2] \in Nat
           /\ n = <<n[1], n[2]>> /\ n \notin chain.spent /\ n[2] < chain.n_notes[n[1]]
           /\ chain.n_notes[n[1]] \in Nat
           /\ \E j \in DOMAIN chain.channels : chain.channels[j] = n[1][1]
           /\ \E k \in DOMAIN chain.subchannels[n[1][1]] : chain.subchannels[n[1][1]][k] = n[1][2]
           /\ n[1][1] \notin sdk.known /\ Passes(sdk.filter, n)
PROOF
<1>1. n \in sdk.began /\ n \notin chain.spent /\ n[1][1] \notin sdk.known /\ Passes(sdk.filter, n)
  BY DEF Wanted
<1>2. n \in Note /\ n \in NotesOf(chain)
  BY <1>1 DEF FoundInv, SyncInv, SyncTyped, Calls
<1>3. n[1] \in Subchannel /\ n[2] \in Nat /\ n = <<n[1], n[2]>>
  BY <1>2 DEF Note
<1>4. n[1][1] \in Sender /\ n[1][2] \in Token
  BY <1>3 DEF Subchannel
<1>5. /\ n[2] < chain.n_notes[n[1]] /\ n[1][1] \in ToSet(chain.channels)
      /\ n[1][2] \in ToSet(chain.subchannels[n[1][1]])
  BY <1>2 DEF NotesOf
<1>6. chain.n_notes[n[1]] \in Nat
  BY <1>3, IncomingSyncAssumption DEF SyncInv, SyncTyped, Chain
<1> QED BY <1>1, <1>2, <1>3, <1>4, <1>5, <1>6 DEF ToSet

\* A step of a task keeps the invariant when what is wanted of its subchannel stays ahead.
LEMMA TaskStepFound ==
    ASSUME SyncInv, FoundInv, NEW sc \in Subchannel, Task(sc).pc # "idle",
           NEW task \in Tasks, NEW cursor \in SubchannelCursors,
           NEW reads \in Nat, NEW taken \in Int, taken <= req.remaining, NEW notes \in SUBSET Note,
           TaskStep(sc, task, cursor, reads, taken, notes),
           NEW found, found = delivered \cup sdk.notes \cup req.notes,
           \A n \in Wanted(sdk, chain) :
               (n[1] = sc /\ NoteAhead(NoteCursor(sc), found, n)) =>
                   /\ NoteAhead(cursor, found \cup notes, n)
                   /\ task.pc = "bisecting" => n[2] < task.bounds.upper,
           task.pc = "probing" => cursor.total_n_notes = None,
           task.pc \in {"scan", "reading"} => cursor.total_n_notes # None
    PROVE  FoundInv'
PROOF
<1>1. /\ req.active /\ Known(sc) /\ req \in Requests /\ sdk.phase = "paging"
  BY AtWork DEF SyncInv, TasksFit
<1>2. /\ req' \in Requests /\ req'.active = req.active /\ req'.notes = req.notes \cup notes
      /\ req'.note_task = [req.note_task EXCEPT ![sc] = task]
      /\ req'.cursor = [req.cursor EXCEPT !.channels[sc[1]].subchannels[sc[2]] = cursor]
      /\ UNCHANGED <<chain, sdk, kept, delivered, sessions>>
  BY <1>1, TaskStepParts
<1> DEFINE old == req.cursor
           new == req'.cursor
           wanted == Wanted(sdk, chain)
           all == delivered \cup sdk.notes \cup req'.notes
<1>3. /\ old \in Cursors /\ sc[1] \in DOMAIN old.channels
      /\ sc[2] \in DOMAIN old.channels[sc[1]].subchannels
      /\ old.channels[sc[1]].subchannels[sc[2]] = NoteCursor(sc)
      /\ new = [old EXCEPT !.channels[sc[1]].subchannels[sc[2]] = cursor]
      /\ req.note_task \in [Subchannel -> Tasks]
  BY <1>1, <1>2, RequestParts DEF Known, ChannelCursor, NoteCursor
<1>4. all = found \cup notes
  BY <1>2
<1>5. Leads(chain, old, found, wanted)
  BY <1>1 DEF FoundInv
<1> HIDE DEF old, new, all, wanted
<1>6. /\ new.total_n_channels = old.total_n_channels
      /\ new.last_channel_index = old.last_channel_index
      /\ new.channel_discovery_complete = old.channel_discovery_complete
      /\ DOMAIN new.channels = DOMAIN old.channels
      /\ \A s \in DOMAIN old.channels :
            /\ new.channels[s].subchannel_discovery_complete = old.channels[s].subchannel_discovery_complete
            /\ new.channels[s].last_subchannel_index = old.channels[s].last_subchannel_index
            /\ DOMAIN new.channels[s].subchannels = DOMAIN old.channels[s].subchannels
            /\ \A t \in DOMAIN old.channels[s].subchannels :
                  new.channels[s].subchannels[t] =
                      IF s = sc[1] /\ t = sc[2] THEN cursor ELSE old.channels[s].subchannels[t]
  BY <1>3, CursorUpdate
<1>7. ASSUME NEW n \in wanted
      PROVE  /\ n[1] \in Subchannel /\ n[1] = <<n[1][1], n[1][2]>> /\ sc = <<sc[1], sc[2]>>
             /\ n[1][1] = sc[1] /\ n[1][2] = sc[2] => n[1] = sc
  <2>1. n[1] \in Subchannel
    BY <1>1, WantedFacts DEF wanted
  <2> QED BY <2>1 DEF Subchannel
<1>8. ASSUME NEW n \in wanted PROVE Ahead(chain, new, all, n)
  <2>1. Ahead(chain, old, found, n)
    BY <1>5 DEF Leads
  <2>2. CASE n[1][1] \notin DOMAIN old.channels
    BY <1>6, <2>1, <2>2 DEF Ahead, ChannelAhead
  <2>3. CASE n[1][1] \in DOMAIN old.channels
    <3> DEFINE a == old.channels[n[1][1]]
               b == new.channels[n[1][1]]
    <3>1. InChannel(chain, a, found, n)
      BY <2>1, <2>3 DEF Ahead
    <3>2. /\ b.subchannel_discovery_complete = a.subchannel_discovery_complete
          /\ b.last_subchannel_index = a.last_subchannel_index
          /\ DOMAIN b.subchannels = DOMAIN a.subchannels
          /\ \A t \in DOMAIN a.subchannels :
                b.subchannels[t] = IF n[1][1] = sc[1] /\ t = sc[2] THEN cursor ELSE a.subchannels[t]
      BY <1>6, <2>3
    <3>3. n[1] = sc /\ n[1][2] \in DOMAIN a.subchannels => a.subchannels[n[1][2]] = NoteCursor(sc)
      BY <1>3
    <3> HIDE DEF a, b
    <3>4. InChannel(chain, b, all, n)
      <4>1. CASE n[1][2] \notin DOMAIN a.subchannels
        BY <3>1, <3>2, <4>1 DEF InChannel, SubchannelAhead
      <4>2. CASE n[1][2] \in DOMAIN a.subchannels
        <5>1. NoteAhead(a.subchannels[n[1][2]], found, n)
          BY <3>1, <4>2 DEF InChannel
        <5>2. CASE n[1][1] = sc[1] /\ n[1][2] = sc[2]
          <6>1. NoteAhead(cursor, all, n)
            BY <1>4, <1>7, <3>3, <4>2, <5>1, <5>2 DEF wanted
          <6> QED BY <3>2, <4>2, <5>2, <6>1 DEF InChannel
        <5>3. CASE ~(n[1][1] = sc[1] /\ n[1][2] = sc[2])
          <6>1. b.subchannels[n[1][2]] = a.subchannels[n[1][2]]
            BY <3>2, <4>2, <5>3
          <6>2. NoteAhead(a.subchannels[n[1][2]], all, n)
            BY <1>4, <5>1 DEF NoteAhead
          <6> QED BY <3>2, <4>2, <6>1, <6>2 DEF InChannel
        <5> QED BY <5>2, <5>3
      <4> QED BY <4>1, <4>2
    <3> QED BY <1>6, <2>3, <3>4 DEF Ahead, b
  <2> QED BY <2>2, <2>3
<1>9. Leads(chain, new, all, wanted)
  BY <1>5, <1>6, <1>8 DEF Leads
<1>10. TasksReach'
  <2>1. \A x \in Subchannel : Task(x)' = IF x = sc THEN task ELSE Task(x)
    BY <1>2, <1>3 DEF Task
  <2>2. ASSUME NEW x \in Subchannel, Task(x)'.pc # "idle"
        PROVE  NoteCursor(x)' = IF x = sc THEN cursor ELSE NoteCursor(x)
    <3>1. Known(x)
      <4>1. CASE x = sc
        BY <1>1, <4>1
      <4>2. CASE x # sc
        BY <2>1, <2>2, <4>2 DEF SyncInv, TasksFit
      <4> QED BY <4>1, <4>2
    <3>2. x = sc <=> x[1] = sc[1] /\ x[2] = sc[2]
      BY DEF Subchannel
    <3>3. x[1] \in DOMAIN old.channels /\ x[2] \in DOMAIN old.channels[x[1]].subchannels
      BY <3>1 DEF Known, ChannelCursor, old
    <3>4. new.channels[x[1]].subchannels[x[2]] =
              IF x[1] = sc[1] /\ x[2] = sc[2] THEN cursor ELSE old.channels[x[1]].subchannels[x[2]]
      BY <1>6, <3>3
    <3> QED BY <3>2, <3>4 DEF NoteCursor, old, new
  <2>3. ASSUME NEW n \in wanted, n[1] = sc, task.pc = "bisecting" PROVE n[2] < task.bounds.upper
    <3>1. Ahead(chain, old, found, n)
      BY <1>5 DEF Leads
    <3>2. NoteAhead(NoteCursor(sc), found, n)
      BY <1>3, <2>3, <3>1 DEF Ahead, InChannel
    <3> QED BY <2>3, <3>2 DEF wanted
  <2>4. ASSUME NEW x \in Subchannel
        PROVE  /\ Task(x)'.pc = "probing" => NoteCursor(x)'.total_n_notes = None
               /\ Task(x)'.pc = "bisecting" =>
                     \A n \in wanted : n[1] = x => n[2] < Task(x)'.bounds.upper
               /\ Task(x)'.pc \in {"scan", "reading"} => NoteCursor(x)'.total_n_notes # None
    <3>1. CASE x = sc
      BY <2>1, <2>2, <2>3, <3>1
    <3>2. CASE x # sc
      BY <2>1, <2>2, <3>2 DEF FoundInv, TasksReach, wanted
    <3> QED BY <3>1, <3>2
  <2> QED BY <1>2, <2>4 DEF TasksReach, wanted, Wanted
<1>11. CompleteDiscovery'
  BY <1>2 DEF FoundInv, CompleteDiscovery
<1> QED BY <1>1, <1>2, <1>9, <1>10, <1>11 DEF FoundInv, all, new, wanted

\* A search is reserved for, is given up for want of budget, or is not needed.
LEMMA NoSearchFound ==
    ASSUME SyncInv, FoundInv, NEW sc \in Subchannel,
           reserve_boundary(sc) \/ boundary_has_more(sc) \/ boundary_cached(sc)
    PROVE  FoundInv'
PROOF
<1> DEFINE cursor == NoteCursor(sc)
           found == delivered \cup sdk.notes \cup req.notes
<1>1. Task(sc).pc = "boundary"
  BY DEF reserve_boundary, boundary_has_more, boundary_cached
<1>2. /\ cursor \in SubchannelCursors /\ req.remaining \in Nat /\ Task(sc).pc # "idle"
  BY <1>1, AtWork
<1>3. boundary_budget \in Nat
  BY ConstantFacts
<1>4. PICK task \in {NoTask, [NoTask EXCEPT !.pc = "scan"], [NoTask EXCEPT !.pc = "probing"]},
           taken \in {0, boundary_budget} :
         /\ TaskStep(sc, task, cursor, 0, taken, {}) /\ req.remaining >= taken
         /\ task.pc = "probing" => cursor.total_n_notes = None
         /\ task.pc = "scan" => cursor.total_n_notes # None
  <2>1. CASE reserve_boundary(sc)
    <3> DEFINE task == [NoTask EXCEPT !.pc = "probing"]
    <3>1. task.pc = "probing"
      BY DEF NoTask
    <3>2. /\ TaskStep(sc, task, cursor, 0, boundary_budget, {}) /\ req.remaining >= boundary_budget
          /\ cursor.total_n_notes = None
      BY <2>1 DEF reserve_boundary, CanConsume
    <3> HIDE DEF cursor
    <3> QED BY <3>1, <3>2
  <2>2. CASE boundary_has_more(sc)
    <3>1. TaskStep(sc, NoTask, cursor, 0, 0, {})
      BY <2>2 DEF boundary_has_more
    <3> HIDE DEF cursor
    <3> QED BY <1>2, <3>1, NoTaskFacts
  <2>3. CASE boundary_cached(sc)
    <3> DEFINE task == [NoTask EXCEPT !.pc = "scan"]
    <3>1. task.pc = "scan"
      BY DEF NoTask
    <3>2. TaskStep(sc, task, cursor, 0, 0, {}) /\ cursor.total_n_notes # None
      BY <2>3 DEF boundary_cached
    <3> HIDE DEF cursor
    <3> QED BY <1>2, <3>1, <3>2
  <2> QED BY <2>1, <2>2, <2>3
<1>5. task \in Tasks /\ task.pc \in {"idle", "scan", "probing"}
  BY DEF NoTask, Tasks
<1>6. taken \in Int /\ taken <= req.remaining /\ 0 \in Nat
  BY <1>2, <1>3, <1>4
<1>7. found \cup {} = found
  OBVIOUS
<1>8. found = delivered \cup sdk.notes \cup req.notes
  OBVIOUS
<1> HIDE DEF cursor, found
<1>9. \A n \in Wanted(sdk, chain) :
          (n[1] = sc /\ NoteAhead(NoteCursor(sc), found, n)) =>
              /\ NoteAhead(cursor, found \cup {}, n)
              /\ task.pc = "bisecting" => n[2] < task.bounds.upper
  BY <1>5, <1>7 DEF cursor
<1>10. /\ task.pc = "probing" => cursor.total_n_notes = None
       /\ task.pc \in {"scan", "reading"} => cursor.total_n_notes # None
  BY <1>4, <1>5
<1> QED BY <1>2, <1>4, <1>5, <1>6, <1>8, <1>9, <1>10, TaskStepFound

\* The probe that misses is above all that is wanted.
LEMMA ProbeFound ==
    ASSUME SyncInv, FoundInv, NEW sc \in Subchannel, probe(sc)
    PROVE  FoundInv'
PROOF
<1> DEFINE start == start_index(NoteCursor(sc))
           cursor == NoteCursor(sc)
           found == delivered \cup sdk.notes \cup req.notes
<1>1. Task(sc).pc = "probing"
  BY DEF probe
<1>2. PICK k \in ProbeIndex \ {0} :
         /\ FirstMiss(chain.n_notes[sc], start, k)
         /\ TaskStep(sc,
                [NoTask EXCEPT !.pc = "bisecting", !.bounds = exponential_probe(start, k),
                               !.cache = {start + probe_offset(j) : j \in 0 .. (k - 1)}],
                NoteCursor(sc), PROBES, 0, {})
  BY DEF probe
<1> DEFINE bounds == exponential_probe(start, k)
           cache == {start + probe_offset(j) : j \in 0 .. (k - 1)}
           task == [NoTask EXCEPT !.pc = "bisecting", !.bounds = bounds, !.cache = cache]
<1>3. /\ cursor \in SubchannelCursors /\ req.remaining \in Nat /\ start \in Nat
      /\ Task(sc).pc # "idle" /\ sdk.phase = "paging"
  BY <1>1, AtWork DEF SyncInv, TasksFit
<1>4. PROBES \in Nat /\ max_note_log_index \in Nat
  BY ConstantFacts
<1> HIDE DEF start
<1>5. probe_offset(k) \in Nat /\ probe_offset(k - 1) \in Nat
  BY ProbeGap
<1>6. bounds \in [lower : Nat, upper : Nat] /\ bounds.upper = start + probe_offset(k)
  BY <1>3, <1>5 DEF exponential_probe
<1>7. cache \in SUBSET Nat
  <2>1. ASSUME NEW j \in 0 .. (k - 1) PROVE start + probe_offset(j) \in Nat
    <3>1. j \in ProbeIndex
      BY <1>4 DEF ProbeIndex
    <3>2. Pow2[j] \in Nat \ {0}
      BY <3>1, LastNoteIndexAssumption
    <3> QED BY <1>3, <3>2 DEF probe_offset
  <2> QED BY <2>1
<1> HIDE DEF bounds, cache
<1>8. task \in Tasks /\ task.pc = "bisecting" /\ task.bounds = bounds
  BY <1>6, <1>7 DEF NoTask, Tasks
<1>9. ~(bounds.upper < chain.n_notes[sc])
  BY <1>2, <1>6 DEF FirstMiss, Exists
<1>10. ASSUME NEW n \in Wanted(sdk, chain), n[1] = sc PROVE n[2] < bounds.upper
  <2>1. n[2] \in Nat /\ n[2] < chain.n_notes[sc] /\ chain.n_notes[sc] \in Nat
    BY <1>3, <1>10, WantedFacts
  <2>2. bounds.upper \in Nat
    BY <1>6
  <2> QED BY <1>9, <2>1, <2>2
<1>11. TaskStep(sc, task, cursor, PROBES, 0, {})
  BY <1>2 DEF bounds, cache, start
<1>12. 0 \in Int /\ 0 <= req.remaining /\ found \cup {} = found
  BY <1>3
<1>13. found = delivered \cup sdk.notes \cup req.notes
  OBVIOUS
<1>14. cursor = NoteCursor(sc)
  OBVIOUS
<1> HIDE DEF task, cursor, found
<1>15. \A n \in Wanted(sdk, chain) :
           (n[1] = sc /\ NoteAhead(NoteCursor(sc), found, n)) =>
               /\ NoteAhead(cursor, found \cup {}, n)
               /\ task.pc = "bisecting" => n[2] < task.bounds.upper
  BY <1>8, <1>10, <1>12, <1>14
<1>16. /\ task.pc = "probing" => cursor.total_n_notes = None
       /\ task.pc \in {"scan", "reading"} => cursor.total_n_notes # None
  BY <1>8
<1> QED BY <1>3, <1>4, <1>8, <1>11, <1>12, <1>13, <1>15, <1>16, TaskStepFound

\* Nothing is wanted of a subchannel that counts as empty.
LEMMA ProbeEmptyFound ==
    ASSUME SyncInv, FoundInv, NEW sc \in Subchannel, probe_empty(sc)
    PROVE  FoundInv'
PROOF
<1> DEFINE cursor == [NoteCursor(sc) EXCEPT !.total_n_notes = 0, !.note_discovery_complete = TRUE]
           taken == -max_note_log_index
           task == NoTask
           found == delivered \cup sdk.notes \cup req.notes
<1>1. /\ Task(sc).pc = "probing" /\ TaskStep(sc, task, cursor, PROBES, taken, {})
      /\ FirstMiss(chain.n_notes[sc], start_index(NoteCursor(sc)), 0)
  BY DEF probe_empty
<1>2. /\ NoteCursor(sc) \in SubchannelCursors /\ req.remaining \in Nat /\ Task(sc).pc # "idle"
      /\ sdk.phase = "paging" /\ start_index(NoteCursor(sc)) = NoteCursor(sc).last_note_index + 1
  BY <1>1, AtWork DEF SyncInv, TasksFit
<1>3. max_note_log_index \in Nat /\ PROBES \in Nat
  BY ConstantFacts
<1>4. cursor \in SubchannelCursors
  BY <1>2 DEF SubchannelCursors, Index
<1>5. task \in Tasks /\ task.pc = "idle"
  BY NoTaskFacts
<1>6. taken \in Int /\ taken <= req.remaining
  BY <1>2, <1>3
<1>7. NoteCursor(sc).total_n_notes = None
  BY <1>1 DEF FoundInv, TasksReach
<1>8. ASSUME NEW n \in Wanted(sdk, chain), n[1] = sc PROVE ~NoteAhead(NoteCursor(sc), found, n)
  <2> SUFFICES ASSUME NoteAhead(NoteCursor(sc), found, n) PROVE FALSE
    OBVIOUS
  <2>1. n[2] \in Nat /\ n[2] < chain.n_notes[sc] /\ chain.n_notes[sc] \in Nat
    BY <1>2, <1>8, WantedFacts
  <2>2. NoteCursor(sc).last_note_index = -1
    BY <1>7 DEF NoteAhead, None
  <2>3. start_index(NoteCursor(sc)) = 0
    BY <1>2, <2>2
  <2>4. probe_offset(0) = 0
    BY LastNoteIndexAssumption DEF probe_offset
  <2> QED BY <1>1, <2>1, <2>3, <2>4 DEF FirstMiss, Exists
<1>9. found = delivered \cup sdk.notes \cup req.notes
  OBVIOUS
<1> HIDE DEF cursor, taken, found, task
<1>10. \A n \in Wanted(sdk, chain) :
           (n[1] = sc /\ NoteAhead(NoteCursor(sc), found, n)) =>
               /\ NoteAhead(cursor, found \cup {}, n)
               /\ task.pc = "bisecting" => n[2] < task.bounds.upper
  BY <1>8
<1>11. /\ task.pc = "probing" => cursor.total_n_notes = None
       /\ task.pc \in {"scan", "reading"} => cursor.total_n_notes # None
  BY <1>5
<1>12. Task(sc).pc # "idle" /\ TaskStep(sc, task, cursor, PROBES, taken, {})
  BY <1>1, <1>2
<1> QED BY <1>3, <1>4, <1>5, <1>6, <1>9, <1>10, <1>11, <1>12, TaskStepFound, ZenonT(60)

\* A bisection step lowers its bound only to an index that has no note.
LEMMA BisectFound ==
    ASSUME SyncInv, FoundInv, NEW sc \in Subchannel, bisect(sc)
    PROVE  FoundInv'
PROOF
<1> DEFINE m == chain.n_notes[sc]
           old == Task(sc).bounds
           mid == midpoint(old)
           bounds == bisect_boundary(m, old)
           cache == IF Exists(m, mid) THEN Task(sc).cache \cup {mid} ELSE Task(sc).cache
           steps == Task(sc).steps + 1
           task == [Task(sc) EXCEPT !.bounds = bounds, !.steps = steps, !.cache = cache]
           cursor == NoteCursor(sc)
           found == delivered \cup sdk.notes \cup req.notes
<1>1. /\ Task(sc).pc = "bisecting" /\ Unresolved(old) /\ TaskStep(sc, task, cursor, 1, 0, {})
  BY DEF bisect
<1>2. /\ cursor \in SubchannelCursors /\ req.remaining \in Nat /\ Task(sc).pc # "idle"
      /\ Task(sc) \in Tasks /\ sdk.phase = "paging"
  BY <1>1, AtWork DEF SyncInv, TasksFit
<1>3. old \in [lower : Nat, upper : Nat] /\ steps \in Nat /\ Task(sc).cache \in SUBSET Nat
  BY <1>2 DEF Tasks
<1>4. m \in Nat
  BY IncomingSyncAssumption DEF SyncInv, SyncTyped, Chain
<1>5. \A n \in Wanted(sdk, chain) : n[1] = sc => n[2] < old.upper
  BY <1>1 DEF FoundInv, TasksReach
<1> HIDE DEF m, old
<1>6. mid \in Nat /\ bounds \in [lower : Nat, upper : Nat]
  BY <1>1, <1>3, <1>4, BisectHalves
<1>7. bounds.upper = old.upper \/ (bounds.upper = mid /\ ~(mid < m))
  <2>1. CASE Exists(m, mid)
    <3>1. bounds = [old EXCEPT !.lower = mid]
      BY <2>1 DEF bisect_boundary
    <3> QED BY <1>3, <3>1
  <2>2. CASE ~Exists(m, mid)
    <3>1. bounds = [old EXCEPT !.upper = mid]
      BY <2>2 DEF bisect_boundary
    <3>2. ~(mid < m)
      BY <2>2 DEF Exists
    <3> HIDE DEF bounds, mid
    <3> QED BY <1>3, <3>1, <3>2
  <2> QED BY <2>1, <2>2
<1>8. cache \in SUBSET Nat
  BY <1>3, <1>6
<1> HIDE DEF bounds, cache, mid, steps
<1>9. task \in Tasks /\ task.pc = "bisecting" /\ task.bounds = bounds
  <2> DEFINE t == Task(sc)
  <2>1. t \in Tasks /\ t.pc = "bisecting"
    BY <1>1, <1>2
  <2> HIDE DEF t
  <2>2. task = [t EXCEPT !.bounds = bounds, !.steps = steps, !.cache = cache]
    BY DEF t
  <2> HIDE DEF task
  <2> QED BY <1>3, <1>6, <1>8, <2>1, <2>2 DEF Tasks, steps
<1> HIDE DEF task
<1>10. ASSUME NEW n \in Wanted(sdk, chain), n[1] = sc PROVE n[2] < bounds.upper
  <2>1. n[2] \in Nat /\ n[2] < m /\ n[2] < old.upper
    BY <1>2, <1>5, <1>10, WantedFacts DEF m
  <2> QED BY <1>4, <1>6, <1>7, <2>1
<1>11. 0 \in Int /\ 0 <= req.remaining /\ 1 \in Nat /\ found \cup {} = found
  BY <1>2
<1>12. found = delivered \cup sdk.notes \cup req.notes
  OBVIOUS
<1>13. cursor = NoteCursor(sc)
  OBVIOUS
<1> HIDE DEF cursor, found
<1>14. \A n \in Wanted(sdk, chain) :
           (n[1] = sc /\ NoteAhead(NoteCursor(sc), found, n)) =>
               /\ NoteAhead(cursor, found \cup {}, n)
               /\ task.pc = "bisecting" => n[2] < task.bounds.upper
  BY <1>9, <1>10, <1>11, <1>13
<1>15. /\ task.pc = "probing" => cursor.total_n_notes = None
       /\ task.pc \in {"scan", "reading"} => cursor.total_n_notes # None
  BY <1>9
<1> QED BY <1>1, <1>2, <1>9, <1>11, <1>12, <1>14, <1>15, TaskStepFound

\* The result of a search counts all that is wanted.
LEMMA FinishBoundaryFound ==
    ASSUME SyncInv, FoundInv, NEW sc \in Subchannel, finish_boundary(sc)
    PROVE  FoundInv'
PROOF
<1> DEFINE task == [NoTask EXCEPT !.pc = "scan", !.cache = Task(sc).cache]
           lower == Task(sc).bounds.lower
           upper == Task(sc).bounds.upper
           total == lower + 1
           cursor == [NoteCursor(sc) EXCEPT !.total_n_notes = total]
           taken == -reclaimed_steps(Task(sc).steps)
           found == delivered \cup sdk.notes \cup req.notes
<1>1. /\ Task(sc).pc = "bisecting" /\ TaskStep(sc, task, cursor, 0, taken, {})
      /\ ~(total < upper)
  BY DEF finish_boundary, Unresolved
<1>2. /\ NoteCursor(sc) \in SubchannelCursors /\ req.remaining \in Nat /\ Task(sc).pc # "idle"
      /\ Task(sc) \in Tasks /\ sdk.phase = "paging"
  BY <1>1, AtWork DEF SyncInv, TasksFit
<1>3. max_note_log_index \in Nat
  BY ConstantFacts
<1>4. lower \in Nat /\ upper \in Nat /\ Task(sc).steps \in Nat /\ Task(sc).cache \in SUBSET Nat
  BY <1>2 DEF Tasks
<1>5. Task(sc).steps <= max_note_log_index
  <2>1. PICK r \in ProbeIndex : Task(sc).steps + r <= max_note_log_index
    BY <1>1 DEF SyncInv, TasksFit, StepsSuffice
  <2> QED BY <1>3, <1>4, <2>1 DEF ProbeIndex
<1>6. task \in Tasks /\ task.pc = "scan"
  BY <1>4 DEF NoTask, Tasks
<1>7. taken = Task(sc).steps - max_note_log_index
  BY <1>3, <1>4 DEF reclaimed_steps
<1>8. total \in Nat
  BY <1>4
<1>9. ASSUME NEW n \in Wanted(sdk, chain), n[1] = sc PROVE n[2] < total
  <2>1. n[2] \in Nat
    BY <1>2, WantedFacts
  <2>2. n[2] < upper
    BY <1>1, <1>9 DEF FoundInv, TasksReach
  <2> HIDE DEF total
  <2> QED BY <1>1, <1>4, <1>8, <2>1, <2>2
<1> HIDE DEF total, lower, upper
<1>10. /\ cursor \in SubchannelCursors /\ cursor.total_n_notes = total
       /\ cursor.last_note_index = NoteCursor(sc).last_note_index
       /\ cursor.note_discovery_complete = NoteCursor(sc).note_discovery_complete
  BY <1>2, <1>8 DEF SubchannelCursors, Index
<1>11. cursor.total_n_notes # None
  BY <1>8, <1>10 DEF None
<1> HIDE DEF task, cursor, taken
<1>12. 0 \in Nat /\ taken \in Int /\ taken <= req.remaining
  BY <1>2, <1>3, <1>4, <1>5, <1>7
<1>13. found = delivered \cup sdk.notes \cup req.notes /\ found \cup {} = found
  OBVIOUS
<1> HIDE DEF found
<1>14. \A n \in Wanted(sdk, chain) :
           (n[1] = sc /\ NoteAhead(NoteCursor(sc), found, n)) =>
               /\ NoteAhead(cursor, found \cup {}, n)
               /\ task.pc = "bisecting" => n[2] < task.bounds.upper
  <2>1. ASSUME NEW n \in Wanted(sdk, chain), n[1] = sc, NoteAhead(NoteCursor(sc), found, n)
        PROVE  NoteAhead(cursor, found, n)
    BY <1>9, <1>10, <1>11, <2>1 DEF NoteAhead
  <2> QED BY <1>6, <1>13, <2>1
<1>15. /\ task.pc = "probing" => cursor.total_n_notes = None
       /\ task.pc \in {"scan", "reading"} => cursor.total_n_notes # None
  BY <1>6, <1>11
<1>16. Task(sc).pc # "idle" /\ TaskStep(sc, task, cursor, 0, taken, {})
  BY <1>1, <1>2
<1> QED BY <1>6, <1>10, <1>12, <1>13, <1>14, <1>15, <1>16, TaskStepFound, ZenonT(60)

\* The notes left are those from the start of the scan to the total.
LEMMA NotesLeftFacts ==
    ASSUME SyncInv, NEW sc \in Subchannel, Task(sc).pc # "idle"
    PROVE  LET start == start_index(NoteCursor(sc))
               total == NoteCursor(sc).total_n_notes
           IN  /\ start \in Nat /\ total \in Nat \cup {-1} /\ NotesLeft(sc) \in Nat
               /\ start + NotesLeft(sc) >= total
PROOF
<1> DEFINE start == start_index(NoteCursor(sc))
           total == NoteCursor(sc).total_n_notes
           left == total - start
<1>1. NoteCursor(sc) \in SubchannelCursors /\ start \in Nat
  BY AtWork
<1>2. total \in Nat \cup {-1}
  BY <1>1 DEF SubchannelCursors, Index, None
<1>3. NotesLeft(sc) = Max({left, 0})
  BY DEF NotesLeft
<1> HIDE DEF start, total
<1>4. left \in Int
  BY <1>1, <1>2
<1> HIDE DEF left
<1>5. NotesLeft(sc) = IF left >= 0 THEN left ELSE 0
  BY <1>3, <1>4, MaxMinOfTwo
<1>6. NotesLeft(sc) \in Nat /\ start + NotesLeft(sc) >= total
  BY <1>1, <1>2, <1>5 DEF left
<1> QED BY <1>1, <1>2, <1>6 DEF start, total

\* A scan with nothing left to reserve for ends, complete only if nothing is left at all.
LEMMA ReserveScanFound ==
    ASSUME SyncInv, FoundInv, NEW sc \in Subchannel, reserve_scan(sc)
    PROVE  FoundInv'
PROOF
<1> DEFINE batch == consume_up_to(req.remaining, NotesLeft(sc), COST_NOTE)
           done == ScanComplete(sc, batch)
           reading == [Task(sc) EXCEPT !.pc = "reading", !.batch = batch]
           taken == batch * COST_NOTE
           ended == [NoteCursor(sc) EXCEPT !.note_discovery_complete = done]
           found == delivered \cup sdk.notes \cup req.notes
<1>1. /\ Task(sc).pc = "scan"
      /\ \/ TaskStep(sc, reading, NoteCursor(sc), 0, taken, {})
         \/ ~(batch > 0) /\ TaskStep(sc, NoTask, ended, 0, 0, {})
  BY DEF reserve_scan
<1>2. /\ NoteCursor(sc) \in SubchannelCursors /\ req.remaining \in Nat /\ Task(sc).pc # "idle"
      /\ Task(sc) \in Tasks /\ sdk.phase = "paging"
      /\ start_index(NoteCursor(sc)) = NoteCursor(sc).last_note_index + 1
  BY <1>1, AtWork DEF SyncInv, TasksFit
<1>3. /\ NotesLeft(sc) \in Nat /\ start_index(NoteCursor(sc)) \in Nat
      /\ NoteCursor(sc).total_n_notes \in Nat \cup {-1}
      /\ start_index(NoteCursor(sc)) + NotesLeft(sc) >= NoteCursor(sc).total_n_notes
  BY <1>2, NotesLeftFacts
<1>4. batch \in Nat /\ taken <= req.remaining
  <2>1. req.remaining \in Nat /\ NotesLeft(sc) \in Nat /\ COST_NOTE \in Nat \ {0}
    BY <1>2, <1>3 DEF COST_NOTE
  <2>2. batch \in 0 .. NotesLeft(sc) /\ batch * COST_NOTE <= req.remaining
    BY <2>1, ConsumeUpTo
  <2> HIDE DEF batch
  <2> QED BY <2>1, <2>2
<1>5. done \in BOOLEAN /\ (done => batch = NotesLeft(sc))
  BY DEF ScanComplete
<1>6. NoteCursor(sc).total_n_notes # None
  BY <1>1 DEF FoundInv, TasksReach
<1>7. found = delivered \cup sdk.notes \cup req.notes /\ found \cup {} = found
  OBVIOUS
<1> HIDE DEF batch, done, found
<1>8. CASE TaskStep(sc, reading, NoteCursor(sc), 0, taken, {})
  <2> DEFINE cursor == NoteCursor(sc)
  <2>1. reading \in Tasks /\ reading.pc = "reading"
    BY <1>2, <1>4 DEF Tasks
  <2>2. 0 \in Nat /\ taken \in Int
    BY <1>4 DEF COST_NOTE
  <2> HIDE DEF reading, taken
  <2>3. /\ cursor \in SubchannelCursors /\ TaskStep(sc, reading, cursor, 0, taken, {})
        /\ reading.pc \in {"scan", "reading"} => cursor.total_n_notes # None
        /\ reading.pc = "probing" => cursor.total_n_notes = None
    BY <1>2, <1>6, <1>8, <2>1
  <2>4. \A n \in Wanted(sdk, chain) :
            (n[1] = sc /\ NoteAhead(NoteCursor(sc), found, n)) =>
                /\ NoteAhead(cursor, found \cup {}, n)
                /\ reading.pc = "bisecting" => n[2] < reading.bounds.upper
    BY <1>7, <2>1
  <2>5. Task(sc).pc # "idle" /\ reading \in Tasks /\ cursor \in SubchannelCursors
    BY <1>2, <2>1
  <2>6. taken <= req.remaining
    BY <1>4 DEF taken
  <2> HIDE DEF cursor
  <2>7. /\ reading.pc = "probing" => cursor.total_n_notes = None
        /\ reading.pc \in {"scan", "reading"} => cursor.total_n_notes # None
    BY <2>3
  <2>8. {} \in SUBSET Note /\ TaskStep(sc, reading, cursor, 0, taken, {})
    BY <2>3
  <2> QED BY <1>7, <2>2, <2>4, <2>5, <2>6, <2>7, <2>8, TaskStepFound
<1>9. CASE ~(batch > 0) /\ TaskStep(sc, NoTask, ended, 0, 0, {})
  <2> DEFINE task == NoTask
  <2>1. /\ ended \in SubchannelCursors /\ ended.last_note_index = NoteCursor(sc).last_note_index
        /\ ended.total_n_notes = NoteCursor(sc).total_n_notes /\ ended.note_discovery_complete = done
    BY <1>2, <1>5 DEF SubchannelCursors
  <2>2. 0 \in Nat /\ 0 \in Int /\ 0 <= req.remaining
    BY <1>2
  <2>3. task \in Tasks /\ task.pc = "idle"
    BY NoTaskFacts
  <2>4. ASSUME NEW n \in Wanted(sdk, chain), n[1] = sc, NoteAhead(NoteCursor(sc), found, n)
        PROVE  NoteAhead(ended, found, n)
    <3>1. n[2] \in Nat /\ n[2] < NoteCursor(sc).total_n_notes
      BY <1>2, <1>6, <2>4, WantedFacts DEF NoteAhead
    <3>2. ASSUME done PROVE n[2] <= NoteCursor(sc).last_note_index
      <4> DEFINE last == NoteCursor(sc).last_note_index
                 start == start_index(NoteCursor(sc))
                 total == NoteCursor(sc).total_n_notes
      <4>1. NotesLeft(sc) = 0
        BY <1>4, <1>5, <1>9, <3>2
      <4>2. start = last + 1 /\ start \in Nat /\ last \in Int
        BY <1>2, <1>3 DEF SubchannelCursors, Index, None
      <4>3. start + 0 >= total /\ total \in Int /\ n[2] < total
        BY <1>3, <3>1, <4>1
      <4> HIDE DEF last, start, total
      <4>4. n[2] <= last
        BY <3>1, <4>2, <4>3
      <4> QED BY <4>4 DEF last
    <3> HIDE DEF ended
    <3> QED BY <2>1, <2>4, <3>2 DEF NoteAhead
  <2> HIDE DEF ended, task
  <2>5. \A n \in Wanted(sdk, chain) :
            (n[1] = sc /\ NoteAhead(NoteCursor(sc), found, n)) =>
                /\ NoteAhead(ended, found \cup {}, n)
                /\ task.pc = "bisecting" => n[2] < task.bounds.upper
    BY <1>7, <2>3, <2>4
  <2>6. /\ task.pc = "probing" => ended.total_n_notes = None
        /\ task.pc \in {"scan", "reading"} => ended.total_n_notes # None
    BY <2>3
  <2>7. TaskStep(sc, task, ended, 0, 0, {})
    BY <1>9 DEF task
  <2>8. Task(sc).pc # "idle" /\ task \in Tasks /\ ended \in SubchannelCursors /\ {} \in SUBSET Note
    BY <1>2, <2>1, <2>3
  <2> QED BY <1>7, <2>2, <2>5, <2>6, <2>7, <2>8, TaskStepFound
<1> QED BY <1>1, <1>8, <1>9

\* A batch returns all that is wanted up to its last index.
LEMMA ProcessNoteBatchFound ==
    ASSUME SyncInv, FoundInv, NEW sc \in Subchannel, process_note_batch(sc)
    PROVE  FoundInv'
PROOF
<1> DEFINE indices == BatchIndices(sc)
           spent == {i \in indices : <<sc, i>> \in chain.spent}
           skipped == spent \cup (indices \cap Task(sc).cache)
           batch == Task(sc).batch
           done == ScanComplete(sc, batch)
           last == last_index(sc)
           cursor == [NoteCursor(sc) EXCEPT !.last_note_index = last,
                                            !.note_discovery_complete = done]
           reads == 2 * batch - Cardinality(skipped)
           taken == -Cardinality(skipped) * COST_NOTE_PROBING
           notes == {<<sc, i>> : i \in indices \ spent}
           start == start_index(NoteCursor(sc))
           total == NoteCursor(sc).total_n_notes
           task == NoTask
           found == delivered \cup sdk.notes \cup req.notes
<1>1. Task(sc).pc = "reading" /\ TaskStep(sc, task, cursor, reads, taken, notes)
  BY DEF process_note_batch
<1>2. /\ NoteCursor(sc) \in SubchannelCursors /\ req.remaining \in Nat /\ Task(sc).pc # "idle"
      /\ Task(sc) \in Tasks /\ start \in Nat /\ start = NoteCursor(sc).last_note_index + 1
      /\ sdk.phase = "paging"
  BY <1>1, AtWork DEF SyncInv, TasksFit
<1>3. /\ batch \in Nat /\ NoteCursor(sc).last_note_index \in Nat \cup {-1}
      /\ done \in BOOLEAN /\ (done => batch = NotesLeft(sc))
  BY <1>2 DEF Tasks, SubchannelCursors, Index, None, ScanComplete
<1>4. last = start + batch - 1 /\ indices = start .. last
  BY DEF last_index, BatchIndices
<1>5. NotesLeft(sc) \in Nat /\ total \in Nat \cup {-1} /\ start + NotesLeft(sc) >= total
  BY <1>2, NotesLeftFacts
<1>6. total # None
  BY <1>1 DEF FoundInv, TasksReach
<1> HIDE DEF start, batch, done
<1>7. last \in Nat \cup {-1}
  BY <1>2, <1>3, <1>4
<1>8. /\ Cardinality(skipped) \in Nat /\ Cardinality(skipped) <= batch
  <2> HIDE DEF last
  <2>1. start \in Int /\ last \in Int
    BY <1>2, <1>7
  <2>2. IsFiniteSet(start .. last)
        /\ Cardinality(start .. last) = IF start > last THEN 0 ELSE last - start + 1
    BY <2>1, FS_Interval
  <2>3. Cardinality(start .. last) = batch
    <3> DEFINE card == Cardinality(start .. last)
    <3>1. last = start + batch - 1 /\ start \in Nat /\ batch \in Nat
      BY <1>2, <1>3, <1>4
    <3>2. card = IF start > last THEN 0 ELSE last - start + 1
      BY <2>2
    <3> HIDE DEF card
    <3>3. card = batch
      BY <3>1, <3>2
    <3> QED BY <3>3 DEF card
  <2>4. IsFiniteSet(indices) /\ Cardinality(indices) = batch /\ skipped \subseteq indices
    BY <1>4, <2>2, <2>3
  <2> HIDE DEF indices, skipped
  <2> QED BY <2>4, FS_Subset, FS_CardinalityType
<1> HIDE DEF last, total
<1>9. /\ cursor \in SubchannelCursors /\ cursor.last_note_index = last
      /\ cursor.total_n_notes = total /\ cursor.note_discovery_complete = done
  BY <1>2, <1>3, <1>7 DEF SubchannelCursors, Index, None, total
<1>10. task \in Tasks /\ task.pc = "idle"
  BY NoTaskFacts
<1>11. reads \in Nat /\ taken \in Int /\ taken <= req.remaining
  <2> HIDE DEF skipped
  <2> QED BY <1>2, <1>3, <1>8 DEF COST_NOTE_PROBING
<1>12. notes \in SUBSET Note
  <2>1. \A i \in indices : i \in Nat
    BY <1>2, <1>4, <1>7
  <2> HIDE DEF indices
  <2>2. \A i \in indices : <<sc, i>> \in Note
    BY <2>1 DEF Note
  <2> QED BY <2>2
<1>13. found = delivered \cup sdk.notes \cup req.notes
  OBVIOUS
<1>14. ASSUME NEW n \in Wanted(sdk, chain), n[1] = sc, NoteAhead(NoteCursor(sc), found, n)
       PROVE  NoteAhead(cursor, found \cup notes, n)
  <2>1. n[2] \in Nat /\ n = <<sc, n[2]>> /\ n \notin chain.spent
    BY <1>2, <1>14, WantedFacts
  <2>2. n[2] < total
    BY <1>6, <1>14 DEF NoteAhead, total
  <2>3. n[2] <= last => n \in found \cup notes
    <3>1. CASE n[2] <= NoteCursor(sc).last_note_index
      BY <1>14, <3>1 DEF NoteAhead
    <3>2. CASE ~(n[2] <= NoteCursor(sc).last_note_index)
      <4> SUFFICES ASSUME n[2] <= last PROVE n \in notes
        OBVIOUS
      <4>1. n[2] \in start .. last
        BY <1>2, <1>3, <1>7, <2>1, <3>2
      <4>2. n[2] \in indices \ spent
        BY <1>4, <2>1, <4>1
      <4> QED BY <2>1, <4>2
    <3> QED BY <3>1, <3>2
  <2>4. done => n[2] <= last
    BY <1>2, <1>3, <1>4, <1>5, <2>1, <2>2
  <2> HIDE DEF cursor, found, notes
  <2> QED BY <1>6, <1>9, <2>2, <2>3, <2>4 DEF NoteAhead
<1> HIDE DEF cursor, reads, taken, notes, task, found
<1>15. \A n \in Wanted(sdk, chain) :
           (n[1] = sc /\ NoteAhead(NoteCursor(sc), found, n)) =>
               /\ NoteAhead(cursor, found \cup notes, n)
               /\ task.pc = "bisecting" => n[2] < task.bounds.upper
  BY <1>10, <1>14
<1>16. /\ task.pc = "probing" => cursor.total_n_notes = None
       /\ task.pc \in {"scan", "reading"} => cursor.total_n_notes # None
  BY <1>10
<1>17. Task(sc).pc # "idle" /\ TaskStep(sc, task, cursor, reads, taken, notes)
  BY <1>1, <1>2
<1>18. cursor \in SubchannelCursors
  BY <1>9
<1> QED BY <1>10, <1>11, <1>12, <1>13, <1>15, <1>16, <1>17, <1>18, TaskStepFound

\* Every step of a note task.
LEMMA NoteStepFound ==
    ASSUME SyncInv, FoundInv, NEW sc \in Subchannel, NoteStep(sc)
    PROVE  FoundInv'
PROOF
BY NoSearchFound, ProbeFound, ProbeEmptyFound, BisectFound, FinishBoundaryFound, ReserveScanFound,
   ProcessNoteBatchFound DEF NoteStep

-----------------------------------------------------------------------------
(***************************************************************************)
(* Channel tasks.                                                          *)
(***************************************************************************)

\* A read of a channel lists the next subchannel, or there is none left to be listed.
LEMMA ListingAhead ==
    ASSUME NEW c, NEW s, NEW tokens \in Seq(Token), tokens = c.subchannels[s],
           NEW ch \in ChannelCursors, NEW newCh, NEW found,
           \/ /\ ch.last_subchannel_index + 1 < Len(tokens)
              /\ newCh = ListNext(ch, tokens[ch.last_subchannel_index + 2])
           \/ /\ ~(ch.last_subchannel_index + 1 < Len(tokens))
              /\ newCh = [ch EXCEPT !.subchannel_discovery_complete = TRUE],
           NEW n, n[1][1] = s, n[2] \in Nat, InChannel(c, ch, found, n)
    PROVE  InChannel(c, newCh, found, n)
PROOF
<1> DEFINE last == ch.last_subchannel_index
           token == tokens[last + 2]
<1>1. last \in Nat \cup {-1}
  BY DEF ChannelCursors, Index, None
<1>2. CASE last + 1 < Len(tokens) /\ newCh = ListNext(ch, token)
  <2>1. token \in Token
    <3>1. last + 2 \in DOMAIN tokens
      <4>1. last + 1 < Len(tokens)
        BY <1>2
      <4> HIDE DEF last
      <4> QED BY <1>1, <4>1
    <3> HIDE DEF last
    <3> QED BY <3>1
  <2>2. newCh = ListNext(ch, token)
    BY <1>2
  <2> HIDE DEF token
  <2>3. /\ newCh.last_subchannel_index = last + 1
        /\ newCh.subchannel_discovery_complete = ch.subchannel_discovery_complete
        /\ DOMAIN newCh.subchannels = DOMAIN ch.subchannels \cup {token}
        /\ \A t \in DOMAIN ch.subchannels : newCh.subchannels[t] = ch.subchannels[t]
        /\ token \notin DOMAIN ch.subchannels => newCh.subchannels[token] = NewSubchannelCursor
    BY <2>1, <2>2, ListNextFacts
  <2> HIDE DEF last
  <2>4. CASE n[1][2] \in DOMAIN ch.subchannels
    BY <2>3, <2>4 DEF InChannel
  <2>5. CASE n[1][2] \notin DOMAIN ch.subchannels /\ n[1][2] = token
    <3>1. newCh.subchannels[n[1][2]] = NewSubchannelCursor
      BY <2>3, <2>5
    <3>2. NoteAhead(NewSubchannelCursor, found, n)
      BY DEF NoteAhead, NewSubchannelCursor, None
    <3> QED BY <2>3, <2>5, <3>1, <3>2 DEF InChannel
  <2>6. CASE n[1][2] \notin DOMAIN ch.subchannels /\ n[1][2] # token
    <3>1. ~ch.subchannel_discovery_complete /\ SubchannelAhead(c, ch, n[1])
      BY <2>6 DEF InChannel
    <3>2. PICK k \in DOMAIN tokens : tokens[k] = n[1][2] /\ k > last + 1
      BY <3>1 DEF SubchannelAhead, last
    <3>3. k # last + 2
      BY <2>6, <3>2 DEF token
    <3>4. k > newCh.last_subchannel_index + 1
      BY <1>1, <2>3, <3>2, <3>3
    <3>5. SubchannelAhead(c, newCh, n[1])
      BY <3>2, <3>4 DEF SubchannelAhead
    <3> QED BY <2>3, <2>6, <3>1, <3>5 DEF InChannel
  <2> QED BY <2>4, <2>5, <2>6
<1>3. CASE ~(last + 1 < Len(tokens)) /\ newCh = [ch EXCEPT !.subchannel_discovery_complete = TRUE]
  <2>1. newCh.subchannels = ch.subchannels
    BY <1>3 DEF ChannelCursors
  <2>2. n[1][2] \in DOMAIN ch.subchannels
    <3> SUFFICES ASSUME n[1][2] \notin DOMAIN ch.subchannels PROVE FALSE
      OBVIOUS
    <3>1. PICK k \in DOMAIN tokens : k > last + 1
      BY DEF InChannel, SubchannelAhead
    <3>2. ~(last + 1 < Len(tokens))
      BY <1>3
    <3> HIDE DEF last
    <3> QED BY <1>1, <3>1, <3>2
  <2> QED BY <2>1, <2>2 DEF InChannel
<1> QED BY <1>2, <1>3

\* The next read of a channel.
LEMMA DiscoverSubchannelFound ==
    ASSUME SyncInv, FoundInv, NEW s \in Sender, discover_subchannel(s)
    PROVE  FoundInv'
PROOF
<1> DEFINE old == req.cursor
           ch == ChannelCursor(s)
           tokens == chain.subchannels[s]
           last == ch.last_subchannel_index
           newCh == IF last + 1 < Len(tokens) THEN ListNext(ch, tokens[last + 2])
                    ELSE [ch EXCEPT !.subchannel_discovery_complete = TRUE]
           new == [old EXCEPT !.channels[s] = newCh]
           wanted == Wanted(sdk, chain)
           found == delivered \cup sdk.notes \cup req.notes
<1>1. /\ req.channel_task[s] = "subchannels" /\ UNCHANGED <<chain, sdk, kept, delivered, sessions>>
      /\ req' = [req EXCEPT !.remaining = req.remaining - COST_SUBCHANNEL_INFO,
                            !.reads = req.reads + COST_SUBCHANNEL_INFO,
                            !.cursor.channels[s] =
                                IF last + 1 < Len(tokens) THEN ListNext(ch, tokens[(last + 1) + 1])
                                ELSE [ch EXCEPT !.subchannel_discovery_complete = TRUE]]
  BY DEF discover_subchannel, ListNext
<1>2. /\ req.active /\ req \in Requests /\ sdk.phase = "paging"
      /\ old \in Cursors /\ s \in DOMAIN old.channels
      /\ ch \in ChannelCursors /\ ch = old.channels[s]
      /\ \A sc \in Subchannel : sc[1] = s => Task(sc) = NoTask
  BY <1>1, ChannelAtWork DEF ChannelCursor
<1>3. tokens \in Seq(Token)
  BY IncomingSyncAssumption DEF SyncInv, SyncTyped, Chain
<1>4. last \in Nat \cup {-1}
  BY <1>2 DEF ChannelCursors, Index, None
<1>5. (last + 1) + 1 = last + 2
  <2> HIDE DEF last
  <2> QED BY <1>4
<1>6. req' = [req EXCEPT !.remaining = req.remaining - COST_SUBCHANNEL_INFO,
                         !.reads = req.reads + COST_SUBCHANNEL_INFO, !.cursor.channels[s] = newCh]
  BY <1>1, <1>5
<1>7. \/ last + 1 < Len(tokens) /\ newCh = ListNext(ch, tokens[last + 2])
      \/ ~(last + 1 < Len(tokens)) /\ newCh = [ch EXCEPT !.subchannel_discovery_complete = TRUE]
  OBVIOUS
<1>8. newCh \in ChannelCursors
  <2>1. CASE last + 1 < Len(tokens)
    <3> DEFINE token == tokens[last + 2]
    <3>1. token \in Token
      <4>1. last + 2 \in DOMAIN tokens
        <5> HIDE DEF last, tokens
        <5> QED BY <1>3, <1>4, <2>1
      <4> HIDE DEF last, tokens
      <4> QED BY <1>3, <4>1
    <3>2. newCh = ListNext(ch, token)
      BY <2>1
    <3> HIDE DEF token, newCh, ch
    <3> QED BY <1>2, <3>1, <3>2, ListNextFacts
  <2>2. CASE ~(last + 1 < Len(tokens))
    <3>1. newCh = [ch EXCEPT !.subchannel_discovery_complete = TRUE]
      BY <2>2
    <3> HIDE DEF newCh, ch
    <3> QED BY <1>2, <3>1 DEF ChannelCursors
  <2> QED BY <2>1, <2>2
<1>9. /\ new.total_n_channels = old.total_n_channels
      /\ new.last_channel_index = old.last_channel_index
      /\ new.channel_discovery_complete = old.channel_discovery_complete
      /\ DOMAIN new.channels = DOMAIN old.channels /\ new.channels[s] = newCh
      /\ \A x \in DOMAIN old.channels : x # s => new.channels[x] = old.channels[x]
  <2>1. new = [old EXCEPT !.channels[s] = newCh]
    OBVIOUS
  <2> HIDE DEF newCh, new, old
  <2> QED BY <1>2, <1>8, <2>1, ChannelUpdate
<1>10. /\ req'.active = req.active /\ req'.notes = req.notes /\ req'.note_task = req.note_task
       /\ req'.cursor = new
  <2> DEFINE remaining == req.remaining - COST_SUBCHANNEL_INFO
             reads == req.reads + COST_SUBCHANNEL_INFO
  <2>1. req' = [req EXCEPT !.remaining = remaining, !.reads = reads, !.cursor = new]
    <3> HIDE DEF newCh
    <3> QED BY <1>2, <1>6 DEF Requests
  <2> HIDE DEF remaining, reads, new
  <2> QED BY <1>2, <2>1 DEF Requests
<1>11. Leads(chain, old, found, wanted)
  BY <1>2 DEF FoundInv
<1>12. ASSUME NEW n \in wanted, n[1][1] = s, InChannel(chain, ch, found, n)
       PROVE  InChannel(chain, newCh, found, n)
  <2>1. n[2] \in Nat
    BY <1>2, WantedFacts
  <2>2. tokens = chain.subchannels[s]
    OBVIOUS
  <2> HIDE DEF tokens, ch, newCh, found
  <2> QED BY <1>2, <1>3, <1>7, <1>12, <2>1, <2>2, ListingAhead DEF last
<1> HIDE DEF old, new, newCh, ch, tokens, last, wanted, found
<1>13. ASSUME NEW n \in wanted PROVE Ahead(chain, new, found, n)
  <2>1. Ahead(chain, old, found, n)
    BY <1>11 DEF Leads
  <2>2. CASE n[1][1] \notin DOMAIN old.channels
    BY <1>9, <2>1, <2>2 DEF Ahead, ChannelAhead
  <2>3. CASE n[1][1] \in DOMAIN old.channels /\ n[1][1] # s
    BY <1>9, <2>1, <2>3 DEF Ahead
  <2>4. CASE n[1][1] \in DOMAIN old.channels /\ n[1][1] = s
    <3>1. InChannel(chain, newCh, found, n)
      BY <1>2, <1>12, <2>1, <2>4 DEF Ahead
    <3> QED BY <1>9, <2>4, <3>1 DEF Ahead
  <2> QED BY <2>2, <2>3, <2>4
<1>14. Leads(chain, new, found, wanted)
  BY <1>9, <1>11, <1>13 DEF Leads
<1>15. TasksReach'
  <2>1. \A sc \in Subchannel : Task(sc)' = Task(sc)
    BY <1>10 DEF Task
  <2>2. ASSUME NEW sc \in Subchannel, Task(sc).pc # "idle" PROVE NoteCursor(sc)' = NoteCursor(sc)
    <3>1. sc[1] # s
      BY <1>2, <2>2, NoTaskFacts
    <3>2. sc[1] \in DOMAIN old.channels
      BY <2>2 DEF SyncInv, TasksFit, Known, old
    <3> QED BY <1>9, <1>10, <3>1, <3>2 DEF NoteCursor, old
  <2> QED BY <1>1, <2>1, <2>2 DEF FoundInv, TasksReach
<1>16. CompleteDiscovery'
  BY <1>1 DEF FoundInv, CompleteDiscovery
<1> QED BY <1>1, <1>2, <1>10, <1>14, <1>15, <1>16 DEF FoundInv, found, wanted

\* Tasks are started for the subchannels that are listed.
LEMMA StartNotesFound ==
    ASSUME SyncInv, FoundInv, NEW s \in Sender, start_notes(s)
    PROVE  FoundInv'
PROOF
<1> DEFINE begun == [NoTask EXCEPT !.pc = "boundary"]
           Starts(sc) == /\ sc[1] = s /\ sc[2] \in DOMAIN ChannelCursor(s).subchannels
                         /\ ~ChannelCursor(s).subchannels[sc[2]].note_discovery_complete
           tasks == [sc \in Subchannel |-> IF Starts(sc) THEN begun ELSE req.note_task[sc]]
           work == [req.channel_task EXCEPT ![s] = "idle"]
<1>1. /\ req.channel_task[s] = "subchannels"
      /\ req' = [req EXCEPT !.channel_task = work, !.note_task = tasks]
      /\ UNCHANGED <<chain, sdk, kept, delivered, sessions>>
  BY DEF start_notes
<1>2. req.active /\ req \in Requests
  BY <1>1, ChannelAtWork
<1>3. begun.pc = "boundary"
  BY DEF NoTask
<1> HIDE DEF begun, Starts
<1>4. \A sc \in Subchannel : tasks[sc] = begun \/ tasks[sc] = Task(sc)
  BY DEF Task
<1> HIDE DEF tasks, work
<1>5. /\ req'.active = req.active /\ req'.notes = req.notes /\ req'.note_task = tasks
      /\ req'.cursor = req.cursor
  BY <1>1, <1>2 DEF Requests
<1>6. TasksReach'
  <2>1. \A sc \in Subchannel : Task(sc)'.pc = "boundary" \/ Task(sc)' = Task(sc)
    BY <1>3, <1>4, <1>5 DEF Task
  <2>2. \A sc \in Subchannel : NoteCursor(sc)' = NoteCursor(sc)
    BY <1>5 DEF NoteCursor
  <2> QED BY <1>1, <2>1, <2>2 DEF FoundInv, TasksReach
<1>7. CompleteDiscovery'
  BY <1>1 DEF FoundInv, CompleteDiscovery
<1> QED BY <1>1, <1>5, <1>6, <1>7 DEF FoundInv

-----------------------------------------------------------------------------
(***************************************************************************)
(* The chain grows, and calls that end with an error.                      *)
(***************************************************************************)

\* Between calls the invariant is about the channels that are known and the last outcome.
LEMMA IdleFound ==
    (/\ sdk.phase = "idle" /\ req = NoRequest
     /\ FirstChannels(chain, DOMAIN kept, Cardinality(DOMAIN kept))
     /\ CompleteDiscovery) => FoundInv
PROOF
<1> SUFFICES ASSUME sdk.phase = "idle", req = NoRequest,
                    FirstChannels(chain, DOMAIN kept, Cardinality(DOMAIN kept)), CompleteDiscovery
             PROVE  FoundInv
  OBVIOUS
<1>1. ~req.active
  BY InitialTypes
<1>2. \A sc \in Subchannel : Task(sc).pc = "idle"
  <2>1. \A sc \in Subchannel : Task(sc) = NoTask
    BY DEF NoRequest, Task
  <2> QED BY <2>1, NoTaskFacts
<1>3. TasksReach
  BY <1>2 DEF TasksReach
<1> QED BY <1>1, <1>3 DEF FoundInv

\* What is ahead of a cursor stays ahead when the chain grows.
LEMMA GrowAhead ==
    ASSUME NEW c \in Chain, NEW d \in Chain, Extends(c, d), NEW cursor, NEW found
    PROVE  /\ \A known, number : number \in Int /\ FirstChannels(c, known, number) =>
                  FirstChannels(d, known, number)
           /\ \A n \in Note : Ahead(c, cursor, found, n) => Ahead(d, cursor, found, n)
           /\ NotesOf(c) \subseteq NotesOf(d)
PROOF
<1>1. /\ c.channels \in Seq(Sender) /\ d.channels \in Seq(Sender)
      /\ IsPrefix(c.channels, d.channels)
  BY DEF Chain, Extends
<1>2. /\ Len(c.channels) <= Len(d.channels) /\ Len(c.channels) \in Nat /\ Len(d.channels) \in Nat
      /\ \A j \in DOMAIN c.channels : j \in DOMAIN d.channels /\ d.channels[j] = c.channels[j]
  BY <1>1, PrefixElement
<1>3. ASSUME NEW s \in Sender, NEW k \in DOMAIN c.subchannels[s]
      PROVE  k \in DOMAIN d.subchannels[s] /\ d.subchannels[s][k] = c.subchannels[s][k]
  <2> DEFINE a == c.subchannels[s]
             b == d.subchannels[s]
  <2>1. a \in Seq(Token) /\ b \in Seq(Token) /\ IsPrefix(a, b)
    BY DEF Chain, Extends
  <2>2. k \in DOMAIN a
    OBVIOUS
  <2> HIDE DEF a, b
  <2>3. k \in DOMAIN b /\ b[k] = a[k]
    BY <2>1, <2>2, PrefixElement
  <2> QED BY <2>3 DEF a, b
<1>4. ASSUME NEW known, NEW number \in Int, FirstChannels(c, known, number)
      PROVE  FirstChannels(d, known, number)
  <2>1. number <= Len(d.channels)
    BY <1>2, <1>4 DEF FirstChannels
  <2>2. ASSUME NEW j \in 1 .. number PROVE d.channels[j] \in known
    <3>1. j \in DOMAIN c.channels
      BY <1>1, <1>2, <1>4 DEF FirstChannels
    <3> QED BY <1>2, <1>4, <3>1 DEF FirstChannels
  <2> QED BY <1>4, <2>1, <2>2 DEF FirstChannels
<1>5. ASSUME NEW n \in Note, Ahead(c, cursor, found, n) PROVE Ahead(d, cursor, found, n)
  <2>1. n[1][1] \in Sender
    BY DEF Note, Subchannel
  <2>2. ASSUME NEW ch, SubchannelAhead(c, ch, n[1]) PROVE SubchannelAhead(d, ch, n[1])
    BY <1>3, <2>1, <2>2 DEF SubchannelAhead
  <2>3. ChannelAhead(c, cursor, n[1][1]) => ChannelAhead(d, cursor, n[1][1])
    BY <1>2 DEF ChannelAhead
  <2> QED BY <1>5, <2>2, <2>3 DEF Ahead, InChannel
<1>6. NotesOf(c) \subseteq NotesOf(d)
  <2> SUFFICES ASSUME NEW n \in NotesOf(c) PROVE n \in NotesOf(d)
    OBVIOUS
  <2>1. /\ n \in Subchannel \X (0 .. Pow2[max_note_log_index])
        /\ n[1][1] \in ToSet(c.channels) /\ n[1][2] \in ToSet(c.subchannels[n[1][1]])
        /\ n[2] < c.n_notes[n[1]]
    BY DEF NotesOf
  <2>2. n[1] \in Subchannel /\ n[1][1] \in Sender /\ n[2] \in Nat
    <3>1. n[1] \in Subchannel /\ n[2] \in 0 .. Pow2[max_note_log_index]
      BY <2>1
    <3>2. Pow2[max_note_log_index] \in Nat
      BY LastNoteIndexAssumption DEF ProbeIndex
    <3> QED BY <3>1, <3>2 DEF Subchannel
  <2>3. n[1][1] \in ToSet(d.channels)
    BY <1>2, <2>1 DEF ToSet
  <2>4. n[1][2] \in ToSet(d.subchannels[n[1][1]])
    <3>1. PICK k \in DOMAIN c.subchannels[n[1][1]] : c.subchannels[n[1][1]][k] = n[1][2]
      BY <2>1 DEF ToSet
    <3>2. k \in DOMAIN d.subchannels[n[1][1]] /\ d.subchannels[n[1][1]][k] = n[1][2]
      BY <1>3, <2>2, <3>1
    <3> QED BY <3>2 DEF ToSet
  <2>5. n[2] < d.n_notes[n[1]]
    <3>1. c.n_notes[n[1]] <= d.n_notes[n[1]] /\ c.n_notes[n[1]] \in Nat /\ d.n_notes[n[1]] \in Nat
      BY <2>2 DEF Chain, Extends
    <3> QED BY <2>1, <2>2, <3>1
  <2> QED BY <2>1, <2>3, <2>4, <2>5 DEF NotesOf
<1> QED BY <1>4, <1>5, <1>6

\* The growth of the chain between or during the requests.
LEMMA GrowFound ==
    ASSUME SyncInv, FoundInv, grow
    PROVE  FoundInv'
PROOF
<1>1. /\ chain \in Chain /\ chain' \in Chain /\ Extends(chain, chain')
      /\ sdk' = IF sdk.phase = "idle" THEN NoSession ELSE sdk
      /\ UNCHANGED <<kept, delivered, req, sessions>>
  BY IncomingSyncAssumption DEF grow, SyncInv, SyncTyped
<1>2. /\ sdk \in Calls /\ kept \in Maps(Sender, IncomingChannel) /\ req \in Requests
      /\ sdk.cursor \in Cursors /\ req.cursor \in Cursors
  BY RequestParts DEF SyncInv, SyncTyped, Calls
<1>3. FirstChannels(chain', DOMAIN kept, Cardinality(DOMAIN kept))
  <2> DEFINE number == Cardinality(DOMAIN kept)
  <2>1. number \in Int
    <3>1. DOMAIN kept \subseteq Sender
      BY <1>2, MapFacts
    <3>2. Cardinality(DOMAIN kept) \in Nat
      BY <3>1, IncomingSyncAssumption, FS_Subset, FS_CardinalityType
    <3> QED BY <3>2
  <2>2. FirstChannels(chain, DOMAIN kept, number)
    BY DEF FoundInv
  <2> HIDE DEF number
  <2>3. FirstChannels(chain', DOMAIN kept, number)
    BY <1>1, <2>1, <2>2, GrowAhead
  <2> QED BY <2>3 DEF number
<1>4. CASE sdk.phase = "idle"
  <2>1. req' = NoRequest
    BY <1>1, <1>2, <1>4, RequestParts DEF SyncInv, TasksFit
  <2>2. sdk'.phase = "idle" /\ sdk'.outcome = "none"
    BY <1>1, <1>4, InitialTypes
  <2>3. (/\ sdk.phase = "idle" /\ req = NoRequest
         /\ FirstChannels(chain, DOMAIN kept, Cardinality(DOMAIN kept))
         /\ CompleteDiscovery)'
    BY <1>1, <1>3, <2>1, <2>2 DEF CompleteDiscovery
  <2> QED BY <2>3, IdleFound, PTL
<1>5. CASE sdk.phase = "paging"
  <2>1. sdk' = sdk
    BY <1>1, <1>5
  <2> DEFINE wanted == Wanted(sdk, chain)
             less == Wanted(sdk, chain')
  <2>2. less \subseteq wanted /\ wanted \subseteq Note
    <3>1. chain.spent \subseteq chain'.spent
      BY <1>1 DEF Extends
    <3>2. less \subseteq wanted
      BY <3>1 DEF Wanted
    <3> QED BY <1>5, <3>2, WantedFacts
  <2> HIDE DEF wanted, less
  <2>3. ASSUME NEW cursor \in Cursors, NEW found, Leads(chain, cursor, found, wanted)
        PROVE  Leads(chain', cursor, found, less)
    <3> DEFINE number == cursor.last_channel_index + 1
    <3>1. number \in Int
      BY DEF Cursors, Index, None
    <3>2. FirstChannels(chain, DOMAIN cursor.channels, number)
      BY <2>3 DEF Leads
    <3> HIDE DEF number
    <3>3. FirstChannels(chain', DOMAIN cursor.channels, number)
      BY <1>1, <3>1, <3>2, GrowAhead
    <3>4. ASSUME NEW n \in less PROVE Ahead(chain', cursor, found, n)
      <4>1. n \in Note /\ Ahead(chain, cursor, found, n)
        BY <2>2, <2>3 DEF Leads
      <4> QED BY <1>1, <4>1, GrowAhead
    <3> QED BY <3>3, <3>4 DEF Leads, number
  <2>4. ~req.active => Leads(chain', sdk.cursor, delivered \cup sdk.notes, less)
    BY <1>2, <1>5, <2>3 DEF FoundInv, wanted
  <2>5. req.active => Leads(chain', req.cursor, delivered \cup sdk.notes \cup req.notes, less)
    BY <1>2, <2>3 DEF FoundInv, wanted
  <2>6. TasksReach'
    <3>1. \A sc \in Subchannel : Task(sc)' = Task(sc) /\ NoteCursor(sc)' = NoteCursor(sc)
      BY <1>1 DEF Task, NoteCursor
    <3>2. Wanted(sdk, chain)' = less
      BY <2>1 DEF less, Wanted
    <3> QED BY <2>2, <3>1, <3>2 DEF FoundInv, TasksReach, wanted
  <2>7. sdk'.outcome = "none" /\ sdk'.began \subseteq NotesOf(chain')
    <3>1. NotesOf(chain) \subseteq NotesOf(chain')
      BY <1>1, GrowAhead
    <3> QED BY <1>5, <2>1, <3>1 DEF FoundInv
  <2>8. CompleteDiscovery'
    BY <2>7 DEF CompleteDiscovery
  <2>9. Wanted(sdk', chain') = less
    BY <2>1 DEF less, Wanted
  <2>10. sdk'.outcome = "none" /\ sdk'.began \subseteq NotesOf(chain)'
    BY <2>7 DEF NotesOf
  <2>11. FirstChannels(chain, DOMAIN kept, Cardinality(DOMAIN kept))'
    BY <1>1, <1>3 DEF FirstChannels
  <2>12. (sdk.phase = "paging" /\ ~req.active =>
              Leads(chain, sdk.cursor, delivered \cup sdk.notes, Wanted(sdk, chain)))'
    BY <1>1, <2>1, <2>4, <2>9
  <2>13. (req.active =>
              Leads(chain, req.cursor, delivered \cup sdk.notes \cup req.notes, Wanted(sdk, chain)))'
    BY <1>1, <2>1, <2>5, <2>9
  <2> QED BY <2>6, <2>8, <2>10, <2>11, <2>12, <2>13 DEF FoundInv
<1> QED BY <1>2, <1>4, <1>5 DEF Calls

\* A call that ends with an error promised nothing.
LEMMA EndedFound ==
    ASSUME SyncInv, FoundInv, missing_channel_key \/ fail_request
    PROVE  FoundInv'
PROOF
<1>1. PICK outcome \in {"missing_channel_key", "failed"} :
         sdk' = [NoSession EXCEPT !.outcome = outcome]
  BY DEF missing_channel_key, fail_request
<1>2. req' = NoRequest /\ UNCHANGED <<chain, kept, delivered, sessions>>
  BY DEF missing_channel_key, fail_request
<1>3. sdk'.phase = "idle" /\ sdk'.outcome # "complete"
  BY <1>1, InitialTypes DEF Calls
<1>4. (/\ sdk.phase = "idle" /\ req = NoRequest
       /\ FirstChannels(chain, DOMAIN kept, Cardinality(DOMAIN kept))
       /\ CompleteDiscovery)'
  BY <1>2, <1>3 DEF FoundInv, CompleteDiscovery
<1> QED BY <1>4, IdleFound, PTL

\* The initial states.
LEMMA FoundInit == Init => FoundInv
PROOF
<1> SUFFICES ASSUME Init PROVE FoundInv
  OBVIOUS
<1>1. sdk.phase = "idle" /\ sdk.outcome = "none" /\ req = NoRequest /\ DOMAIN kept = {}
  BY InitialTypes, EmptyMapFacts DEF Init
<1>2. chain.channels \in Seq(Sender)
  BY IncomingSyncAssumption DEF Init, Chain
<1>3. FirstChannels(chain, DOMAIN kept, Cardinality(DOMAIN kept))
  <2>1. Cardinality(DOMAIN kept) = 0
    BY <1>1, FS_EmptySet
  <2> QED BY <1>2, <2>1 DEF FirstChannels
<1> QED BY <1>1, <1>3, IdleFound DEF CompleteDiscovery

-----------------------------------------------------------------------------
(***************************************************************************)
(* A request begins.                                                       *)
(***************************************************************************)

\* There are no more of the channels in a stretch of the list than the stretch is long.
LEMMA StretchOfChannels ==
    ASSUME NEW c, NEW a \in Nat, NEW batch \in Nat
    PROVE  LET found == {c[i] : i \in (a + 1) .. (a + batch)}
           IN  IsFiniteSet(found) /\ Cardinality(found) \in Nat /\ Cardinality(found) <= batch
PROOF
<1> DEFINE indices == (a + 1) .. (a + batch)
           found == {c[i] : i \in indices}
           f == [i \in indices |-> c[i]]
           card == Cardinality(indices)
<1>1. a + 1 \in Int /\ a + batch \in Int
  OBVIOUS
<1>2. IsFiniteSet(indices) /\ card = IF a + 1 > a + batch THEN 0 ELSE (a + batch) - (a + 1) + 1
  BY <1>1, FS_Interval
<1>3. f \in Surjection(indices, found)
  <2> HIDE DEF indices
  <2> QED BY DEF Surjection
<1> HIDE DEF f, found, indices
<1>4. IsFiniteSet(found) /\ Cardinality(found) <= card
  BY <1>2, <1>3, FS_Surjection
<1>5. Cardinality(found) \in Nat
  BY <1>4, FS_CardinalityType
<1> HIDE DEF card
<1>6. card = batch
  BY <1>2
<1> QED BY <1>4, <1>5, <1>6 DEF found, indices

\* The cursor that counts and finds further channels still leads to all that is wanted.
LEMMA FindsMoreLeads ==
    ASSUME SyncInv, FoundInv, sdk.phase = "paging", ~req.active,
           NEW old, old = sdk.cursor, NEW new \in Cursors, NEW batch \in Nat,
           new.total_n_channels <= Len(chain.channels),
           FindsMore(chain, old, new, batch),
           \A s \in DOMAIN new.channels :
               new.channels[s] = IF s \in DOMAIN old.channels THEN old.channels[s]
                                 ELSE NewChannelCursor
    PROVE  Leads(chain, new, delivered \cup sdk.notes, Wanted(sdk, chain))
PROOF
<1> DEFINE first == old.last_channel_index + 1
           total == new.total_n_channels
           before == old.total_n_channels
           len == Len(chain.channels)
           found == {chain.channels[i] : i \in (first + 1) .. (first + batch)}
           known == DOMAIN old.channels
           notes == delivered \cup sdk.notes
           wanted == Wanted(sdk, chain)
<1>1. /\ old \in Cursors /\ chain.channels \in Seq(Sender) /\ len \in Nat
      /\ Leads(chain, old, notes, wanted)
  BY IncomingSyncAssumption DEF SyncInv, SyncTyped, Calls, Chain, FoundInv
<1>2. /\ old.last_channel_index \in Nat \cup {-1} /\ new.last_channel_index \in Nat \cup {-1}
      /\ before \in Nat \cup {-1} /\ total \in Nat \cup {-1} /\ known \subseteq Sender
  BY <1>1, MapFacts DEF Cursors, Index, None
<1>3. /\ total = (IF before = -1 THEN len ELSE before)
      /\ new.last_channel_index = old.last_channel_index + batch
      /\ DOMAIN new.channels = known \cup found
      /\ batch > 0 => first + batch <= total
      /\ new.channel_discovery_complete => first + batch >= total
      /\ total <= len
  BY DEF FindsMore, None
<1>4. /\ first <= len /\ Cardinality(known) <= first
      /\ \A j \in 1 .. first : chain.channels[j] \in known
  BY <1>1 DEF Leads, FirstChannels
<1>5. first \in Nat /\ new.last_channel_index + 1 = first + batch
  BY <1>2, <1>3, SMTT(30)
<1>6. /\ IsFiniteSet(found) /\ Cardinality(found) \in Nat /\ Cardinality(found) <= batch
      /\ IsFiniteSet(known) /\ Cardinality(known) \in Nat
  <2> HIDE DEF first, known
  <2>1. IsFiniteSet(found) /\ Cardinality(found) \in Nat /\ Cardinality(found) <= batch
    BY <1>5, StretchOfChannels
  <2>2. IsFiniteSet(known) /\ Cardinality(known) \in Nat
    BY <1>2, IncomingSyncAssumption, FS_Subset, FS_CardinalityType
  <2> QED BY <2>1, <2>2
<1>7. ASSUME NEW i \in (first + 1) .. (first + batch) PROVE chain.channels[i] \in found
  OBVIOUS
<1> HIDE DEF first, total, before, len, found, known, notes, wanted
<1>8. FirstChannels(chain, DOMAIN new.channels, first + batch)
  <2>1. first + batch <= len
    <3>1. CASE batch > 0
      BY <1>1, <1>2, <1>3, <1>5, <3>1
    <3>2. CASE ~(batch > 0)
      BY <1>1, <1>4, <1>5, <3>2
    <3> QED BY <3>1, <3>2
  <2>2. Cardinality(known \cup found) <= first + batch
    <3> DEFINE a == Cardinality(known)
               b == Cardinality(found)
               both == Cardinality(known \cap found)
               all == Cardinality(known \cup found)
    <3>1. all = a + b - both
      BY <1>6, FS_Union
    <3>2. both \in Nat
      <4>1. IsFiniteSet(known \cap found)
        BY <1>6, FS_Intersection
      <4> QED BY <4>1, FS_CardinalityType
    <3>3. a \in Nat /\ b \in Nat /\ a <= first /\ b <= batch
      BY <1>4, <1>6
    <3> HIDE DEF a, b, both, all
    <3>4. all <= first + batch
      BY <1>5, <3>1, <3>2, <3>3
    <3> QED BY <3>4 DEF all
  <2>3. ASSUME NEW j \in 1 .. (first + batch) PROVE chain.channels[j] \in known \cup found
    <3>1. CASE j <= first
      BY <1>4, <1>5, <3>1
    <3>2. CASE ~(j <= first)
      <4>1. j \in (first + 1) .. (first + batch)
        BY <1>5, <3>2
      <4> QED BY <1>7, <4>1
    <3> QED BY <3>1, <3>2
  <2> QED BY <1>3, <2>1, <2>2, <2>3 DEF FirstChannels, len
<1>9. ASSUME NEW n \in wanted PROVE Ahead(chain, new, notes, n)
  <2> DEFINE s == n[1][1]
  <2>1. Ahead(chain, old, notes, n)
    BY <1>1 DEF Leads
  <2>2. /\ s \in Sender /\ n[1] \in Subchannel
        /\ \E k \in DOMAIN chain.subchannels[s] : chain.subchannels[s][k] = n[1][2]
    BY WantedFacts DEF wanted
  <2>3. CASE s \in known
    BY <1>3, <2>1, <2>3 DEF Ahead, known
  <2>4. CASE s \notin known /\ s \in found
    <3>1. s \in DOMAIN new.channels /\ new.channels[s] = NewChannelCursor
      BY <1>3, <2>4 DEF known
    <3>2. SubchannelAhead(chain, NewChannelCursor, n[1])
      <4>1. PICK k \in DOMAIN chain.subchannels[s] : chain.subchannels[s][k] = n[1][2]
        BY <2>2
      <4>2. k \in Nat /\ k > 0
        <5>1. chain.subchannels[s] \in Seq(Token)
          BY <2>2, IncomingSyncAssumption DEF SyncInv, SyncTyped, Chain
        <5> QED BY <5>1
      <4>3. k > NewChannelCursor.last_subchannel_index + 1
        BY <4>2 DEF NewChannelCursor, None
      <4> QED BY <4>1, <4>3 DEF SubchannelAhead
    <3>3. DOMAIN NewChannelCursor.subchannels = {} /\ ~NewChannelCursor.subchannel_discovery_complete
      BY EmptyMapFacts DEF NewChannelCursor
    <3>4. InChannel(chain, NewChannelCursor, notes, n)
      BY <3>2, <3>3 DEF InChannel
    <3> QED BY <3>1, <3>4 DEF Ahead
  <2>5. CASE s \notin known /\ s \notin found
    <3>1. PICK j \in DOMAIN chain.channels :
              /\ chain.channels[j] = s /\ j > first /\ (before # None => j <= before)
      BY <2>1, <2>5 DEF Ahead, ChannelAhead, known, first, before
    <3>2. j \in Nat /\ j <= len
      BY <1>1 DEF len
    <3>3. j > first + batch
      <4> SUFFICES ASSUME ~(j > first + batch) PROVE FALSE
        OBVIOUS
      <4>1. j \in (first + 1) .. (first + batch)
        BY <1>5, <3>1, <3>2
      <4> QED BY <1>7, <2>5, <3>1, <4>1
    <3>4. j <= total
      BY <1>3, <3>1, <3>2 DEF None
    <3>5. ~new.channel_discovery_complete
      BY <1>2, <1>3, <1>5, <3>2, <3>3, <3>4
    <3>6. j > new.last_channel_index + 1
      BY <1>5, <3>3
    <3>7. ChannelAhead(chain, new, s)
      BY <3>1, <3>4, <3>6 DEF ChannelAhead, total
    <3>8. s \notin DOMAIN new.channels
      BY <1>3, <2>5
    <3> QED BY <3>5, <3>7, <3>8 DEF Ahead
  <2> QED BY <2>3, <2>4, <2>5
<1> QED BY <1>5, <1>8, <1>9 DEF Leads, notes, wanted

\* A request begins.
LEMMA BeginRequestFound ==
    ASSUME SyncInv, FoundInv, begin_request
    PROVE  FoundInv'
PROOF
<1> DEFINE cursor == sdk.cursor
           f == IF all_channels_processed(sdk.cursor)
                THEN discover_incoming_channels_paginated(sdk.cursor)
                ELSE [cursor |-> sdk.cursor, reads |-> 0, found |-> {}]
           new == f.cursor
           channels == new.channels
           work == [s \in Sender |->
                       IF s \in DOMAIN channels /\ ~channel_is_complete(channels[s])
                       THEN "subchannels" ELSE "idle"]
           remaining == server_budget - f.reads
           reads == f.reads
           found == f.found
           notes == delivered \cup sdk.notes
           wanted == Wanted(sdk, chain)
<1>1. /\ sdk.phase = "paging" /\ ~req.active
      /\ req' = [NoRequest EXCEPT !.active = TRUE, !.cursor = new, !.remaining = remaining,
                                  !.reads = reads, !.new_channels = found, !.channel_task = work]
      /\ UNCHANGED <<chain, sdk, kept, delivered, sessions>>
  BY DEF begin_request
<1>2. /\ chain \in Chains /\ cursor \in Cursors /\ cursor.total_n_channels <= Len(chain.channels)
  BY <1>1 DEF SyncInv, SyncTyped, Calls, Counted
<1>3. Leads(chain, cursor, notes, wanted)
  BY <1>1 DEF FoundInv
<1>4. Leads(chain, new, notes, wanted)
  <2>1. CASE all_channels_processed(sdk.cursor)
    <3>1. f = discover_incoming_channels_paginated(cursor) /\ cursor = sdk.cursor
      BY <2>1
    <3> HIDE DEF cursor, f
    <3>2. /\ new \in Cursors /\ new.total_n_channels <= Len(chain.channels)
          /\ \A s \in DOMAIN new.channels :
                new.channels[s] = IF s \in DOMAIN cursor.channels
                                  THEN cursor.channels[s] ELSE NewChannelCursor
          /\ new = cursor \/ \E batch \in Nat : FindsMore(chain, cursor, new, batch)
      BY <1>2, <3>1, ChannelsFound
    <3> HIDE DEF new
    <3>3. CASE new = cursor
      BY <1>3, <3>3
    <3>4. CASE \E batch \in Nat : FindsMore(chain, cursor, new, batch)
      <4>1. PICK batch \in Nat : FindsMore(chain, cursor, new, batch)
        BY <3>4
      <4> QED BY <1>1, <3>1, <3>2, <4>1, FindsMoreLeads DEF notes, wanted
    <3> QED BY <3>2, <3>3, <3>4
  <2>2. CASE ~all_channels_processed(sdk.cursor)
    <3>1. f = [cursor |-> cursor, reads |-> 0, found |-> {}]
      BY <2>2
    <3> HIDE DEF cursor, f
    <3>2. f.cursor = cursor
      BY <3>1
    <3> QED BY <1>3, <3>2
  <2> QED BY <2>1, <2>2
<1> HIDE DEF cursor, f, new, work, remaining, reads, found
<1>5. /\ req'.active /\ req'.cursor = new /\ req'.notes = {}
      /\ req'.note_task = [sc \in Subchannel |-> NoTask]
  BY <1>1, InitialTypes DEF Requests, NoRequest
<1>6. \A sc \in Subchannel : Task(sc)'.pc = "idle"
  BY <1>5, NoTaskFacts DEF Task
<1>7. TasksReach'
  BY <1>6 DEF TasksReach
<1>8. CompleteDiscovery'
  BY <1>1 DEF FoundInv, CompleteDiscovery
<1>9. delivered \cup sdk.notes \cup req'.notes = notes
  BY <1>5
<1> QED BY <1>1, <1>4, <1>5, <1>7, <1>8, <1>9 DEF FoundInv, notes, wanted

-----------------------------------------------------------------------------
(***************************************************************************)
(* The SDK: a call begins, and its answers arrive.                         *)
(***************************************************************************)

\* A call that resumes looks for channels after as many as it knows: these are the first.
LEMMA DiscoverNotesFound ==
    ASSUME SyncInv, FoundInv, NEW c \in Sessions, discover_notes(c.filter, c.pinned, c.resume)
    PROVE  FoundInv'
PROOF
<1> DEFINE resumed == c.resume /\ kept # EmptyMap
           api == notesCursorToApiCursor(kept, c.filter)
           cursor == IF resumed THEN api ELSE NewCursor
           filter == c.filter
           pinned == c.pinned
           began == NotesOf(chain)
           known == IF resumed THEN DOMAIN kept ELSE {}
           number == Cardinality(known)
           found == delivered' \cup sdk'.notes
           wanted == Wanted(sdk', chain)
<1>1. /\ sdk.phase = "idle"
      /\ sdk' = [NoSession EXCEPT !.phase = "paging", !.filter = filter, !.pinned = pinned,
                                  !.cursor = cursor, !.began = began, !.known = known]
      /\ UNCHANGED <<chain, kept, req>>
  BY DEF discover_notes
<1>2. /\ kept \in Maps(Sender, IncomingChannel) /\ SameTokens(kept) /\ req \in Requests
      /\ chain \in Chains /\ FirstChannels(chain, DOMAIN kept, Cardinality(DOMAIN kept))
  BY DEF SyncInv, SyncTyped, FoundInv
<1>3. /\ api.total_n_channels = -1 /\ api.last_channel_index = Cardinality(DOMAIN kept) - 1
      /\ ~api.channel_discovery_complete /\ DOMAIN api.channels = DOMAIN kept
      /\ DOMAIN kept \subseteq Sender
  BY <1>2, ResumedCursor
<1>4. chain.channels \in Seq(Sender) /\ Len(chain.channels) \in Nat
  BY <1>2, IncomingSyncAssumption DEF Chain
<1> HIDE DEF api
<1>5. /\ cursor.total_n_channels = -1 /\ cursor.last_channel_index = number - 1
      /\ ~cursor.channel_discovery_complete /\ DOMAIN cursor.channels = known
      /\ FirstChannels(chain, known, number)
  <2>1. CASE resumed
    BY <1>2, <1>3, <2>1
  <2>2. CASE ~resumed
    <3>1. known = {} /\ number = 0 /\ cursor = NewCursor
      BY <2>2, FS_EmptySet
    <3> HIDE DEF known, number, cursor
    <3>2. FirstChannels(chain, known, number)
      BY <1>4, <3>1, FS_EmptySet DEF FirstChannels
    <3> QED BY <3>1, <3>2, InitialTypes
  <2> QED BY <2>1, <2>2
<1>6. number \in Nat
  <2>1. known \subseteq Sender
    BY <1>3
  <2> HIDE DEF known
  <2> QED BY <2>1, IncomingSyncAssumption, FS_Subset, FS_CardinalityType
<1>7. req = NoRequest
  BY <1>1, <1>2, RequestParts DEF SyncInv, TasksFit
<1> HIDE DEF cursor, filter, pinned, began, known, number
<1>8. /\ sdk'.phase = "paging" /\ sdk'.cursor = cursor /\ sdk'.outcome = "none"
      /\ sdk'.began = began /\ sdk'.known = known
  BY <1>1, InitialTypes DEF Calls
<1>9. ASSUME NEW n \in wanted PROVE Ahead(chain, cursor, found, n)
  <2> DEFINE s == n[1][1]
  <2>1. s \notin known /\ s \in ToSet(chain.channels)
    BY <1>8 DEF Wanted, began, NotesOf
  <2>2. PICK j \in DOMAIN chain.channels : chain.channels[j] = s
    BY <2>1 DEF ToSet
  <2>3. j \in Nat /\ j > 0
    BY <1>4
  <2>4. j > number
    <3> SUFFICES ASSUME ~(j > number) PROVE FALSE
      OBVIOUS
    <3>1. j \in 1 .. number
      BY <1>6, <2>3
    <3> QED BY <1>5, <2>1, <2>2, <3>1 DEF FirstChannels
  <2>5. cursor.last_channel_index + 1 = number
    BY <1>5, <1>6
  <2>6. ChannelAhead(chain, cursor, s)
    BY <1>5, <2>2, <2>4, <2>5 DEF ChannelAhead, None
  <2> QED BY <1>5, <2>1, <2>6 DEF Ahead
<1>10. Leads(chain, cursor, found, wanted)
  <2>1. cursor.last_channel_index + 1 = number
    BY <1>5, <1>6
  <2> QED BY <1>5, <1>9, <2>1 DEF Leads
<1>11. req' = NoRequest /\ ~req'.active
  BY <1>1, <1>7, InitialTypes
<1>12. TasksReach'
  <2>1. \A sc \in Subchannel : Task(sc)' = NoTask
    BY <1>11 DEF NoRequest, Task
  <2>2. \A sc \in Subchannel : Task(sc)'.pc = "idle"
    BY <2>1, NoTaskFacts
  <2> QED BY <2>2 DEF TasksReach
<1>13. CompleteDiscovery'
  BY <1>8 DEF CompleteDiscovery
<1>14. (sdk.phase = "paging" => sdk.outcome = "none" /\ sdk.began \subseteq NotesOf(chain))'
  BY <1>1, <1>8 DEF began
<1>15. FirstChannels(chain, DOMAIN kept, Cardinality(DOMAIN kept))'
  BY <1>1, <1>2
<1>16. (Leads(chain, sdk.cursor, delivered \cup sdk.notes, Wanted(sdk, chain)))'
  BY <1>1, <1>8, <1>10, SMTT(30)
<1> QED BY <1>11, <1>12, <1>13, <1>14, <1>15, <1>16 DEF FoundInv

\* What is ahead is ahead too when only notes that are not wanted are left out.
LEMMA AheadOfThese ==
    ASSUME NEW c, NEW cursor, NEW found, NEW these, NEW n, n \in found => n \in these,
           Ahead(c, cursor, found, n)
    PROVE  Ahead(c, cursor, these, n)
PROOF
BY DEF Ahead, InChannel, NoteAhead

\* Nothing is ahead of a cursor that is complete.
LEMMA CompleteAhead ==
    ASSUME NEW c, NEW cursor, is_complete(cursor), NEW found, NEW n, Ahead(c, cursor, found, n)
    PROVE  n \in found
PROOF
<1> DEFINE ch == cursor.channels[n[1][1]]
           sub == ch.subchannels[n[1][2]]
<1>1. cursor.channel_discovery_complete /\ all_channels_processed(cursor)
  BY DEF is_complete
<1>2. n[1][1] \in DOMAIN cursor.channels /\ InChannel(c, ch, found, n)
  BY <1>1 DEF Ahead
<1>3. channel_is_complete(ch)
  BY <1>1, <1>2 DEF all_channels_processed
<1> HIDE DEF ch
<1>4. n[1][2] \in DOMAIN ch.subchannels /\ NoteAhead(sub, found, n)
  BY <1>2, <1>3 DEF InChannel, channel_is_complete
<1>5. sub.note_discovery_complete
  BY <1>3, <1>4 DEF channel_is_complete
<1> HIDE DEF sub
<1> QED BY <1>4, <1>5 DEF NoteAhead

\* An answer: the call goes on from its cursor, or all that is wanted was returned.
LEMMA ReceivePageFound ==
    ASSUME SyncInv, FoundInv, receive_page
    PROVE  FoundInv'
PROOF
<1> DEFINE cursor == req.cursor
           channels == apiCursorToNotesCursor(cursor)
           before == sdk.incomingChannels
           incoming == [s \in DOMAIN before \cup DOMAIN channels |->
                           IF s \in DOMAIN channels THEN channels[s] ELSE before[s]]
           page == PageNotes
           all == delivered \cup sdk.notes \cup page
           found == delivered \cup sdk.notes \cup req.notes
           wanted == Wanted(sdk, chain)
<1>1. /\ req.active /\ req' = NoRequest /\ UNCHANGED <<chain, sessions>>
      /\ \/ /\ is_complete(cursor) /\ delivered' = all /\ kept' = incoming
            /\ sdk' = [NoSession EXCEPT !.outcome = "complete", !.filter = sdk.filter,
                                        !.began = sdk.began, !.known = sdk.known]
         \/ /\ delivered' = delivered /\ kept' = kept
            /\ sdk' = [sdk EXCEPT !.cursor = cursor, !.incomingChannels = incoming,
                                  !.notes = sdk.notes \cup page]
  BY DEF receive_page, RequestDone
<1>2. /\ sdk \in Calls /\ cursor \in Cursors /\ chain \in Chains /\ sdk.phase = "paging"
      /\ DOMAIN before \subseteq DOMAIN cursor.channels
      /\ sdk.outcome = "none" /\ sdk.began \subseteq NotesOf(chain)
      /\ Leads(chain, cursor, found, wanted)
  BY <1>1, RequestParts DEF SyncInv, SyncTyped, TasksFit, CursorsPast, FoundInv
<1>3. ASSUME NEW n \in wanted PROVE Ahead(chain, cursor, all, n)
  <2>1. Passes(sdk.filter, n)
    BY DEF Wanted
  <2>2. n \in found => n \in all
    BY <2>1 DEF PageNotes
  <2>3. Ahead(chain, cursor, found, n)
    BY <1>2 DEF Leads
  <2> HIDE DEF cursor, all, found
  <2> QED BY <2>2, <2>3, AheadOfThese
<1> HIDE DEF cursor, page, all, found
<1>4. DOMAIN channels = DOMAIN cursor.channels /\ DOMAIN channels \subseteq Sender
  BY <1>2, KeptCursor
<1> HIDE DEF channels
<1>5. DOMAIN incoming = DOMAIN channels
  BY <1>2, <1>4
<1> HIDE DEF incoming, before
<1>6. CASE /\ is_complete(cursor) /\ delivered' = all /\ kept' = incoming
           /\ sdk' = [NoSession EXCEPT !.outcome = "complete", !.filter = sdk.filter,
                                       !.began = sdk.began, !.known = sdk.known]
  <2>1. /\ sdk'.phase = "idle" /\ sdk'.filter = sdk.filter /\ sdk'.began = sdk.began
        /\ sdk'.known = sdk.known
    BY <1>6, InitialTypes DEF Calls
  <2>2. \A n \in wanted : n \in all
    BY <1>3, <1>6, CompleteAhead
  <2>3. CompleteDiscovery'
    BY <1>1, <1>6, <2>1, <2>2 DEF CompleteDiscovery, wanted, Wanted
  <2>4. FirstChannels(chain, DOMAIN incoming, Cardinality(DOMAIN incoming))
    <3> DEFINE known == DOMAIN cursor.channels
               number == cursor.last_channel_index + 1
               card == Cardinality(known)
    <3>1. number \in Int
      BY <1>2 DEF Cursors, Index, None
    <3>2. FirstChannels(chain, known, number)
      BY <1>2 DEF Leads
    <3>3. card \in Nat
      <4>1. known \subseteq Sender
        BY <1>4
      <4> HIDE DEF known
      <4> QED BY <4>1, IncomingSyncAssumption, FS_Subset, FS_CardinalityType
    <3>4. Len(chain.channels) \in Nat
      BY <1>2, IncomingSyncAssumption DEF Chain
    <3>5. number <= Len(chain.channels) /\ card <= number
          /\ \A j \in 1 .. number : chain.channels[j] \in known
      BY <3>2 DEF FirstChannels
    <3> HIDE DEF known, number, card
    <3>6. card <= Len(chain.channels) /\ \A j \in 1 .. card : chain.channels[j] \in known
      BY <3>1, <3>3, <3>4, <3>5
    <3>7. FirstChannels(chain, known, card)
      BY <3>6, <3>3 DEF FirstChannels, card
    <3> QED BY <1>4, <1>5, <3>7 DEF card, known
  <2>5. (/\ sdk.phase = "idle" /\ req = NoRequest
         /\ FirstChannels(chain, DOMAIN kept, Cardinality(DOMAIN kept))
         /\ CompleteDiscovery)'
    BY <1>1, <1>6, <2>1, <2>3, <2>4
  <2> QED BY <2>5, IdleFound, PTL
<1>7. CASE /\ delivered' = delivered /\ kept' = kept
           /\ sdk' = [sdk EXCEPT !.cursor = cursor, !.incomingChannels = incoming,
                                 !.notes = sdk.notes \cup page]
  <2> DEFINE notes == sdk.notes \cup page
  <2> HIDE DEF notes
  <2>1. /\ sdk'.phase = "paging" /\ sdk'.outcome = "none" /\ sdk'.notes = notes
        /\ sdk'.cursor = cursor /\ sdk'.began = sdk.began /\ sdk'.known = sdk.known
        /\ sdk'.filter = sdk.filter
    <3>1. sdk' = [sdk EXCEPT !.cursor = cursor, !.incomingChannels = incoming, !.notes = notes]
      BY <1>7 DEF notes
    <3> QED BY <1>2, <3>1 DEF Calls
  <2>2. ~req'.active
    BY <1>1, InitialTypes
  <2>3. Wanted(sdk', chain') = wanted /\ delivered' \cup sdk'.notes = all
    BY <1>1, <1>7, <2>1 DEF wanted, Wanted, all, notes
  <2>4. Leads(chain, cursor, all, wanted)
    BY <1>2, <1>3 DEF Leads
  <2>5. (Leads(chain, sdk.cursor, delivered \cup sdk.notes, Wanted(sdk, chain)))'
    BY <1>1, <2>1, <2>3, <2>4
  <2>6. TasksReach'
    <3>1. \A sc \in Subchannel : Task(sc)' = NoTask
      BY <1>1 DEF NoRequest, Task
    <3>2. \A sc \in Subchannel : Task(sc)'.pc = "idle"
      BY <3>1, NoTaskFacts
    <3> QED BY <3>2 DEF TasksReach
  <2>7. CompleteDiscovery'
    BY <2>1 DEF CompleteDiscovery
  <2>8. /\ (sdk.phase = "paging" => sdk.outcome = "none" /\ sdk.began \subseteq NotesOf(chain))'
        /\ FirstChannels(chain, DOMAIN kept, Cardinality(DOMAIN kept))'
    BY <1>1, <1>2, <1>7, <2>1 DEF FoundInv
  <2> QED BY <2>2, <2>5, <2>6, <2>7, <2>8 DEF FoundInv
<1> QED BY <1>1, <1>6, <1>7

-----------------------------------------------------------------------------
\* With SyncInv, FoundInv is inductive.
LEMMA FoundNext == SyncInv /\ FoundInv /\ [Next]_vars => FoundInv'
PROOF
<1> SUFFICES ASSUME SyncInv, FoundInv, [Next]_vars PROVE FoundInv'
  OBVIOUS
<1>1. CASE \E c \in Sessions : discover_notes(c.filter, c.pinned, c.resume)
  BY <1>1, DiscoverNotesFound
<1>2. CASE begin_request
  BY <1>2, BeginRequestFound
<1>3. CASE \E s \in Sender : discover_subchannel(s) \/ start_notes(s)
  BY <1>3, DiscoverSubchannelFound, StartNotesFound
<1>4. CASE \E sc \in Subchannel : NoteStep(sc)
  BY <1>4, NoteStepFound
<1>5. CASE receive_page
  BY <1>5, ReceivePageFound
<1>6. CASE missing_channel_key \/ fail_request
  BY <1>6, EndedFound
<1>7. CASE grow
  BY <1>7, GrowFound
<1>8. CASE UNCHANGED vars
  <2>1. TasksReach'
    BY <1>8 DEF vars, FoundInv, TasksReach, Task, NoteCursor, Wanted
  <2>2. CompleteDiscovery'
    BY <1>8 DEF vars, FoundInv, CompleteDiscovery
  <2> QED BY <1>8, <2>1, <2>2, SMTT(30) DEF vars, FoundInv
<1> QED BY <1>1, <1>2, <1>3, <1>4, <1>5, <1>6, <1>7, <1>8 DEF Next, ServiceStep

(***************************************************************************)
(* What a call is still to return is always ahead of the cursor it goes on *)
(* from: in a channel, a subchannel or at an index that the service has    *)
(* not passed, however its tasks interleave, wherever the budget cuts a    *)
(* request short and however the chain grows meanwhile.                    *)
(***************************************************************************)
THEOREM FoundHolds == Spec => [](SyncInv /\ FoundInv)
PROOF
BY SyncInit, SyncNext, FoundInit, FoundNext, PTL DEF Spec

(***************************************************************************)
(* A call that completes has returned every unspent note that existed when *)
(* it began in the channels its cursor did not know, whatever was added    *)
(* meanwhile and however many requests it took (discoverNotes,             *)
(* sync_incoming_state, notesCursorToApiCursor).                           *)
(***************************************************************************)
THEOREM DiscoveryIsComplete == Spec => []CompleteDiscovery
PROOF
<1>1. SyncInv /\ FoundInv => CompleteDiscovery
  BY DEF FoundInv
<1> QED BY <1>1, FoundHolds, PTL
=============================================================================
