---------------------------- MODULE IncomingSync ----------------------------
(***************************************************************************)
(* Discovery of a recipient's notes: the SDK's discoverNotes loop over the *)
(* discovery service's incoming synchronisation.                           *)
(*                                                                         *)
(* The SDK sends requests until the cursor that comes back is complete.  A *)
(* request has a budget of storage reads that its concurrent tasks share:  *)
(* one task per channel lists the channel's subchannels, then one task per *)
(* subchannel finds the number of notes and scans them.  A task that finds *)
(* the budget spent leaves the rest to the next request.                   *)
(*                                                                         *)
(* One step is what a task does between two awaits.  A session pinned to a *)
(* block hash reads one state of the chain; a session that asks for a tag  *)
(* reads the newest state on every call.                                   *)
(***************************************************************************)
EXTENDS LastNoteIndex, Sequences, FiniteSets, SequencesExt

CONSTANTS
    Sender, Token,
    Chains,           \* states of the pool's storage, as far as the recipient's notes go
    InitChains,       \* those explored from
    NoFilter,         \* no token filter
    Sessions,         \* the calls explored: token filter, whether the session is pinned to a
                      \* block, whether it is given the cursor of the session before
    server_budget, max_channels, max_subchannels,
    MaxSessions       \* bound: sessions explored

COST_NUM_CHANNELS == 1
COST_CHANNEL_INFO == 3
COST_SUBCHANNEL_INFO == 2
COST_NOTE == 2
COST_NOTE_PROBING == 1

min_server_budget ==
    COST_NUM_CHANNELS + COST_CHANNEL_INFO + 2 * COST_SUBCHANNEL_INFO
      + boundary_budget * COST_NOTE_PROBING + 10 * COST_NOTE

Subchannel == Sender \X Token

\* A sender has one channel to the recipient, a channel one subchannel per token.
Chain ==
    [channels : Seq(Sender), subchannels : [Sender -> Seq(Token)],
     n_notes : [Subchannel -> Nat], spent : SUBSET (Subchannel \X Nat)]

ASSUME IncomingSyncAssumption ==
    /\ IsFiniteSet(Sender) /\ IsFiniteSet(Token)
    /\ Chains \subseteq Chain /\ InitChains \subseteq Chains
    /\ \A c \in Chains, s \in Sender : \A i, j \in DOMAIN c.subchannels[s] :
          c.subchannels[s][i] = c.subchannels[s][j] => i = j
    \* Fewer notes than the probes cover (see probe_overflow in BoundarySearch).
    /\ \A c \in Chains, sc \in Subchannel : c.n_notes[sc] < Pow2[max_note_log_index]
    /\ Sessions \subseteq [filter : {NoFilter} \cup SUBSET Token, pinned : BOOLEAN,
                            resume : BOOLEAN]
    /\ server_budget \in Nat /\ server_budget >= min_server_budget
    /\ max_channels \in Nat /\ max_subchannels \in Nat /\ MaxSessions \in Nat

Extends(c, d) ==
    /\ IsPrefix(c.channels, d.channels)
    /\ \A s \in Sender : IsPrefix(c.subchannels[s], d.subchannels[s])
    /\ \A sc \in Subchannel : c.n_notes[sc] <= d.n_notes[sc]
    /\ c.spent \subseteq d.spent

\* A note is its subchannel and its index.
NotesOf(c) ==
    {n \in Subchannel \X (0 .. Pow2[max_note_log_index]) :
        LET sc == n[1]
        IN  /\ sc[1] \in ToSet(c.channels) /\ sc[2] \in ToSet(c.subchannels[sc[1]])
            /\ n[2] < c.n_notes[sc]}

Passes(filter, note) == filter = NoFilter \/ note[1][2] \in filter

-----------------------------------------------------------------------------
(***************************************************************************)
(* Cursors.  None stands for an absent index or total.                     *)
(***************************************************************************)
None == -1

EmptyMap == [x \in {} |-> 0]
Put(map, key, value) ==
    [x \in DOMAIN map \cup {key} |-> IF x = key THEN value ELSE map[x]]

NewSubchannelCursor ==
    [note_discovery_complete |-> FALSE, last_note_index |-> None, total_n_notes |-> None]
NewChannelCursor ==
    [subchannel_discovery_complete |-> FALSE, last_subchannel_index |-> None,
     subchannels |-> EmptyMap]
NewCursor ==
    [channel_discovery_complete |-> FALSE, total_n_channels |-> None,
     last_channel_index |-> None, channels |-> EmptyMap]

start_index(subchannel_cursor) == subchannel_cursor.last_note_index + 1

channel_is_complete(channel_cursor) ==
    /\ channel_cursor.subchannel_discovery_complete
    /\ \A t \in DOMAIN channel_cursor.subchannels :
           channel_cursor.subchannels[t].note_discovery_complete

all_channels_processed(cursor) ==
    \A s \in DOMAIN cursor.channels : channel_is_complete(cursor.channels[s])

is_complete(cursor) == cursor.channel_discovery_complete /\ all_channels_processed(cursor)

validate_cursor(cursor) ==
    /\ Cardinality(DOMAIN cursor.channels) <= max_channels
    /\ \A s \in DOMAIN cursor.channels :
        LET subchannels == cursor.channels[s].subchannels
        IN  /\ Cardinality(DOMAIN subchannels) <= max_subchannels
            /\ \A t \in DOMAIN subchannels :
                   /\ subchannels[t].total_n_notes <= Pow2[max_note_log_index]
                   /\ subchannels[t].last_note_index < Pow2[max_note_log_index]

\* Mutant: the index of the last note scanned is kept as the next one.
noteIndex_last(subchannel_cursor) == Max({subchannel_cursor.last_note_index, 0})

noteIndex(subchannel_cursor) == subchannel_cursor.last_note_index + 1

\* The SDK's own form of a cursor, and the conversions from and to it.
apiCursorToNotesCursor(api) ==
    [s \in DOMAIN api.channels |->
        LET ch == api.channels[s]
        IN  [subchannelIdIndex |-> ch.last_subchannel_index + 1,
             noteIndexes |-> [t \in DOMAIN ch.subchannels |-> noteIndex(ch.subchannels[t])],
             totalNoteCounts |-> [t \in DOMAIN ch.subchannels |->
                                     ch.subchannels[t].total_n_notes]]]

buildSubchannelCursors(icc, filter) ==
    [t \in {u \in DOMAIN icc.noteIndexes : filter = NoFilter \/ u \in filter} |->
        [NewSubchannelCursor EXCEPT !.last_note_index = icc.noteIndexes[t] - 1,
                                    !.total_n_notes = icc.totalNoteCounts[t]]]

\* Mutant: the number of known channels is taken for the index of the last.
last_channel_index_size(incomingChannels) == Cardinality(DOMAIN incomingChannels)

last_channel_index(incomingChannels) == Cardinality(DOMAIN incomingChannels) - 1

notesCursorToApiCursor(incomingChannels, filter) ==
    [NewCursor EXCEPT
        !.last_channel_index = last_channel_index(incomingChannels),
        !.channels =
            [s \in DOMAIN incomingChannels |->
                LET subchannels == buildSubchannelCursors(incomingChannels[s], filter)
                IN  [subchannel_discovery_complete |->
                         filter # NoFilter /\ Cardinality(filter) = Cardinality(DOMAIN subchannels),
                     last_subchannel_index |-> incomingChannels[s].subchannelIdIndex - 1,
                     subchannels |-> subchannels]]]

-----------------------------------------------------------------------------
VARIABLES
    chain,      \* the pool's storage
    sdk,        \* the discoverNotes call of the wallet
    kept,       \* the cursor the wallet keeps between sessions
    delivered,  \* notes delivered since the last session that began without a cursor
    req,        \* the request the service is working on
    sessions    \* sessions begun

vars == <<chain, sdk, kept, delivered, req, sessions>>

NoTask == [pc |-> "idle", bounds |-> [lower |-> 0, upper |-> 0], steps |-> 0, cache |-> {},
           batch |-> 0]

NoRequest ==
    [active |-> FALSE, cursor |-> NewCursor, remaining |-> 0, reads |-> 0, notes |-> {},
     new_channels |-> {}, channel_task |-> [s \in Sender |-> "idle"],
     note_task |-> [sc \in Subchannel |-> NoTask]]

NoSession ==
    [phase |-> "idle", outcome |-> "none", filter |-> NoFilter, pinned |-> TRUE,
     cursor |-> NewCursor, incomingChannels |-> EmptyMap, notes |-> {}, began |-> {},
     known |-> {}]

Init ==
    /\ chain \in InitChains
    /\ sdk = NoSession
    /\ kept = EmptyMap
    /\ delivered = {}
    /\ req = NoRequest
    /\ sessions = 0

-----------------------------------------------------------------------------
(***************************************************************************)
(* The budget.                                                             *)
(***************************************************************************)
CanConsume(count) == req.remaining >= count

\* How many items the budget allows.
consume_up_to(remaining, max_items, cost_per_item) ==
    Min({max_items, remaining \div cost_per_item})

-----------------------------------------------------------------------------
(***************************************************************************)
(* A request: validation and, when no channel is pending, the discovery of *)
(* further channels; nothing else of the request is running then.          *)
(***************************************************************************)
AllChannelsFound(batch, num_channels, remaining_channels) ==
    batch = num_channels /\ num_channels = remaining_channels

discover_incoming_channels_paginated(cursor) ==
    LET slots == max_channels - Cardinality(DOMAIN cursor.channels)
        first == cursor.last_channel_index + 1
        count_cost == IF cursor.total_n_channels = None THEN COST_NUM_CHANNELS ELSE 0
        total == IF cursor.total_n_channels = None THEN Len(chain.channels)
                 ELSE cursor.total_n_channels
        remaining_channels == Max({total - first, 0})
        num_channels == Min({remaining_channels, slots})
        batch == consume_up_to(server_budget - count_cost, num_channels, COST_CHANNEL_INFO)
        found == {chain.channels[i] : i \in (first + 1) .. (first + batch)}
    IN  IF cursor.channel_discovery_complete \/ slots <= 0
        THEN [cursor |-> cursor, reads |-> 0, found |-> {}]
        ELSE [cursor |->
                [cursor EXCEPT
                    !.total_n_channels = total,
                    !.channels = [s \in DOMAIN cursor.channels \cup found |->
                                     IF s \in DOMAIN cursor.channels THEN cursor.channels[s]
                                     ELSE NewChannelCursor],
                    !.last_channel_index = @ + batch,
                    !.channel_discovery_complete =
                        AllChannelsFound(batch, num_channels, remaining_channels)],
              reads |-> count_cost + batch * COST_CHANNEL_INFO,
              found |-> found]

begin_request ==
    /\ sdk.phase = "paging"
    /\ ~req.active
    /\ validate_cursor(sdk.cursor)
    /\ LET found == IF all_channels_processed(sdk.cursor)
                    THEN discover_incoming_channels_paginated(sdk.cursor)
                    ELSE [cursor |-> sdk.cursor, reads |-> 0, found |-> {}]
           channels == found.cursor.channels
       IN  req' = [NoRequest EXCEPT
                      !.active = TRUE,
                      !.cursor = found.cursor,
                      !.remaining = server_budget - found.reads,
                      !.reads = found.reads,
                      !.new_channels = found.found,
                      !.channel_task =
                          [s \in Sender |->
                              IF s \in DOMAIN channels /\ ~channel_is_complete(channels[s])
                              THEN "subchannels" ELSE "idle"]]
    /\ UNCHANGED <<chain, sdk, kept, delivered, sessions>>

-----------------------------------------------------------------------------
(***************************************************************************)
(* Channel tasks: process_channel lists subchannels, one read per step,    *)
(* then starts a task for every subchannel whose notes are not complete.   *)
(***************************************************************************)
ChannelCursor(s) == req.cursor.channels[s]

MoreSubchannels(s) ==
    /\ ~ChannelCursor(s).subchannel_discovery_complete
    /\ Cardinality(DOMAIN ChannelCursor(s).subchannels) < max_subchannels
    /\ CanConsume(COST_SUBCHANNEL_INFO)

discover_subchannel(s) ==
    /\ req.channel_task[s] = "subchannels"
    /\ MoreSubchannels(s)
    /\ LET ch == ChannelCursor(s)
           index == ch.last_subchannel_index + 1
           tokens == chain.subchannels[s]
       IN  req' = [req EXCEPT
                      !.remaining = @ - COST_SUBCHANNEL_INFO,
                      !.reads = @ + COST_SUBCHANNEL_INFO,
                      !.cursor.channels[s] =
                          IF index < Len(tokens)
                          THEN [ch EXCEPT
                                   !.last_subchannel_index = index,
                                   !.subchannels =
                                       IF tokens[index + 1] \in DOMAIN @ THEN @
                                       ELSE Put(@, tokens[index + 1], NewSubchannelCursor)]
                          ELSE [ch EXCEPT !.subchannel_discovery_complete = TRUE]]
    /\ UNCHANGED <<chain, sdk, kept, delivered, sessions>>

start_notes(s) ==
    /\ req.channel_task[s] = "subchannels"
    /\ ~MoreSubchannels(s)
    /\ req' = [req EXCEPT
                  !.channel_task[s] = "idle",
                  !.note_task =
                      [sc \in Subchannel |->
                          IF /\ sc[1] = s /\ sc[2] \in DOMAIN ChannelCursor(s).subchannels
                             /\ ~ChannelCursor(s).subchannels[sc[2]].note_discovery_complete
                          THEN [NoTask EXCEPT !.pc = "boundary"] ELSE @[sc]]]
    /\ UNCHANGED <<chain, sdk, kept, delivered, sessions>>

-----------------------------------------------------------------------------
(***************************************************************************)
(* Note tasks: find_last_note_index, then one batch of discover_notes.     *)
(***************************************************************************)
NoteCursor(sc) == req.cursor.channels[sc[1]].subchannels[sc[2]]

Task(sc) == req.note_task[sc]

\* A step of sc's task: the task, the cursor, reads made, budget taken (negative: reclaimed).
TaskStep(sc, task, cursor, reads, taken, notes) ==
    /\ req' = [req EXCEPT
                  !.note_task[sc] = task,
                  !.cursor.channels[sc[1]].subchannels[sc[2]] = cursor,
                  !.reads = @ + reads,
                  !.remaining = @ - taken,
                  !.notes = @ \cup notes]
    /\ UNCHANGED <<chain, sdk, kept, delivered, sessions>>

reserve_boundary(sc) ==
    /\ Task(sc).pc = "boundary"
    /\ NoteCursor(sc).total_n_notes = None
    /\ CanConsume(boundary_budget)
    /\ TaskStep(sc, [NoTask EXCEPT !.pc = "probing"], NoteCursor(sc), 0, boundary_budget, {})

\* Not enough budget for a search: the task ends without progress.
boundary_has_more(sc) ==
    /\ Task(sc).pc = "boundary"
    /\ NoteCursor(sc).total_n_notes = None
    /\ ~CanConsume(boundary_budget)
    /\ TaskStep(sc, NoTask, NoteCursor(sc), 0, 0, {})

boundary_cached(sc) ==
    /\ Task(sc).pc = "boundary"
    /\ NoteCursor(sc).total_n_notes # None
    /\ TaskStep(sc, [NoTask EXCEPT !.pc = "scan"], NoteCursor(sc), 0, 0, {})

PROBES == max_note_log_index + 1

probe(sc) ==
    /\ Task(sc).pc = "probing"
    /\ \E k \in ProbeIndex \ {0} :
          /\ FirstMiss(chain.n_notes[sc], start_index(NoteCursor(sc)), k)
          /\ TaskStep(sc,
                 [NoTask EXCEPT
                     !.pc = "bisecting",
                     !.bounds = exponential_probe(start_index(NoteCursor(sc)), k),
                     !.cache = {start_index(NoteCursor(sc)) + probe_offset(j) : j \in 0 .. (k - 1)}],
                 NoteCursor(sc), PROBES, 0, {})

\* The first probe misses: the subchannel counts as empty and is done.
probe_empty(sc) ==
    /\ Task(sc).pc = "probing"
    /\ FirstMiss(chain.n_notes[sc], start_index(NoteCursor(sc)), 0)
    /\ TaskStep(sc, NoTask,
           [NoteCursor(sc) EXCEPT !.total_n_notes = 0, !.note_discovery_complete = TRUE],
           PROBES, -max_note_log_index, {})

bisect(sc) ==
    /\ Task(sc).pc = "bisecting"
    /\ Unresolved(Task(sc).bounds)
    /\ LET mid == midpoint(Task(sc).bounds)
       IN  TaskStep(sc,
               [Task(sc) EXCEPT
                   !.bounds = bisect_boundary(chain.n_notes[sc], @),
                   !.steps = @ + 1,
                   !.cache = IF Exists(chain.n_notes[sc], mid) THEN @ \cup {mid} ELSE @],
               NoteCursor(sc), 1, 0, {})

\* Mutant: gives back the steps taken instead of the steps not taken.
reclaimed_steps_taken(steps) == steps

\* What the search gives back of the steps reserved for its bisection.
reclaimed_steps(steps) == max_note_log_index - steps

finish_boundary(sc) ==
    /\ Task(sc).pc = "bisecting"
    /\ ~Unresolved(Task(sc).bounds)
    /\ TaskStep(sc, [NoTask EXCEPT !.pc = "scan", !.cache = Task(sc).cache],
           [NoteCursor(sc) EXCEPT !.total_n_notes = Task(sc).bounds.lower + 1],
           0, -reclaimed_steps(Task(sc).steps), {})

NotesLeft(sc) == Max({NoteCursor(sc).total_n_notes - start_index(NoteCursor(sc)), 0})

\* Mutant: the batch never exceeds what is left.
ScanComplete_strict(sc, batch) == batch > NotesLeft(sc)

\* The scan is complete unless the budget cut its batch short.
ScanComplete(sc, batch) == batch = NotesLeft(sc)

\* discover_notes reserves both reads of every note the budget allows.
reserve_scan(sc) ==
    /\ Task(sc).pc = "scan"
    /\ LET batch == consume_up_to(req.remaining, NotesLeft(sc), COST_NOTE)
       IN  IF batch > 0
           THEN TaskStep(sc, [Task(sc) EXCEPT !.pc = "reading", !.batch = batch],
                    NoteCursor(sc), 0, batch * COST_NOTE, {})
           ELSE TaskStep(sc, NoTask,
                    [NoteCursor(sc) EXCEPT !.note_discovery_complete = ScanComplete(sc, batch)],
                    0, 0, {})

BatchIndices(sc) ==
    start_index(NoteCursor(sc)) .. (start_index(NoteCursor(sc)) + Task(sc).batch - 1)

last_index(sc) == start_index(NoteCursor(sc)) + Task(sc).batch - 1

\* process_note_batch: nullifiers first, then the notes that are neither spent nor cached.
process_note_batch(sc) ==
    /\ Task(sc).pc = "reading"
    /\ LET indices == BatchIndices(sc)
           spent == {i \in indices : <<sc, i>> \in chain.spent}
           skipped == spent \cup (indices \cap Task(sc).cache)
           batch == Task(sc).batch
       IN  TaskStep(sc, NoTask,
               [NoteCursor(sc) EXCEPT !.last_note_index = last_index(sc),
                                      !.note_discovery_complete = ScanComplete(sc, batch)],
               2 * batch - Cardinality(skipped), -Cardinality(skipped) * COST_NOTE_PROBING,
               {<<sc, i>> : i \in indices \ spent})

-----------------------------------------------------------------------------
(***************************************************************************)
(* The SDK: discoverNotes.                                                 *)
(***************************************************************************)
discover_notes(filter, pinned, resume) ==
    LET resumed == resume /\ kept # EmptyMap
    IN  /\ sdk.phase = "idle"
        /\ sessions < MaxSessions
        /\ sdk' = [NoSession EXCEPT
                      !.phase = "paging", !.filter = filter, !.pinned = pinned,
                      !.cursor = IF resumed THEN notesCursorToApiCursor(kept, filter)
                                 ELSE NewCursor,
                      !.began = NotesOf(chain),
                      !.known = IF resumed THEN DOMAIN kept ELSE {}]
        /\ delivered' = IF resumed THEN delivered ELSE {}
        /\ sessions' = sessions + 1
        /\ UNCHANGED <<chain, kept, req>>

RequestDone ==
    /\ req.active
    /\ \A s \in Sender : req.channel_task[s] = "idle"
    /\ \A sc \in Subchannel : Task(sc).pc = "idle"

\* The notes of the page that the caller asked for.
PageNotes == {n \in req.notes : Passes(sdk.filter, n)}

\* convertIncomingNotes takes a note's channel key from this page or an earlier one.
KeyKnown(n) == n[1][1] \in req.new_channels \cup DOMAIN sdk.incomingChannels

\* The answer arrives; the loop ends when its cursor is complete.
receive_page ==
    /\ RequestDone
    /\ \A n \in PageNotes : KeyKnown(n)
    /\ LET channels == apiCursorToNotesCursor(req.cursor)
           incoming == [s \in DOMAIN sdk.incomingChannels \cup DOMAIN channels |->
                           IF s \in DOMAIN channels THEN channels[s] ELSE sdk.incomingChannels[s]]
           complete == is_complete(req.cursor)
       IN  /\ delivered' = IF complete THEN delivered \cup sdk.notes \cup PageNotes
                           ELSE delivered
           /\ kept' = IF complete THEN incoming ELSE kept
           /\ sdk' = IF complete
                     THEN [NoSession EXCEPT !.outcome = "complete", !.filter = sdk.filter,
                                            !.began = sdk.began, !.known = sdk.known]
                     ELSE [sdk EXCEPT !.cursor = req.cursor, !.incomingChannels = incoming,
                                      !.notes = @ \cup PageNotes]
    /\ req' = NoRequest
    /\ UNCHANGED <<chain, sessions>>

\* A note whose channel key is unknown: discoverNotes throws.
missing_channel_key ==
    /\ RequestDone
    /\ \E n \in PageNotes : ~KeyKnown(n)
    /\ sdk' = [NoSession EXCEPT !.outcome = "missing_channel_key"]
    /\ req' = NoRequest
    /\ UNCHANGED <<chain, kept, delivered, sessions>>

\* The request is answered with an error, or not at all: a storage read failed, the
\* block was reorganised away, the connection was lost.  discoverNotes throws.
fail_request ==
    /\ req.active
    /\ sdk' = [NoSession EXCEPT !.outcome = "failed"]
    /\ req' = NoRequest
    /\ UNCHANGED <<chain, kept, delivered, sessions>>

\* The chain moves on; a pinned session does not see it.
grow ==
    /\ sdk.phase = "idle" \/ ~sdk.pinned
    /\ chain' \in {c \in Chains \ {chain} : Extends(chain, c)}
    /\ sdk' = IF sdk.phase = "idle" THEN NoSession ELSE sdk
    /\ UNCHANGED <<kept, delivered, req, sessions>>

NoteStep(sc) ==
    \/ reserve_boundary(sc) \/ boundary_has_more(sc) \/ boundary_cached(sc)
    \/ probe(sc) \/ probe_empty(sc) \/ bisect(sc) \/ finish_boundary(sc)
    \/ reserve_scan(sc) \/ process_note_batch(sc)

ServiceStep ==
    \/ begin_request
    \/ \E s \in Sender : discover_subchannel(s) \/ start_notes(s)
    \/ \E sc \in Subchannel : NoteStep(sc)

Next ==
    \/ \E s \in Sessions : discover_notes(s.filter, s.pinned, s.resume)
    \/ ServiceStep
    \/ receive_page
    \/ missing_channel_key
    \/ fail_request
    \/ grow

Spec == Init /\ [][Next]_vars

\* The service works on a request it has, and the SDK reads the answers it gets.
FairSpec == Spec /\ WF_vars(ServiceStep \/ receive_page \/ missing_channel_key)

-----------------------------------------------------------------------------
(***************************************************************************)
(* The tasks of a request never read more than its budget, although each   *)
(* reserves and gives back concurrently with the others; when all of them  *)
(* are done, exactly what was not read is left (IoBudget, process_channel, *)
(* find_last_note_index, discover_notes).                                  *)
(***************************************************************************)
BudgetRespected ==
    req.active =>
        /\ req.remaining >= 0
        /\ req.reads + req.remaining <= server_budget
        /\ RequestDone => req.reads + req.remaining = server_budget

(***************************************************************************)
(* No note is returned twice: not by two pages of a session, and not by a  *)
(* session that resumes from the cursor of an earlier one, whichever       *)
(* sessions failed in between (apiCursorToNotesCursor, process_note_batch).*)
(***************************************************************************)
DeliveredOnce == PageNotes \cap (delivered \cup sdk.notes) = {}

(***************************************************************************)
(* A session returns every unspent note that existed when it began in the  *)
(* channels its cursor did not know, and without a cursor that is all of   *)
(* them, wherever the budget cut its requests short, and whatever was      *)
(* added meanwhile (discoverNotes, sync_incoming_state;                    *)
(* notesCursorToApiCursor counts channels).                                *)
(***************************************************************************)
CompleteDiscovery ==
    sdk.outcome = "complete" =>
        \A n \in sdk.began \ chain.spent :
            (n[1][1] \notin sdk.known /\ Passes(sdk.filter, n)) => n \in delivered

\* The cursor has as many channels, or a channel as many subchannels, as the service
\* takes, and their discovery has not been seen to end: nothing is ever dropped from
\* a cursor, so no request of the session will list one more.
Full(cursor) ==
    \/ /\ ~cursor.channel_discovery_complete
       /\ Cardinality(DOMAIN cursor.channels) >= max_channels
    \/ \E s \in DOMAIN cursor.channels :
          /\ ~cursor.channels[s].subchannel_discovery_complete
          /\ Cardinality(DOMAIN cursor.channels[s].subchannels) >= max_subchannels

(***************************************************************************)
(* Unless its cursor fills up, the loop of discoverNotes ends: every       *)
(* request makes progress although tasks that find the budget reserved by  *)
(* others do nothing.  With a full cursor the loop sends the same request  *)
(* for ever (discover_incoming_channels_paginated without a free slot,     *)
(* process_channel at max_subchannels).                                    *)
(***************************************************************************)
SessionEnds == (sdk.phase = "paging") ~> (sdk.phase = "idle" \/ Full(sdk.cursor))

=============================================================================
