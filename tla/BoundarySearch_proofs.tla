----------------------- MODULE BoundarySearch_proofs -----------------------
(***************************************************************************)
(* The two ways of finding notes by probing.  The service's boundary       *)
(* search is correct for every exponent, every start index and every       *)
(* number of notes, however the subchannel grows meanwhile.  The SDK's     *)
(* scans of the contract (ContractDiscovery) return each note once and     *)
(* never make up a channel, for every pool and every order in which the    *)
(* node answers.                                                           *)
(***************************************************************************)
EXTENDS BoundarySearch, ContractDiscovery, FiniteSetTheorems, WellFoundedInduction, TLAPS

\* A bisection step keeps the bounds apart and at least halves their distance.
LEMMA BisectHalves ==
    ASSUME NEW n \in Nat, NEW b \in [lower : Nat, upper : Nat], Unresolved(b)
    PROVE  /\ midpoint(b) \in Nat
           /\ b.lower < midpoint(b) /\ midpoint(b) < b.upper
           /\ bisect_boundary(n, b) \in [lower : Nat, upper : Nat]
           /\ bisect_boundary(n, b).lower < bisect_boundary(n, b).upper
           /\ 2 * (bisect_boundary(n, b).upper - bisect_boundary(n, b).lower)
                <= (b.upper - b.lower) + 1
PROOF
<1>1. b.lower \in Nat /\ b.upper \in Nat /\ b = [lower |-> b.lower, upper |-> b.upper]
  OBVIOUS
<1>2. midpoint(b) \in Nat /\ b.lower < midpoint(b) /\ midpoint(b) < b.upper
      /\ 2 * (midpoint(b) - b.lower) <= b.upper - b.lower
      /\ 2 * (b.upper - midpoint(b)) <= (b.upper - b.lower) + 1
  BY <1>1, SMT DEF Unresolved, midpoint
<1>3. CASE Exists(n, midpoint(b))
  <2>1. bisect_boundary(n, b) = [lower |-> midpoint(b), upper |-> b.upper]
    BY <1>1, <1>3 DEF bisect_boundary
  <2> QED BY <1>1, <1>2, <2>1
<1>4. CASE ~Exists(n, midpoint(b))
  <2>1. bisect_boundary(n, b) = [lower |-> b.lower, upper |-> midpoint(b)]
    BY <1>1, <1>4 DEF bisect_boundary
  <2> QED BY <1>1, <1>2, <2>1
<1> QED BY <1>3, <1>4

\* The distance between two consecutive probes is a power of two.
LEMMA ProbeGap ==
    ASSUME NEW k \in ProbeIndex \ {0}
    PROVE  /\ k - 1 \in ProbeIndex
           /\ probe_offset(k) \in Nat /\ probe_offset(k - 1) \in Nat
           /\ probe_offset(k) - probe_offset(k - 1) = Pow2[k - 1]
           /\ Pow2[k - 1] \in Nat \ {0}
PROOF
<1>1. k \in ProbeIndex /\ k - 1 \in ProbeIndex /\ k > 0
  BY LastNoteIndexAssumption DEF ProbeIndex
<1>2. Pow2[k - 1] \in Nat \ {0} /\ Pow2[k] \in Nat \ {0} /\ Pow2[k] = 2 * Pow2[k - 1]
  BY <1>1, LastNoteIndexAssumption
<1> QED BY <1>1, <1>2 DEF probe_offset

\* Halving a distance bounded by a power of two bounds it by the one before.
LEMMA HalvePow2 ==
    ASSUME NEW r \in ProbeIndex, NEW w \in Nat, NEW v \in Nat,
           w >= 2, w <= Pow2[r], 2 * v <= w + 1
    PROVE  r - 1 \in ProbeIndex /\ v <= Pow2[r - 1]
PROOF
<1>1. r # 0
  BY LastNoteIndexAssumption DEF ProbeIndex
<1>2. r - 1 \in ProbeIndex /\ Pow2[r] = 2 * Pow2[r - 1] /\ Pow2[r - 1] \in Nat
  BY <1>1, LastNoteIndexAssumption DEF ProbeIndex
<1> QED BY <1>2, SMT

\* A search that has not begun satisfies the invariant.
LEMMA SearchInit == Init => SearchInv
BY MaxNotesAssumption, LastNoteIndexAssumption
   DEF Init, SearchInv, TypeOK, NoBounds, BoundsInv, BoundaryCorrect, StepsReserved

\* SearchInv is inductive.
LEMMA SearchNext == SearchInv /\ [Next]_vars => SearchInv'
PROOF
<1> SUFFICES ASSUME SearchInv, [Next]_vars
             PROVE  SearchInv'
  OBVIOUS
<1> USE LastNoteIndexAssumption, MaxNotesAssumption
<1>0. TypeOK /\ known <= n_notes /\ max_note_log_index \in Nat
  BY DEF SearchInv
<1>1. CASE probe_empty
  <2>1. known' <= start'
    BY <1>0, <1>1 DEF probe_empty, FirstMiss, Exists, probe_offset, TypeOK, ProbeIndex
  <2> QED BY <1>0, <1>1, <2>1 DEF SearchInv, TypeOK, BoundsInv, BoundaryCorrect,
             StepsReserved, probe_empty
<1>2. CASE probe_bounds
  <2>1. PICK k \in ProbeIndex \ {0} : /\ FirstMiss(n_notes, start, k)
                                      /\ bounds' = exponential_probe(start, k)
    BY <1>2 DEF probe_bounds
  <2>2. /\ k - 1 \in ProbeIndex /\ probe_offset(k) \in Nat /\ probe_offset(k - 1) \in Nat
        /\ probe_offset(k) - probe_offset(k - 1) = Pow2[k - 1] /\ Pow2[k - 1] \in Nat \ {0}
    BY ProbeGap
  <2>3. /\ start + probe_offset(k - 1) < n_notes
        /\ ~(start + probe_offset(k) < n_notes)
    BY <2>1 DEF FirstMiss, Exists, ProbeIndex
  <2>4. bounds' = [lower |-> start + probe_offset(k - 1), upper |-> start + probe_offset(k)]
    BY <2>1 DEF exponential_probe
  <2>5. bounds' \in [lower : Nat, upper : Nat]
    BY <1>0, <2>2, <2>4 DEF TypeOK
  <2>6. /\ phase = "probe" /\ phase' = "bisect" /\ known' = n_notes /\ steps = 0
        /\ UNCHANGED <<n_notes, start, steps, total>>
    BY <1>2 DEF probe_bounds, SearchInv
  <2>7. TypeOK'
    BY <1>0, <2>5, <2>6 DEF TypeOK
  <2>8. BoundsInv'
    <3>1. /\ bounds'.upper - bounds'.lower <= Pow2[k - 1] /\ bounds'.lower < bounds'.upper
          /\ bounds'.lower < n_notes' /\ known' <= bounds'.upper
      BY <1>0, <2>2, <2>3, <2>4, <2>6 DEF TypeOK
    <3>2. steps' + (k - 1) <= max_note_log_index
      BY <1>0, <2>6, <2>2 DEF ProbeIndex
    <3> QED BY <2>2, <3>1, <3>2 DEF BoundsInv
  <2> QED BY <1>0, <2>6, <2>7, <2>8 DEF SearchInv, BoundaryCorrect, StepsReserved, TypeOK
<1>3. CASE probe_overflow
  BY <1>0, <1>3 DEF SearchInv, TypeOK, BoundsInv, BoundaryCorrect,
     StepsReserved, probe_overflow, AllProbesHit, Exists, probe_offset, ProbeIndex
<1>4. CASE bisect
  <2> DEFINE w == bounds.upper - bounds.lower
             v == bounds'.upper - bounds'.lower
  <2>1. /\ phase = "bisect" /\ Unresolved(bounds) /\ bounds' = bisect_boundary(n_notes, bounds)
        /\ steps' = steps + 1 /\ UNCHANGED <<phase, n_notes, known, start, total>>
    BY <1>4 DEF bisect
  <2>2. /\ midpoint(bounds) \in Nat /\ bounds' \in [lower : Nat, upper : Nat]
        /\ bounds'.lower < bounds'.upper /\ 2 * v <= w + 1
    BY <1>0, <2>1, BisectHalves DEF TypeOK
  <2>3. PICK r \in ProbeIndex : w <= Pow2[r] /\ steps + r <= max_note_log_index
    BY <2>1 DEF SearchInv, BoundsInv
  <2>4. w \in Nat /\ v \in Nat /\ w >= 2
    BY <1>0, <2>1, <2>2 DEF TypeOK, Unresolved
  <2>5. r - 1 \in ProbeIndex /\ v <= Pow2[r - 1]
    BY <2>2, <2>3, <2>4, HalvePow2
  <2>6. bounds'.lower < n_notes /\ known <= bounds'.upper
    <3>1. bounds.lower < n_notes /\ known <= bounds.upper
      BY <2>1 DEF SearchInv, BoundsInv
    <3>2. CASE Exists(n_notes, midpoint(bounds))
      BY <1>0, <2>1, <3>1, <3>2 DEF TypeOK, bisect_boundary, Exists
    <3>3. CASE ~Exists(n_notes, midpoint(bounds))
      BY <1>0, <2>1, <2>2, <3>1, <3>3 DEF TypeOK, bisect_boundary, Exists
    <3> QED BY <3>2, <3>3
  <2>7. steps' + (r - 1) <= max_note_log_index /\ steps' <= max_note_log_index
    BY <1>0, <2>1, <2>3, <2>5 DEF TypeOK, ProbeIndex
  <2>8. BoundsInv'
    BY <2>1, <2>2, <2>5, <2>6, <2>7 DEF BoundsInv
  <2> QED BY <1>0, <2>1, <2>2, <2>7, <2>8 DEF SearchInv, TypeOK, BoundaryCorrect, StepsReserved
<1>5. CASE finish
  <2>1. bounds.lower < n_notes /\ known <= bounds.upper /\ ~(bounds.lower + 1 < bounds.upper)
    BY <1>5 DEF finish, Unresolved, SearchInv, BoundsInv
  <2> QED BY <1>0, <1>5, <2>1 DEF finish, SearchInv, TypeOK, BoundsInv, BoundaryCorrect,
             StepsReserved
<1>6. CASE note_created
  <2>1. BoundsInv'
    BY <1>0, <1>6 DEF note_created, SearchInv, TypeOK, BoundsInv
  <2> QED BY <1>0, <1>6, <2>1 DEF note_created, SearchInv, TypeOK, BoundaryCorrect, StepsReserved
<1>7. CASE UNCHANGED vars
  BY <1>7 DEF vars, SearchInv, TypeOK, BoundsInv, BoundaryCorrect, StepsReserved
<1> QED BY <1>1, <1>2, <1>3, <1>4, <1>5, <1>6, <1>7 DEF Next

(***************************************************************************)
(* The search finds the number of notes, whatever the exponent, the start  *)
(* index and the growth of the subchannel (find_last_note_index).          *)
(***************************************************************************)
THEOREM BoundaryIsCorrect == Spec => []BoundaryCorrect
PROOF
<1>1. SearchInv => BoundaryCorrect
  BY DEF SearchInv
<1> QED BY SearchInit, SearchNext, <1>1, PTL DEF Spec

(***************************************************************************)
(* The bisection stays within the steps reserved for it, so the reclaim of *)
(* find_last_note_index never subtracts below zero.                        *)
(***************************************************************************)
THEOREM StepsAreReserved == Spec => []StepsReserved
PROOF
<1>1. SearchInv => StepsReserved
  BY DEF SearchInv
<1> QED BY SearchInit, SearchNext, <1>1, PTL DEF Spec
-----------------------------------------------------------------------------
(***************************************************************************)
(* Contract discovery: the inductive invariant.  A session has calls in    *)
(* flight; each will read some slots of a list.  What is to be found is    *)
(* found, or in a slot that a call in flight reaches, at the level of the  *)
(* note, of its subchannel or of its channel.                              *)
(***************************************************************************)
Probes ==
    {channelProbe} \cup {subchannelProbe(p) : p \in Peers}
    \cup UNION {{noteProbe(p, t) : t \in Tokens} : p \in Peers}

Scans == {"scan", "bisect", "touch"}
Reads == {"nullifier", "note"}
Lookups == {"get_public_key", "channel_exists"}

CallOK(c) ==
    /\ c \in [do : Scans \cup Reads \cup Lookups \cup {"get_num_of_channels"}, probe : Probes,
              at : Nat, lo : Nat, hi : Nat, step : Nat]
    /\ c.do = "scan" => c.lo <= c.at /\ c.step > 0
    /\ c.do = "bisect" => c.lo <= c.at /\ c.at < c.hi
    /\ c.do \in Reads => c.probe.on = "note"
    /\ c.do \in Lookups => c.probe.on = "subchannel"
    /\ c.do = "get_num_of_channels" => c.probe = channelProbe

\* The slots a call in flight leads to.
Reaches(c, i) ==
    \/ c.do \in {"scan", "get_num_of_channels"} /\ c.lo <= i
    \/ c.do = "bisect" /\ c.lo <= i /\ i < c.hi
    \/ c.do \in {"touch"} \cup Reads /\ i = c.at

Reached(calls, probe, i) == \E c \in calls : c.probe = probe /\ Reaches(c, i)

\* Storage only grows.
Starts(list, longer) == \A i \in DOMAIN list : i \in DOMAIN longer /\ longer[i] = list[i]

Grown(chain, now) ==
    /\ chain.keys \subseteq now.keys /\ chain.spent \subseteq now.spent
    /\ Starts(chain.channels, now.channels)
    /\ \A p \in Peers : Starts(chain.tokens[p], now.tokens[p])
    /\ \A p \in Peers, t \in Tokens : chain.count[p][t] <= now.count[p][t]

\* What a cursor says of the pool is true.
IncomingOK(r, tokens) ==
    /\ DOMAIN r = {"sub", "indexes"} /\ r.sub \in Nat
    /\ \A t \in DOMAIN r.indexes : t \in ToSet(tokens) /\ r.indexes[t] \in Nat

TokenOK(r, p, t, now) ==
    /\ r \in [index : Nat, nonce : Nat]
    /\ r.index + 1 \in DOMAIN now.tokens[p] /\ now.tokens[p][r.index + 1] = t
    /\ r.nonce <= now.count[p][t]

OutgoingOK(r, p, now) ==
    /\ DOMAIN r = {"key", "tokens"} /\ r.key \in BOOLEAN
    /\ r.key => p \in ToSet(now.channels)
    /\ \A t \in DOMAIN r.tokens : t \in Tokens /\ TokenOK(r.tokens[t], p, t, now)

CursorOK(c, now) ==
    /\ DOMAIN c = {"notes", "channels", "total"}
    /\ \A p \in DOMAIN c.notes : p \in ToSet(now.channels) /\ IncomingOK(c.notes[p], now.tokens[p])
    /\ \A p \in DOMAIN c.channels : p \in now.keys /\ OutgoingOK(c.channels[p], p, now)
    /\ c.total \in Nat /\ c.total <= Len(now.channels)

\* The channels seen are the first ones.
FirstKnown(seen, now) ==
    \E n \in 0 .. Len(now.channels) : seen = {now.channels[j] : j \in 1 .. n}

-----------------------------------------------------------------------------
(* NotesDiscovery.                                                         *)

\* The number of channels is read before they are, so none of those calls meets an
\* empty slot; a note that is read was not spent when the session began.
NotesCall(c, s, now) ==
    /\ c.do \notin Lookups
    /\ c.probe.on = "channel" =>
          \/ c.do = "get_num_of_channels" /\ c.lo <= Len(now.channels)
          \/ c.do = "bisect" /\ c.hi <= Len(now.channels)
          \/ c.do = "touch" /\ c.at < Len(now.channels)
    /\ c.do = "note" => Note(c.probe.peer, c.probe.token, c.at) \notin s.chain.spent

Wanted(s, now) ==
    {n \in NotesIn(s.chain) \ now.spent : s.asked = {} \/ n.token \in s.asked}

\* The note is found, or will be.
NoteAhead(s, calls, n) ==
    \/ n \in DOMAIN s.found
    \/ Reached(calls, noteProbe(n.peer, n.token), n.index)
    \/ \E k \in DOMAIN s.chain.tokens[n.peer] :
          s.chain.tokens[n.peer][k] = n.token /\ Reached(calls, subchannelProbe(n.peer), k - 1)
    \/ \E j \in DOMAIN s.chain.channels :
          s.chain.channels[j] = n.peer /\ Reached(calls, channelProbe, j - 1)

\* Every channel before one that is seen, or that a call is to read, is seen or will be.
Listed(seen, calls, now, i) == now.channels[i + 1] \in seen \/ Reached(calls, channelProbe, i)

InOrder(seen, calls, now) ==
    /\ \A j \in DOMAIN now.channels : now.channels[j] \in seen =>
          \A i \in Nat : i < j => Listed(seen, calls, now, i)
    /\ \A c \in calls : c.probe = channelProbe =>
          \A i \in Nat : i < (IF c.do = "touch" THEN c.at ELSE c.lo) => Listed(seen, calls, now, i)

\* A slot that was read.
Read(s, now, probe, i) ==
    \/ probe.on = "channel" /\ i + 1 \in DOMAIN now.channels /\ now.channels[i + 1] \in DOMAIN s.cursor.notes
    \/ probe.on = "subchannel" /\ i + 1 \in DOMAIN now.tokens[probe.peer]
       /\ now.tokens[probe.peer][i + 1] \in DOMAIN s.cursor.notes[probe.peer].indexes
    \/ probe.on = "note" /\ Note(probe.peer, probe.token, i) \in DOMAIN s.found

AllOnce(bag) == \A c \in DOMAIN bag : bag[c] = 1

\* Without a cursor, no slot is read by two calls, or twice, and nothing is read below
\* a slot that was not.
Below(s, p, t) == p \in DOMAIN s.cursor.notes /\ t \in DOMAIN s.cursor.notes[p].indexes

Once(s, calls, now) ==
    /\ AllOnce(s.pending) /\ AllOnce(s.found)
    /\ \A c, d \in calls : c # d /\ c.probe = d.probe => \A i \in Nat : ~(Reaches(c, i) /\ Reaches(d, i))
    /\ \A c \in calls : \A i \in Nat : Reaches(c, i) => ~Read(s, now, c.probe, i)
    /\ \A c \in calls : c.probe.on = "subchannel" => c.probe.peer \in DOMAIN s.cursor.notes
    /\ \A c \in calls : c.probe.on = "note" => Below(s, c.probe.peer, c.probe.token)
    /\ \A n \in DOMAIN s.found : Below(s, n.peer, n.token)

NotesInv(s, calls, now) ==
    /\ IsABag(s.found) /\ DOMAIN s.found \cap s.chain.spent = {}
    /\ \A c \in calls : NotesCall(c, s, now)
    /\ ~s.failed => \A n \in Wanted(s, now) : NoteAhead(s, calls, n)
    /\ ~s.failed => InOrder(DOMAIN s.cursor.notes, calls, now)
    /\ s.fresh => Once(s, calls, now)

-----------------------------------------------------------------------------
(* ChannelsDiscovery.                                                      *)

ChannelsCall(c, s) ==
    /\ c.do \in Scans \cup Lookups /\ (c.probe.on = "note" => c.do # "touch")
    /\ c.do = "channel_exists" => c.probe.peer \in DOMAIN s.cursor.channels

\* The notes of a subchannel are counted, or will be.
NotesAhead(s, calls, p, t) ==
    \/ s.chain.count[p][t] <= s.cursor.channels[p].tokens[t].nonce
    \/ s.chain.count[p][t] > 0 /\ Reached(calls, noteProbe(p, t), s.chain.count[p][t] - 1)

TokenAhead(s, calls, p, k) ==
    LET t == s.chain.tokens[p][k]
    IN  \/ Reached(calls, subchannelProbe(p), k - 1)
        \/ t \in DOMAIN s.cursor.channels[p].tokens /\ NotesAhead(s, calls, p, t)

LookedUp(calls, do, p) == \E c \in calls : c.do = do /\ c.probe = subchannelProbe(p)

\* So are the tokens of a channel whose key is known.
KeyedAhead(s, calls, p) ==
    /\ p \in DOMAIN s.cursor.channels /\ s.cursor.channels[p].key
    /\ \A k \in DOMAIN s.chain.tokens[p] : TokenAhead(s, calls, p, k)

ChannelAhead(s, calls, p) ==
    \/ s.asked = {"all"} /\ \E j \in DOMAIN s.chain.channels :
          s.chain.channels[j] = p /\ Reached(calls, channelProbe, j - 1)
    \/ \E do \in Lookups : LookedUp(calls, do, p)
    \/ KeyedAhead(s, calls, p)

ChannelsInv(s, calls, now) ==
    /\ FirstKnown(DOMAIN s.cursor.notes, now)
    /\ \A c \in calls : ChannelsCall(c, s)
    /\ ~s.failed /\ s.asked \in {{"all"}, {"total-only"}} =>
          \A j \in DOMAIN s.chain.channels : j <= s.cursor.total \/ Reached(calls, channelProbe, j - 1)
    /\ ~s.failed => \A p \in ToSet(s.chain.channels) :
          s.asked = {"all"} \/ p \in s.asked => ChannelAhead(s, calls, p)
    /\ ~s.failed => \A p \in s.asked \cap s.chain.keys :
          p \in DOMAIN s.cursor.channels \/ LookedUp(calls, "get_public_key", p)

-----------------------------------------------------------------------------
SessionFields == {"pc", "what", "asked", "fresh", "cursor", "chain", "pending", "found", "failed", "shared"}

SessionOK(s, now) ==
    /\ DOMAIN s = SessionFields
    /\ s.failed \in BOOLEAN
    /\ PoolOK(s.chain) /\ Grown(s.chain, now)
    /\ CursorOK(s.cursor, now)
    /\ IsABag(s.pending) /\ \A c \in DOMAIN s.pending : CallOK(c)
    /\ \/ s.what = "notes" /\ NotesInv(s, DOMAIN s.pending, now)
       \/ s.what = "channels" /\ ChannelsInv(s, DOMAIN s.pending, now)
    /\ s.pc = "returned" => s.pending = EmptyBag /\ ~s.failed

DiscoveryInv ==
    /\ PoolOK(pool)
    /\ CursorOK(cursor, pool) /\ FirstKnown(DOMAIN cursor.notes, pool)
    /\ session # NoSession => SessionOK(session, pool)

-----------------------------------------------------------------------------
(***************************************************************************)
(* Bags of calls and of notes.                                             *)
(***************************************************************************)

\* Adding a set: its members are in the bag afterwards.
LEMMA AddSet ==
    ASSUME NEW B, IsABag(B), NEW N
    PROVE  /\ IsABag(B (+) SetToBag(N)) /\ DOMAIN (B (+) SetToBag(N)) = DOMAIN B \cup N
           /\ AllOnce(B) /\ N \cap DOMAIN B = {} => AllOnce(B (+) SetToBag(N))
PROOF
<1> DEFINE R == B (+) SetToBag(N)
<1>1. \A e \in DOMAIN B : B[e] \in Nat /\ B[e] > 0
  BY DEF IsABag
<1>2. /\ DOMAIN R = DOMAIN B \cup N /\ R = [e \in DOMAIN R |-> R[e]]
      /\ \A e \in DOMAIN R : R[e] = (IF e \in DOMAIN B THEN B[e] ELSE 0) + (IF e \in N THEN 1 ELSE 0)
  BY DEF (+), SetToBag
<1> HIDE DEF R
<1>3. \A e \in DOMAIN R : R[e] \in Nat /\ R[e] > 0
  BY <1>1, <1>2
<1>4. AllOnce(B) /\ N \cap DOMAIN B = {} => AllOnce(R)
  BY <1>2 DEF AllOnce
<1>5. IsABag(R)
  BY <1>2, <1>3 DEF IsABag
<1> QED BY <1>2, <1>4, <1>5 DEF R

\* Taking one copy of a member away.
LEMMA TakeOne ==
    ASSUME NEW B, IsABag(B), NEW c \in DOMAIN B
    PROVE  /\ IsABag(B (-) SetToBag({c}))
           /\ DOMAIN B \ {c} \subseteq DOMAIN (B (-) SetToBag({c}))
           /\ DOMAIN (B (-) SetToBag({c})) \subseteq DOMAIN B
           /\ AllOnce(B) => AllOnce(B (-) SetToBag({c})) /\ DOMAIN (B (-) SetToBag({c})) = DOMAIN B \ {c}
PROOF
<1> DEFINE R == B (-) SetToBag({c})
<1>1. \A e \in DOMAIN B : B[e] \in Nat /\ B[e] > 0
  BY DEF IsABag
<1>2. /\ DOMAIN R \subseteq DOMAIN B /\ R = [e \in DOMAIN R |-> R[e]]
      /\ \A e \in DOMAIN B : e \in DOMAIN R <=> (IF e = c THEN B[e] - 1 ELSE B[e]) > 0
      /\ \A e \in DOMAIN R : R[e] = IF e = c THEN B[e] - 1 ELSE B[e]
  BY DEF (-), SetToBag
<1> HIDE DEF R
<1>3. \A e \in DOMAIN R : R[e] \in Nat /\ R[e] > 0
  BY <1>1, <1>2
<1>4. DOMAIN B \ {c} \subseteq DOMAIN R
  BY <1>1, <1>2
<1>5. ASSUME AllOnce(B) PROVE AllOnce(R) /\ DOMAIN R = DOMAIN B \ {c}
  <2>1. \A e \in DOMAIN B : B[e] = 1
    BY <1>5 DEF AllOnce
  <2>2. c \notin DOMAIN R
    BY <1>2, <2>1
  <2>3. DOMAIN R = DOMAIN B \ {c}
    BY <1>2, <1>4, <2>2
  <2> QED BY <1>2, <2>1, <2>3 DEF AllOnce
<1>6. IsABag(R)
  BY <1>2, <1>3 DEF IsABag
<1> QED BY <1>2, <1>4, <1>5, <1>6 DEF R

\* The empty bag.
LEMMA NothingPending == IsABag(EmptyBag) /\ DOMAIN EmptyBag = {} /\ AllOnce(EmptyBag)
PROOF
BY DEF IsABag, EmptyBag, SetToBag, AllOnce

\* A session with these calls added to those in flight, and nothing else changed.
Issued(s, r, N) ==
    /\ DOMAIN r = SessionFields /\ \A f \in SessionFields \ {"pending"} : r[f] = s[f]
    /\ IsABag(r.pending) /\ DOMAIN r.pending = DOMAIN s.pending \cup N
    /\ AllOnce(s.pending) /\ N \cap DOMAIN s.pending = {} => AllOnce(r.pending)

\* Track adds the calls to those in flight.
LEMMA TrackIssues ==
    ASSUME NEW s, DOMAIN s = SessionFields, IsABag(s.pending), NEW N
    PROVE  Issued(s, Track(s, N), N)
PROOF
<1> DEFINE B == s.pending (+) SetToBag(N)
<1>1. /\ IsABag(B) /\ DOMAIN B = DOMAIN s.pending \cup N
      /\ AllOnce(s.pending) /\ N \cap DOMAIN s.pending = {} => AllOnce(B)
  BY AddSet
<1>2. Track(s, N) = [s EXCEPT !.pending = B]
  BY DEF Track
<1> HIDE DEF B
<1>3. /\ DOMAIN Track(s, N) = SessionFields /\ Track(s, N).pending = B
      /\ \A f \in SessionFields \ {"pending"} : Track(s, N)[f] = s[f]
  BY <1>2 DEF SessionFields
<1> QED BY <1>1, <1>3 DEF Issued

\* A session that is left alone has no new call.
LEMMA NothingIssued ==
    ASSUME NEW s, DOMAIN s = SessionFields, IsABag(s.pending)
    PROVE  Issued(s, s, {})
PROOF
BY DEF Issued

\* Calls added in two lots, with none in both.
LEMMA IssuedTwice ==
    ASSUME NEW s, NEW r, NEW u, NEW N, NEW M, N \cap M = {}, Issued(s, r, N), Issued(r, u, M)
    PROVE  Issued(s, u, N \cup M)
PROOF
<1>1. /\ DOMAIN u = SessionFields /\ \A f \in SessionFields \ {"pending"} : u[f] = s[f]
      /\ IsABag(u.pending) /\ DOMAIN u.pending = DOMAIN s.pending \cup (N \cup M)
  BY DEF Issued
<1>2. ASSUME AllOnce(s.pending), (N \cup M) \cap DOMAIN s.pending = {} PROVE AllOnce(u.pending)
  <2>1. N \cap DOMAIN s.pending = {} /\ DOMAIN r.pending = DOMAIN s.pending \cup N
    BY <1>2 DEF Issued
  <2>2. AllOnce(r.pending) /\ M \cap DOMAIN r.pending = {}
    BY <1>2, <2>1 DEF Issued
  <2> QED BY <2>2 DEF Issued
<1> QED BY <1>1, <1>2 DEF Issued

-----------------------------------------------------------------------------
(***************************************************************************)
(* The calls of a scan.                                                    *)
(***************************************************************************)
TouchSet(probe, lo, hi) == {Call("touch", probe, i, 0, 0, 0) : i \in lo .. hi - 1}
BisectSet(probe, lo, hi) ==
    IF lo >= hi THEN {} ELSE {Call("bisect", probe, (lo + hi) \div 2, lo, hi, 0)}

\* What a scan or a bisection goes on with.
Onward(c, filled, touches) ==
    CASE c.do = "scan" /\ filled ->
            (IF touches THEN TouchSet(c.probe, c.lo, c.at) ELSE {})
            \cup {Call("scan", c.probe, c.at + c.step, c.at + 1, c.hi, 2 * c.step)}
      [] c.do = "bisect" /\ filled ->
            (IF touches THEN TouchSet(c.probe, c.lo, c.at) ELSE {}) \cup BisectSet(c.probe, c.at + 1, c.hi)
      [] c.do \in {"scan", "bisect"} /\ ~filled -> BisectSet(c.probe, c.lo, c.at)
      [] OTHER -> {}

\* The fields of a call.
LEMMA CallFields ==
    ASSUME NEW do, NEW probe, NEW at, NEW lo, NEW hi, NEW step
    PROVE  /\ Call(do, probe, at, lo, hi, step).do = do /\ Call(do, probe, at, lo, hi, step).probe = probe
           /\ Call(do, probe, at, lo, hi, step).at = at /\ Call(do, probe, at, lo, hi, step).lo = lo
           /\ Call(do, probe, at, lo, hi, step).hi = hi /\ Call(do, probe, at, lo, hi, step).step = step
           /\ DOMAIN Call(do, probe, at, lo, hi, step) = {"do", "probe", "at", "lo", "hi", "step"}
PROOF
BY DEF Call

\* The fields of a well-formed call have their types.
LEMMA CallTyped ==
    ASSUME NEW c, CallOK(c)
    PROVE  /\ c.probe \in Probes /\ c.at \in Nat /\ c.lo \in Nat /\ c.hi \in Nat /\ c.step \in Nat
           /\ c.do \in Scans \cup Reads \cup Lookups \cup {"get_num_of_channels"}
           /\ c = Call(c.do, c.probe, c.at, c.lo, c.hi, c.step)
PROOF
BY DEF CallOK, Call

\* A new call is well formed.
LEMMA TouchOK ==
    ASSUME NEW probe \in Probes, NEW lo \in Nat, NEW hi \in Nat, NEW d \in TouchSet(probe, lo, hi)
    PROVE  /\ CallOK(d) /\ d.probe = probe /\ d.do = "touch" /\ d.at \in Nat /\ lo <= d.at /\ d.at < hi
           /\ d = Call("touch", probe, d.at, 0, 0, 0)
           /\ \A i \in Nat : Reaches(d, i) <=> i = d.at
PROOF
<1>1. PICK i \in lo .. hi - 1 : d = Call("touch", probe, i, 0, 0, 0)
  BY DEF TouchSet
<1>2. /\ d.probe = probe /\ d.do = "touch" /\ d.at = i /\ d.lo = 0 /\ d.hi = 0 /\ d.step = 0
  BY <1>1, CallFields
<1>3. i \in Nat /\ lo <= i /\ i < hi
  OBVIOUS
<1>4. CallOK(d)
  BY <1>1, <1>2, <1>3 DEF CallOK, Scans, Reads, Lookups, Call
<1>5. \A j \in Nat : Reaches(d, j) <=> j = d.at
  BY <1>2 DEF Reaches, Reads
<1> QED BY <1>1, <1>2, <1>3, <1>4, <1>5

\* A bisection reads between its two bounds.
LEMMA BisectOK ==
    ASSUME NEW probe \in Probes, NEW lo \in Nat, NEW hi \in Nat, NEW d \in BisectSet(probe, lo, hi)
    PROVE  /\ CallOK(d) /\ d.probe = probe /\ d.do = "bisect" /\ d.lo = lo /\ d.hi = hi /\ lo < hi
           /\ \A i \in Nat : Reaches(d, i) <=> lo <= i /\ i < hi
PROOF
<1> DEFINE m == (lo + hi) \div 2
<1>1. lo < hi /\ d = Call("bisect", probe, m, lo, hi, 0)
  BY DEF BisectSet
<1>2. m \in Nat /\ lo <= m /\ m < hi
  BY <1>1
<1> HIDE DEF m
<1>3. /\ d.probe = probe /\ d.do = "bisect" /\ d.at = m /\ d.lo = lo /\ d.hi = hi /\ d.step = 0
  BY <1>1, CallFields
<1>4. CallOK(d)
  BY <1>1, <1>2, <1>3 DEF CallOK, Scans, Reads, Lookups, Call
<1>5. \A i \in Nat : Reaches(d, i) <=> lo <= i /\ i < hi
  BY <1>3 DEF Reaches, Reads
<1> QED BY <1>1, <1>3, <1>4, <1>5

\* There is a bisection between two bounds apart.
LEMMA BisectThere ==
    ASSUME NEW probe, NEW lo \in Nat, NEW hi \in Nat, lo < hi
    PROVE  \E d \in BisectSet(probe, lo, hi) : TRUE
PROOF
BY DEF BisectSet

\* A scan reads from its lower bound on.
LEMMA ScanOK ==
    ASSUME NEW probe \in Probes, NEW at \in Nat, NEW lo \in Nat, NEW hi \in Nat, NEW step \in Nat,
           lo <= at, step > 0
    PROVE  LET d == Call("scan", probe, at, lo, hi, step)
           IN  /\ CallOK(d) /\ d.probe = probe /\ d.do = "scan" /\ d.lo = lo
               /\ \A i \in Nat : Reaches(d, i) <=> lo <= i
PROOF
<1> DEFINE d == Call("scan", probe, at, lo, hi, step)
<1>1. /\ d.probe = probe /\ d.do = "scan" /\ d.at = at /\ d.lo = lo /\ d.hi = hi /\ d.step = step
  BY CallFields
<1>2. CallOK(d)
  BY <1>1 DEF CallOK, Scans, Reads, Lookups, Call
<1>3. \A i \in Nat : Reaches(d, i) <=> lo <= i
  BY <1>1 DEF Reaches, Reads
<1> QED BY <1>1, <1>2, <1>3

\* A scan, wherever it starts, reaches every slot.
LEMMA ScanFromOK ==
    ASSUME NEW probe \in Probes, NEW from \in Nat
    PROVE  /\ CallOK(ScanFrom(probe, from)) /\ ScanFrom(probe, from).probe = probe
           /\ ScanFrom(probe, from).do = "scan"
           /\ \A i \in Nat : Reaches(ScanFrom(probe, from), i)
PROOF
<1>1. /\ from + INITIAL_OFFSET \in Nat /\ 0 <= from + INITIAL_OFFSET /\ INITIAL_STEP \in Nat /\ INITIAL_STEP > 0
  BY ScanAssumption
<1>2. ScanFrom(probe, from) = Call("scan", probe, from + INITIAL_OFFSET, 0, 0, INITIAL_STEP)
  BY DEF ScanFrom
<1> QED BY <1>1, <1>2, ScanOK

\* What a scan or a bisection goes on with leads to the slots it had before it and after
\* it, each to others.
LEMMA OnwardOK ==
    ASSUME NEW c, CallOK(c), c.do \in Scans, NEW filled \in BOOLEAN, NEW touches \in BOOLEAN
    PROVE  /\ \A d \in Onward(c, filled, touches) :
                 /\ CallOK(d) /\ d.probe = c.probe /\ d.do \in Scans
                 /\ \A i \in Nat : Reaches(d, i) => Reaches(c, i) /\ i # c.at
                 /\ d.do = "touch" => touches /\ filled /\ d.at < c.at
                 /\ d.do = "bisect" /\ c.do = "bisect" => d.hi <= c.hi
                 /\ d.do = "scan" => c.do = "scan"
                 /\ d.do # "touch" => d.lo = IF filled THEN c.at + 1 ELSE c.lo
           /\ \A d, e \in Onward(c, filled, touches) :
                 d # e => \A i \in Nat : ~(Reaches(d, i) /\ Reaches(e, i))
PROOF
<1> DEFINE T == TouchSet(c.probe, c.lo, c.at)
           U == Call("scan", c.probe, c.at + c.step, c.at + 1, c.hi, 2 * c.step)
           V == BisectSet(c.probe, c.at + 1, c.hi)
           W == BisectSet(c.probe, c.lo, c.at)
<1>1. c.probe \in Probes /\ c.at \in Nat /\ c.lo \in Nat /\ c.hi \in Nat /\ c.step \in Nat
  BY CallTyped
<1>2. c.do = "scan" => c.lo <= c.at /\ c.step > 0
  BY DEF CallOK
<1>3. c.do = "bisect" => c.lo <= c.at /\ c.at < c.hi
  BY DEF CallOK
<1>4. \A d \in T : /\ CallOK(d) /\ d.probe = c.probe /\ d.do = "touch" /\ d.at \in Nat /\ c.lo <= d.at
                   /\ d.at < c.at /\ d = Call("touch", c.probe, d.at, 0, 0, 0)
                   /\ \A i \in Nat : Reaches(d, i) <=> i = d.at
  BY <1>1, TouchOK
<1>5. c.do = "scan" => /\ CallOK(U) /\ U.probe = c.probe /\ U.do = "scan" /\ U.lo = c.at + 1
                       /\ \A i \in Nat : Reaches(U, i) <=> c.at + 1 <= i
  <2> SUFFICES ASSUME c.do = "scan" PROVE /\ CallOK(U) /\ U.probe = c.probe /\ U.do = "scan" /\ U.lo = c.at + 1
                                          /\ \A i \in Nat : Reaches(U, i) <=> c.at + 1 <= i
    OBVIOUS
  <2>1. c.at + c.step \in Nat /\ c.at + 1 \in Nat /\ 2 * c.step \in Nat /\ c.at + 1 <= c.at + c.step /\ 2 * c.step > 0
    BY <1>1, <1>2
  <2> DEFINE a == c.at + c.step
             l == c.at + 1
             m == 2 * c.step
  <2>2. a \in Nat /\ l \in Nat /\ m \in Nat /\ l <= a /\ m > 0 /\ U = Call("scan", c.probe, a, l, c.hi, m)
    BY <2>1
  <2> HIDE DEF a, l, m, U
  <2>3. /\ CallOK(U) /\ U.probe = c.probe /\ U.do = "scan" /\ U.lo = l
        /\ \A i \in Nat : Reaches(U, i) <=> l <= i
    BY <1>1, <2>2, ScanOK
  <2> QED BY <2>3 DEF l
<1>6. \A d \in V : /\ CallOK(d) /\ d.probe = c.probe /\ d.do = "bisect" /\ d.lo = c.at + 1 /\ d.hi = c.hi
                   /\ \A i \in Nat : Reaches(d, i) <=> c.at + 1 <= i /\ i < c.hi
  <2>1. c.at + 1 \in Nat
    BY <1>1
  <2> QED BY <1>1, <2>1, BisectOK
<1>7. \A d \in W : /\ CallOK(d) /\ d.probe = c.probe /\ d.do = "bisect" /\ d.lo = c.lo /\ d.hi = c.at
                   /\ \A i \in Nat : Reaches(d, i) <=> c.lo <= i /\ i < c.at
  BY <1>1, BisectOK
<1>8. \A d, e \in V : d = e
  BY DEF BisectSet
<1>9. \A d, e \in W : d = e
  BY DEF BisectSet
<1>10. /\ c.do = "scan" => \A i \in Nat : Reaches(c, i) <=> c.lo <= i
       /\ c.do = "bisect" => \A i \in Nat : Reaches(c, i) <=> c.lo <= i /\ i < c.hi
  BY DEF Reaches, Reads
<1>11. CASE c.do = "scan" /\ filled
  <2>1. Onward(c, filled, touches) = (IF touches THEN T ELSE {}) \cup {U}
    BY <1>11 DEF Onward
  <2> HIDE DEF T, U
  <2>2. U.do = "scan" /\ \A d \in Onward(c, filled, touches) : d = U \/ (d \in T /\ touches)
    BY <1>5, <1>11, <2>1
  <2>3. ASSUME NEW d \in Onward(c, filled, touches)
        PROVE  /\ CallOK(d) /\ d.probe = c.probe /\ d.do \in Scans
               /\ \A i \in Nat : Reaches(d, i) => Reaches(c, i) /\ i # c.at
               /\ d.do = "touch" => touches /\ filled /\ d.at < c.at
               /\ d.do = "bisect" /\ c.do = "bisect" => d.hi <= c.hi
               /\ d.do = "scan" => c.do = "scan"
               /\ d.do # "touch" => d.lo = IF filled THEN c.at + 1 ELSE c.lo
    <3>1. CASE d = U
      BY <1>1, <1>2, <1>5, <1>10, <1>11, <3>1 DEF Scans
    <3>2. CASE d \in T /\ touches
      BY <1>1, <1>2, <1>4, <1>10, <1>11, <3>2 DEF Scans
    <3> QED BY <2>2, <3>1, <3>2
  <2>4. ASSUME NEW d \in Onward(c, filled, touches), NEW e \in Onward(c, filled, touches), d # e, NEW i \in Nat
        PROVE  ~(Reaches(d, i) /\ Reaches(e, i))
    <3>1. CASE d \in T /\ e \in T
      BY <1>4, <2>4, <3>1
    <3>2. CASE d = U \/ e = U
      <4>1. \A f \in T : ~(Reaches(U, i) /\ Reaches(f, i))
        BY <1>1, <1>4, <1>5, <1>11
      <4> QED BY <2>2, <2>4, <3>2, <4>1
    <3> QED BY <2>2, <3>1, <3>2
  <2> QED BY <2>3, <2>4
<1>12. CASE c.do = "bisect" /\ filled
  <2>1. Onward(c, filled, touches) = (IF touches THEN T ELSE {}) \cup V
    BY <1>12 DEF Onward
  <2> HIDE DEF T, V
  <2>2. \A d \in Onward(c, filled, touches) : d \in V \/ (d \in T /\ touches)
    BY <2>1
  <2>3. ASSUME NEW d \in Onward(c, filled, touches)
        PROVE  /\ CallOK(d) /\ d.probe = c.probe /\ d.do \in Scans
               /\ \A i \in Nat : Reaches(d, i) => Reaches(c, i) /\ i # c.at
               /\ d.do = "touch" => touches /\ filled /\ d.at < c.at
               /\ d.do = "bisect" /\ c.do = "bisect" => d.hi <= c.hi
               /\ d.do = "scan" => c.do = "scan"
               /\ d.do # "touch" => d.lo = IF filled THEN c.at + 1 ELSE c.lo
    <3>1. CASE d \in V
      BY <1>1, <1>3, <1>6, <1>10, <1>12, <3>1 DEF Scans
    <3>2. CASE d \in T /\ touches
      BY <1>1, <1>3, <1>4, <1>10, <1>12, <3>2 DEF Scans
    <3> QED BY <2>2, <3>1, <3>2
  <2>4. ASSUME NEW d \in Onward(c, filled, touches), NEW e \in Onward(c, filled, touches), d # e, NEW i \in Nat
        PROVE  ~(Reaches(d, i) /\ Reaches(e, i))
    <3>1. CASE d \in T /\ e \in T
      BY <1>4, <2>4, <3>1
    <3>2. CASE d \in V \/ e \in V
      <4>1. \A f \in T, g \in V : ~(Reaches(g, i) /\ Reaches(f, i))
        BY <1>1, <1>4, <1>6
      <4> QED BY <1>8, <2>2, <2>4, <3>2, <4>1
    <3> QED BY <2>2, <3>1, <3>2
  <2> QED BY <2>3, <2>4
<1>13. CASE c.do \in {"scan", "bisect"} /\ ~filled
  <2>1. Onward(c, filled, touches) = W
    BY <1>13 DEF Onward
  <2> HIDE DEF W
  <2> QED BY <1>1, <1>2, <1>3, <1>7, <1>9, <1>10, <1>13, <2>1 DEF Scans
<1>14. CASE c.do = "touch"
  <2>1. Onward(c, filled, touches) = {}
    BY <1>14 DEF Onward
  <2> QED BY <2>1
<1> QED BY <1>11, <1>12, <1>13, <1>14 DEF Scans

\* A slot that is filled is not lost: it is the one just read, or is reached by what
\* follows, unless the slots before one that is filled are passed over.
LEMMA OnwardReaches ==
    ASSUME NEW c, CallOK(c), c.do \in Scans, NEW touches \in BOOLEAN, NEW n \in Nat,
           NEW i \in Nat, Reaches(c, i), i < n
    PROVE  \/ i = c.at /\ c.at < n
           \/ \E d \in Onward(c, c.at < n, touches) : Reaches(d, i)
           \/ ~touches /\ c.at < n /\ i < c.at
PROOF
<1> SUFFICES ASSUME ~(i = c.at /\ c.at < n), ~(~touches /\ c.at < n /\ i < c.at)
             PROVE  \E d \in Onward(c, c.at < n, touches) : Reaches(d, i)
  OBVIOUS
<1>1. c.probe \in Probes /\ c.at \in Nat /\ c.lo \in Nat /\ c.hi \in Nat /\ c.step \in Nat
  BY CallTyped
<1>2. /\ c.do = "scan" => c.lo <= i /\ c.lo <= c.at /\ c.step > 0
      /\ c.do = "bisect" => c.lo <= i /\ i < c.hi /\ c.lo <= c.at /\ c.at < c.hi
      /\ c.do # "touch"
  BY <1>1 DEF Reaches, Reads, CallOK, Scans
<1>3. CASE c.at < n /\ i < c.at
  <2> DEFINE d == Call("touch", c.probe, i, 0, 0, 0)
  <2>1. d \in TouchSet(c.probe, c.lo, c.at)
    BY <1>1, <1>2, <1>3 DEF TouchSet, Scans
  <2>2. Reaches(d, i)
    BY CallFields DEF Reaches, Reads
  <2>3. d \in Onward(c, c.at < n, touches)
    BY <1>2, <1>3, <2>1 DEF Onward, Scans
  <2> QED BY <2>2, <2>3
<1>4. CASE c.at < n /\ c.at < i /\ c.do = "scan"
  <2> DEFINE d == Call("scan", c.probe, c.at + c.step, c.at + 1, c.hi, 2 * c.step)
  <2>1. d \in Onward(c, c.at < n, touches)
    BY <1>4 DEF Onward
  <2>2. d.do = "scan" /\ d.lo = c.at + 1
    BY CallFields
  <2>3. c.at + 1 <= i
    BY <1>1, <1>4
  <2> HIDE DEF d
  <2> QED BY <2>1, <2>2, <2>3 DEF Reaches
<1>5. CASE c.at < n /\ c.at < i /\ c.do = "bisect"
  <2>1. c.at + 1 \in Nat /\ c.at + 1 < c.hi /\ c.at + 1 <= i
    BY <1>1, <1>2, <1>5
  <2>2. PICK d \in BisectSet(c.probe, c.at + 1, c.hi) : TRUE
    BY <1>1, <2>1, BisectThere
  <2>3. d \in Onward(c, c.at < n, touches)
    BY <1>5, <2>2 DEF Onward
  <2>4. Reaches(d, i)
    BY <1>1, <1>2, <1>5, <2>1, <2>2, BisectOK
  <2> QED BY <2>3, <2>4
<1>6. CASE ~(c.at < n)
  <2>1. c.lo <= i /\ i < c.at /\ c.lo < c.at
    BY <1>1, <1>2, <1>6 DEF Scans
  <2>2. PICK d \in BisectSet(c.probe, c.lo, c.at) : TRUE
    BY <1>1, <2>1, BisectThere
  <2>3. d \in Onward(c, c.at < n, touches)
    BY <1>2, <1>6, <2>2 DEF Onward, Scans
  <2>4. Reaches(d, i)
    BY <1>1, <2>1, <2>2, BisectOK
  <2> QED BY <2>3, <2>4
<1> QED BY <1>1, <1>2, <1>3, <1>4, <1>5, <1>6 DEF Scans

\* The model's step: those calls are issued, and nothing else changes.
LEMMA ContinueIssues ==
    ASSUME NEW s, DOMAIN s = SessionFields, IsABag(s.pending), NEW c, CallOK(c), NEW filled \in BOOLEAN
    PROVE  Issued(s, Continue(s, c, filled), Onward(c, filled, ~lengthOnly(s, c.probe)))
PROOF
<1> DEFINE touches == ~lengthOnly(s, c.probe)
           T == IF touches THEN TouchSet(c.probe, c.lo, c.at) ELSE {}
           r == Touch(s, c.probe, c.lo, c.at)
<1>1. Issued(s, r, T)
  <2>1. CASE touches
    BY <2>1, TrackIssues DEF Touch, TouchSet
  <2>2. CASE ~touches
    BY <2>2, NothingIssued DEF Touch
  <2> QED BY <2>1, <2>2
<1>2. ASSUME NEW u, DOMAIN u = SessionFields, IsABag(u.pending), NEW lo, NEW hi
      PROVE  Issued(u, Bisect(u, c.probe, lo, hi), BisectSet(c.probe, lo, hi))
  <2>1. CASE lo >= hi
    BY <1>2, <2>1, NothingIssued DEF Bisect, BisectSet
  <2>2. CASE ~(lo >= hi)
    BY <1>2, <2>2, TrackIssues DEF Bisect, BisectSet
  <2> QED BY <2>1, <2>2
<1>3. DOMAIN r = SessionFields /\ IsABag(r.pending)
  BY <1>1 DEF Issued
<1>4. \A d \in T : d.do = "touch"
  BY CallFields DEF TouchSet
<1> HIDE DEF r, T, touches
<1>5. CASE c.do = "scan" /\ filled
  <2> DEFINE d == Call("scan", c.probe, c.at + c.step, c.at + 1, c.hi, 2 * c.step)
  <2>2. Continue(s, c, filled) = Track(r, {d})
    BY <1>5 DEF Continue, r
  <2>3. Onward(c, filled, touches) = T \cup {d}
    BY <1>5 DEF Onward, T
  <2>4. d.do = "scan"
    BY CallFields
  <2> HIDE DEF d
  <2>5. T \cap {d} = {}
    BY <1>4, <2>4
  <2>6. Issued(r, Track(r, {d}), {d})
    BY <1>3, TrackIssues
  <2>7. Issued(s, Track(r, {d}), T \cup {d})
    BY <1>1, <2>5, <2>6, IssuedTwice
  <2> QED BY <2>2, <2>3, <2>7 DEF touches
<1>6. CASE c.do = "bisect" /\ filled
  <2> DEFINE V == BisectSet(c.probe, c.at + 1, c.hi)
             u == Bisect(r, c.probe, c.at + 1, c.hi)
  <2>1. Continue(s, c, filled) = u
    BY <1>6 DEF Continue, r
  <2>2. Onward(c, filled, touches) = T \cup V
    BY <1>6 DEF Onward, T
  <2>3. \A d \in V : d.do = "bisect"
    BY CallFields DEF BisectSet
  <2>4. Issued(r, u, V)
    BY <1>2, <1>3
  <2> HIDE DEF V, u
  <2>5. T \cap V = {}
    BY <1>4, <2>3
  <2>6. Issued(s, u, T \cup V)
    BY <1>1, <2>4, <2>5, IssuedTwice
  <2> QED BY <2>1, <2>2, <2>6 DEF touches
<1>7. CASE c.do \in {"scan", "bisect"} /\ ~filled
  <2>1. Continue(s, c, filled) = Bisect(s, c.probe, c.lo, c.at)
    BY <1>7 DEF Continue
  <2>2. Onward(c, filled, touches) = BisectSet(c.probe, c.lo, c.at)
    BY <1>7 DEF Onward
  <2> QED BY <1>2, <2>1, <2>2 DEF touches
<1>8. CASE c.do \notin {"scan", "bisect"}
  <2>1. Continue(s, c, filled) = s
    BY <1>8 DEF Continue
  <2>2. Onward(c, filled, touches) = {}
    BY <1>8 DEF Onward
  <2> QED BY <2>1, <2>2, NothingIssued DEF touches
<1> QED BY <1>5, <1>6, <1>7, <1>8

-----------------------------------------------------------------------------
(***************************************************************************)
(* What a call reads.                                                      *)
(***************************************************************************)

\* The three kinds of list.
LEMMA ProbeKinds ==
    ASSUME NEW q \in Probes
    PROVE  \/ q.on = "channel" /\ q = channelProbe
           \/ q.on = "subchannel" /\ q.peer \in Peers /\ q = subchannelProbe(q.peer)
           \/ q.on = "note" /\ q.peer \in Peers /\ q.token \in Tokens /\ q = noteProbe(q.peer, q.token)
PROOF
<1>1. CASE q = channelProbe
  BY <1>1 DEF channelProbe, Probe
<1>2. CASE \E p \in Peers : q = subchannelProbe(p)
  BY <1>2 DEF subchannelProbe, Probe
<1>3. CASE \E p \in Peers : \E t \in Tokens : q = noteProbe(p, t)
  BY <1>3 DEF noteProbe, Probe
<1> QED BY <1>1, <1>2, <1>3 DEF Probes

\* Lists that differ in kind, in peer or in token are different lists.
LEMMA ProbeFields ==
    /\ channelProbe.on = "channel" /\ channelProbe \in Probes
    /\ \A p : subchannelProbe(p).on = "subchannel" /\ subchannelProbe(p).peer = p
    /\ \A p, t : noteProbe(p, t).on = "note" /\ noteProbe(p, t).peer = p /\ noteProbe(p, t).token = t
    /\ \A p \in Peers : subchannelProbe(p) \in Probes
    /\ \A p \in Peers, t \in Tokens : noteProbe(p, t) \in Probes
PROOF
<1>1. /\ channelProbe.on = "channel"
      /\ \A p : subchannelProbe(p).on = "subchannel" /\ subchannelProbe(p).peer = p
      /\ \A p, t : noteProbe(p, t).on = "note" /\ noteProbe(p, t).peer = p /\ noteProbe(p, t).token = t
  BY DEF channelProbe, subchannelProbe, noteProbe, Probe
<1>2. /\ channelProbe \in Probes /\ \A p \in Peers : subchannelProbe(p) \in Probes
  BY DEF Probes
<1>3. \A p \in Peers, t \in Tokens : noteProbe(p, t) \in Probes
  BY DEF Probes
<1> QED BY <1>1, <1>2, <1>3

\* The number of slots of a list that are filled.
Slots(probe) ==
    CASE probe.on = "channel"    -> Len(pool.channels)
      [] probe.on = "subchannel" -> Len(pool.tokens[probe.peer])
      [] probe.on = "note"       -> pool.count[probe.peer][probe.token]

\* What the contract's storage holds.
LEMMA PoolTyped ==
    ASSUME NEW chain, PoolOK(chain)
    PROVE  /\ chain.channels \in Seq(Peers) /\ chain.keys \subseteq Peers
           /\ \A p \in Peers : chain.tokens[p] \in Seq(Tokens) /\ Distinct(chain.tokens[p])
           /\ \A p \in Peers, t \in Tokens : chain.count[p][t] \in Nat
           /\ Distinct(chain.channels) /\ ToSet(chain.channels) \subseteq chain.keys
           /\ chain.spent \subseteq NotesIn(chain)
PROOF
<1>1. chain \in [keys : SUBSET Peers, channels : Seq(Peers), tokens : [Peers -> Seq(Tokens)],
                  count : [Peers -> [Tokens -> Nat]], spent : SUBSET NotesIn(chain)]
  BY DEF PoolOK
<1>2. /\ chain.channels \in Seq(Peers) /\ chain.keys \subseteq Peers
      /\ chain.tokens \in [Peers -> Seq(Tokens)] /\ chain.count \in [Peers -> [Tokens -> Nat]]
      /\ chain.spent \subseteq NotesIn(chain)
  BY <1>1
<1>3. /\ \A p \in Peers : Distinct(chain.tokens[p])
      /\ Distinct(chain.channels) /\ ToSet(chain.channels) \subseteq chain.keys
  BY DEF PoolOK
<1> QED BY <1>2, <1>3

\* A view finds something exactly in the slots that are filled.
LEMMA FilledSlots ==
    ASSUME PoolOK(pool), NEW probe \in Probes, NEW i \in Nat
    PROVE  Slots(probe) \in Nat /\ (Filled(probe, i) <=> i < Slots(probe)) /\ Filled(probe, i) \in BOOLEAN
PROOF
<1>1. /\ Len(pool.channels) \in Nat
      /\ \A p \in Peers : Len(pool.tokens[p]) \in Nat
      /\ \A p \in Peers, t \in Tokens : pool.count[p][t] \in Nat
  BY PoolTyped
<1>2. CASE probe.on = "channel"
  BY <1>1, <1>2 DEF Slots, Filled
<1>3. CASE probe.on = "subchannel" /\ probe.peer \in Peers
  BY <1>1, <1>3 DEF Slots, Filled
<1>4. CASE probe.on = "note" /\ probe.peer \in Peers /\ probe.token \in Tokens
  BY <1>1, <1>4 DEF Slots, Filled
<1> QED BY <1>2, <1>3, <1>4, ProbeKinds

\* The larger of two numbers.
LEMMA LargerOfTwo ==
    ASSUME NEW a \in Nat, NEW b \in Nat
    PROVE  Max({a, b}) \in Nat /\ a <= Max({a, b}) /\ b <= Max({a, b}) /\ Max({a, b}) \in {a, b}
PROOF
<1>1. \E x \in {a, b} : \A y \in {a, b} : x >= y
  <2>1. CASE a >= b
    BY <2>1
  <2>2. CASE b >= a
    BY <2>2
  <2> QED BY <2>1, <2>2
<1>2. Max({a, b}) \in {a, b} /\ \A y \in {a, b} : Max({a, b}) >= y
  BY <1>1 DEF Max
<1> QED BY <1>2

-----------------------------------------------------------------------------
(***************************************************************************)
(* A call is answered: it leaves the bag, and others enter it.             *)
(***************************************************************************)
Fixed == {"pc", "what", "asked", "fresh", "chain"}

InFlight(s, r, c, N) ==
    /\ IsABag(r.pending)
    /\ (DOMAIN s.pending \ {c}) \cup N \subseteq DOMAIN r.pending
    /\ DOMAIN r.pending \subseteq DOMAIN s.pending \cup N
    /\ AllOnce(s.pending) /\ N \cap (DOMAIN s.pending \ {c}) = {} =>
          AllOnce(r.pending) /\ DOMAIN r.pending = (DOMAIN s.pending \ {c}) \cup N

\* The session without the call, and then with those it leads to.
LEMMA AnswerIssues ==
    ASSUME NEW s, DOMAIN s = SessionFields, IsABag(s.pending), NEW c \in DOMAIN s.pending,
           NEW u, u.pending = s.pending (-) SetToBag({c}), NEW r, NEW N, Issued(u, r, N)
    PROVE  InFlight(s, r, c, N)
PROOF
<1> DEFINE B == s.pending (-) SetToBag({c})
<1>1. /\ IsABag(B) /\ DOMAIN s.pending \ {c} \subseteq DOMAIN B /\ DOMAIN B \subseteq DOMAIN s.pending
      /\ AllOnce(s.pending) => AllOnce(B) /\ DOMAIN B = DOMAIN s.pending \ {c}
  BY TakeOne
<1>2. u.pending = B
  OBVIOUS
<1> HIDE DEF B
<1>3. /\ IsABag(r.pending) /\ DOMAIN r.pending = DOMAIN B \cup N
      /\ AllOnce(B) /\ N \cap DOMAIN B = {} => AllOnce(r.pending)
  BY <1>2 DEF Issued
<1> QED BY <1>1, <1>3 DEF InFlight

\* The session without the call.
Without(s, c) == [s EXCEPT !.pending = @ (-) SetToBag({c})]

\* Taking a call out of flight changes nothing else.
LEMMA TakenOut ==
    ASSUME NEW s, DOMAIN s = SessionFields, IsABag(s.pending), NEW c \in DOMAIN s.pending
    PROVE  /\ DOMAIN Without(s, c) = SessionFields /\ IsABag(Without(s, c).pending)
           /\ Without(s, c).pending = s.pending (-) SetToBag({c})
           /\ \A f \in SessionFields \ {"pending"} : Without(s, c)[f] = s[f]
PROOF
<1> DEFINE B == s.pending (-) SetToBag({c})
<1>1. IsABag(B)
  BY TakeOne
<1>2. Without(s, c) = [s EXCEPT !.pending = B]
  BY DEF Without
<1> HIDE DEF B
<1>3. /\ DOMAIN Without(s, c) = SessionFields /\ Without(s, c).pending = B
      /\ \A f \in SessionFields \ {"pending"} : Without(s, c)[f] = s[f]
  BY <1>2 DEF SessionFields
<1> QED BY <1>1, <1>3 DEF B

\* A session whose cursor alone is changed.
LEMMA CursorChanged ==
    ASSUME NEW s, DOMAIN s = SessionFields, NEW k
    PROVE  LET r == [s EXCEPT !.cursor = k]
           IN  /\ DOMAIN r = SessionFields /\ r.cursor = k
               /\ \A f \in SessionFields \ {"cursor"} : r[f] = s[f]
PROOF
BY DEF SessionFields

-----------------------------------------------------------------------------
(***************************************************************************)
(* The cursor of a notes session.                                          *)
(***************************************************************************)

\* The record of a channel just found.
Unread == [sub |-> 0, indexes |-> Nothing]

\* foundChannel: a channel is noted.
LEMMA ChannelMarked ==
    ASSUME NEW k, CursorOK(k, pool), NEW p \in ToSet(pool.channels), NEW k2,
           DOMAIN k2 = {"notes", "channels", "total"}, k2.channels = k.channels, k2.total = k.total,
           DOMAIN k2.notes = DOMAIN k.notes \cup {p},
           \A q \in DOMAIN k2.notes : k2.notes[q] = IF q = p THEN Unread ELSE k.notes[q]
    PROVE  CursorOK(k2, pool)
PROOF
<1>1. DOMAIN Unread = {"sub", "indexes"} /\ Unread.sub = 0 /\ DOMAIN Unread.indexes = {}
  BY DEF Unread, Nothing
<1>2. IncomingOK(Unread, pool.tokens[p])
  BY <1>1 DEF IncomingOK
<1> QED BY <1>2 DEF CursorOK

\* One peer's record is changed, and stays true.
LEMMA RecordMarked ==
    ASSUME NEW k, CursorOK(k, pool), NEW p, NEW v, NEW k2,
           p \in DOMAIN k.notes => IncomingOK(v, pool.tokens[p]),
           DOMAIN k2 = {"notes", "channels", "total"}, k2.channels = k.channels, k2.total = k.total,
           DOMAIN k2.notes = DOMAIN k.notes,
           \A q \in DOMAIN k.notes : k2.notes[q] = IF q = p THEN v ELSE k.notes[q]
    PROVE  CursorOK(k2, pool)
PROOF
BY DEF CursorOK

\* foundSubchannel: a token is noted.
MarkToken(k, p, t, i) == [k EXCEPT !.notes[p] = [sub |-> Max({@.sub, i}), indexes |-> Put(@.indexes, t, 0)]]

TokenKept(k, k2, p, t) ==
    /\ CursorOK(k2, pool) /\ DOMAIN k2.notes = DOMAIN k.notes
    /\ \A q \in DOMAIN k.notes : q # p => k2.notes[q] = k.notes[q]
    /\ p \in DOMAIN k.notes => DOMAIN k2.notes[p].indexes = DOMAIN k.notes[p].indexes \cup {t}

\* The cursor with the token is still true of the pool.
LEMMA TokenMarked ==
    ASSUME NEW k, CursorOK(k, pool), NEW p, NEW t \in ToSet(pool.tokens[p]), NEW i \in Nat, NEW k2,
           k2 = MarkToken(k, p, t, i)
    PROVE  TokenKept(k, k2, p, t)
PROOF
<1> DEFINE r == k.notes[p]
           x == Put(r.indexes, t, 0)
           y == Max({r.sub, i})
           v == [sub |-> y, indexes |-> x]
<1>1. k2 = [k EXCEPT !.notes[p] = v]
  BY DEF MarkToken
<1>2. DOMAIN x = DOMAIN r.indexes \cup {t} /\ \A q \in DOMAIN x : x[q] = IF q = t THEN 0 ELSE r.indexes[q]
  BY DEF Put
<1>3. ASSUME p \in DOMAIN k.notes PROVE IncomingOK(v, pool.tokens[p]) /\ v.indexes = x
  <2>1. IncomingOK(r, pool.tokens[p])
    BY <1>3 DEF CursorOK
  <2>2. DOMAIN r = {"sub", "indexes"} /\ r.sub \in Nat
    BY <2>1 DEF IncomingOK
  <2>3. y \in Nat
    BY <2>2, LargerOfTwo
  <2> HIDE DEF r, x, y
  <2>4. DOMAIN v = {"sub", "indexes"} /\ v.sub = y /\ v.indexes = x
    BY <2>2
  <2>5. \A q \in DOMAIN x : q \in ToSet(pool.tokens[p]) /\ x[q] \in Nat
    BY <1>2, <2>1 DEF IncomingOK
  <2> HIDE DEF v
  <2> QED BY <2>3, <2>4, <2>5 DEF IncomingOK
<1> HIDE DEF v, x, y, r
<1>4. CursorOK(k, pool) /\ (p \in DOMAIN k.notes => IncomingOK(v, pool.tokens[p]))
  BY <1>3
<1>5. DOMAIN k = {"notes", "channels", "total"}
  BY DEF CursorOK
<1>6. /\ DOMAIN k2 = {"notes", "channels", "total"} /\ k2.channels = k.channels /\ k2.total = k.total
      /\ DOMAIN k2.notes = DOMAIN k.notes
      /\ \A q \in DOMAIN k.notes : k2.notes[q] = IF q = p THEN v ELSE k.notes[q]
  BY ONLY <1>1, <1>5
<1>7. CursorOK(k2, pool)
  BY ONLY <1>4, <1>6, RecordMarked
<1> QED BY <1>2, <1>3, <1>6, <1>7 DEF r, TokenKept

\* addNote: the counter of a token's notes is raised.
MarkNote(k, p, t, i) == [k EXCEPT !.notes[p].indexes[t] = Max({@, i + 1})]

NoteKept(k, k2) ==
    /\ CursorOK(k2, pool) /\ DOMAIN k2.notes = DOMAIN k.notes
    /\ \A q \in DOMAIN k.notes : DOMAIN k2.notes[q].indexes = DOMAIN k.notes[q].indexes

\* The cursor with the counter raised is still true of the pool.
LEMMA NoteMarked ==
    ASSUME NEW k, CursorOK(k, pool), NEW p, NEW t, NEW i \in Nat, NEW k2,
           k2 = MarkNote(k, p, t, i)
    PROVE  NoteKept(k, k2)
PROOF
<1> DEFINE r == k.notes[p]
           y == Max({r.indexes[t], i + 1})
           x == [r.indexes EXCEPT ![t] = y]
           v == [r EXCEPT !.indexes = x]
<1>1. k2 = [k EXCEPT !.notes[p] = v]
  BY DEF MarkNote
<1>2. DOMAIN x = DOMAIN r.indexes /\ \A q \in DOMAIN x : x[q] = IF q = t THEN y ELSE r.indexes[q]
  OBVIOUS
<1>3. ASSUME p \in DOMAIN k.notes PROVE IncomingOK(v, pool.tokens[p]) /\ v.indexes = x
  <2>1. IncomingOK(r, pool.tokens[p])
    BY <1>3 DEF CursorOK
  <2>2. DOMAIN r = {"sub", "indexes"} /\ r.sub \in Nat
    BY <2>1 DEF IncomingOK
  <2>3. t \in DOMAIN r.indexes => r.indexes[t] \in Nat
    BY <2>1 DEF IncomingOK
  <2>4. t \in DOMAIN r.indexes => y \in Nat
    <3>1. i + 1 \in Nat
      OBVIOUS
    <3> DEFINE j == i + 1
    <3> HIDE DEF j
    <3>2. t \in DOMAIN r.indexes => Max({r.indexes[t], j}) \in Nat
      BY <2>3, <3>1, LargerOfTwo DEF j
    <3> QED BY <3>2 DEF j
  <2> HIDE DEF r, x, y
  <2>5. DOMAIN v = {"sub", "indexes"} /\ v.sub = r.sub /\ v.indexes = x
    BY <2>2
  <2>6. \A q \in DOMAIN x : q \in ToSet(pool.tokens[p]) /\ x[q] \in Nat
    BY <1>2, <2>1, <2>4 DEF IncomingOK
  <2> HIDE DEF v
  <2> QED BY <2>2, <2>5, <2>6 DEF IncomingOK
<1> HIDE DEF v, x, y, r
<1>4. CursorOK(k, pool) /\ (p \in DOMAIN k.notes => IncomingOK(v, pool.tokens[p]))
  BY <1>3
<1>5. DOMAIN k = {"notes", "channels", "total"}
  BY DEF CursorOK
<1>6. /\ DOMAIN k2 = {"notes", "channels", "total"} /\ k2.channels = k.channels /\ k2.total = k.total
      /\ DOMAIN k2.notes = DOMAIN k.notes
      /\ \A q \in DOMAIN k.notes : k2.notes[q] = IF q = p THEN v ELSE k.notes[q]
  BY ONLY <1>1, <1>5
<1>7. CursorOK(k2, pool)
  BY ONLY <1>4, <1>6, RecordMarked
<1> QED BY <1>2, <1>3, <1>6, <1>7 DEF r, NoteKept

-----------------------------------------------------------------------------
(***************************************************************************)
(* A notes session loses nothing when a call is answered.                  *)
(***************************************************************************)

\* What an answer changes of a notes session: nothing seen or found is forgotten.
Carried(s, r, c, N) ==
    /\ DOMAIN r = SessionFields /\ \A f \in Fixed : r[f] = s[f]
    /\ r.failed = s.failed
    /\ InFlight(s, r, c, N)
    /\ CursorOK(r.cursor, pool)
    /\ DOMAIN s.cursor.notes \subseteq DOMAIN r.cursor.notes
    /\ IsABag(r.found) /\ DOMAIN s.found \subseteq DOMAIN r.found /\ DOMAIN r.found \cap s.chain.spent = {}
    /\ \A d \in N : CallOK(d) /\ NotesCall(d, s, pool)

\* The slot needs no call any more: its channel or subchannel is itself to be scanned
\* from the beginning, its token is not asked for, its note is found or spent.
Settled(s, r, N, probe, i) ==
    \/ /\ probe.on = "channel" /\ pool.channels[i + 1] \in DOMAIN r.cursor.notes
       /\ \A k \in Nat : Reached(N, subchannelProbe(pool.channels[i + 1]), k)
    \/ /\ probe.on = "subchannel"
       /\ \/ s.asked # {} /\ pool.tokens[probe.peer][i + 1] \notin s.asked
          \/ \A k \in Nat : Reached(N, noteProbe(probe.peer, pool.tokens[probe.peer][i + 1]), k)
    \/ /\ probe.on = "note" /\ Note(probe.peer, probe.token, i) \in pool.spent \cup DOMAIN r.found

Resolved(s, r, c, N) ==
    \A i \in Nat : Reaches(c, i) /\ i < Slots(c.probe) => Reached(N, c.probe, i) \/ Settled(s, r, N, c.probe, i)

\* A slot that a call was to read is still to be read, or settled.
LEMMA ReachedKept ==
    ASSUME NEW s, NEW r, NEW c, NEW N, InFlight(s, r, c, N), Resolved(s, r, c, N),
           NEW probe, NEW i \in Nat, i < Slots(probe), Reached(DOMAIN s.pending, probe, i)
    PROVE  Reached(DOMAIN r.pending, probe, i) \/ Settled(s, r, N, probe, i)
PROOF
<1>1. PICK d \in DOMAIN s.pending : d.probe = probe /\ Reaches(d, i)
  BY DEF Reached
<1>2. CASE d # c
  BY <1>1, <1>2 DEF InFlight, Reached
<1>3. CASE d = c
  <2>1. Reached(N, probe, i) \/ Settled(s, r, N, probe, i)
    BY <1>1, <1>3 DEF Resolved
  <2>2. Reached(N, probe, i) => Reached(DOMAIN r.pending, probe, i)
    BY DEF InFlight, Reached
  <2> QED BY <2>1, <2>2
<1> QED BY <1>2, <1>3

\* A note that was there when the session began is there, in the subchannel of its token
\* and the channel of its peer.
LEMMA NotePlaced ==
    ASSUME NEW chain, PoolOK(chain), PoolOK(pool), Grown(chain, pool), NEW n \in NotesIn(chain)
    PROVE  /\ n.peer \in Peers /\ n.token \in Tokens /\ n.index \in Nat /\ n = Note(n.peer, n.token, n.index)
           /\ n.index < chain.count[n.peer][n.token]
           /\ n.index < pool.count[n.peer][n.token]
           /\ n.token \in ToSet(chain.tokens[n.peer]) /\ n.peer \in ToSet(chain.channels)
PROOF
<1>1. PICK p \in Peers, t \in Tokens : n \in {Note(p, t, i) : i \in 0 .. chain.count[p][t] - 1}
  BY DEF NotesIn
<1>2. PICK i \in 0 .. chain.count[p][t] - 1 : n = Note(p, t, i)
  BY <1>1
<1>3. chain.count[p][t] \in Nat /\ pool.count[p][t] \in Nat /\ chain.count[p][t] <= pool.count[p][t]
  BY PoolTyped DEF Grown
<1>4. i \in Nat /\ i < chain.count[p][t] /\ i < pool.count[p][t]
  BY <1>3
<1>5. n.peer = p /\ n.token = t /\ n.index = i
  BY <1>2 DEF Note
<1>6. chain.count[p][t] > 0
  BY <1>3, <1>4
<1>7. t \in ToSet(chain.tokens[p])
  BY <1>6 DEF PoolOK
<1>8. chain.tokens[p] # <<>>
  BY <1>7 DEF ToSet
<1>9. p \in ToSet(chain.channels)
  BY <1>8 DEF PoolOK
<1> QED BY <1>2, <1>4, <1>5, <1>7, <1>9

\* The slots of a list that were filled are filled with the same.
LEMMA SlotKept ==
    ASSUME NEW list, NEW longer, NEW S, longer \in Seq(S), list \in Seq(S), Starts(list, longer), NEW k \in DOMAIN list
    PROVE  /\ k - 1 \in Nat /\ k - 1 < Len(longer) /\ k - 1 < Len(list) /\ longer[(k - 1) + 1] = list[k]
           /\ k \in DOMAIN longer /\ longer[k] = list[k]
PROOF
<1>1. k \in DOMAIN longer /\ longer[k] = list[k]
  BY DEF Starts
<1>2. k \in 1 .. Len(longer) /\ k \in 1 .. Len(list)
  BY <1>1
<1>3. (k - 1) + 1 = k
  BY <1>2
<1> QED BY <1>1, <1>2, <1>3

\* Every note wanted is found, or will be.
LEMMA AheadKept ==
    ASSUME NEW s, NEW r, NEW c, NEW N, PoolOK(pool), PoolOK(s.chain), Grown(s.chain, pool),
           Carried(s, r, c, N), Resolved(s, r, c, N),
           NEW n \in Wanted(s, pool), NoteAhead(s, DOMAIN s.pending, n)
    PROVE  n \in Wanted(r, pool) /\ NoteAhead(r, DOMAIN r.pending, n)
PROOF
<1> DEFINE p == n.peer
           t == n.token
           j == n.index
           D == DOMAIN r.pending
<1>1. r.chain = s.chain /\ r.asked = s.asked /\ InFlight(s, r, c, N)
  BY DEF Carried, Fixed
<1>2. n \in NotesIn(s.chain) /\ n \notin pool.spent /\ (s.asked = {} \/ t \in s.asked)
  BY DEF Wanted
<1>3. n \in Wanted(r, pool)
  BY <1>1 DEF Wanted
<1>4. /\ p \in Peers /\ t \in Tokens /\ j \in Nat /\ n = Note(p, t, j) /\ j < pool.count[p][t]
      /\ t \in ToSet(s.chain.tokens[p])
  BY <1>2, NotePlaced
<1>5. /\ s.chain.channels \in Seq(Peers) /\ pool.channels \in Seq(Peers) /\ Starts(s.chain.channels, pool.channels)
      /\ s.chain.tokens[p] \in Seq(Tokens) /\ pool.tokens[p] \in Seq(Tokens)
      /\ Starts(s.chain.tokens[p], pool.tokens[p])
  BY <1>4, PoolTyped DEF Grown
<1>6. Reached(N, noteProbe(p, t), j) => NoteAhead(r, D, n)
  BY DEF NoteAhead, Carried, InFlight, Reached
<1>7. CASE n \in DOMAIN s.found
  BY <1>3, <1>7 DEF Carried, NoteAhead
<1>8. CASE Reached(DOMAIN s.pending, noteProbe(p, t), j)
  <2>1. j < Slots(noteProbe(p, t))
    BY <1>4, ProbeFields DEF Slots
  <2>2. Reached(D, noteProbe(p, t), j) \/ Settled(s, r, N, noteProbe(p, t), j)
    BY <1>1, <1>4, <1>8, <2>1, ReachedKept
  <2>3. Settled(s, r, N, noteProbe(p, t), j) => n \in DOMAIN r.found
    BY <1>2, <1>4, ProbeFields DEF Settled
  <2> QED BY <1>3, <2>2, <2>3 DEF NoteAhead
<1>9. CASE \E k \in DOMAIN s.chain.tokens[p] :
              s.chain.tokens[p][k] = t /\ Reached(DOMAIN s.pending, subchannelProbe(p), k - 1)
  <2>1. PICK k \in DOMAIN s.chain.tokens[p] :
              s.chain.tokens[p][k] = t /\ Reached(DOMAIN s.pending, subchannelProbe(p), k - 1)
    BY <1>9
  <2>2. k - 1 \in Nat /\ k - 1 < Len(pool.tokens[p]) /\ pool.tokens[p][(k - 1) + 1] = t
    BY <1>5, <2>1, SlotKept
  <2>3. k - 1 < Slots(subchannelProbe(p))
    BY <2>2, ProbeFields DEF Slots
  <2>4. Reached(D, subchannelProbe(p), k - 1) \/ Settled(s, r, N, subchannelProbe(p), k - 1)
    BY <1>1, <2>1, <2>2, <2>3, ReachedKept
  <2>5. Reached(D, subchannelProbe(p), k - 1) => NoteAhead(r, D, n)
    BY <1>1, <2>1 DEF NoteAhead
  <2>6. Settled(s, r, N, subchannelProbe(p), k - 1) => Reached(N, noteProbe(p, t), j)
    BY <1>2, <1>4, <2>2, ProbeFields DEF Settled
  <2> QED BY <1>3, <1>6, <2>4, <2>5, <2>6
<1>10. CASE \E k \in DOMAIN s.chain.channels :
              s.chain.channels[k] = p /\ Reached(DOMAIN s.pending, channelProbe, k - 1)
  <2>1. PICK k \in DOMAIN s.chain.channels :
              s.chain.channels[k] = p /\ Reached(DOMAIN s.pending, channelProbe, k - 1)
    BY <1>10
  <2>2. k - 1 \in Nat /\ k - 1 < Len(pool.channels) /\ pool.channels[(k - 1) + 1] = p
    BY <1>5, <2>1, SlotKept
  <2>3. k - 1 < Slots(channelProbe)
    BY <2>2, ProbeFields DEF Slots
  <2>4. Reached(D, channelProbe, k - 1) \/ Settled(s, r, N, channelProbe, k - 1)
    BY <1>1, <2>1, <2>2, <2>3, ReachedKept
  <2>5. Reached(D, channelProbe, k - 1) => NoteAhead(r, D, n)
    BY <1>1, <2>1 DEF NoteAhead
  <2>6. Settled(s, r, N, channelProbe, k - 1) => \A i \in Nat : Reached(N, subchannelProbe(p), i)
    BY <2>2, ProbeFields DEF Settled
  <2>7. ASSUME \A i \in Nat : Reached(N, subchannelProbe(p), i) PROVE NoteAhead(r, D, n)
    <3>1. PICK m \in DOMAIN s.chain.tokens[p] : s.chain.tokens[p][m] = t
      BY <1>4 DEF ToSet
    <3>2. m - 1 \in Nat
      BY <1>5, <3>1, SlotKept
    <3>3. Reached(D, subchannelProbe(p), m - 1)
      BY <1>1, <2>7, <3>2 DEF InFlight, Reached
    <3> QED BY <1>1, <3>1, <3>3 DEF NoteAhead
  <2> QED BY <1>3, <2>4, <2>5, <2>6, <2>7
<1> QED BY <1>3, <1>7, <1>8, <1>9, <1>10 DEF NoteAhead

\* Where the slots that a call leads to begin.
First(c) == IF c.do = "touch" THEN c.at ELSE c.lo

\* The channels before one that is seen, or that is to be read, are seen or are to be read.
LEMMA InOrderKept ==
    ASSUME NEW s, NEW r, NEW c \in DOMAIN s.pending, NEW N, PoolOK(pool),
           Carried(s, r, c, N), Resolved(s, r, c, N),
           \A d \in DOMAIN s.pending : CallOK(d) /\ NotesCall(d, s, pool),
           InOrder(DOMAIN s.cursor.notes, DOMAIN s.pending, pool),
           \/ DOMAIN r.cursor.notes = DOMAIN s.cursor.notes
           \/ /\ c.probe = channelProbe /\ c.do \in {"bisect", "touch"}
              /\ DOMAIN r.cursor.notes = DOMAIN s.cursor.notes \cup {pool.channels[c.at + 1]},
           \A d \in N : d.probe = channelProbe =>
              /\ c.probe = channelProbe
              /\ First(d) = First(c) \/ (First(d) <= c.at + 1 /\ c.do \in {"bisect", "touch"})
    PROVE  InOrder(DOMAIN r.cursor.notes, DOMAIN r.pending, pool)
PROOF
<1> DEFINE D == DOMAIN s.pending
           D2 == DOMAIN r.pending
           X == DOMAIN s.cursor.notes
           X2 == DOMAIN r.cursor.notes
           L == Len(pool.channels)
<1>1. L \in Nat /\ DOMAIN pool.channels = 1 .. L /\ Distinct(pool.channels) /\ InFlight(s, r, c, N) /\ X \subseteq X2
  BY PoolTyped DEF Carried
<1>2. \A d \in D : d.at \in Nat /\ d.lo \in Nat /\ d.hi \in Nat
  BY CallTyped
<1>3. \A d \in D \cup N : d.probe = channelProbe => First(d) \in Nat
  <2>1. \A d \in N : d.at \in Nat /\ d.lo \in Nat
    BY CallTyped DEF Carried
  <2> QED BY <1>2, <2>1 DEF First
<1>4. ASSUME NEW d \in D, d.probe = channelProbe PROVE First(d) <= L /\ (d.do \in {"bisect", "touch"} => d.at < L)
  <2>1. CallOK(d) /\ NotesCall(d, s, pool) /\ d.probe.on = "channel"
    BY <1>4, ProbeFields
  <2>2. \/ d.do = "get_num_of_channels" /\ d.lo <= L
        \/ d.do = "bisect" /\ d.hi <= L
        \/ d.do = "touch" /\ d.at < L
    BY <2>1 DEF NotesCall
  <2>3. d.do = "bisect" => d.lo <= d.at /\ d.at < d.hi
    BY <2>1 DEF CallOK
  <2> QED BY <1>1, <1>2, <2>2, <2>3 DEF First
<1>5. ASSUME NEW i \in Nat, i < L, Listed(X, D, pool, i) PROVE Listed(X2, D2, pool, i)
  <2>1. CASE pool.channels[i + 1] \in X
    BY <1>1, <2>1 DEF Listed
  <2>2. CASE Reached(D, channelProbe, i)
    <3>1. i < Slots(channelProbe)
      BY <1>5, ProbeFields DEF Slots
    <3>2. Reached(D2, channelProbe, i) \/ Settled(s, r, N, channelProbe, i)
      BY <1>1, <2>2, <3>1, ReachedKept
    <3>3. Settled(s, r, N, channelProbe, i) => pool.channels[i + 1] \in X2
      BY ProbeFields DEF Settled
    <3> QED BY <3>2, <3>3 DEF Listed
  <2> QED BY <1>5, <2>1, <2>2 DEF Listed
<1>6. ASSUME NEW d \in D, d.probe = channelProbe, NEW i \in Nat, i < First(d) PROVE Listed(X2, D2, pool, i)
  <2>1. Listed(X, D, pool, i)
    BY <1>6 DEF InOrder, First
  <2>2. i < L
    BY <1>1, <1>3, <1>4, <1>6
  <2> QED BY <1>5, <2>1, <2>2
<1>7. ASSUME c.probe = channelProbe, c.do \in {"bisect", "touch"}, NEW i \in Nat, i <= c.at
      PROVE  Listed(X2, D2, pool, i)
  <2>1. CASE i < First(c)
    BY <1>6, <1>7, <2>1
  <2>2. CASE ~(i < First(c))
    <3>1. c.do = "bisect" => c.at < c.hi
      BY DEF CallOK
    <3>2. Reaches(c, i)
      BY <1>2, <1>7, <2>2, <3>1 DEF First, Reaches
    <3>3. Listed(X, D, pool, i)
      BY <1>7, <3>2 DEF Listed, Reached
    <3>4. i < L
      BY <1>1, <1>2, <1>4, <1>7
    <3> QED BY <1>5, <3>3, <3>4
  <2> QED BY <2>1, <2>2
<1>8. ASSUME NEW j \in DOMAIN pool.channels, pool.channels[j] \in X2, NEW i \in Nat, i < j
      PROVE  Listed(X2, D2, pool, i)
  <2>1. CASE pool.channels[j] \in X
    <3>1. Listed(X, D, pool, i)
      BY <1>8, <2>1 DEF InOrder
    <3>2. i < L
      BY <1>1, <1>8
    <3> QED BY <1>5, <3>1, <3>2
  <2>2. CASE pool.channels[j] \notin X
    <3>1. /\ c.probe = channelProbe /\ c.do \in {"bisect", "touch"} /\ pool.channels[j] = pool.channels[c.at + 1]
      BY <1>8, <2>2
    <3>2. c.at \in Nat /\ c.at < L
      BY <1>2, <1>4, <3>1
    <3>3. c.at + 1 \in DOMAIN pool.channels
      BY <1>1, <3>2
    <3>4. j = c.at + 1
      BY <1>1, <3>1, <3>3 DEF Distinct
    <3>5. i <= c.at
      BY <1>8, <3>2, <3>4
    <3> QED BY <1>7, <3>1, <3>5
  <2> QED BY <2>1, <2>2
<1>9. ASSUME NEW d \in D2, d.probe = channelProbe, NEW i \in Nat, i < First(d)
      PROVE  Listed(X2, D2, pool, i)
  <2>1. CASE d \in D
    BY <1>6, <1>9, <2>1
  <2>2. CASE d \in N
    <3>1. /\ c.probe = channelProbe
          /\ First(d) = First(c) \/ (First(d) <= c.at + 1 /\ c.do \in {"bisect", "touch"})
      BY <1>9, <2>2
    <3>2. CASE First(d) = First(c)
      BY <1>6, <1>9, <3>1, <3>2
    <3>3. CASE First(d) <= c.at + 1 /\ c.do \in {"bisect", "touch"}
      <4>1. First(d) \in Nat /\ c.at \in Nat
        BY <1>2, <1>3, <1>9, <2>2
      <4>2. i <= c.at
        BY <1>9, <3>3, <4>1
      <4> QED BY <1>7, <3>1, <3>3, <4>2
    <3> QED BY <3>1, <3>2, <3>3
  <2> QED BY <1>1, <1>9, <2>1, <2>2 DEF InFlight
<1> HIDE DEF D2, X2
<1>10. InOrder(X2, D2, pool)
  BY <1>8, <1>9 DEF InOrder, First
<1> QED BY <1>10 DEF D2, X2

-----------------------------------------------------------------------------
(***************************************************************************)
(* Without a cursor, no slot is read twice.                                *)
(***************************************************************************)

\* A list that no call reads and nothing of which was read.
Untouched(s, r, probe) ==
    /\ \A d \in DOMAIN s.pending : d.probe # probe
    /\ \A i \in Nat : ~Read(r, pool, probe, i)

\* Only what the answered call led to.
Within(d, c) == d.probe = c.probe /\ \A i \in Nat : Reaches(d, i) => Reaches(c, i)

\* The calls an answer leads to share out the slots of the one answered, or read a list
\* that is new; at most its own slot was read.
LEMMA OnceKept ==
    ASSUME NEW s, NEW r, NEW c \in DOMAIN s.pending, NEW N,
           InFlight(s, r, c, N), Once(s, DOMAIN s.pending, pool),
           \A d \in N : (\E i \in Nat : Reaches(d, i)) /\ (Within(d, c) \/ Untouched(s, r, d.probe)),
           \A d, e \in N : d # e /\ d.probe = e.probe => \A i \in Nat : ~(Reaches(d, i) /\ Reaches(e, i)),
           AllOnce(r.found),
           \A d \in DOMAIN s.pending : \A i \in Nat : Read(r, pool, d.probe, i) =>
              \/ Read(s, pool, d.probe, i)
              \/ d.probe = c.probe /\ Reaches(c, i) /\ \A e \in N : e.probe = c.probe => ~Reaches(e, i),
           DOMAIN s.cursor.notes \subseteq DOMAIN r.cursor.notes,
           \A p, t : Below(s, p, t) => Below(r, p, t),
           \A d \in N : /\ d.probe.on = "subchannel" => d.probe.peer \in DOMAIN r.cursor.notes
                        /\ d.probe.on = "note" => Below(r, d.probe.peer, d.probe.token),
           \A n \in DOMAIN r.found : Below(r, n.peer, n.token)
    PROVE  Once(r, DOMAIN r.pending, pool)
PROOF
<1> DEFINE D == DOMAIN s.pending
           D2 == DOMAIN r.pending
<1>1. AllOnce(s.pending)
  BY DEF Once
<1>2. \A d, e \in D : d # e /\ d.probe = e.probe => \A i \in Nat : ~(Reaches(d, i) /\ Reaches(e, i))
  BY DEF Once
<1>3. \A d \in D : \A i \in Nat : Reaches(d, i) => ~Read(s, pool, d.probe, i)
  BY DEF Once
<1>4. ASSUME NEW d \in N, NEW e \in D \ {c}, d.probe = e.probe, NEW i \in Nat PROVE ~(Reaches(d, i) /\ Reaches(e, i))
  <2>1. CASE Within(d, c)
    BY <1>2, <1>4, <2>1 DEF Within
  <2>2. CASE Untouched(s, r, d.probe)
    BY <1>4, <2>2 DEF Untouched
  <2> QED BY <2>1, <2>2
<1>5. N \cap (D \ {c}) = {}
  <2> SUFFICES ASSUME NEW d \in N, d \in D \ {c} PROVE FALSE
    OBVIOUS
  <2>1. PICK i \in Nat : Reaches(d, i)
    OBVIOUS
  <2> QED BY <1>4, <2>1
<1>6. AllOnce(r.pending) /\ D2 = (D \ {c}) \cup N
  BY <1>1, <1>5 DEF InFlight
<1> HIDE DEF D2
<1>7. \A d, e \in D2 : d # e /\ d.probe = e.probe => \A i \in Nat : ~(Reaches(d, i) /\ Reaches(e, i))
  <2> SUFFICES ASSUME NEW d \in D2, NEW e \in D2, d # e, d.probe = e.probe, NEW i \in Nat
               PROVE  ~(Reaches(d, i) /\ Reaches(e, i))
    OBVIOUS
  <2>1. CASE d \in D \ {c} /\ e \in D \ {c}
    BY <1>2, <2>1
  <2>2. CASE d \in N /\ e \in D \ {c}
    BY <1>4, <2>2
  <2>3. CASE d \in D \ {c} /\ e \in N
    BY <1>4, <2>3
  <2>4. CASE d \in N /\ e \in N
    BY <2>4
  <2> QED BY <1>6, <2>1, <2>2, <2>3, <2>4
<1>8. \A d \in D2 : \A i \in Nat : Reaches(d, i) => ~Read(r, pool, d.probe, i)
  <2> SUFFICES ASSUME NEW d \in D2, NEW i \in Nat, Reaches(d, i), Read(r, pool, d.probe, i) PROVE FALSE
    OBVIOUS
  <2>1. CASE d \in D \ {c}
    <3>1. CASE Read(s, pool, d.probe, i)
      BY <1>3, <2>1, <3>1
    <3>2. CASE d.probe = c.probe /\ Reaches(c, i)
      BY <1>2, <2>1, <3>2
    <3> QED BY <2>1, <3>1, <3>2
  <2>2. CASE d \in N /\ Within(d, c)
    <3>1. d.probe = c.probe /\ Reaches(c, i)
      BY <2>2 DEF Within
    <3>2. ~Read(s, pool, c.probe, i)
      BY <1>3, <3>1
    <3>3. \A e \in N : e.probe = c.probe => ~Reaches(e, i)
      BY <3>1, <3>2
    <3> QED BY <2>2, <3>1, <3>3
  <2>3. CASE d \in N /\ Untouched(s, r, d.probe)
    BY <2>3 DEF Untouched
  <2> QED BY <1>6, <2>1, <2>2, <2>3
<1>9. \A d \in D2 : /\ d.probe.on = "subchannel" => d.probe.peer \in DOMAIN r.cursor.notes
                    /\ d.probe.on = "note" => Below(r, d.probe.peer, d.probe.token)
  <2>1. \A d \in D : /\ d.probe.on = "subchannel" => d.probe.peer \in DOMAIN s.cursor.notes
                     /\ d.probe.on = "note" => Below(s, d.probe.peer, d.probe.token)
    BY DEF Once
  <2> QED BY <1>6, <2>1
<1>10. Once(r, D2, pool)
  BY <1>6, <1>7, <1>8, <1>9 DEF Once
<1> QED BY <1>10 DEF D2

-----------------------------------------------------------------------------
(***************************************************************************)
(* The steps of a notes session.                                           *)
(***************************************************************************)

\* The session is running and keeps its invariant.
NotesAtWork(s) ==
    /\ PoolOK(pool) /\ SessionOK(s, pool) /\ s.what = "notes" /\ s.pc = "running"

\* What the invariant says of a notes session that is running.
LEMMA AtWork ==
    ASSUME NEW s, NotesAtWork(s)
    PROVE  /\ DOMAIN s = SessionFields /\ s.failed \in BOOLEAN /\ PoolOK(s.chain) /\ Grown(s.chain, pool)
           /\ CursorOK(s.cursor, pool) /\ IsABag(s.pending)
           /\ \A d \in DOMAIN s.pending : CallOK(d) /\ NotesCall(d, s, pool)
           /\ IsABag(s.found) /\ DOMAIN s.found \cap s.chain.spent = {}
           /\ ~s.failed => \A n \in Wanted(s, pool) : NoteAhead(s, DOMAIN s.pending, n)
           /\ ~s.failed => InOrder(DOMAIN s.cursor.notes, DOMAIN s.pending, pool)
           /\ s.fresh => Once(s, DOMAIN s.pending, pool)
PROOF
<1>1. NotesInv(s, DOMAIN s.pending, pool)
  BY DEF NotesAtWork, SessionOK
<1>2. /\ DOMAIN s = SessionFields /\ s.failed \in BOOLEAN /\ PoolOK(s.chain) /\ Grown(s.chain, pool)
      /\ CursorOK(s.cursor, pool) /\ IsABag(s.pending) /\ \A d \in DOMAIN s.pending : CallOK(d)
  BY DEF NotesAtWork, SessionOK
<1> QED BY <1>1, <1>2 DEF NotesInv

\* An answer that keeps what there was, settles what its call led to and reads nothing
\* twice keeps the invariant.
LEMMA NotesStep ==
    ASSUME NEW s, NotesAtWork(s), NEW r, NEW c \in DOMAIN s.pending, NEW N,
           Carried(s, r, c, N), Resolved(s, r, c, N),
           \/ DOMAIN r.cursor.notes = DOMAIN s.cursor.notes
           \/ /\ c.probe = channelProbe /\ c.do \in {"bisect", "touch"}
              /\ DOMAIN r.cursor.notes = DOMAIN s.cursor.notes \cup {pool.channels[c.at + 1]},
           \A d \in N : d.probe = channelProbe =>
              /\ c.probe = channelProbe
              /\ First(d) = First(c) \/ (First(d) <= c.at + 1 /\ c.do \in {"bisect", "touch"}),
           s.fresh => Once(r, DOMAIN r.pending, pool)
    PROVE  SessionOK(r, pool)
PROOF
<1>1. PoolOK(pool)
  BY DEF NotesAtWork
<1>2. /\ PoolOK(s.chain) /\ Grown(s.chain, pool) /\ s.failed \in BOOLEAN
      /\ \A d \in DOMAIN s.pending : CallOK(d) /\ NotesCall(d, s, pool)
      /\ ~s.failed => \A n \in Wanted(s, pool) : NoteAhead(s, DOMAIN s.pending, n)
      /\ ~s.failed => InOrder(DOMAIN s.cursor.notes, DOMAIN s.pending, pool)
  BY AtWork
<1>3. /\ DOMAIN r = SessionFields /\ r.failed = s.failed /\ r.chain = s.chain /\ r.pc = s.pc /\ r.what = s.what
      /\ r.fresh = s.fresh /\ r.asked = s.asked
      /\ CursorOK(r.cursor, pool) /\ IsABag(r.found) /\ DOMAIN r.found \cap s.chain.spent = {}
      /\ InFlight(s, r, c, N) /\ \A d \in N : CallOK(d) /\ NotesCall(d, s, pool)
  BY DEF Carried, Fixed
<1>4. r.pc = "running" /\ r.what = "notes"
  BY <1>3 DEF NotesAtWork
<1>5. IsABag(r.pending) /\ \A d \in DOMAIN r.pending : d \in DOMAIN s.pending \cup N
  BY <1>3 DEF InFlight
<1>6. \A d \in DOMAIN r.pending : CallOK(d) /\ NotesCall(d, s, pool)
  BY <1>2, <1>3, <1>5
<1>7. \A d \in DOMAIN r.pending : CallOK(d) /\ NotesCall(d, r, pool)
  BY <1>3, <1>6 DEF NotesCall
<1>8. ASSUME ~r.failed PROVE \A n \in Wanted(r, pool) : NoteAhead(r, DOMAIN r.pending, n)
  <2>1. Wanted(r, pool) = Wanted(s, pool)
    BY <1>3 DEF Wanted
  <2> SUFFICES ASSUME NEW n \in Wanted(s, pool) PROVE NoteAhead(r, DOMAIN r.pending, n)
    BY <2>1
  <2>2. NoteAhead(s, DOMAIN s.pending, n)
    BY <1>2, <1>3, <1>8
  <2> QED BY <1>1, <1>2, <2>2, AheadKept
<1>9. ASSUME ~r.failed PROVE InOrder(DOMAIN r.cursor.notes, DOMAIN r.pending, pool)
  <2>1. InOrder(DOMAIN s.cursor.notes, DOMAIN s.pending, pool)
    BY <1>2, <1>3, <1>9
  <2>2. \A d \in DOMAIN s.pending : CallOK(d) /\ NotesCall(d, s, pool)
    BY <1>2
  <2> QED BY <1>1, <2>1, <2>2, InOrderKept
<1>10. NotesInv(r, DOMAIN r.pending, pool)
  BY <1>3, <1>7, <1>8, <1>9 DEF NotesInv
<1> QED BY <1>2, <1>3, <1>4, <1>5, <1>7, <1>10 DEF SessionOK

\* An answer that only replaces its call, by calls that share out what is left of it.
LEMMA QuietStep ==
    ASSUME NEW s, NotesAtWork(s), NEW r, NEW c \in DOMAIN s.pending, NEW N,
           DOMAIN r = SessionFields, \A f \in SessionFields \ {"pending"} : r[f] = s[f],
           InFlight(s, r, c, N), Resolved(s, r, c, N),
           \A d \in N : /\ CallOK(d) /\ NotesCall(d, s, pool) /\ Within(d, c) /\ \E i \in Nat : Reaches(d, i)
                        /\ First(d) = First(c) \/ (First(d) <= c.at + 1 /\ c.do \in {"bisect", "touch"})
                           \/ c.probe # channelProbe,
           \A d, e \in N : d # e => \A i \in Nat : ~(Reaches(d, i) /\ Reaches(e, i))
    PROVE  SessionOK(r, pool)
PROOF
<1>1. r.cursor = s.cursor /\ r.found = s.found /\ r.failed = s.failed /\ r.chain = s.chain /\ \A f \in Fixed : r[f] = s[f]
  BY DEF SessionFields, Fixed
<1>2. Carried(s, r, c, N)
  BY <1>1, AtWork DEF Carried
<1>3. ASSUME s.fresh PROVE Once(r, DOMAIN r.pending, pool)
  <2>1. Once(s, DOMAIN s.pending, pool)
    BY <1>3, AtWork
  <2>2. \A probe, i : Read(r, pool, probe, i) <=> Read(s, pool, probe, i)
    BY <1>1 DEF Read
  <2>3. \A p, t : Below(r, p, t) <=> Below(s, p, t)
    BY <1>1 DEF Below
  <2>4. /\ c.probe.on = "subchannel" => c.probe.peer \in DOMAIN s.cursor.notes
        /\ c.probe.on = "note" => Below(s, c.probe.peer, c.probe.token)
        /\ AllOnce(s.found) /\ \A n \in DOMAIN s.found : Below(s, n.peer, n.token)
    BY <2>1 DEF Once
  <2>5. \A d \in N : /\ d.probe = c.probe /\ (\E i \in Nat : Reaches(d, i)) /\ Within(d, c)
    BY DEF Within
  <2>6. AllOnce(r.found) /\ \A n \in DOMAIN r.found : Below(r, n.peer, n.token)
    BY <1>1, <2>3, <2>4
  <2>7. \A d \in N : /\ d.probe.on = "subchannel" => d.probe.peer \in DOMAIN r.cursor.notes
                     /\ d.probe.on = "note" => Below(r, d.probe.peer, d.probe.token)
    BY <1>1, <2>3, <2>4, <2>5
  <2>8. DOMAIN s.cursor.notes \subseteq DOMAIN r.cursor.notes
    BY <1>1
  <2> QED BY <2>1, <2>2, <2>3, <2>5, <2>6, <2>7, <2>8, OnceKept
<1>4. \A d \in N : d.probe = c.probe
  BY DEF Within
<1>5. DOMAIN r.cursor.notes = DOMAIN s.cursor.notes
  BY <1>1
<1>6. \A d \in N : d.probe = channelProbe =>
         /\ c.probe = channelProbe
         /\ First(d) = First(c) \/ (First(d) <= c.at + 1 /\ c.do \in {"bisect", "touch"})
  BY <1>4
<1> QED BY <1>2, <1>3, <1>5, <1>6, NotesStep

\* A bisection, if there is anything left to bisect.
LEMMA BisectIssues ==
    ASSUME NEW u, DOMAIN u = SessionFields, IsABag(u.pending), NEW probe, NEW lo, NEW hi
    PROVE  Issued(u, Bisect(u, probe, lo, hi), BisectSet(probe, lo, hi))
PROOF
<1>1. CASE lo >= hi
  BY <1>1, NothingIssued DEF Bisect, BisectSet
<1>2. CASE ~(lo >= hi)
  BY <1>2, TrackIssues DEF Bisect, BisectSet
<1> QED BY <1>1, <1>2

\* The calls in flight after an answer that changes nothing else.
LEMMA QuietIssues ==
    ASSUME NEW s, DOMAIN s = SessionFields, IsABag(s.pending), NEW c \in DOMAIN s.pending,
           NEW r, NEW N, Issued(Without(s, c), r, N)
    PROVE  /\ InFlight(s, r, c, N) /\ DOMAIN r = SessionFields
           /\ \A f \in SessionFields \ {"pending"} : r[f] = s[f]
PROOF
<1>1. /\ Without(s, c).pending = s.pending (-) SetToBag({c})
      /\ \A f \in SessionFields \ {"pending"} : Without(s, c)[f] = s[f]
  BY TakenOut
<1>2. InFlight(s, r, c, N)
  BY <1>1, AnswerIssues
<1>3. DOMAIN r = SessionFields /\ \A f \in SessionFields \ {"pending"} : r[f] = Without(s, c)[f]
  BY DEF Issued
<1> QED BY <1>1, <1>2, <1>3

\* What a call of a notes session goes on with, in a list with n slots filled.
Rest(c, n) == Onward(c, c.at < n, TRUE)

\* A call goes on within what it had to read, without the slot just read and without
\* reading a slot twice.
LEMMA RestOK ==
    ASSUME NEW c, CallOK(c), c.do \in Scans, NEW n \in Nat
    PROVE  /\ \A d \in Rest(c, n) :
                 /\ CallOK(d) /\ d.probe = c.probe /\ d.do \in Scans
                 /\ \A i \in Nat : Reaches(d, i) => Reaches(c, i) /\ i # c.at
                 /\ d.do = "touch" => c.at < n /\ d.at < c.at
                 /\ d.do = "bisect" /\ c.do = "bisect" => d.hi <= c.hi
                 /\ d.do = "scan" => c.do = "scan"
                 /\ d.do # "touch" => d.lo = IF c.at < n THEN c.at + 1 ELSE c.lo
           /\ \A d, e \in Rest(c, n) : d # e => \A i \in Nat : ~(Reaches(d, i) /\ Reaches(e, i))
PROOF
<1>1. PICK filled \in BOOLEAN : filled = (c.at < n)
  <2>1. (c.at < n) \in BOOLEAN
    OBVIOUS
  <2> QED BY ONLY <2>1, Zenon
<1>2. PICK touches \in BOOLEAN : touches
  OBVIOUS
<1>3. Rest(c, n) = Onward(c, filled, touches)
  BY <1>1, <1>2 DEF Rest
<1>4. /\ \A d \in Onward(c, filled, touches) :
                 /\ CallOK(d) /\ d.probe = c.probe /\ d.do \in Scans
                 /\ \A i \in Nat : Reaches(d, i) => Reaches(c, i) /\ i # c.at
                 /\ d.do = "touch" => touches /\ filled /\ d.at < c.at
                 /\ d.do = "bisect" /\ c.do = "bisect" => d.hi <= c.hi
                 /\ d.do = "scan" => c.do = "scan"
                 /\ d.do # "touch" => d.lo = IF filled THEN c.at + 1 ELSE c.lo
      /\ \A d, e \in Onward(c, filled, touches) :
                 d # e => \A i \in Nat : ~(Reaches(d, i) /\ Reaches(e, i))
  BY OnwardOK
<1> QED BY <1>1, <1>3, <1>4

\* The model's step issues those calls.
LEMMA ContinueRest ==
    ASSUME NEW u, DOMAIN u = SessionFields, IsABag(u.pending), u.what = "notes", NEW c, CallOK(c), NEW n \in Nat
    PROVE  Issued(u, Continue(u, c, c.at < n), Rest(c, n))
PROOF
<1>1. PICK filled \in BOOLEAN : filled = (c.at < n)
  <2>1. (c.at < n) \in BOOLEAN
    OBVIOUS
  <2> QED BY ONLY <2>1, Zenon
<1>2. Issued(u, Continue(u, c, filled), Onward(c, filled, ~lengthOnly(u, c.probe)))
  BY ContinueIssues
<1>3. ~lengthOnly(u, c.probe) = TRUE
  BY DEF lengthOnly
<1> QED BY <1>1, <1>2, <1>3 DEF Rest

\* A scan that goes on resolves all it led to, once the slot just read is.
LEMMA ScanResolved ==
    ASSUME PoolOK(pool), NEW s, NEW r, NEW c, CallOK(c), c.do \in Scans, NEW N,
           Rest(c, Slots(c.probe)) \subseteq N,
           c.at < Slots(c.probe) => Reached(N, c.probe, c.at) \/ Settled(s, r, N, c.probe, c.at)
    PROVE  Resolved(s, r, c, N)
PROOF
<1>1. c.probe \in Probes /\ c.at \in Nat
  BY CallTyped
<1>2. PICK n \in Nat : n = Slots(c.probe)
  BY <1>1, FilledSlots
<1> SUFFICES ASSUME NEW i \in Nat, Reaches(c, i), i < n
             PROVE  Reached(N, c.probe, i) \/ Settled(s, r, N, c.probe, i)
  BY <1>2 DEF Resolved
<1>3. \A d \in Rest(c, n) : d.probe = c.probe
  BY RestOK
<1>4. \/ i = c.at /\ c.at < n
      \/ \E d \in Rest(c, n) : Reaches(d, i)
  <2>1. PICK touches \in BOOLEAN : touches
    OBVIOUS
  <2>2. \/ i = c.at /\ c.at < n
        \/ \E d \in Onward(c, c.at < n, touches) : Reaches(d, i)
    BY <2>1, OnwardReaches
  <2> QED BY <2>1, <2>2 DEF Rest
<1> QED BY <1>2, <1>3, <1>4 DEF Reached

\* Some slot is reached by every call that reads one.
LEMMA ReachesSome ==
    ASSUME NEW c, CallOK(c), c.do \notin Lookups
    PROVE  /\ \E i \in Nat : Reaches(c, i)
           /\ c.do \in Scans \cup Reads => Reaches(c, c.at)
PROOF
<1>1. c.at \in Nat /\ c.lo \in Nat /\ c.hi \in Nat /\ c.do \in Scans \cup Reads \cup {"get_num_of_channels"}
  BY CallTyped
<1>2. /\ c.do = "scan" => c.lo <= c.at
      /\ c.do = "bisect" => c.lo <= c.at /\ c.at < c.hi
  BY DEF CallOK
<1>3. c.do \in Scans \cup Reads => Reaches(c, c.at)
  BY <1>1, <1>2 DEF Scans, Reads, Reaches
<1>4. c.do = "get_num_of_channels" => Reaches(c, c.lo)
  BY <1>1 DEF Reaches
<1> QED BY <1>1, <1>3, <1>4

\* get_num_of_channels: as many channels as there are now are looked at.
LEMMA AnswerCount ==
    ASSUME NEW s, NotesAtWork(s), NEW c \in DOMAIN s.pending, c.do = "get_num_of_channels", NEW r,
           r = Bisect(Without(s, c), channelProbe, c.lo, Len(pool.channels))
    PROVE  SessionOK(r, pool)
PROOF
<1> DEFINE L == Len(pool.channels)
           N == BisectSet(channelProbe, c.lo, L)
<1>1. DOMAIN s = SessionFields /\ IsABag(s.pending) /\ CallOK(c) /\ PoolOK(pool)
  BY AtWork DEF NotesAtWork
<1>2. c.lo \in Nat /\ c.at \in Nat /\ L \in Nat /\ channelProbe \in Probes /\ c.probe = channelProbe
  BY <1>1, CallTyped, PoolTyped, ProbeFields DEF CallOK
<1>3. DOMAIN Without(s, c) = SessionFields /\ IsABag(Without(s, c).pending)
  BY <1>1, TakenOut
<1>4. Issued(Without(s, c), r, N)
  BY <1>3, BisectIssues
<1>5. /\ InFlight(s, r, c, N) /\ DOMAIN r = SessionFields
      /\ \A f \in SessionFields \ {"pending"} : r[f] = s[f]
  BY <1>1, <1>4, QuietIssues
<1>6. \A d \in N : /\ CallOK(d) /\ d.probe = channelProbe /\ d.do = "bisect" /\ d.lo = c.lo /\ d.hi = L
                   /\ \A i \in Nat : Reaches(d, i) <=> c.lo <= i /\ i < L
  BY <1>2, BisectOK
<1>7. \A d, e \in N : d = e
  BY DEF BisectSet
<1>8. \A i \in Nat : Reaches(c, i) <=> c.lo <= i
  BY DEF Reaches, Reads
<1>9. Resolved(s, r, c, N)
  <2> SUFFICES ASSUME NEW i \in Nat, c.lo <= i, i < L PROVE Reached(N, c.probe, i)
    BY <1>2, <1>8, ProbeFields DEF Resolved, Slots
  <2>1. \E d \in N : TRUE
    BY <1>2, BisectThere
  <2> QED BY <1>2, <1>6, <2>1 DEF Reached
<1> HIDE DEF N
<1>10. ASSUME NEW d \in N
       PROVE  /\ CallOK(d) /\ NotesCall(d, s, pool) /\ Within(d, c) /\ (\E i \in Nat : Reaches(d, i))
              /\ First(d) = First(c)
  <2>1. NotesCall(d, s, pool)
    BY <1>2, <1>6 DEF NotesCall, Lookups
  <2>2. Within(d, c)
    BY <1>2, <1>6, <1>8 DEF Within
  <2>3. \E i \in Nat : Reaches(d, i)
    BY <1>6, ReachesSome DEF Lookups
  <2>4. First(d) = First(c)
    BY <1>6 DEF First
  <2> QED BY <1>6, <2>1, <2>2, <2>3, <2>4
<1> QED BY <1>5, <1>7, <1>9, <1>10, QuietStep

\* A nullifier is read: the note is spent, and is passed over.
LEMMA AnswerSpent ==
    ASSUME NEW s, NotesAtWork(s), NEW c \in DOMAIN s.pending, c.do \in {"nullifier", "touch"}, c.probe.on = "note",
           Note(c.probe.peer, c.probe.token, c.at) \in pool.spent
    PROVE  SessionOK(Without(s, c), pool)
PROOF
<1>1. DOMAIN s = SessionFields /\ IsABag(s.pending)
  BY AtWork
<1>2. Issued(Without(s, c), Without(s, c), {})
  BY <1>1, TakenOut, NothingIssued
<1>3. /\ InFlight(s, Without(s, c), c, {}) /\ DOMAIN Without(s, c) = SessionFields
      /\ \A f \in SessionFields \ {"pending"} : Without(s, c)[f] = s[f]
  BY <1>1, <1>2, QuietIssues
<1>4. \A i \in Nat : Reaches(c, i) => i = c.at
  BY DEF Reaches, Reads
<1>5. Resolved(s, Without(s, c), c, {})
  BY <1>4 DEF Resolved, Settled
<1> QED BY <1>3, <1>5, QuietStep

\* touchNote: the note is read next.
LEMMA AnswerTouched ==
    ASSUME NEW s, NotesAtWork(s), NEW c \in DOMAIN s.pending, c.do = "touch", c.probe.on = "note",
           Note(c.probe.peer, c.probe.token, c.at) \notin pool.spent, NEW r,
           r = Track(Without(s, c), {Call("note", c.probe, c.at, 0, 0, 0)})
    PROVE  SessionOK(r, pool)
PROOF
<1> DEFINE d == Call("note", c.probe, c.at, 0, 0, 0)
<1>1. DOMAIN s = SessionFields /\ IsABag(s.pending) /\ CallOK(c) /\ Grown(s.chain, pool)
  BY AtWork
<1>2. Issued(Without(s, c), r, {d})
  BY <1>1, TakenOut, TrackIssues
<1>3. c.probe \in Probes /\ c.at \in Nat
  BY <1>1, CallTyped
<1>4. d.do = "note" /\ d.probe = c.probe /\ d.at = c.at /\ d.lo = 0 /\ d.hi = 0 /\ d.step = 0
  BY CallFields
<1>5. CallOK(d)
  BY <1>3, <1>4 DEF CallOK, Call, Scans, Reads, Lookups
<1> HIDE DEF d
<1>6. /\ InFlight(s, r, c, {d}) /\ DOMAIN r = SessionFields
      /\ \A f \in SessionFields \ {"pending"} : r[f] = s[f]
  BY <1>1, <1>2, QuietIssues, SMTT(30)
<1>7. \A i \in Nat : (Reaches(c, i) <=> i = c.at) /\ (Reaches(d, i) <=> i = c.at)
  BY <1>4 DEF Reaches, Reads
<1>8. Resolved(s, r, c, {d})
  BY <1>4, <1>7 DEF Resolved, Reached
<1>9. NotesCall(d, s, pool)
  BY <1>1, <1>4 DEF NotesCall, Lookups, Grown
<1>10. Within(d, c) /\ \E i \in Nat : Reaches(d, i)
  BY <1>3, <1>4, <1>7 DEF Within
<1>11. c.probe # channelProbe
  BY ProbeFields
<1> QED BY <1>5, <1>6, <1>8, <1>9, <1>10, <1>11, QuietStep

\* A slot is empty: no channel's is.
LEMMA AnswerEmpty ==
    ASSUME NEW s, NotesAtWork(s), NEW c \in DOMAIN s.pending, c.do \in Scans, NEW n \in Nat, n = Slots(c.probe),
           ~(c.at < n), NEW r, r = Continue(Without(s, c), c, c.at < n)
    PROVE  SessionOK(r, pool)
PROOF
<1> DEFINE N == Rest(c, n)
<1>1. DOMAIN s = SessionFields /\ IsABag(s.pending) /\ CallOK(c) /\ NotesCall(c, s, pool) /\ PoolOK(pool)
  BY AtWork DEF NotesAtWork
<1>2. DOMAIN Without(s, c) = SessionFields /\ IsABag(Without(s, c).pending) /\ Without(s, c).what = "notes"
  <2>1. /\ DOMAIN Without(s, c) = SessionFields /\ IsABag(Without(s, c).pending)
        /\ \A f \in SessionFields \ {"pending"} : Without(s, c)[f] = s[f]
    BY <1>1, TakenOut
  <2>2. Without(s, c).what = s.what
    BY <2>1 DEF SessionFields
  <2> QED BY <2>1, <2>2 DEF NotesAtWork
<1>3. Issued(Without(s, c), r, N)
  BY <1>1, <1>2, ContinueRest
<1>4. /\ \A d \in N : /\ CallOK(d) /\ d.probe = c.probe /\ d.do \in Scans
                      /\ \A i \in Nat : Reaches(d, i) => Reaches(c, i)
      /\ \A d, e \in N : d # e => \A i \in Nat : ~(Reaches(d, i) /\ Reaches(e, i))
  BY <1>1, RestOK
<1>5. Resolved(s, r, c, N)
  BY <1>1, ScanResolved
<1> HIDE DEF N
<1>6. /\ InFlight(s, r, c, N) /\ DOMAIN r = SessionFields
      /\ \A f \in SessionFields \ {"pending"} : r[f] = s[f]
  BY ONLY <1>1, <1>3, QuietIssues
<1>7. c.probe \in Probes /\ c.at \in Nat /\ c.hi \in Nat
  BY <1>1, CallTyped
<1>8. c.probe.on # "channel"
  <2> SUFFICES ASSUME c.probe.on = "channel" PROVE FALSE
    OBVIOUS
  <2>1. n = Len(pool.channels)
    BY DEF Slots
  <2>2. \/ c.do = "bisect" /\ c.hi <= n
        \/ c.do = "touch" /\ c.at < n
    BY <1>1, <2>1 DEF NotesCall, Scans
  <2>3. c.do = "bisect" => c.at < c.hi
    BY <1>1 DEF CallOK
  <2> QED BY <1>7, <2>2, <2>3
<1>9. ASSUME NEW d \in N
      PROVE  CallOK(d) /\ NotesCall(d, s, pool) /\ Within(d, c) /\ (\E i \in Nat : Reaches(d, i))
  <2>1. d.do \notin Lookups /\ d.do # "note"
    BY <1>4 DEF Scans, Lookups
  <2>2. NotesCall(d, s, pool)
    BY <1>4, <1>8, <2>1 DEF NotesCall
  <2>3. \E i \in Nat : Reaches(d, i)
    BY <1>4, <2>1, ReachesSome
  <2> QED BY <1>4, <2>2, <2>3 DEF Within
<1>10. c.probe # channelProbe
  BY <1>8, ProbeFields
<1>11. \A d \in N : /\ CallOK(d) /\ NotesCall(d, s, pool) /\ Within(d, c) /\ \E i \in Nat : Reaches(d, i)
                    /\ First(d) = First(c) \/ (First(d) <= c.at + 1 /\ c.do \in {"bisect", "touch"})
                       \/ c.probe # channelProbe
  BY <1>9, <1>10
<1>12. \A d, e \in N : d # e => \A i \in Nat : ~(Reaches(d, i) /\ Reaches(e, i))
  BY <1>4
<1> QED BY <1>5, <1>6, <1>11, <1>12, QuietStep

\* A slot is filled: the calls of the scan follow the one that it is read with.
LEMMA HitIssues ==
    ASSUME NEW u, DOMAIN u = SessionFields, IsABag(u.pending), u.what = "notes", NEW c, CallOK(c), NEW n \in Nat,
           NEW x, x \notin Rest(c, n)
    PROVE  Issued(u, Continue(Track(u, {x}), c, c.at < n), {x} \cup Rest(c, n))
PROOF
<1> DEFINE v == Track(u, {x})
<1>1. Issued(u, v, {x})
  BY TrackIssues
<1>2. DOMAIN v = SessionFields /\ IsABag(v.pending) /\ \A f \in SessionFields \ {"pending"} : v[f] = u[f]
  BY <1>1 DEF Issued
<1>3. v.what = "notes"
  BY <1>2 DEF SessionFields
<1> HIDE DEF v
<1>4. Issued(v, Continue(v, c, c.at < n), Rest(c, n))
  BY <1>2, <1>3, ContinueRest
<1>5. {x} \cap Rest(c, n) = {}
  OBVIOUS
<1>6. Issued(u, Continue(v, c, c.at < n), {x} \cup Rest(c, n))
  BY ONLY <1>1, <1>4, <1>5, IssuedTwice
<1> QED BY <1>6 DEF v

\* A session without one of its calls is one of notes.
LEMMA StillNotes ==
    ASSUME NEW s, NotesAtWork(s), NEW c \in DOMAIN s.pending
    PROVE  /\ DOMAIN Without(s, c) = SessionFields /\ IsABag(Without(s, c).pending)
           /\ Without(s, c).what = "notes" /\ Without(s, c).pending = s.pending (-) SetToBag({c})
           /\ Without(s, c).cursor = s.cursor /\ Without(s, c).found = s.found /\ Without(s, c).failed = s.failed
           /\ Without(s, c).asked = s.asked
           /\ \A f \in SessionFields \ {"pending"} : Without(s, c)[f] = s[f]
PROOF
<1>1. DOMAIN s = SessionFields /\ IsABag(s.pending) /\ s.what = "notes"
  BY AtWork DEF NotesAtWork
<1>2. /\ DOMAIN Without(s, c) = SessionFields /\ IsABag(Without(s, c).pending)
      /\ Without(s, c).pending = s.pending (-) SetToBag({c})
      /\ \A f \in SessionFields \ {"pending"} : Without(s, c)[f] = s[f]
  BY <1>1, TakenOut
<1>3. /\ Without(s, c).what = s.what /\ Without(s, c).cursor = s.cursor /\ Without(s, c).found = s.found
      /\ Without(s, c).failed = s.failed /\ Without(s, c).asked = s.asked
  BY <1>2 DEF SessionFields
<1> QED BY <1>1, <1>2, <1>3

\* The calls that a filled slot of a subchannel or of a channel leads to.
LEMMA RestCalls ==
    ASSUME NEW s, NotesAtWork(s), NEW c \in DOMAIN s.pending, c.do \in Scans, NEW n \in Nat, n = Slots(c.probe),
           c.at < n, NEW d \in Rest(c, n)
    PROVE  /\ CallOK(d) /\ NotesCall(d, s, pool) /\ Within(d, c) /\ ~Reaches(d, c.at)
           /\ \E i \in Nat : Reaches(d, i)
           /\ First(d) <= c.at + 1 /\ d.do \in Scans
           /\ c.probe.on = "channel" => c.do \in {"bisect", "touch"}
PROOF
<1>1. CallOK(c) /\ NotesCall(c, s, pool)
  BY AtWork
<1>2. c.probe \in Probes /\ c.at \in Nat /\ c.hi \in Nat /\ c.lo \in Nat
  BY <1>1, CallTyped
<1>3. /\ CallOK(d) /\ d.probe = c.probe /\ d.do \in Scans
      /\ \A i \in Nat : Reaches(d, i) => Reaches(c, i) /\ i # c.at
      /\ d.do = "touch" => d.at < c.at
      /\ d.do = "bisect" /\ c.do = "bisect" => d.hi <= c.hi
      /\ d.do = "scan" => c.do = "scan"
      /\ d.do # "touch" => d.lo = c.at + 1
  BY <1>1, RestOK
<1>4. d.at \in Nat /\ d.lo \in Nat /\ d.hi \in Nat
  BY <1>3, CallTyped
<1>5. First(d) <= c.at + 1
  BY <1>2, <1>3, <1>4 DEF First
<1>6. d.do \notin Lookups /\ d.do # "note"
  BY <1>3 DEF Scans, Lookups
<1>7. \E i \in Nat : Reaches(d, i)
  BY <1>3, <1>6, ReachesSome
<1>8. ASSUME c.probe.on = "channel"
      PROVE  /\ c.do \in {"bisect", "touch"}
             /\ (d.do = "bisect" /\ d.hi <= Len(pool.channels)) \/ (d.do = "touch" /\ d.at < Len(pool.channels))
  <2>1. n = Len(pool.channels)
    BY <1>8 DEF Slots
  <2>2. (c.do = "bisect" /\ c.hi <= n) \/ (c.do = "touch" /\ c.at < n)
    BY <1>1, <1>8, <2>1 DEF NotesCall, Scans
  <2>3. c.do # "touch"
    <3> SUFFICES ASSUME c.do = "touch" PROVE FALSE
      OBVIOUS
    <3>1. \A i \in Nat : Reaches(c, i) => i = c.at
      BY DEF Reaches, Reads
    <3> QED BY <1>3, <1>7, <3>1
  <2> QED BY <1>2, <1>3, <1>4, <2>1, <2>2, <2>3 DEF Scans
<1>9. NotesCall(d, s, pool)
  BY <1>3, <1>6, <1>8 DEF NotesCall
<1> QED BY <1>2, <1>3, <1>5, <1>7, <1>8, <1>9 DEF Within

\* A note's slot is filled: its nullifier is read next.
LEMMA AnswerNoteSlot ==
    ASSUME NEW s, NotesAtWork(s), NEW c \in DOMAIN s.pending, c.do \in {"scan", "bisect"}, c.probe.on = "note",
           NEW n \in Nat, n = Slots(c.probe), c.at < n, NEW r,
           r = Continue(Track(Without(s, c), {Call("nullifier", c.probe, c.at, 0, 0, 0)}), c, c.at < n)
    PROVE  SessionOK(r, pool)
PROOF
<1> DEFINE x == Call("nullifier", c.probe, c.at, 0, 0, 0)
           N == {x} \cup Rest(c, n)
<1>1. DOMAIN s = SessionFields /\ IsABag(s.pending) /\ CallOK(c) /\ PoolOK(pool) /\ c.do \in Scans
  BY AtWork DEF NotesAtWork, Scans
<1>2. c.probe \in Probes /\ c.at \in Nat
  BY <1>1, CallTyped
<1>3. x.do = "nullifier" /\ x.probe = c.probe /\ x.at = c.at /\ x.lo = 0 /\ x.hi = 0 /\ x.step = 0
  BY CallFields
<1>4. CallOK(x)
  BY <1>2, <1>3 DEF CallOK, Call, Scans, Reads, Lookups
<1> HIDE DEF x
<1>5. \A i \in Nat : Reaches(x, i) <=> i = c.at
  BY <1>3 DEF Reaches, Reads
<1>6. \A d \in Rest(c, n) : /\ CallOK(d) /\ NotesCall(d, s, pool) /\ Within(d, c) /\ ~Reaches(d, c.at)
                            /\ (\E i \in Nat : Reaches(d, i)) /\ d.do \in Scans
  BY <1>1, RestCalls
<1>7. x \notin Rest(c, n)
  BY <1>3, <1>6 DEF Scans
<1>8. Issued(Without(s, c), r, N)
  BY <1>1, <1>7, StillNotes, HitIssues, ZenonT(60) DEF x
<1>9. /\ InFlight(s, r, c, N) /\ DOMAIN r = SessionFields
      /\ \A f \in SessionFields \ {"pending"} : r[f] = s[f]
  <2> HIDE DEF N
  <2> QED BY ONLY <1>1, <1>8, QuietIssues
<1>10. Resolved(s, r, c, N)
  <2>1. Reached(N, c.probe, c.at)
    BY <1>2, <1>3, <1>5 DEF Reached
  <2>2. Rest(c, Slots(c.probe)) \subseteq N
    OBVIOUS
  <2> HIDE DEF N
  <2> QED BY <1>1, <2>1, <2>2, ScanResolved
<1>11. NotesCall(x, s, pool) /\ Within(x, c) /\ (\E i \in Nat : Reaches(x, i)) /\ c.probe # channelProbe
  <2>1. Reaches(c, c.at)
    BY <1>1, ReachesSome DEF Scans, Lookups
  <2>2. NotesCall(x, s, pool)
    BY <1>3 DEF NotesCall, Lookups
  <2>3. c.probe # channelProbe
    BY ProbeFields
  <2> QED BY <1>2, <1>3, <1>5, <2>1, <2>2, <2>3 DEF Within
<1>12. \A d \in N : /\ CallOK(d) /\ NotesCall(d, s, pool) /\ Within(d, c) /\ \E i \in Nat : Reaches(d, i)
                    /\ First(d) = First(c) \/ (First(d) <= c.at + 1 /\ c.do \in {"bisect", "touch"})
                       \/ c.probe # channelProbe
  BY <1>4, <1>6, <1>11
<1>13. \A d, e \in N : d # e => \A i \in Nat : ~(Reaches(d, i) /\ Reaches(e, i))
  <2>1. \A d, e \in Rest(c, n) : d # e => \A i \in Nat : ~(Reaches(d, i) /\ Reaches(e, i))
    BY <1>1, RestOK
  <2> QED BY <1>5, <1>6, <2>1
<1> HIDE DEF N
<1> QED BY ONLY NotesAtWork(s), c \in DOMAIN s.pending, <1>9, <1>10, <1>12, <1>13, QuietStep

\* A subchannel of a token that was not asked for is passed over.
LEMMA AnswerPassed ==
    ASSUME NEW s, NotesAtWork(s), NEW c \in DOMAIN s.pending, c.do \in Scans, c.probe.on = "subchannel",
           NEW n \in Nat, n = Slots(c.probe), c.at < n,
           s.asked # {}, pool.tokens[c.probe.peer][c.at + 1] \notin s.asked,
           NEW r, r = Continue(Without(s, c), c, c.at < n)
    PROVE  SessionOK(r, pool)
PROOF
<1> DEFINE N == Rest(c, n)
<1>1. DOMAIN s = SessionFields /\ IsABag(s.pending) /\ CallOK(c) /\ PoolOK(pool)
  BY AtWork DEF NotesAtWork
<1>2. Issued(Without(s, c), r, N)
  BY <1>1, StillNotes, ContinueRest
<1>3. /\ InFlight(s, r, c, N) /\ DOMAIN r = SessionFields
      /\ \A f \in SessionFields \ {"pending"} : r[f] = s[f]
  <2> HIDE DEF N
  <2> QED BY ONLY <1>1, <1>2, QuietIssues
<1>4. \A d \in N : /\ CallOK(d) /\ NotesCall(d, s, pool) /\ Within(d, c) /\ (\E i \in Nat : Reaches(d, i))
  BY <1>1, RestCalls
<1>5. Resolved(s, r, c, N)
  <2>1. Settled(s, r, N, c.probe, c.at)
    BY DEF Settled
  <2>2. Rest(c, Slots(c.probe)) \subseteq N
    OBVIOUS
  <2> HIDE DEF N
  <2> QED BY <1>1, <2>1, <2>2, ScanResolved
<1>6. \A d, e \in N : d # e => \A i \in Nat : ~(Reaches(d, i) /\ Reaches(e, i))
  BY <1>1, RestOK
<1>7. c.probe # channelProbe
  BY ProbeFields
<1>8. \A d \in N : /\ CallOK(d) /\ NotesCall(d, s, pool) /\ Within(d, c) /\ (\E i \in Nat : Reaches(d, i))
                   /\ First(d) = First(c) \/ (First(d) <= c.at + 1 /\ c.do \in {"bisect", "touch"})
                       \/ c.probe # channelProbe
  BY <1>4, <1>7
<1> HIDE DEF N
<1> QED BY ONLY NotesAtWork(s), c \in DOMAIN s.pending, <1>3, <1>5, <1>6, <1>8, QuietStep

\* A channel or a subchannel is found: its own list is scanned from the beginning, and
\* the scan that found it goes on.
HitReady(s, c, n, u, lower) ==
    /\ NotesAtWork(s) /\ c \in DOMAIN s.pending /\ c.do \in Scans /\ n \in Nat /\ n = Slots(c.probe) /\ c.at < n
    /\ DOMAIN u = SessionFields /\ u.pending = s.pending (-) SetToBag({c})
    /\ \A f \in SessionFields \ {"pending", "cursor"} : u[f] = s[f]
    /\ CursorOK(u.cursor, pool) /\ DOMAIN s.cursor.notes \subseteq DOMAIN u.cursor.notes
    /\ lower \in Probes /\ lower.on # "channel" /\ lower # c.probe
    /\ \/ /\ c.probe.on = "channel" /\ lower = subchannelProbe(pool.channels[c.at + 1])
          /\ DOMAIN u.cursor.notes = DOMAIN s.cursor.notes \cup {pool.channels[c.at + 1]}
       \/ /\ c.probe.on = "subchannel" /\ lower = noteProbe(c.probe.peer, pool.tokens[c.probe.peer][c.at + 1])
          /\ DOMAIN u.cursor.notes = DOMAIN s.cursor.notes
    /\ s.fresh =>
          /\ Untouched(s, u, lower)
          /\ \A d \in DOMAIN s.pending : \A i \in Nat :
                Read(u, pool, d.probe, i) => Read(s, pool, d.probe, i) \/ (d.probe = c.probe /\ i = c.at)
          /\ \A p, t : Below(s, p, t) => Below(u, p, t)
          /\ lower.on = "subchannel" => lower.peer \in DOMAIN u.cursor.notes
          /\ lower.on = "note" => Below(u, lower.peer, lower.token)

\* A hit: the session goes down one level and the scan goes on.
LEMMA HitStep ==
    ASSUME NEW s, NEW c, NEW n, NEW u, NEW lower, HitReady(s, c, n, u, lower),
           NEW r, r = Continue(Track(u, {ScanFrom(lower, 0)}), c, c.at < n)
    PROVE  SessionOK(r, pool)
PROOF
<1> SUFFICES
      ASSUME NotesAtWork(s), c \in DOMAIN s.pending, c.do \in Scans, n \in Nat, n = Slots(c.probe), c.at < n,
             DOMAIN u = SessionFields, u.pending = s.pending (-) SetToBag({c}),
             \A f \in SessionFields \ {"pending", "cursor"} : u[f] = s[f],
             CursorOK(u.cursor, pool), DOMAIN s.cursor.notes \subseteq DOMAIN u.cursor.notes,
             lower \in Probes, lower.on # "channel", lower # c.probe,
             \/ /\ c.probe.on = "channel" /\ lower = subchannelProbe(pool.channels[c.at + 1])
                /\ DOMAIN u.cursor.notes = DOMAIN s.cursor.notes \cup {pool.channels[c.at + 1]}
             \/ /\ c.probe.on = "subchannel" /\ lower = noteProbe(c.probe.peer, pool.tokens[c.probe.peer][c.at + 1])
                /\ DOMAIN u.cursor.notes = DOMAIN s.cursor.notes,
             s.fresh =>
                /\ Untouched(s, u, lower)
                /\ \A d \in DOMAIN s.pending : \A i \in Nat :
                      Read(u, pool, d.probe, i) => Read(s, pool, d.probe, i) \/ (d.probe = c.probe /\ i = c.at)
                /\ \A p, t : Below(s, p, t) => Below(u, p, t)
                /\ lower.on = "subchannel" => lower.peer \in DOMAIN u.cursor.notes
                /\ lower.on = "note" => Below(u, lower.peer, lower.token)
      PROVE  SessionOK(r, pool)
  BY DEF HitReady
<1> DEFINE x == ScanFrom(lower, 0)
           N == {x} \cup Rest(c, n)
<1>1. /\ DOMAIN s = SessionFields /\ IsABag(s.pending) /\ CallOK(c) /\ NotesCall(c, s, pool) /\ PoolOK(pool)
      /\ IsABag(s.found) /\ DOMAIN s.found \cap s.chain.spent = {} /\ s.what = "notes"
  BY AtWork DEF NotesAtWork
<1>2. c.probe \in Probes /\ c.at \in Nat
  BY <1>1, CallTyped
<1>3. /\ CallOK(x) /\ x.probe = lower /\ x.do = "scan" /\ \A i \in Nat : Reaches(x, i)
  BY ScanFromOK
<1>4. u.what = "notes" /\ u.failed = s.failed /\ u.found = s.found /\ \A f \in Fixed : u[f] = s[f]
  BY <1>1 DEF SessionFields, Fixed
<1>5. IsABag(u.pending)
  <2>1. IsABag(s.pending (-) SetToBag({c}))
    BY ONLY <1>1, c \in DOMAIN s.pending, TakeOne
  <2> QED BY <2>1
<1>6. \A d \in Rest(c, n) : /\ CallOK(d) /\ NotesCall(d, s, pool) /\ Within(d, c) /\ ~Reaches(d, c.at)
                            /\ (\E i \in Nat : Reaches(d, i)) /\ First(d) <= c.at + 1
                            /\ c.probe.on = "channel" => c.do \in {"bisect", "touch"}
  BY <1>1, RestCalls
<1>7. \A d \in Rest(c, n) : d.probe = c.probe
  BY <1>6 DEF Within
<1> HIDE DEF x
<1>8. x \notin Rest(c, n)
  BY <1>3, <1>7
<1>9. Issued(u, r, N)
  BY <1>1, <1>4, <1>5, <1>8, HitIssues DEF x
<1>10. Reaches(c, c.at)
  BY <1>1, ReachesSome DEF Scans, Lookups
<1> HIDE DEF N
<1>11. InFlight(s, r, c, N)
  BY ONLY <1>1, <1>9, c \in DOMAIN s.pending, u.pending = s.pending (-) SetToBag({c}), AnswerIssues
<1>12. DOMAIN r = SessionFields /\ \A f \in SessionFields \ {"pending"} : r[f] = u[f]
  BY <1>9 DEF Issued
<1>13. r.cursor = u.cursor /\ r.found = s.found /\ r.failed = s.failed /\ \A f \in Fixed : r[f] = s[f]
  BY <1>4, <1>12 DEF SessionFields, Fixed
<1>14. NotesCall(x, s, pool)
  BY <1>3 DEF NotesCall, Lookups
<1>15. \A d \in N : CallOK(d) /\ NotesCall(d, s, pool)
  BY <1>3, <1>6, <1>14 DEF N
<1>16. Carried(s, r, c, N)
  BY <1>1, <1>11, <1>12, <1>13, <1>15 DEF Carried
<1>17. Resolved(s, r, c, N)
  <2>1. \A k \in Nat : Reached(N, lower, k)
    BY <1>3 DEF Reached, N
  <2>2. Settled(s, r, N, c.probe, c.at)
    BY <1>13, <2>1 DEF Settled
  <2>3. Rest(c, Slots(c.probe)) \subseteq N
    BY DEF N
  <2> QED BY <1>1, <2>2, <2>3, ScanResolved
<1>18. c.probe.on = "channel" => c.do \in {"bisect", "touch"}
  BY <1>1 DEF NotesCall, Scans
<1>19. \/ DOMAIN r.cursor.notes = DOMAIN s.cursor.notes
       \/ /\ c.probe = channelProbe /\ c.do \in {"bisect", "touch"}
          /\ DOMAIN r.cursor.notes = DOMAIN s.cursor.notes \cup {pool.channels[c.at + 1]}
  BY <1>2, <1>13, <1>18, ProbeKinds
<1>20. \A d \in N : d.probe = channelProbe =>
          /\ c.probe = channelProbe
          /\ First(d) = First(c) \/ (First(d) <= c.at + 1 /\ c.do \in {"bisect", "touch"})
  <2>1. x.probe # channelProbe
    BY <1>3, ProbeFields
  <2> QED BY <1>6, <1>7, <2>1, ProbeFields DEF N
<1>21. ASSUME s.fresh PROVE Once(r, DOMAIN r.pending, pool)
  <2>1. Once(s, DOMAIN s.pending, pool)
    BY <1>21, AtWork
  <2>2. /\ \A probe, i : Read(r, pool, probe, i) <=> Read(u, pool, probe, i)
        /\ \A p, t : Below(r, p, t) <=> Below(u, p, t)
    <3>1. r.cursor = u.cursor /\ r.found = u.found
      BY <1>4, <1>13
    <3> QED BY ONLY <3>1 DEF Read, Below
  <2>3. /\ c.probe.on = "subchannel" => c.probe.peer \in DOMAIN s.cursor.notes
        /\ AllOnce(s.found) /\ \A m \in DOMAIN s.found : Below(s, m.peer, m.token)
    BY <2>1 DEF Once
  <2>4. Untouched(s, r, lower)
    BY <1>21, <2>2 DEF Untouched
  <2>5. \A d \in N : (\E i \in Nat : Reaches(d, i)) /\ (Within(d, c) \/ Untouched(s, r, d.probe))
    BY <1>3, <1>6, <2>4 DEF N
  <2>6. \A d, e \in N : d # e /\ d.probe = e.probe => \A i \in Nat : ~(Reaches(d, i) /\ Reaches(e, i))
    <3>1. \A d, e \in Rest(c, n) : d # e => \A i \in Nat : ~(Reaches(d, i) /\ Reaches(e, i))
      BY <1>1, RestOK
    <3> QED BY <1>3, <1>7, <3>1 DEF N
  <2>7. AllOnce(r.found)
    BY <1>13, <2>3
  <2>8. \A e \in N : e.probe = c.probe => ~Reaches(e, c.at)
    BY <1>3, <1>6 DEF N
  <2>9. \A d \in DOMAIN s.pending : \A i \in Nat : Read(r, pool, d.probe, i) =>
              \/ Read(s, pool, d.probe, i)
              \/ d.probe = c.probe /\ Reaches(c, i) /\ \A e \in N : e.probe = c.probe => ~Reaches(e, i)
    BY <1>10, <1>21, <2>2, <2>8
  <2>10. \A p, t : Below(s, p, t) => Below(r, p, t)
    BY <1>21, <2>2
  <2>11. \A d \in N : /\ d.probe.on = "subchannel" => d.probe.peer \in DOMAIN r.cursor.notes
                      /\ d.probe.on = "note" => Below(r, d.probe.peer, d.probe.token)
    <3>1. /\ lower.on = "subchannel" => lower.peer \in DOMAIN r.cursor.notes
          /\ lower.on = "note" => Below(r, lower.peer, lower.token)
      BY <1>13, <1>21, <2>2
    <3>2. /\ c.probe.on = "subchannel" => c.probe.peer \in DOMAIN r.cursor.notes
          /\ c.probe.on # "note"
      BY <1>13, <2>3
    <3> QED BY <1>3, <1>7, <3>1, <3>2 DEF N
  <2>12. \A m \in DOMAIN r.found : Below(r, m.peer, m.token)
    BY <1>13, <2>3, <2>10
  <2>13. DOMAIN s.cursor.notes \subseteq DOMAIN r.cursor.notes
    BY <1>13
  <2> QED BY ONLY c \in DOMAIN s.pending, <1>11, <2>1, <2>5, <2>6, <2>7, <2>9, <2>10, <2>11, <2>12, <2>13, OnceKept
<1> QED BY <1>16, <1>17, <1>19, <1>20, <1>21, NotesStep

\* A channel is found.
LEMMA AnswerChannel ==
    ASSUME NEW s, NotesAtWork(s), NEW c \in DOMAIN s.pending, c.do \in Scans, c.probe.on = "channel",
           NEW n \in Nat, n = Slots(c.probe), c.at < n, NEW r,
           r = Continue(foundChannel(Without(s, c), c.at), c, c.at < n)
    PROVE  SessionOK(r, pool)
PROOF
<1> DEFINE p == pool.channels[c.at + 1]
           k == [s.cursor EXCEPT !.notes = Put(@, p, [sub |-> 0, indexes |-> Nothing])]
           u == [Without(s, c) EXCEPT !.cursor = k]
           lower == subchannelProbe(p)
<1>1. DOMAIN s = SessionFields /\ CallOK(c) /\ PoolOK(pool) /\ CursorOK(s.cursor, pool)
  BY AtWork DEF NotesAtWork
<1>2. c.probe = channelProbe /\ c.at \in Nat /\ n = Len(pool.channels)
  BY <1>1, CallTyped, ProbeKinds DEF Slots
<1>3. /\ c.at + 1 \in DOMAIN pool.channels /\ DOMAIN pool.channels = 1 .. n /\ Distinct(pool.channels)
      /\ p \in ToSet(pool.channels) /\ p \in Peers
  <2>1. pool.channels \in Seq(Peers) /\ Distinct(pool.channels)
    BY <1>1, PoolTyped
  <2>2. c.at + 1 \in 1 .. n /\ DOMAIN pool.channels = 1 .. n
    BY <1>2, <2>1
  <2> QED BY <2>1, <2>2 DEF ToSet
<1>4. foundChannel(Without(s, c), c.at) = Track(u, {ScanFrom(lower, 0)})
  <2>1. Without(s, c).cursor = s.cursor
    BY StillNotes
  <2>2. foundChannel(Without(s, c), c.at) =
           Scan([Without(s, c) EXCEPT !.cursor.notes = Put(@, p, [sub |-> 0, indexes |-> Nothing])], lower, 0)
    BY DEF foundChannel
  <2>3. [Without(s, c) EXCEPT !.cursor.notes = Put(@, p, [sub |-> 0, indexes |-> Nothing])] = u
    BY <2>1
  <2> QED BY <2>2, <2>3 DEF Scan
<1>5. /\ DOMAIN Without(s, c) = SessionFields /\ Without(s, c).pending = s.pending (-) SetToBag({c})
      /\ \A f \in SessionFields \ {"pending"} : Without(s, c)[f] = s[f]
  BY StillNotes
<1>6. PICK k2 : k2 = k
  OBVIOUS
<1>15. /\ DOMAIN k2 = {"notes", "channels", "total"} /\ k2.channels = s.cursor.channels /\ k2.total = s.cursor.total
       /\ k2.notes = Put(s.cursor.notes, p, Unread)
  <2>1. DOMAIN s.cursor = {"notes", "channels", "total"}
    BY <1>1 DEF CursorOK
  <2> QED BY <1>6, <2>1 DEF Unread
<1>7. /\ CursorOK(k2, pool)
      /\ DOMAIN k2.notes = DOMAIN s.cursor.notes \cup {p} /\ DOMAIN k2.notes[p].indexes = {}
      /\ \A q \in DOMAIN s.cursor.notes : q # p => k2.notes[q] = s.cursor.notes[q]
  <2>1. CursorOK(s.cursor, pool) /\ p \in ToSet(pool.channels)
    BY <1>1, <1>3
  <2> HIDE DEF p
  <2>2. /\ DOMAIN k2.notes = DOMAIN s.cursor.notes \cup {p}
        /\ \A q \in DOMAIN k2.notes : k2.notes[q] = IF q = p THEN Unread ELSE s.cursor.notes[q]
    BY ONLY <1>15 DEF Put
  <2>3. CursorOK(k2, pool)
    BY ONLY <1>15, <2>1, <2>2, ChannelMarked
  <2>4. DOMAIN Unread.indexes = {}
    BY DEF Unread, Nothing
  <2> QED BY <2>2, <2>3, <2>4
<1>8. /\ DOMAIN u = SessionFields /\ u.cursor = k2
      /\ \A f \in SessionFields \ {"cursor"} : u[f] = Without(s, c)[f]
  BY <1>5, <1>6, CursorChanged
<1> HIDE DEF u, k
<1>9. /\ u.pending = s.pending (-) SetToBag({c}) /\ u.found = s.found
      /\ \A f \in SessionFields \ {"pending", "cursor"} : u[f] = s[f]
  BY <1>5, <1>8 DEF SessionFields
<1>10. lower \in Probes /\ lower.on = "subchannel" /\ lower.peer = p /\ lower # c.probe
  BY <1>2, <1>3, ProbeFields
<1> HIDE DEF p, lower
<1>11. ASSUME s.fresh
       PROVE  /\ Untouched(s, u, lower)
              /\ \A d \in DOMAIN s.pending : \A i \in Nat :
                    Read(u, pool, d.probe, i) => Read(s, pool, d.probe, i) \/ (d.probe = c.probe /\ i = c.at)
              /\ \A q, t : Below(s, q, t) => Below(u, q, t)
  <2>1. Once(s, DOMAIN s.pending, pool)
    BY <1>11, AtWork
  <2>2. \A d \in DOMAIN s.pending : d.probe.on = "subchannel" => d.probe.peer \in DOMAIN s.cursor.notes
    BY <2>1 DEF Once
  <2>3. Reaches(c, c.at)
    BY <1>1, ReachesSome DEF Scans, Lookups
  <2>4. ~Read(s, pool, c.probe, c.at)
    BY <1>2, <2>1, <2>3 DEF Once
  <2>5. p \notin DOMAIN s.cursor.notes
    BY <1>3, <2>4 DEF Read, p
  <2>6. Untouched(s, u, lower)
    <3>1. \A d \in DOMAIN s.pending : d.probe # lower
      BY <1>10, <2>2, <2>5
    <3>2. \A i \in Nat : ~Read(u, pool, lower, i)
      BY <1>7, <1>8, <1>10 DEF Read
    <3> QED BY <3>1, <3>2 DEF Untouched
  <2>7. ASSUME NEW d \in DOMAIN s.pending, NEW i \in Nat, Read(u, pool, d.probe, i)
        PROVE  Read(s, pool, d.probe, i) \/ (d.probe = c.probe /\ i = c.at)
    <3>1. CallOK(d)
      BY AtWork
    <3>2. d.probe \in Probes
      BY <3>1, CallTyped
    <3>3. CASE d.probe.on = "channel"
      <4>1. d.probe = c.probe
        BY <1>2, <3>2, <3>3, ProbeKinds
      <4>2. i + 1 \in DOMAIN pool.channels /\ pool.channels[i + 1] \in DOMAIN s.cursor.notes \cup {p}
        BY <1>7, <1>8, <2>7, <3>3 DEF Read
      <4>3. CASE pool.channels[i + 1] = p
        <5>1. i + 1 = c.at + 1
          BY <1>3, <4>2, <4>3 DEF Distinct, p
        <5>2. i = c.at
          BY <1>2, <5>1
        <5> QED BY <4>1, <5>2
      <4>4. CASE pool.channels[i + 1] \in DOMAIN s.cursor.notes
        BY <3>3, <4>2, <4>4 DEF Read
      <4> QED BY <4>2, <4>3, <4>4
    <3>4. CASE d.probe.on = "subchannel"
      <4>1. d.probe.peer \in DOMAIN s.cursor.notes /\ d.probe.peer # p
        BY <2>2, <2>5, <3>4
      <4>2. u.cursor.notes[d.probe.peer] = s.cursor.notes[d.probe.peer]
        BY <1>7, <1>8, <4>1
      <4> QED BY <2>7, <3>4, <4>2 DEF Read
    <3>5. CASE d.probe.on = "note"
      BY <1>9, <2>7, <3>5 DEF Read
    <3> QED BY <3>2, <3>3, <3>4, <3>5, ProbeKinds
  <2>8. \A q, t : Below(s, q, t) => Below(u, q, t)
    BY <1>7, <1>8, <2>5 DEF Below
  <2> QED BY <2>6, <2>7, <2>8
<1>12. CursorOK(u.cursor, pool) /\ DOMAIN u.cursor.notes = DOMAIN s.cursor.notes \cup {pool.channels[c.at + 1]}
  BY <1>7, <1>8 DEF p
<1>13. lower = subchannelProbe(pool.channels[c.at + 1]) /\ lower.peer \in DOMAIN u.cursor.notes
  BY <1>7, <1>8, <1>10 DEF lower, p
<1>14. r = Continue(Track(u, {ScanFrom(lower, 0)}), c, c.at < n)
  BY <1>4
<1>16. HitReady(s, c, n, u, lower)
  BY <1>8, <1>9, <1>10, <1>11, <1>12, <1>13 DEF HitReady
<1> QED BY ONLY <1>14, <1>16, HitStep

\* A subchannel is found, of a token that is wanted.
LEMMA AnswerToken ==
    ASSUME NEW s, NotesAtWork(s), NEW c \in DOMAIN s.pending, c.do \in Scans, c.probe.on = "subchannel",
           NEW n \in Nat, n = Slots(c.probe), c.at < n,
           ~(s.asked # {} /\ pool.tokens[c.probe.peer][c.at + 1] \notin s.asked), NEW r,
           r = Continue(foundSubchannel(Without(s, c), c.probe.peer, c.at), c, c.at < n)
    PROVE  SessionOK(r, pool)
PROOF
<1> DEFINE p == c.probe.peer
           t == pool.tokens[p][c.at + 1]
           k == MarkToken(s.cursor, p, t, c.at)
           u == [Without(s, c) EXCEPT !.cursor = k]
           lower == noteProbe(p, t)
<1>1. DOMAIN s = SessionFields /\ CallOK(c) /\ PoolOK(pool) /\ CursorOK(s.cursor, pool)
  BY AtWork DEF NotesAtWork
<1>2. c.probe = subchannelProbe(p) /\ p \in Peers /\ c.at \in Nat /\ n = Len(pool.tokens[p])
  BY <1>1, CallTyped, ProbeKinds DEF Slots
<1>3. /\ c.at + 1 \in DOMAIN pool.tokens[p] /\ Distinct(pool.tokens[p])
      /\ t \in ToSet(pool.tokens[p]) /\ t \in Tokens
  <2>1. pool.tokens[p] \in Seq(Tokens) /\ Distinct(pool.tokens[p])
    BY <1>1, <1>2, PoolTyped
  <2>2. c.at + 1 \in 1 .. n /\ DOMAIN pool.tokens[p] = 1 .. n
    BY <1>2, <2>1, SMTT(60)
  <2> QED BY <2>1, <2>2 DEF ToSet
<1>4. foundSubchannel(Without(s, c), p, c.at) = Track(u, {ScanFrom(lower, 0)})
  <2>1. Without(s, c).cursor = s.cursor /\ Without(s, c).asked = s.asked
    BY StillNotes
  <2>2. foundSubchannel(Without(s, c), p, c.at) =
           Scan([Without(s, c) EXCEPT !.cursor.notes[p] =
                    [sub |-> Max({@.sub, c.at}), indexes |-> Put(@.indexes, t, 0)]], lower, 0)
    BY <2>1 DEF foundSubchannel
  <2>3. [Without(s, c) EXCEPT !.cursor.notes[p] =
            [sub |-> Max({@.sub, c.at}), indexes |-> Put(@.indexes, t, 0)]] = u
    BY <2>1 DEF MarkToken
  <2> QED BY <2>2, <2>3, Zenon DEF Scan
<1>5. /\ DOMAIN Without(s, c) = SessionFields /\ Without(s, c).pending = s.pending (-) SetToBag({c})
      /\ \A f \in SessionFields \ {"pending"} : Without(s, c)[f] = s[f]
  BY StillNotes
<1>6. PICK k2 : k2 = k
  OBVIOUS
<1> HIDE DEF p, t
<1>7. /\ CursorOK(k2, pool) /\ DOMAIN k2.notes = DOMAIN s.cursor.notes
      /\ \A q \in DOMAIN s.cursor.notes : q # p => k2.notes[q] = s.cursor.notes[q]
      /\ p \in DOMAIN s.cursor.notes => DOMAIN k2.notes[p].indexes = DOMAIN s.cursor.notes[p].indexes \cup {t}
  <2>1. CursorOK(s.cursor, pool) /\ t \in ToSet(pool.tokens[p]) /\ c.at \in Nat
    BY <1>1, <1>2, <1>3
  <2>2. k2 = MarkToken(s.cursor, p, t, c.at)
    BY <1>6
  <2>3. TokenKept(s.cursor, k2, p, t)
    BY ONLY <2>1, <2>2, TokenMarked
  <2> QED BY ONLY <2>3 DEF TokenKept
<1>8. /\ DOMAIN u = SessionFields /\ u.cursor = k2
      /\ \A f \in SessionFields \ {"cursor"} : u[f] = Without(s, c)[f]
  BY <1>5, <1>6, CursorChanged
<1> HIDE DEF u, k
<1>9. /\ u.pending = s.pending (-) SetToBag({c}) /\ u.found = s.found
      /\ \A f \in SessionFields \ {"pending", "cursor"} : u[f] = s[f]
  BY <1>5, <1>8 DEF SessionFields
<1>10. lower \in Probes /\ lower.on = "note" /\ lower.peer = p /\ lower.token = t /\ lower # c.probe
  BY <1>2, <1>3, ProbeFields
<1> HIDE DEF lower
<1>11. ASSUME s.fresh
       PROVE  /\ Untouched(s, u, lower)
              /\ \A d \in DOMAIN s.pending : \A i \in Nat :
                    Read(u, pool, d.probe, i) => Read(s, pool, d.probe, i) \/ (d.probe = c.probe /\ i = c.at)
              /\ \A q, m : Below(s, q, m) => Below(u, q, m)
              /\ Below(u, p, t)
  <2>1. Once(s, DOMAIN s.pending, pool)
    BY <1>11, AtWork
  <2>2. /\ \A d \in DOMAIN s.pending : d.probe.on = "note" => Below(s, d.probe.peer, d.probe.token)
        /\ \A m \in DOMAIN s.found : Below(s, m.peer, m.token)
        /\ p \in DOMAIN s.cursor.notes
    BY <2>1 DEF Once, p
  <2>3. Reaches(c, c.at)
    BY <1>1, ReachesSome DEF Scans, Lookups
  <2>4. ~Read(s, pool, c.probe, c.at)
    BY <1>2, <2>1, <2>3 DEF Once
  <2>5. t \notin DOMAIN s.cursor.notes[p].indexes
    BY <1>3, <2>4 DEF Read, p, t
  <2>6. Untouched(s, u, lower)
    <3>1. \A d \in DOMAIN s.pending : d.probe # lower
      BY <1>10, <2>2, <2>5 DEF Below
    <3>2. ASSUME NEW i \in Nat PROVE ~Read(u, pool, lower, i)
      <4>1. Note(p, t, i).peer = p /\ Note(p, t, i).token = t
        BY DEF Note
      <4>2. Note(p, t, i) \notin DOMAIN s.found
        BY <2>2, <2>5, <4>1 DEF Below
      <4> QED BY <1>9, <1>10, <4>2 DEF Read
    <3> QED BY <3>1, <3>2 DEF Untouched
  <2>7. ASSUME NEW d \in DOMAIN s.pending, NEW i \in Nat, Read(u, pool, d.probe, i)
        PROVE  Read(s, pool, d.probe, i) \/ (d.probe = c.probe /\ i = c.at)
    <3>1. CallOK(d)
      BY AtWork
    <3>2. d.probe \in Probes
      BY <3>1, CallTyped
    <3>3. CASE d.probe.on = "channel"
      BY <1>7, <1>8, <2>7, <3>3 DEF Read
    <3>4. CASE d.probe.on = "subchannel" /\ d.probe.peer # p
      <4>1. d.probe.peer \in DOMAIN s.cursor.notes
        BY <2>1, <3>4 DEF Once
      <4>2. u.cursor.notes[d.probe.peer] = s.cursor.notes[d.probe.peer]
        BY <1>7, <1>8, <3>4, <4>1
      <4> QED BY <2>7, <3>4, <4>2 DEF Read
    <3>5. CASE d.probe.on = "subchannel" /\ d.probe.peer = p
      <4>1. d.probe = c.probe
        BY <1>2, <3>2, <3>5, ProbeKinds
      <4>2. i + 1 \in DOMAIN pool.tokens[p] /\ pool.tokens[p][i + 1] \in DOMAIN s.cursor.notes[p].indexes \cup {t}
        BY <1>7, <1>8, <2>2, <2>7, <3>5 DEF Read
      <4>3. CASE pool.tokens[p][i + 1] = t
        <5>1. i + 1 = c.at + 1
          BY <1>3, <4>2, <4>3 DEF Distinct, t
        <5>2. i = c.at
          BY <1>2, <5>1
        <5> QED BY <4>1, <5>2
      <4>4. CASE pool.tokens[p][i + 1] \in DOMAIN s.cursor.notes[p].indexes
        BY <3>5, <4>2, <4>4 DEF Read
      <4> QED BY <4>2, <4>3, <4>4
    <3>6. CASE d.probe.on = "note"
      BY <1>9, <2>7, <3>6 DEF Read
    <3> QED BY <3>2, <3>3, <3>4, <3>5, <3>6, ProbeKinds
  <2>8. \A q, m : Below(s, q, m) => Below(u, q, m)
    BY <1>7, <1>8 DEF Below
  <2>9. Below(u, p, t)
    BY <1>7, <1>8, <2>2 DEF Below
  <2> QED BY <2>6, <2>7, <2>8, <2>9
<1>12. CursorOK(u.cursor, pool) /\ DOMAIN u.cursor.notes = DOMAIN s.cursor.notes
  BY <1>7, <1>8
<1>13. lower = noteProbe(c.probe.peer, pool.tokens[c.probe.peer][c.at + 1])
  BY DEF lower, p, t
<1>14. r = Continue(Track(u, {ScanFrom(lower, 0)}), c, c.at < n)
  BY <1>4 DEF p
<1>15. s.fresh => Below(u, lower.peer, lower.token)
  BY <1>10, <1>11, SMTT(30)
<1>16. HitReady(s, c, n, u, lower)
  BY <1>8, <1>9, <1>10, <1>11, <1>12, <1>13, <1>15 DEF HitReady
<1> QED BY ONLY <1>14, <1>16, HitStep

\* addNote: what it changes.
LEMMA NoteAdded ==
    ASSUME NEW w, DOMAIN w = SessionFields, NEW p, NEW t, NEW i
    PROVE  LET r == addNote(w, p, t, i)
           IN  /\ DOMAIN r = SessionFields /\ r.cursor = MarkNote(w.cursor, p, t, i)
               /\ r.found = w.found (+) SetToBag({Note(p, t, i)})
               /\ \A f \in SessionFields \ {"cursor", "found"} : r[f] = w[f]
PROOF
<1> DEFINE F == w.found (+) SetToBag({Note(p, t, i)})
           K == MarkNote(w.cursor, p, t, i)
<1>1. addNote(w, p, t, i) = [w EXCEPT !.found = F, !.cursor = K]
  BY DEF addNote, MarkNote, SessionFields
<1> HIDE DEF F, K
<1>2. PICK r : r = addNote(w, p, t, i)
  OBVIOUS
<1>3. /\ DOMAIN r = SessionFields /\ r.cursor = K /\ r.found = F
      /\ \A f \in SessionFields \ {"cursor", "found"} : r[f] = w[f]
  BY <1>1, <1>2 DEF SessionFields
<1> QED BY <1>2, <1>3 DEF F, K

\* A note is found.
LEMMA AnswerFound ==
    ASSUME NEW s, NotesAtWork(s), NEW c \in DOMAIN s.pending, c.do \in Reads,
           c.do = "nullifier" => Note(c.probe.peer, c.probe.token, c.at) \notin pool.spent,
           NEW r, r = addNote(Without(s, c), c.probe.peer, c.probe.token, c.at)
    PROVE  SessionOK(r, pool)
PROOF
<1> DEFINE p == c.probe.peer
           t == c.probe.token
           m == Note(p, t, c.at)
<1>1. /\ DOMAIN s = SessionFields /\ IsABag(s.pending) /\ CallOK(c) /\ NotesCall(c, s, pool) /\ PoolOK(pool)
      /\ CursorOK(s.cursor, pool) /\ IsABag(s.found) /\ DOMAIN s.found \cap s.chain.spent = {} /\ Grown(s.chain, pool)
  BY AtWork DEF NotesAtWork
<1>2. c.probe \in Probes /\ c.at \in Nat /\ c.probe.on = "note"
  BY <1>1, CallTyped DEF CallOK
<1>3. c.probe = noteProbe(p, t)
  BY <1>2, ProbeKinds
<1>4. /\ DOMAIN Without(s, c) = SessionFields /\ Without(s, c).pending = s.pending (-) SetToBag({c})
      /\ Without(s, c).cursor = s.cursor /\ Without(s, c).found = s.found
      /\ \A f \in SessionFields \ {"pending"} : Without(s, c)[f] = s[f]
  BY StillNotes
<1>5. /\ DOMAIN r = SessionFields /\ r.cursor = MarkNote(s.cursor, p, t, c.at)
      /\ r.found = s.found (+) SetToBag({m})
      /\ \A f \in SessionFields \ {"cursor", "found"} : r[f] = Without(s, c)[f]
  <2>1. PICK w : w = Without(s, c)
    OBVIOUS
  <2>2. DOMAIN w = SessionFields /\ w.cursor = s.cursor /\ w.found = s.found
    BY ONLY <1>4, <2>1
  <2>3. r = addNote(w, p, t, c.at)
    BY <2>1
  <2>4. /\ DOMAIN r = SessionFields /\ r.cursor = MarkNote(w.cursor, p, t, c.at)
        /\ r.found = w.found (+) SetToBag({Note(p, t, c.at)})
        /\ \A f \in SessionFields \ {"cursor", "found"} : r[f] = w[f]
    <3> HIDE DEF p, t
    <3>1. PICK i : i = c.at
      OBVIOUS
    <3>2. r = addNote(w, p, t, i)
      BY ONLY <2>3, <3>1
    <3>3. /\ DOMAIN r = SessionFields /\ r.cursor = MarkNote(w.cursor, p, t, i)
          /\ r.found = w.found (+) SetToBag({Note(p, t, i)})
          /\ \A f \in SessionFields \ {"cursor", "found"} : r[f] = w[f]
      BY ONLY <2>2, <3>2, NoteAdded, SMTT(30)
    <3> QED BY ONLY <3>1, <3>3
  <2> QED BY <2>1, <2>2, <2>4
<1>6. m \notin s.chain.spent
  BY <1>1 DEF NotesCall, Reads, Grown
<1> HIDE DEF m
<1>7. /\ IsABag(r.found) /\ DOMAIN r.found = DOMAIN s.found \cup {m}
      /\ AllOnce(s.found) /\ m \notin DOMAIN s.found => AllOnce(r.found)
  <2>1. /\ IsABag(s.found (+) SetToBag({m})) /\ DOMAIN (s.found (+) SetToBag({m})) = DOMAIN s.found \cup {m}
        /\ AllOnce(s.found) /\ {m} \cap DOMAIN s.found = {} => AllOnce(s.found (+) SetToBag({m}))
    BY <1>1, AddSet
  <2> QED BY <1>5, <2>1
<1>8. NoteKept(s.cursor, r.cursor)
  BY <1>1, <1>2, <1>5, NoteMarked
<1>9. /\ CursorOK(r.cursor, pool) /\ DOMAIN r.cursor.notes = DOMAIN s.cursor.notes
      /\ \A q \in DOMAIN s.cursor.notes : DOMAIN r.cursor.notes[q].indexes = DOMAIN s.cursor.notes[q].indexes
  BY <1>8 DEF NoteKept
<1>10. /\ r.pending = s.pending (-) SetToBag({c}) /\ r.failed = s.failed /\ \A f \in Fixed : r[f] = s[f]
  BY <1>4, <1>5 DEF SessionFields, Fixed
<1>11. InFlight(s, r, c, {})
  <2>1. IsABag(r.pending)
    <3>1. IsABag(s.pending (-) SetToBag({c}))
      BY ONLY <1>1, c \in DOMAIN s.pending, TakeOne
    <3> QED BY <1>10, <3>1
  <2>2. Issued(r, r, {})
    BY <1>5, <2>1, NothingIssued
  <2> QED BY ONLY <1>1, <1>10, <2>2, c \in DOMAIN s.pending, AnswerIssues
<1>12. Carried(s, r, c, {})
  BY <1>1, <1>5, <1>6, <1>7, <1>9, <1>10, <1>11 DEF Carried
<1>13. \A i \in Nat : Reaches(c, i) <=> i = c.at
  BY DEF Reaches, Reads
<1>14. Resolved(s, r, c, {})
  BY <1>2, <1>7, <1>13 DEF Resolved, Settled, m
<1>15. ASSUME s.fresh PROVE Once(r, DOMAIN r.pending, pool)
  <2>1. Once(s, DOMAIN s.pending, pool)
    BY <1>15, AtWork
  <2>2. \A q, v : Below(s, q, v) <=> Below(r, q, v)
    BY <1>9 DEF Below
  <2>3. /\ AllOnce(s.found) /\ (\A v \in DOMAIN s.found : Below(s, v.peer, v.token)) /\ Below(s, p, t)
        /\ \A d \in DOMAIN s.pending : d.probe.on = "subchannel" => d.probe.peer \in DOMAIN s.cursor.notes
    BY <1>2, <2>1 DEF Once
  <2>4. m \notin DOMAIN s.found
    <3>1. ~Read(s, pool, c.probe, c.at)
      BY <1>2, <1>13, <2>1 DEF Once
    <3> QED BY <1>2, <3>1 DEF Read, m
  <2>5. AllOnce(r.found)
    BY <1>7, <2>3, <2>4
  <2>6. m.peer = p /\ m.token = t /\ m.index = c.at
    BY DEF m, Note
  <2>7. \A v \in DOMAIN r.found : Below(r, v.peer, v.token)
    BY <1>7, <2>2, <2>3, <2>6
  <2>8. ASSUME NEW d \in DOMAIN s.pending, NEW i \in Nat, Read(r, pool, d.probe, i)
        PROVE  Read(s, pool, d.probe, i) \/ (d.probe = c.probe /\ Reaches(c, i))
    <3>1. CallOK(d)
      BY AtWork
    <3>2. d.probe \in Probes
      BY <3>1, CallTyped
    <3>3. CASE d.probe.on = "channel"
      BY <1>9, <2>8, <3>3 DEF Read
    <3>4. CASE d.probe.on = "subchannel"
      <4>1. DOMAIN r.cursor.notes[d.probe.peer].indexes = DOMAIN s.cursor.notes[d.probe.peer].indexes
        BY <1>9, <2>3, <3>4
      <4> QED BY <2>8, <3>4, <4>1 DEF Read
    <3>5. CASE d.probe.on = "note"
      <4>1. Note(d.probe.peer, d.probe.token, i) \in DOMAIN s.found \cup {m}
        BY <1>7, <2>8, <3>5 DEF Read
      <4>2. CASE Note(d.probe.peer, d.probe.token, i) \in DOMAIN s.found
        BY <3>5, <4>2 DEF Read
      <4>3. CASE Note(d.probe.peer, d.probe.token, i) = m
        <5>1. d.probe.peer = p /\ d.probe.token = t /\ i = c.at
          BY <2>6, <4>3 DEF Note
        <5>2. d.probe = c.probe
          BY <1>3, <3>2, <3>5, <5>1, ProbeKinds
        <5> QED BY <1>13, <5>1, <5>2
      <4> QED BY <4>1, <4>2, <4>3
    <3> QED BY <3>2, <3>3, <3>4, <3>5, ProbeKinds
  <2>9. PICK N : N = {}
    OBVIOUS
  <2>10. \A d \in DOMAIN s.pending : \A i \in Nat : Read(r, pool, d.probe, i) =>
              \/ Read(s, pool, d.probe, i)
              \/ d.probe = c.probe /\ Reaches(c, i) /\ \A e \in N : e.probe = c.probe => ~Reaches(e, i)
    BY <2>8, <2>9
  <2>11. DOMAIN s.cursor.notes \subseteq DOMAIN r.cursor.notes
    BY <1>9
  <2>12. \A q, v : Below(s, q, v) => Below(r, q, v)
    BY <2>2
  <2>13. \A d \in N : (\E i \in Nat : Reaches(d, i)) /\ (Within(d, c) \/ Untouched(s, r, d.probe))
    BY ONLY <2>9
  <2>14. \A d, e \in N : d # e /\ d.probe = e.probe => \A i \in Nat : ~(Reaches(d, i) /\ Reaches(e, i))
    BY ONLY <2>9
  <2>15. \A d \in N : /\ d.probe.on = "subchannel" => d.probe.peer \in DOMAIN r.cursor.notes
                      /\ d.probe.on = "note" => Below(r, d.probe.peer, d.probe.token)
    BY ONLY <2>9
  <2>16. InFlight(s, r, c, N)
    BY ONLY <1>11, <2>9
  <2> QED BY ONLY c \in DOMAIN s.pending, <2>1, <2>5, <2>7, <2>10, <2>11, <2>12, <2>13, <2>14, <2>15, <2>16, OnceKept
<1> QED BY <1>9, <1>12, <1>14, <1>15, NotesStep

\* What a view's answer makes of a session.
Answered(s, c) ==
    LET u == Without(s, c)
        p == c.probe.peer
        t == c.probe.token
    IN  CASE c.do = "get_num_of_channels" -> Bisect(u, channelProbe, c.lo, Len(pool.channels))
          [] c.do = "get_public_key" -> gotPublicKey(u, p)
          [] c.do = "channel_exists" -> gotChannel(u, p)
          [] c.do = "nullifier"      -> addNoteIfNotSpent(u, p, t, c.at)
          [] c.do = "note"           -> addNote(u, p, t, c.at)
          [] c.do = "touch" /\ u.what = "notes" /\ c.probe.on = "note" -> touchNote(u, c)
          [] OTHER -> Continue(IF Filled(c.probe, c.at) THEN Hit(u, c) ELSE u, c, Filled(c.probe, c.at))

\* Any answer keeps a notes session's invariant.
LEMMA NotesAnswer ==
    ASSUME NEW s, NotesAtWork(s), NEW c \in DOMAIN s.pending
    PROVE  SessionOK(Answered(s, c), pool)
PROOF
<1> DEFINE u == Without(s, c)
           m == Note(c.probe.peer, c.probe.token, c.at)
<1>1. CallOK(c) /\ NotesCall(c, s, pool) /\ PoolOK(pool)
  BY AtWork DEF NotesAtWork
<1>2. /\ c.probe \in Probes /\ c.at \in Nat
      /\ c.do \in Scans \cup Reads \cup {"get_num_of_channels"} /\ (c.do \in Reads => c.probe.on = "note")
  BY <1>1, CallTyped DEF CallOK, NotesCall
<1>3. u.what = "notes" /\ u.asked = s.asked
  BY StillNotes
<1> HIDE DEF u
<1>4. CASE c.do = "get_num_of_channels"
  <2>1. Answered(s, c) = Bisect(Without(s, c), channelProbe, c.lo, Len(pool.channels))
    BY <1>4 DEF Answered
  <2> QED BY <1>4, <2>1, AnswerCount
<1>5. CASE c.do = "nullifier" /\ m \in pool.spent
  <2>1. Answered(s, c) = Without(s, c)
    BY <1>5 DEF Answered, addNoteIfNotSpent
  <2> QED BY <1>2, <1>5, <2>1, AnswerSpent DEF Reads
<1>6. CASE c.do = "note" \/ (c.do = "nullifier" /\ m \notin pool.spent)
  <2>1. Answered(s, c) = addNote(Without(s, c), c.probe.peer, c.probe.token, c.at)
    BY <1>6 DEF Answered, addNoteIfNotSpent
  <2> QED BY <1>6, <2>1, AnswerFound DEF Reads
<1>7. CASE c.do = "touch" /\ c.probe.on = "note"
  <2>1. Answered(s, c) = touchNote(Without(s, c), c)
    BY <1>3, <1>7 DEF Answered, u
  <2>2. CASE m \in pool.spent
    BY <1>7, <2>1, <2>2, AnswerSpent DEF touchNote
  <2>3. CASE m \notin pool.spent
    <3>1. Answered(s, c) = Track(Without(s, c), {Call("note", c.probe, c.at, 0, 0, 0)})
      BY <2>1, <2>3 DEF touchNote
    <3> QED BY <1>7, <2>3, <3>1, AnswerTouched
  <2> QED BY <2>2, <2>3
<1>8. CASE c.do \in Scans /\ ~(c.do = "touch" /\ c.probe.on = "note")
  <2>1. PICK n \in Nat : n = Slots(c.probe) /\ Filled(c.probe, c.at) = (c.at < n)
    BY <1>1, <1>2, FilledSlots
  <2>2. Answered(s, c) = Continue(IF c.at < n THEN Hit(u, c) ELSE u, c, c.at < n)
    BY <1>8, <2>1 DEF Answered, Scans, u
  <2>3. CASE ~(c.at < n)
    <3>1. Answered(s, c) = Continue(Without(s, c), c, c.at < n)
      BY <2>2, <2>3 DEF u
    <3> QED BY <1>8, <2>1, <2>3, <3>1, AnswerEmpty
  <2>4. CASE c.at < n /\ c.probe.on = "channel"
    <3>1. Hit(u, c) = foundChannel(u, c.at)
      BY <1>3, <2>4 DEF Hit
    <3>2. Answered(s, c) = Continue(foundChannel(Without(s, c), c.at), c, c.at < n)
      BY <2>2, <2>4, <3>1 DEF u
    <3> QED BY <1>8, <2>1, <2>4, <3>2, AnswerChannel
  <2>5. CASE c.at < n /\ c.probe.on = "subchannel"
    <3>1. Hit(u, c) = foundSubchannel(u, c.probe.peer, c.at)
      BY <1>3, <2>5 DEF Hit
    <3>2. Answered(s, c) = Continue(foundSubchannel(Without(s, c), c.probe.peer, c.at), c, c.at < n)
      BY <2>2, <2>5, <3>1 DEF u
    <3>3. CASE s.asked # {} /\ pool.tokens[c.probe.peer][c.at + 1] \notin s.asked
      <4>1. foundSubchannel(Without(s, c), c.probe.peer, c.at) = Without(s, c)
        BY <1>3, <3>3 DEF foundSubchannel, u
      <4>2. Answered(s, c) = Continue(Without(s, c), c, c.at < n)
        BY <3>2, <4>1
      <4> QED BY <1>8, <2>1, <2>5, <3>3, <4>2, AnswerPassed
    <3>4. CASE ~(s.asked # {} /\ pool.tokens[c.probe.peer][c.at + 1] \notin s.asked)
      BY <1>8, <2>1, <2>5, <3>2, <3>4, AnswerToken
    <3> QED BY <3>3, <3>4
  <2>6. CASE c.at < n /\ c.probe.on = "note"
    <3>1. Hit(u, c) = Track(u, {Call("nullifier", c.probe, c.at, 0, 0, 0)})
      BY <1>3, <2>6 DEF Hit
    <3>2. Answered(s, c) = Continue(Track(Without(s, c), {Call("nullifier", c.probe, c.at, 0, 0, 0)}), c, c.at < n)
      BY <2>2, <2>6, <3>1 DEF u
    <3>3. c.do \in {"scan", "bisect"}
      BY <1>8, <2>6 DEF Scans
    <3> QED BY <2>1, <2>6, <3>2, <3>3, AnswerNoteSlot
  <2>7. c.probe.on \in {"channel", "subchannel", "note"}
    BY <1>2, ProbeKinds
  <2> QED BY ONLY <2>3, <2>4, <2>5, <2>6, <2>7
<1>9. c.do \in Scans \/ c.do \in {"get_num_of_channels", "nullifier", "note"}
  BY <1>2 DEF Reads
<1> HIDE DEF m
<1> QED BY ONLY <1>4, <1>5, <1>6, <1>7, <1>8, <1>9

-----------------------------------------------------------------------------
(***************************************************************************)
(* A channels session loses nothing when a call is answered.               *)
(***************************************************************************)

\* The session is running and keeps its invariant.
ChannelsAtWork(s) ==
    /\ PoolOK(pool) /\ SessionOK(s, pool) /\ s.what = "channels" /\ s.pc = "running"

\* What that says of it.
LEMMA OutAtWork ==
    ASSUME NEW s, ChannelsAtWork(s)
    PROVE  /\ DOMAIN s = SessionFields /\ s.failed \in BOOLEAN /\ PoolOK(s.chain) /\ Grown(s.chain, pool)
           /\ CursorOK(s.cursor, pool) /\ IsABag(s.pending)
           /\ \A d \in DOMAIN s.pending : CallOK(d) /\ ChannelsCall(d, s)
           /\ ChannelsInv(s, DOMAIN s.pending, pool)
PROOF
<1>1. ChannelsInv(s, DOMAIN s.pending, pool)
  BY DEF ChannelsAtWork, SessionOK
<1>2. /\ DOMAIN s = SessionFields /\ s.failed \in BOOLEAN /\ PoolOK(s.chain) /\ Grown(s.chain, pool)
      /\ CursorOK(s.cursor, pool) /\ IsABag(s.pending) /\ \A d \in DOMAIN s.pending : CallOK(d)
  BY DEF ChannelsAtWork, SessionOK
<1> QED BY <1>1, <1>2 DEF ChannelsInv

\* What an answer changes of a channels session: no channel is forgotten.
OutCarried(s, r, c, N) ==
    /\ DOMAIN r = SessionFields /\ \A f \in Fixed : r[f] = s[f]
    /\ r.failed \in BOOLEAN /\ (s.failed => r.failed)
    /\ InFlight(s, r, c, N)
    /\ CursorOK(r.cursor, pool) /\ r.cursor.notes = s.cursor.notes
    /\ s.cursor.total <= r.cursor.total
    /\ DOMAIN s.cursor.channels \subseteq DOMAIN r.cursor.channels
    /\ \A d \in N : CallOK(d) /\ ChannelsCall(d, r)

\* The slots of the list of channels that the call led to are counted, or still reached.
TotalKept(s, r, c) ==
    c.probe = channelProbe => \A i \in Nat : Reaches(c, i) /\ i < Len(pool.channels) =>
        i + 1 <= r.cursor.total \/ Reached(DOMAIN r.pending, channelProbe, i)

\* The channels asked for, and the recipients whose keys are.
AsksKept(s, r) ==
    /\ \A p \in ToSet(s.chain.channels) :
          ChannelAhead(s, DOMAIN s.pending, p) => ChannelAhead(r, DOMAIN r.pending, p)
    /\ \A p \in s.chain.keys :
          LookedUp(DOMAIN s.pending, "get_public_key", p) =>
             p \in DOMAIN r.cursor.channels \/ LookedUp(DOMAIN r.pending, "get_public_key", p)

\* An answer that keeps all that keeps the invariant.
LEMMA ChannelsStep ==
    ASSUME NEW s, ChannelsAtWork(s), NEW r, NEW c \in DOMAIN s.pending, NEW N,
           OutCarried(s, r, c, N), ~r.failed => TotalKept(s, r, c) /\ AsksKept(s, r)
    PROVE  SessionOK(r, pool)
PROOF
<1> DEFINE D == DOMAIN s.pending
           D2 == DOMAIN r.pending
<1>1. PoolOK(pool) /\ s.what = "channels" /\ s.pc = "running"
  BY DEF ChannelsAtWork
<1>2. /\ s.failed \in BOOLEAN /\ PoolOK(s.chain) /\ Grown(s.chain, pool) /\ CursorOK(s.cursor, pool)
      /\ \A d \in D : CallOK(d) /\ ChannelsCall(d, s)
      /\ ChannelsInv(s, D, pool)
  BY OutAtWork
<1>3. /\ DOMAIN r = SessionFields /\ r.chain = s.chain /\ r.asked = s.asked /\ r.what = s.what /\ r.pc = s.pc
      /\ r.failed \in BOOLEAN /\ (s.failed => r.failed) /\ InFlight(s, r, c, N)
      /\ CursorOK(r.cursor, pool) /\ r.cursor.notes = s.cursor.notes /\ s.cursor.total <= r.cursor.total
      /\ DOMAIN s.cursor.channels \subseteq DOMAIN r.cursor.channels
      /\ \A d \in N : CallOK(d) /\ ChannelsCall(d, r)
  BY DEF OutCarried, Fixed
<1>4. \A d \in D2 : CallOK(d) /\ ChannelsCall(d, r)
  <2>1. \A d \in D : ChannelsCall(d, r)
    BY <1>2, <1>3 DEF ChannelsCall
  <2>2. D2 \subseteq D \cup N
    BY <1>3 DEF InFlight
  <2> QED BY <1>2, <1>3, <2>1, <2>2
<1>5. IsABag(r.pending)
  BY <1>3 DEF InFlight
<1>6. FirstKnown(DOMAIN r.cursor.notes, pool)
  BY <1>2, <1>3 DEF ChannelsInv
<1>7. ASSUME ~r.failed, s.asked \in {{"all"}, {"total-only"}}, NEW j \in DOMAIN s.chain.channels
      PROVE  j <= r.cursor.total \/ Reached(D2, channelProbe, j - 1)
  <2>1. j <= s.cursor.total \/ Reached(D, channelProbe, j - 1)
    BY <1>2, <1>3, <1>7 DEF ChannelsInv
  <2>2. /\ s.chain.channels \in Seq(Peers) /\ pool.channels \in Seq(Peers) /\ Starts(s.chain.channels, pool.channels)
    BY <1>1, <1>2, PoolTyped DEF Grown
  <2>3. j - 1 \in Nat /\ j - 1 < Len(pool.channels) /\ j \in Nat /\ j = (j - 1) + 1
    BY <2>2, SlotKept
  <2>4. s.cursor.total \in Nat /\ r.cursor.total \in Nat
    BY <1>2, <1>3 DEF CursorOK
  <2>5. CASE j <= s.cursor.total
    BY <1>3, <2>3, <2>4, <2>5
  <2>6. CASE Reached(D, channelProbe, j - 1)
    <3>1. PICK d \in D : d.probe = channelProbe /\ Reaches(d, j - 1)
      BY <2>6 DEF Reached
    <3>2. CASE d # c
      BY <1>3, <3>1, <3>2 DEF InFlight, Reached
    <3>3. CASE d = c
      BY <1>7, <2>3, <3>1, <3>3 DEF TotalKept
    <3> QED BY <3>2, <3>3
  <2> QED BY <2>1, <2>5, <2>6
<1>8. ASSUME ~r.failed, NEW p \in ToSet(s.chain.channels), s.asked = {"all"} \/ p \in s.asked
      PROVE  ChannelAhead(r, D2, p)
  <2>1. ChannelAhead(s, D, p)
    BY <1>2, <1>3, <1>8 DEF ChannelsInv
  <2> QED BY <1>8, <2>1 DEF AsksKept
<1>9. ASSUME ~r.failed, NEW p \in s.asked \cap s.chain.keys
      PROVE  p \in DOMAIN r.cursor.channels \/ LookedUp(D2, "get_public_key", p)
  <2>1. p \in DOMAIN s.cursor.channels \/ LookedUp(D, "get_public_key", p)
    BY <1>2, <1>3, <1>9 DEF ChannelsInv
  <2> QED BY <1>3, <1>9, <2>1 DEF AsksKept
<1> HIDE DEF D, D2
<1>10. ChannelsInv(r, D2, pool)
  BY <1>3, <1>4, <1>6, <1>7, <1>8, <1>9 DEF ChannelsInv
<1> QED BY <1>1, <1>2, <1>3, <1>4, <1>5, <1>10 DEF SessionOK, D2

\* The notes of this list are all to be counted, from the beginning.
Recounted(calls, p, t) == \A i \in Nat : Reached(calls, noteProbe(p, t), i)

\* Of a channel whose key is known: its tokens are kept, with their counters or with
\* their notes to be counted again; the slots the call led to are read, or reached.
TokensKept(s, r, c, p) ==
    /\ p \in DOMAIN r.cursor.channels /\ r.cursor.channels[p].key
    /\ \A t \in DOMAIN s.cursor.channels[p].tokens :
          /\ t \in DOMAIN r.cursor.channels[p].tokens
          /\ \/ s.cursor.channels[p].tokens[t].nonce <= r.cursor.channels[p].tokens[t].nonce
             \/ Recounted(DOMAIN r.pending, p, t)
          /\ c.probe = noteProbe(p, t) =>
                \A i \in Nat : Reaches(c, i) /\ i < pool.count[p][t] =>
                   \/ Reached(DOMAIN r.pending, noteProbe(p, t), i)
                   \/ i + 1 <= r.cursor.channels[p].tokens[t].nonce
    /\ c.probe = subchannelProbe(p) =>
          \A i \in Nat : Reaches(c, i) /\ i < Len(pool.tokens[p]) =>
             \/ Reached(DOMAIN r.pending, subchannelProbe(p), i)
             \/ /\ pool.tokens[p][i + 1] \in DOMAIN r.cursor.channels[p].tokens
                /\ Recounted(DOMAIN r.pending, p, pool.tokens[p][i + 1])

\* The tokens and notes of a channel with a key stay found or ahead.
LEMMA KeyedKept ==
    ASSUME NEW s, NEW r, NEW c, NEW N, PoolOK(pool), PoolOK(s.chain), Grown(s.chain, pool),
           InFlight(s, r, c, N), r.chain = s.chain, CursorOK(s.cursor, pool), CursorOK(r.cursor, pool),
           NEW p \in Peers, TokensKept(s, r, c, p), KeyedAhead(s, DOMAIN s.pending, p)
    PROVE  KeyedAhead(r, DOMAIN r.pending, p)
PROOF
<1> DEFINE D == DOMAIN s.pending
           D2 == DOMAIN r.pending
           old == s.cursor.channels[p].tokens
           new == r.cursor.channels[p].tokens
<1>1. p \in DOMAIN s.cursor.channels /\ p \in DOMAIN r.cursor.channels /\ r.cursor.channels[p].key
  BY Zenon DEF KeyedAhead, TokensKept
<1>2. /\ \A t \in DOMAIN old : t \in Tokens /\ old[t].nonce \in Nat
      /\ \A t \in DOMAIN new : t \in Tokens /\ new[t].nonce \in Nat
  BY <1>1, Zenon DEF CursorOK, OutgoingOK, TokenOK
<1>3. ASSUME NEW k \in DOMAIN s.chain.tokens[p] PROVE TokenAhead(r, D2, p, k)
  <2> DEFINE t == s.chain.tokens[p][k]
             m == s.chain.count[p][t]
  <2>1. TokenAhead(s, D, p, k)
    BY <1>3 DEF KeyedAhead
  <2>2. /\ s.chain.tokens[p] \in Seq(Tokens) /\ pool.tokens[p] \in Seq(Tokens)
        /\ Starts(s.chain.tokens[p], pool.tokens[p])
    BY PoolTyped DEF Grown
  <2>3. /\ k - 1 \in Nat /\ k - 1 < Len(pool.tokens[p]) /\ pool.tokens[p][(k - 1) + 1] = t /\ t \in Tokens
    BY <1>3, <2>2, SlotKept
  <2>4. m \in Nat /\ pool.count[p][t] \in Nat /\ m <= pool.count[p][t]
    BY <2>3, PoolTyped DEF Grown
  <2>5. Recounted(D2, p, t) /\ t \in DOMAIN new => TokenAhead(r, D2, p, k)
    <3> SUFFICES ASSUME Recounted(D2, p, t), t \in DOMAIN new PROVE NotesAhead(r, D2, p, t)
      BY Zenon DEF TokenAhead
    <3>1. CASE m = 0
      <4>1. new[t].nonce \in Nat
        BY <1>2, Zenon
      <4>2. m <= new[t].nonce
        <5> HIDE DEF m, new, t
        <5> QED BY ONLY <3>1, <4>1, SMTT(30)
      <4> QED BY <4>2, Zenon DEF NotesAhead
    <3>2. CASE m > 0
      <4>1. m - 1 \in Nat
        BY <2>4, <3>2
      <4> QED BY <3>2, <4>1 DEF NotesAhead, Recounted
    <3> QED BY <2>4, <3>1, <3>2
  <2>6. CASE Reached(D, subchannelProbe(p), k - 1)
    <3>1. PICK d \in D : d.probe = subchannelProbe(p) /\ Reaches(d, k - 1)
      BY <2>6 DEF Reached
    <3>2. CASE d # c
      <4>1. Reached(D2, subchannelProbe(p), k - 1)
        BY <3>1, <3>2 DEF InFlight, Reached
      <4> QED BY <4>1 DEF TokenAhead
    <3>3. CASE d = c
      <4>1. \/ Reached(D2, subchannelProbe(p), k - 1)
            \/ t \in DOMAIN new /\ Recounted(D2, p, t)
        BY <2>3, <3>1, <3>3 DEF TokensKept
      <4> QED BY <2>5, <4>1 DEF TokenAhead
    <3> QED BY <3>2, <3>3
  <2>7. CASE t \in DOMAIN old /\ NotesAhead(s, D, p, t)
    <3>1. /\ t \in DOMAIN new
          /\ old[t].nonce <= new[t].nonce \/ Recounted(D2, p, t)
          /\ c.probe = noteProbe(p, t) =>
                \A i \in Nat : Reaches(c, i) /\ i < pool.count[p][t] =>
                   Reached(D2, noteProbe(p, t), i) \/ i + 1 <= new[t].nonce
      BY <2>7, Zenon DEF TokensKept
    <3>2. old[t].nonce \in Nat /\ new[t].nonce \in Nat
      BY <1>2, <2>7, <3>1, Zenon
    <3>3. CASE m <= old[t].nonce /\ old[t].nonce <= new[t].nonce
      <4> HIDE DEF m, old, new, t
      <4>1. m <= new[t].nonce
        BY ONLY <2>4, <3>2, <3>3
      <4> QED BY <3>1, <4>1, Zenon DEF TokenAhead, NotesAhead, m, new, t
    <3>4. CASE m > 0 /\ Reached(D, noteProbe(p, t), m - 1)
      <4>1. m - 1 \in Nat /\ m - 1 < pool.count[p][t] /\ (m - 1) + 1 = m
        <5> HIDE DEF m, t, D
        <5> QED BY ONLY <2>4, <3>4, SMTT(30)
      <4>2. PICK d \in D : d.probe = noteProbe(p, t) /\ Reaches(d, m - 1)
        BY <3>4 DEF Reached
      <4>3. Reached(D2, noteProbe(p, t), m - 1) \/ m <= new[t].nonce
        <5>1. CASE d # c
          BY <4>2, <5>1, Zenon DEF InFlight, Reached
        <5>2. CASE d = c
          BY <3>1, <4>1, <4>2, <5>2, Zenon
        <5> QED BY <5>1, <5>2, Zenon
      <4> QED BY <3>1, <3>4, <4>3, Zenon DEF TokenAhead, NotesAhead
    <3> QED BY <2>5, <2>7, <3>1, <3>3, <3>4, Zenon DEF NotesAhead
  <2> QED BY <2>1, <2>6, <2>7 DEF TokenAhead
<1> QED BY <1>1, <1>3 DEF KeyedAhead

\* The channels and the keys that were to be looked up still are, or are known.
LEMMA AsksStill ==
    ASSUME NEW s, NEW r, NEW c \in DOMAIN s.pending, NEW N, PoolOK(pool), PoolOK(s.chain), Grown(s.chain, pool),
           CursorOK(s.cursor, pool), OutCarried(s, r, c, N),
           s.asked = {"all"} /\ c.probe = channelProbe =>
              \A i \in Nat : Reaches(c, i) /\ i < Len(pool.channels) =>
                 Reached(DOMAIN r.pending, channelProbe, i) \/ ChannelAhead(r, DOMAIN r.pending, pool.channels[i + 1]),
           \A p \in ToSet(s.chain.channels) :
              c.do \in Lookups /\ c.probe = subchannelProbe(p) => ChannelAhead(r, DOMAIN r.pending, p),
           \A p \in Peers : p \in DOMAIN s.cursor.channels /\ s.cursor.channels[p].key =>
              TokensKept(s, r, c, p) \/ LookedUp(DOMAIN r.pending, "channel_exists", p),
           \A p \in s.chain.keys : c.do = "get_public_key" /\ c.probe = subchannelProbe(p) =>
              p \in DOMAIN r.cursor.channels
    PROVE  AsksKept(s, r)
PROOF
<1> DEFINE D == DOMAIN s.pending
           D2 == DOMAIN r.pending
<1>1. /\ r.chain = s.chain /\ r.asked = s.asked /\ InFlight(s, r, c, N) /\ CursorOK(r.cursor, pool)
  BY DEF OutCarried, Fixed
<1>2. /\ s.chain.channels \in Seq(Peers) /\ pool.channels \in Seq(Peers) /\ Starts(s.chain.channels, pool.channels)
  BY PoolTyped DEF Grown
<1>3. ASSUME NEW p, NEW do, LookedUp(D, do, p), ~LookedUp(D2, do, p) PROVE c.do = do /\ c.probe = subchannelProbe(p)
  BY <1>1, <1>3 DEF LookedUp, InFlight
<1>4. ASSUME NEW p \in ToSet(s.chain.channels), ChannelAhead(s, D, p) PROVE ChannelAhead(r, D2, p)
  <2>1. p \in Peers
    BY <1>2 DEF ToSet
  <2>2. CASE s.asked = {"all"} /\ \E j \in DOMAIN s.chain.channels :
                s.chain.channels[j] = p /\ Reached(D, channelProbe, j - 1)
    <3>1. PICK j \in DOMAIN s.chain.channels : s.chain.channels[j] = p /\ Reached(D, channelProbe, j - 1)
      BY <2>2
    <3>2. j - 1 \in Nat /\ j - 1 < Len(pool.channels) /\ pool.channels[(j - 1) + 1] = p
      BY <1>2, <3>1, SlotKept
    <3>3. PICK d \in D : d.probe = channelProbe /\ Reaches(d, j - 1)
      BY <3>1 DEF Reached
    <3>4. Reached(D2, channelProbe, j - 1) \/ ChannelAhead(r, D2, p)
      <4>1. CASE d # c
        BY <1>1, <3>3, <4>1 DEF InFlight, Reached
      <4>2. CASE d = c
        BY <2>2, <3>2, <3>3, <4>2
      <4> QED BY <4>1, <4>2
    <3>5. Reached(D2, channelProbe, j - 1) => ChannelAhead(r, D2, p)
      BY <1>1, <2>2, <3>1 DEF ChannelAhead
    <3> QED BY <3>4, <3>5
  <2>3. CASE \E do \in Lookups : LookedUp(D, do, p)
    <3>1. PICK do \in Lookups : LookedUp(D, do, p)
      BY <2>3
    <3>2. CASE LookedUp(D2, do, p)
      BY <3>2 DEF ChannelAhead
    <3>3. CASE ~LookedUp(D2, do, p)
      BY <1>3, <3>1, <3>3
    <3> QED BY <3>2, <3>3
  <2>4. CASE KeyedAhead(s, D, p)
    <3>1. TokensKept(s, r, c, p) \/ LookedUp(D2, "channel_exists", p)
      BY <2>1, <2>4 DEF KeyedAhead
    <3>2. CASE TokensKept(s, r, c, p)
      <4>1. KeyedAhead(r, D2, p)
        BY <1>1, <2>1, <2>4, <3>2, KeyedKept
      <4> QED BY <4>1 DEF ChannelAhead
    <3>3. CASE LookedUp(D2, "channel_exists", p)
      BY <3>3 DEF ChannelAhead, Lookups
    <3> QED BY <3>1, <3>2, <3>3
  <2> QED BY <1>4, <2>2, <2>3, <2>4 DEF ChannelAhead
<1>5. ASSUME NEW p \in s.chain.keys, LookedUp(D, "get_public_key", p)
      PROVE  p \in DOMAIN r.cursor.channels \/ LookedUp(D2, "get_public_key", p)
  BY <1>3, <1>5
<1> QED BY <1>4, <1>5 DEF AsksKept

\* A channel whose record is not changed.
LEMMA TokensSame ==
    ASSUME NEW s, NEW r, NEW c, CursorOK(s.cursor, pool), NEW p \in Peers,
           p \in DOMAIN s.cursor.channels, s.cursor.channels[p].key, p \in DOMAIN r.cursor.channels,
           r.cursor.channels[p] = s.cursor.channels[p],
           c.probe.on = "channel" \/ c.probe.peer # p \/
              \A i \in Nat : Reaches(c, i) /\ i < Slots(c.probe) => Reached(DOMAIN r.pending, c.probe, i)
    PROVE  TokensKept(s, r, c, p)
PROOF
<1>1. \A t \in DOMAIN s.cursor.channels[p].tokens : s.cursor.channels[p].tokens[t].nonce \in Nat
  BY DEF CursorOK, OutgoingOK, TokenOK
<1>2. /\ subchannelProbe(p).on = "subchannel" /\ subchannelProbe(p).peer = p
      /\ \A t : noteProbe(p, t).on = "note" /\ noteProbe(p, t).peer = p /\ noteProbe(p, t).token = t
  BY ProbeFields
<1>3. c.probe = subchannelProbe(p) => Slots(c.probe) = Len(pool.tokens[p])
  BY <1>2 DEF Slots
<1>4. \A t : c.probe = noteProbe(p, t) => Slots(c.probe) = pool.count[p][t]
  BY <1>2 DEF Slots
<1>5. c.probe = subchannelProbe(p) =>
         \A i \in Nat : Reaches(c, i) /\ i < Len(pool.tokens[p]) => Reached(DOMAIN r.pending, subchannelProbe(p), i)
  BY <1>2, <1>3
<1>6. \A t : c.probe = noteProbe(p, t) =>
         \A i \in Nat : Reaches(c, i) /\ i < pool.count[p][t] => Reached(DOMAIN r.pending, noteProbe(p, t), i)
  BY <1>2, <1>4
<1>7. \A t \in DOMAIN s.cursor.channels[p].tokens :
         s.cursor.channels[p].tokens[t].nonce <= r.cursor.channels[p].tokens[t].nonce
  BY <1>1
<1> QED BY <1>5, <1>6, <1>7 DEF TokensKept

\* What a scan or a bisection of a channels session goes on with.
LEMMA OutIssues ==
    ASSUME NEW u, DOMAIN u = SessionFields, IsABag(u.pending), NEW v, NEW X, Issued(u, v, X),
           NEW c, CallOK(c), NEW n \in Nat, NEW touches \in BOOLEAN, touches = ~lengthOnly(u, c.probe),
           c.do \in Scans, \A x \in X : x.probe # c.probe
    PROVE  Issued(u, Continue(v, c, c.at < n), X \cup Onward(c, c.at < n, touches))
PROOF
<1>1. PICK filled \in BOOLEAN : filled = (c.at < n)
  <2>1. (c.at < n) \in BOOLEAN
    OBVIOUS
  <2> QED BY ONLY <2>1, Zenon
<1>2. /\ DOMAIN v = SessionFields /\ IsABag(v.pending) /\ \A f \in SessionFields \ {"pending"} : v[f] = u[f]
  BY DEF Issued
<1>3. v.what = u.what /\ v.asked = u.asked
  BY <1>2 DEF SessionFields
<1>4. lengthOnly(v, c.probe) = lengthOnly(u, c.probe)
  BY <1>3 DEF lengthOnly
<1>5. Issued(v, Continue(v, c, filled), Onward(c, filled, ~lengthOnly(v, c.probe)))
  BY <1>2, ContinueIssues
<1>6. Issued(v, Continue(v, c, filled), Onward(c, filled, touches))
  BY <1>4, <1>5
<1>7. \A d \in Onward(c, filled, touches) : d.probe = c.probe
  BY OnwardOK, ZenonT(60)
<1>8. X \cap Onward(c, filled, touches) = {}
  BY <1>7
<1>9. Issued(u, Continue(v, c, filled), X \cup Onward(c, filled, touches))
  BY ONLY Issued(u, v, X), <1>6, <1>8, IssuedTwice
<1> QED BY <1>1, <1>9

\* Those calls, and the slots that they are for.
LEMMA OutOnward ==
    ASSUME NEW c, CallOK(c), c.do \in Scans, NEW n \in Nat, NEW touches \in BOOLEAN
    PROVE  /\ \A d \in Onward(c, c.at < n, touches) :
                 CallOK(d) /\ d.probe = c.probe /\ d.do \in Scans /\ (d.do = "touch" => touches)
           /\ \A i \in Nat : Reaches(c, i) /\ i < n =>
                 \/ i = c.at /\ c.at < n
                 \/ Reached(Onward(c, c.at < n, touches), c.probe, i)
                 \/ ~touches /\ c.at < n /\ i < c.at
PROOF
<1>1. PICK filled \in BOOLEAN : filled = (c.at < n)
  <2>1. (c.at < n) \in BOOLEAN
    OBVIOUS
  <2> QED BY ONLY <2>1, Zenon
<1>2. \A d \in Onward(c, filled, touches) :
         CallOK(d) /\ d.probe = c.probe /\ d.do \in Scans /\ (d.do = "touch" => touches)
  BY OnwardOK
<1>3. \A i \in Nat : Reaches(c, i) /\ i < n =>
         \/ i = c.at /\ c.at < n
         \/ \E d \in Onward(c, c.at < n, touches) : Reaches(d, i)
         \/ ~touches /\ c.at < n /\ i < c.at
  BY OnwardReaches
<1> QED BY <1>1, <1>2, <1>3 DEF Reached

-----------------------------------------------------------------------------
(***************************************************************************)
(* The cursor of a channels session.                                       *)
(***************************************************************************)

\* One channel's record is changed or added, and is true.
LEMMA OutgoingMarked ==
    ASSUME NEW k, CursorOK(k, pool), NEW p, NEW v, NEW k2,
           DOMAIN k2 = {"notes", "channels", "total"}, k2.notes = k.notes, k2.total = k.total,
           DOMAIN k2.channels \subseteq DOMAIN k.channels \cup {p},
           \A q \in DOMAIN k2.channels : q # p => k2.channels[q] = k.channels[q],
           p \in DOMAIN k2.channels => p \in pool.keys /\ OutgoingOK(v, p, pool) /\ k2.channels[p] = v
    PROVE  CursorOK(k2, pool)
PROOF
BY DEF CursorOK

\* Every other record is kept.
OthersKept(k, k2, p) ==
    /\ CursorOK(k2, pool) /\ k2.notes = k.notes /\ k2.total = k.total
    /\ \A q \in DOMAIN k.channels : q # p => q \in DOMAIN k2.channels /\ k2.channels[q] = k.channels[q]

\* gotPublicKey: a recipient is noted, without a channel.
MarkKey(k, p) == [k EXCEPT !.channels = Put(@, p, [key |-> FALSE, tokens |-> Nothing])]

\* The cursor with the recipient is still true of the pool.
LEMMA KeyMarked ==
    ASSUME NEW k, CursorOK(k, pool), NEW p \in pool.keys, NEW k2, k2 = MarkKey(k, p)
    PROVE  OthersKept(k, k2, p) /\ DOMAIN k2.channels = DOMAIN k.channels \cup {p}
PROOF
<1> DEFINE v == [key |-> FALSE, tokens |-> Nothing]
<1>1. DOMAIN v = {"key", "tokens"} /\ v.key = FALSE /\ v.tokens = Nothing /\ DOMAIN Nothing = {}
  BY DEF Nothing
<1>2. DOMAIN k = {"notes", "channels", "total"}
  BY DEF CursorOK
<1> HIDE DEF v
<1>3. OutgoingOK(v, p, pool)
  BY <1>1 DEF OutgoingOK
<1>4. k2 = [k EXCEPT !.channels = Put(k.channels, p, v)]
  BY DEF MarkKey, v
<1>5. /\ DOMAIN k2 = {"notes", "channels", "total"} /\ k2.notes = k.notes /\ k2.total = k.total
      /\ k2.channels = Put(k.channels, p, v)
  BY ONLY <1>2, <1>4
<1>6. /\ DOMAIN k2.channels = DOMAIN k.channels \cup {p} /\ k2.channels[p] = v
      /\ \A q \in DOMAIN k2.channels : q # p => k2.channels[q] = k.channels[q]
  BY ONLY <1>5 DEF Put
<1>7. CursorOK(k2, pool)
  <2>1. DOMAIN k2.channels \subseteq DOMAIN k.channels \cup {p}
    BY <1>6
  <2> QED BY ONLY CursorOK(k, pool), p \in pool.keys, <1>3, <1>5, <1>6, <2>1, OutgoingMarked
<1> QED BY <1>5, <1>6, <1>7 DEF OthersKept

\* gotChannel: its channel exists.
MarkExists(k, p) == [k EXCEPT !.channels[p].key = TRUE]

\* The cursor with the channel is still true of the pool.
LEMMA ExistsMarked ==
    ASSUME NEW k, CursorOK(k, pool), NEW p \in ToSet(pool.channels), p \in DOMAIN k.channels,
           NEW k2, k2 = MarkExists(k, p)
    PROVE  /\ OthersKept(k, k2, p) /\ DOMAIN k2.channels = DOMAIN k.channels
           /\ k2.channels[p].key /\ k2.channels[p].tokens = k.channels[p].tokens
PROOF
<1> DEFINE v == [k.channels[p] EXCEPT !.key = TRUE]
<1>1. p \in pool.keys /\ OutgoingOK(k.channels[p], p, pool) /\ DOMAIN k = {"notes", "channels", "total"}
  BY DEF CursorOK
<1>2. DOMAIN v = {"key", "tokens"} /\ v.key = TRUE /\ v.tokens = k.channels[p].tokens
  <2>1. DOMAIN k.channels[p] = {"key", "tokens"}
    BY <1>1 DEF OutgoingOK
  <2> QED BY <2>1
<1>3. k2 = [k EXCEPT !.channels[p] = v]
  BY DEF MarkExists
<1> HIDE DEF v
<1>4. OutgoingOK(v, p, pool)
  BY <1>1, <1>2 DEF OutgoingOK
<1>5. /\ DOMAIN k2 = {"notes", "channels", "total"} /\ k2.notes = k.notes /\ k2.total = k.total
      /\ DOMAIN k2.channels = DOMAIN k.channels /\ k2.channels[p] = v
      /\ \A q \in DOMAIN k.channels : q # p => k2.channels[q] = k.channels[q]
  BY ONLY <1>1, <1>3, p \in DOMAIN k.channels
<1>6. CursorOK(k2, pool)
  <2>1. DOMAIN k2.channels \subseteq DOMAIN k.channels \cup {p}
    BY <1>5
  <2> QED BY ONLY CursorOK(k, pool), <1>1, <1>4, <1>5, <2>1, OutgoingMarked
<1> QED BY <1>2, <1>5, <1>6 DEF OthersKept

\* foundOutgoing: the channels are counted.
MarkTotal(k, i) == [k EXCEPT !.total = Max({@, i + 1})]

\* The cursor with the count is still true of the pool, and its count has not fallen.
LEMMA TotalMarked ==
    ASSUME PoolOK(pool), NEW k, CursorOK(k, pool), NEW i \in Nat, i < Len(pool.channels), NEW k2, k2 = MarkTotal(k, i)
    PROVE  /\ CursorOK(k2, pool) /\ k2.notes = k.notes /\ k2.channels = k.channels
           /\ k.total <= k2.total /\ i + 1 <= k2.total
PROOF
<1> DEFINE j == i + 1
           m == Max({k.total, j})
           L == Len(pool.channels)
<1>1. k.total \in Nat /\ k.total <= L /\ DOMAIN k = {"notes", "channels", "total"} /\ j \in Nat
  BY DEF CursorOK
<1>2. L \in Nat /\ j <= L
  <2>1. L \in Nat
    BY PoolTyped
  <2> QED BY <2>1
<1>3. k2 = [k EXCEPT !.total = m]
  BY DEF MarkTotal
<1> HIDE DEF j, L
<1>4. m \in Nat /\ k.total <= m /\ j <= m /\ m \in {k.total, j}
  BY ONLY <1>1, LargerOfTwo
<1> HIDE DEF m
<1>5. /\ DOMAIN k2 = {"notes", "channels", "total"} /\ k2.notes = k.notes /\ k2.channels = k.channels /\ k2.total = m
  BY ONLY <1>1, <1>3
<1>6. m <= L
  BY ONLY <1>1, <1>2, <1>4
<1>7. CursorOK(k2, pool)
  BY <1>4, <1>5, <1>6 DEF CursorOK, L
<1> QED BY <1>4, <1>5, <1>7 DEF j

\* foundToken: a subchannel is noted at its index, none of its notes counted.
MarkIndex(k, p, t, i) == [k EXCEPT !.channels[p].tokens = Put(@, t, [index |-> i, nonce |-> 0])]

IndexKept(k, k2, p, t) ==
    /\ OthersKept(k, k2, p) /\ DOMAIN k2.channels = DOMAIN k.channels
    /\ p \in DOMAIN k.channels =>
          /\ k2.channels[p].key = k.channels[p].key
          /\ DOMAIN k2.channels[p].tokens = DOMAIN k.channels[p].tokens \cup {t}
          /\ \A q \in DOMAIN k.channels[p].tokens : q # t => k2.channels[p].tokens[q] = k.channels[p].tokens[q]

\* The cursor with the token's index is still true of the pool.
LEMMA IndexMarked ==
    ASSUME PoolOK(pool), NEW k, CursorOK(k, pool), NEW p \in Peers, NEW i \in Nat, i < Len(pool.tokens[p]),
           NEW t, t = pool.tokens[p][i + 1], NEW k2, k2 = MarkIndex(k, p, t, i)
    PROVE  IndexKept(k, k2, p, t)
PROOF
<1> DEFINE e == [index |-> i, nonce |-> 0]
           old == k.channels[p]
           x == Put(old.tokens, t, e)
           v == [old EXCEPT !.tokens = x]
<1>1. DOMAIN k = {"notes", "channels", "total"}
  BY DEF CursorOK
<1>2. t \in Tokens /\ i + 1 \in DOMAIN pool.tokens[p] /\ pool.count[p][t] \in Nat
  <2>1. pool.tokens[p] \in Seq(Tokens)
    BY PoolTyped
  <2>2. i + 1 \in DOMAIN pool.tokens[p]
    BY <2>1
  <2>3. t \in Tokens
    BY <2>1, <2>2
  <2> QED BY <2>2, <2>3, PoolTyped
<1>3. TokenOK(e, p, t, pool)
  BY <1>2 DEF TokenOK
<1> HIDE DEF e
<1>4. DOMAIN x = DOMAIN old.tokens \cup {t} /\ \A q \in DOMAIN x : x[q] = IF q = t THEN e ELSE old.tokens[q]
  BY DEF Put
<1>5. k2 = [k EXCEPT !.channels[p] = v]
  BY DEF MarkIndex, e
<1> HIDE DEF x
<1>6. ASSUME p \in DOMAIN k.channels
      PROVE  p \in pool.keys /\ OutgoingOK(v, p, pool) /\ v.tokens = x /\ v.key = old.key
  <2>1. p \in pool.keys /\ OutgoingOK(old, p, pool)
    BY <1>6 DEF CursorOK
  <2> HIDE DEF old
  <2>2. DOMAIN old = {"key", "tokens"}
    BY <2>1 DEF OutgoingOK
  <2>3. DOMAIN v = {"key", "tokens"} /\ v.key = old.key /\ v.tokens = x
    BY <2>2
  <2> HIDE DEF v
  <2>4. \A q \in DOMAIN x : q \in Tokens /\ TokenOK(x[q], p, q, pool)
    BY <1>2, <1>3, <1>4, <2>1 DEF OutgoingOK
  <2> QED BY <2>1, <2>3, <2>4 DEF OutgoingOK
<1> HIDE DEF v, old
<1>7. /\ DOMAIN k2 = {"notes", "channels", "total"} /\ k2.notes = k.notes /\ k2.total = k.total
      /\ DOMAIN k2.channels = DOMAIN k.channels /\ (p \in DOMAIN k.channels => k2.channels[p] = v)
      /\ \A q \in DOMAIN k.channels : q # p => k2.channels[q] = k.channels[q]
  BY ONLY <1>1, <1>5
<1>8. CursorOK(k2, pool)
  <2>1. DOMAIN k2.channels \subseteq DOMAIN k.channels \cup {p}
    BY <1>7
  <2>2. p \in DOMAIN k2.channels => p \in pool.keys /\ OutgoingOK(v, p, pool) /\ k2.channels[p] = v
    BY <1>6, <1>7
  <2> QED BY ONLY CursorOK(k, pool), <1>7, <2>1, <2>2, OutgoingMarked
<1> QED BY <1>4, <1>6, <1>7, <1>8 DEF OthersKept, IndexKept, old

\* countNote: the counter of a token is raised.
MarkCount(k, p, t, i) == [k EXCEPT !.channels[p].tokens[t].nonce = Max({@, i + 1})]

CountKept(k, k2, p, t, i) ==
    /\ OthersKept(k, k2, p) /\ DOMAIN k2.channels = DOMAIN k.channels
    /\ p \in DOMAIN k.channels =>
          /\ k2.channels[p].key = k.channels[p].key
          /\ DOMAIN k2.channels[p].tokens = DOMAIN k.channels[p].tokens
          /\ \A q \in DOMAIN k.channels[p].tokens : k.channels[p].tokens[q].nonce <= k2.channels[p].tokens[q].nonce
          /\ t \in DOMAIN k.channels[p].tokens => i + 1 <= k2.channels[p].tokens[t].nonce

\* The cursor with the token's notes counted is still true of the pool.
LEMMA CountMarked ==
    ASSUME PoolOK(pool), NEW k, CursorOK(k, pool), NEW p \in Peers, NEW t \in Tokens, NEW i \in Nat,
           i < pool.count[p][t], NEW k2, k2 = MarkCount(k, p, t, i)
    PROVE  CountKept(k, k2, p, t, i)
PROOF
<1> DEFINE j == i + 1
           old == k.channels[p]
           e == old.tokens[t]
           m == Max({e.nonce, j})
           f == [e EXCEPT !.nonce = m]
           x == [old.tokens EXCEPT ![t] = f]
           v == [old EXCEPT !.tokens = x]
<1>1. DOMAIN k = {"notes", "channels", "total"}
  BY DEF CursorOK
<1>2. j \in Nat /\ pool.count[p][t] \in Nat /\ j <= pool.count[p][t]
  <2>1. pool.count[p][t] \in Nat
    BY PoolTyped
  <2> QED BY <2>1
<1>3. k2 = [k EXCEPT !.channels[p] = v]
  BY DEF MarkCount
<1>4. DOMAIN x = DOMAIN old.tokens /\ \A q \in DOMAIN old.tokens : x[q] = IF q = t THEN f ELSE old.tokens[q]
  OBVIOUS
<1> HIDE DEF x, j
<1>5. ASSUME p \in DOMAIN k.channels
      PROVE  /\ p \in pool.keys /\ OutgoingOK(v, p, pool) /\ v.tokens = x /\ v.key = old.key
             /\ \A q \in DOMAIN old.tokens : old.tokens[q].nonce <= x[q].nonce
             /\ t \in DOMAIN old.tokens => j <= x[t].nonce
  <2>1. p \in pool.keys /\ OutgoingOK(old, p, pool)
    BY <1>5 DEF CursorOK
  <2> HIDE DEF old
  <2>2. DOMAIN old = {"key", "tokens"} /\ \A q \in DOMAIN old.tokens : q \in Tokens /\ TokenOK(old.tokens[q], p, q, pool)
    BY <2>1 DEF OutgoingOK
  <2>3. ASSUME t \in DOMAIN old.tokens PROVE TokenOK(f, p, t, pool) /\ e.nonce <= f.nonce /\ j <= f.nonce
    <3>1. TokenOK(e, p, t, pool)
      BY <2>2, <2>3
    <3> HIDE DEF e
    <3>2. e \in [index : Nat, nonce : Nat] /\ e.nonce \in Nat /\ e.nonce <= pool.count[p][t]
      BY <3>1 DEF TokenOK
    <3>3. m \in Nat /\ e.nonce <= m /\ j <= m /\ m \in {e.nonce, j}
      BY ONLY <1>2, <3>2, LargerOfTwo
    <3> HIDE DEF m
    <3>4. m <= pool.count[p][t]
      BY ONLY <1>2, <3>2, <3>3
    <3>5. f \in [index : Nat, nonce : Nat] /\ f.nonce = m /\ f.index = e.index
      BY <3>2, <3>3
    <3> HIDE DEF f
    <3> QED BY <3>1, <3>3, <3>4, <3>5 DEF TokenOK
  <2>4. DOMAIN v = {"key", "tokens"} /\ v.key = old.key /\ v.tokens = x
    BY <2>2
  <2> HIDE DEF v, f
  <2>5. \A q \in DOMAIN x : q \in Tokens /\ TokenOK(x[q], p, q, pool)
    BY <1>4, <2>2, <2>3
  <2>6. \A q \in DOMAIN old.tokens : old.tokens[q].nonce <= x[q].nonce
    <3>1. \A q \in DOMAIN old.tokens : old.tokens[q].nonce \in Nat
      BY <2>2 DEF TokenOK
    <3> QED BY <1>4, <2>3, <3>1
  <2>7. t \in DOMAIN old.tokens => j <= x[t].nonce
    BY <1>4, <2>3
  <2> QED BY <2>1, <2>4, <2>5, <2>6, <2>7 DEF OutgoingOK
<1> HIDE DEF v, old
<1>6. /\ DOMAIN k2 = {"notes", "channels", "total"} /\ k2.notes = k.notes /\ k2.total = k.total
      /\ DOMAIN k2.channels = DOMAIN k.channels /\ (p \in DOMAIN k.channels => k2.channels[p] = v)
      /\ \A q \in DOMAIN k.channels : q # p => k2.channels[q] = k.channels[q]
  BY ONLY <1>1, <1>3
<1>7. CursorOK(k2, pool)
  <2>1. DOMAIN k2.channels \subseteq DOMAIN k.channels \cup {p}
    BY <1>6
  <2>2. p \in DOMAIN k2.channels => p \in pool.keys /\ OutgoingOK(v, p, pool) /\ k2.channels[p] = v
    BY <1>5, <1>6
  <2> QED BY ONLY CursorOK(k, pool), <1>6, <2>1, <2>2, OutgoingMarked
<1> QED BY <1>4, <1>5, <1>6, <1>7 DEF OthersKept, CountKept, old, j

-----------------------------------------------------------------------------
(***************************************************************************)
(* The steps of a channels session.                                        *)
(***************************************************************************)

\* A session without one of its calls.
LEMMA StillChannels ==
    ASSUME NEW s, ChannelsAtWork(s), NEW c \in DOMAIN s.pending
    PROVE  /\ DOMAIN Without(s, c) = SessionFields /\ IsABag(Without(s, c).pending)
           /\ Without(s, c).what = "channels" /\ Without(s, c).pending = s.pending (-) SetToBag({c})
           /\ Without(s, c).cursor = s.cursor /\ Without(s, c).failed = s.failed
           /\ Without(s, c).asked = s.asked
           /\ \A f \in SessionFields \ {"pending"} : Without(s, c)[f] = s[f]
PROOF
<1>1. DOMAIN s = SessionFields /\ IsABag(s.pending) /\ s.what = "channels"
  BY OutAtWork DEF ChannelsAtWork
<1>2. /\ DOMAIN Without(s, c) = SessionFields /\ IsABag(Without(s, c).pending)
      /\ Without(s, c).pending = s.pending (-) SetToBag({c})
      /\ \A f \in SessionFields \ {"pending"} : Without(s, c)[f] = s[f]
  BY <1>1, TakenOut
<1>3. /\ Without(s, c).what = s.what /\ Without(s, c).cursor = s.cursor
      /\ Without(s, c).failed = s.failed /\ Without(s, c).asked = s.asked
  BY <1>2 DEF SessionFields
<1> QED BY <1>1, <1>2, <1>3

\* The session without the call, and with what was read.
OutReady(s, c, u) ==
    /\ ChannelsAtWork(s) /\ c \in DOMAIN s.pending
    /\ DOMAIN u = SessionFields /\ u.pending = s.pending (-) SetToBag({c})
    /\ \A f \in Fixed : u[f] = s[f]
    /\ u.failed \in BOOLEAN /\ (s.failed => u.failed)
    /\ CursorOK(u.cursor, pool) /\ u.cursor.notes = s.cursor.notes
    /\ s.cursor.total <= u.cursor.total
    /\ DOMAIN s.cursor.channels \subseteq DOMAIN u.cursor.channels

\* And with the calls that follow.
LEMMA OutFollows ==
    ASSUME NEW s, NEW c, NEW u, OutReady(s, c, u), NEW r, NEW N, Issued(u, r, N),
           \A d \in N : CallOK(d) /\ ChannelsCall(d, u)
    PROVE  /\ OutCarried(s, r, c, N) /\ r.cursor = u.cursor /\ r.failed = u.failed /\ N \subseteq DOMAIN r.pending
           /\ r.asked = s.asked /\ r.chain = s.chain
PROOF
<1>1. DOMAIN s = SessionFields /\ IsABag(s.pending) /\ c \in DOMAIN s.pending /\ u.pending = s.pending (-) SetToBag({c})
  BY OutAtWork DEF OutReady
<1>2. InFlight(s, r, c, N)
  BY <1>1, AnswerIssues
<1>3. DOMAIN r = SessionFields /\ \A f \in SessionFields \ {"pending"} : r[f] = u[f]
  BY DEF Issued
<1>4. r.cursor = u.cursor /\ r.failed = u.failed /\ \A f \in Fixed : r[f] = s[f]
  BY <1>3 DEF SessionFields, Fixed, OutReady
<1>5. \A d \in N : CallOK(d) /\ ChannelsCall(d, r)
  BY <1>4 DEF ChannelsCall
<1>6. OutCarried(s, r, c, N)
  BY <1>2, <1>3, <1>4, <1>5 DEF OutCarried, OutReady
<1>7. N \subseteq DOMAIN r.pending
  BY <1>2 DEF InFlight
<1> QED BY <1>4, <1>6, <1>7 DEF Fixed

\* Nothing changed but the call.
LEMMA OutQuiet ==
    ASSUME NEW s, ChannelsAtWork(s), NEW c \in DOMAIN s.pending
    PROVE  OutReady(s, c, Without(s, c))
PROOF
<1>1. s.failed \in BOOLEAN /\ CursorOK(s.cursor, pool)
  BY OutAtWork
<1>2. s.cursor.total \in Nat
  BY <1>1 DEF CursorOK
<1>3. /\ DOMAIN Without(s, c) = SessionFields /\ Without(s, c).pending = s.pending (-) SetToBag({c})
      /\ Without(s, c).cursor = s.cursor /\ Without(s, c).failed = s.failed
      /\ \A f \in SessionFields \ {"pending"} : Without(s, c)[f] = s[f]
  BY StillChannels
<1>4. \A f \in Fixed : Without(s, c)[f] = s[f]
  BY <1>3 DEF Fixed, SessionFields
<1> QED BY <1>1, <1>2, <1>3, <1>4 DEF OutReady

\* A lookup: nothing is left to do for it if the peer had no channel, or its channel is
\* found, or looked for.
LEMMA LookupStep ==
    ASSUME NEW s, NEW c, NEW u, OutReady(s, c, u), NEW r, NEW N, Issued(u, r, N),
           \A d \in N : CallOK(d) /\ ChannelsCall(d, u), c.do \in Lookups,
           \A p \in ToSet(s.chain.channels) : c.probe = subchannelProbe(p) => ChannelAhead(r, DOMAIN r.pending, p),
           \A p \in DOMAIN s.cursor.channels : s.cursor.channels[p].key =>
              \/ p \in DOMAIN u.cursor.channels /\ u.cursor.channels[p] = s.cursor.channels[p]
              \/ LookedUp(N, "channel_exists", p)
              \/ /\ p \in DOMAIN u.cursor.channels /\ u.cursor.channels[p].key
                 /\ u.cursor.channels[p].tokens = s.cursor.channels[p].tokens,
           \A p \in s.chain.keys : c.do = "get_public_key" /\ c.probe = subchannelProbe(p) =>
              p \in DOMAIN u.cursor.channels
    PROVE  SessionOK(r, pool)
PROOF
<1>1. /\ OutCarried(s, r, c, N) /\ r.cursor = u.cursor /\ N \subseteq DOMAIN r.pending
  BY OutFollows
<1>2. /\ ChannelsAtWork(s) /\ c \in DOMAIN s.pending /\ PoolOK(pool)
  BY DEF OutReady, ChannelsAtWork
<1>3. /\ PoolOK(s.chain) /\ Grown(s.chain, pool) /\ CursorOK(s.cursor, pool) /\ CallOK(c)
  BY <1>2, OutAtWork
<1>4. c.probe.on = "subchannel" /\ \A i \in Nat : ~Reaches(c, i)
  BY <1>3 DEF CallOK, Lookups, Reaches, Reads
<1>5. c.probe # channelProbe
  BY <1>4, ProbeFields
<1>6. ASSUME NEW p \in Peers, p \in DOMAIN s.cursor.channels, s.cursor.channels[p].key
      PROVE  TokensKept(s, r, c, p) \/ LookedUp(DOMAIN r.pending, "channel_exists", p)
  <2>1. CASE LookedUp(N, "channel_exists", p)
    BY <1>1, <2>1 DEF LookedUp
  <2>2. CASE p \in DOMAIN r.cursor.channels /\ r.cursor.channels[p].key
             /\ r.cursor.channels[p].tokens = s.cursor.channels[p].tokens
    <3>1. \A t \in DOMAIN s.cursor.channels[p].tokens : s.cursor.channels[p].tokens[t].nonce \in Nat
      BY <1>3, <1>6 DEF CursorOK, OutgoingOK, TokenOK
    <3>2. TokensKept(s, r, c, p)
      BY <1>4, <2>2, <3>1 DEF TokensKept
    <3> QED BY <3>2, SMTT(30)
  <2> QED BY <1>1, <1>6, <2>1, <2>2
<1>7. \A p \in s.chain.keys : c.do = "get_public_key" /\ c.probe = subchannelProbe(p) => p \in DOMAIN r.cursor.channels
  BY <1>1
<1>8. AsksKept(s, r)
  BY <1>1, <1>2, <1>3, <1>5, <1>6, <1>7, AsksStill
<1>9. TotalKept(s, r, c)
  BY <1>5 DEF TotalKept
<1> QED BY <1>1, <1>2, <1>8, <1>9, ChannelsStep

\* get_public_key: the recipient is not registered.
LEMMA AnswerNoKey ==
    ASSUME NEW s, ChannelsAtWork(s), NEW c \in DOMAIN s.pending, c.do = "get_public_key", c.probe.peer \notin pool.keys
    PROVE  SessionOK(Without(s, c), pool)
PROOF
<1>1. OutReady(s, c, Without(s, c))
  BY OutQuiet
<1>2. Issued(Without(s, c), Without(s, c), {})
  BY StillChannels, NothingIssued
<1>3. Without(s, c).cursor = s.cursor
  BY StillChannels
<1>4. PoolOK(s.chain) /\ Grown(s.chain, pool)
  BY OutAtWork
<1>5. c.probe.peer \notin s.chain.keys /\ c.probe.peer \notin ToSet(s.chain.channels)
  BY <1>4, PoolTyped DEF Grown
<1>6. \A p : c.probe = subchannelProbe(p) => p \notin s.chain.keys /\ p \notin ToSet(s.chain.channels)
  BY <1>5, ProbeFields
<1>7. c.do \in Lookups
  BY DEF Lookups
<1> QED BY <1>1, <1>2, <1>3, <1>6, <1>7, LookupStep

\* It is: its channel is looked for.
LEMMA AnswerKey ==
    ASSUME NEW s, ChannelsAtWork(s), NEW c \in DOMAIN s.pending, c.do = "get_public_key", c.probe.peer \in pool.keys,
           NEW r, r = gotPublicKey(Without(s, c), c.probe.peer)
    PROVE  SessionOK(r, pool)
PROOF
<1> DEFINE p == c.probe.peer
           k == MarkKey(s.cursor, p)
           u == [Without(s, c) EXCEPT !.cursor = k]
           x == Call("channel_exists", subchannelProbe(p), 0, 0, 0, 0)
<1>1. DOMAIN s = SessionFields /\ CallOK(c) /\ PoolOK(pool) /\ CursorOK(s.cursor, pool) /\ s.failed \in BOOLEAN
  BY OutAtWork DEF ChannelsAtWork
<1>2. c.probe \in Probes /\ c.probe.on = "subchannel"
  BY <1>1, CallTyped DEF CallOK, Lookups
<1>3. c.probe = subchannelProbe(p) /\ p \in Peers /\ subchannelProbe(p) \in Probes
  BY <1>2, ProbeKinds
<1>4. r = Track(u, {x})
  <2>1. Without(s, c).cursor = s.cursor
    BY StillChannels
  <2>2. r = Track([Without(s, c) EXCEPT !.cursor.channels = Put(@, p, [key |-> FALSE, tokens |-> Nothing])], {x})
    BY DEF gotPublicKey
  <2>3. [Without(s, c) EXCEPT !.cursor.channels = Put(@, p, [key |-> FALSE, tokens |-> Nothing])] = u
    BY <2>1 DEF MarkKey
  <2> QED BY <2>2, <2>3
<1>5. /\ DOMAIN Without(s, c) = SessionFields /\ Without(s, c).pending = s.pending (-) SetToBag({c})
      /\ IsABag(Without(s, c).pending) /\ Without(s, c).failed = s.failed
      /\ \A f \in SessionFields \ {"pending"} : Without(s, c)[f] = s[f]
  BY StillChannels
<1>6. PICK k2 : k2 = k
  OBVIOUS
<1>7. OthersKept(s.cursor, k2, p) /\ DOMAIN k2.channels = DOMAIN s.cursor.channels \cup {p}
  BY <1>1, <1>6, KeyMarked
<1>8. /\ DOMAIN u = SessionFields /\ u.cursor = k2
      /\ \A f \in SessionFields \ {"cursor"} : u[f] = Without(s, c)[f]
  BY <1>5, <1>6, CursorChanged
<1>9. x.do = "channel_exists" /\ x.probe = subchannelProbe(p) /\ x.at = 0 /\ x.lo = 0 /\ x.hi = 0 /\ x.step = 0
  BY CallFields
<1>10. CallOK(x)
  BY <1>3, <1>9, ProbeFields DEF CallOK, Call, Scans, Reads, Lookups
<1> HIDE DEF u, k, x, p
<1>11. u.pending = s.pending (-) SetToBag({c}) /\ IsABag(u.pending) /\ u.failed = s.failed /\ \A f \in Fixed : u[f] = s[f]
  BY <1>5, <1>8 DEF SessionFields, Fixed
<1>12. OutReady(s, c, u)
  <2>1. s.cursor.total \in Nat
    BY <1>1 DEF CursorOK
  <2> QED BY <1>1, <1>7, <1>8, <1>11, <2>1 DEF OutReady, OthersKept
<1>13. Issued(u, r, {x})
  BY <1>4, <1>8, <1>11, TrackIssues
<1>14. ChannelsCall(x, u)
  BY <1>7, <1>8, <1>9, ProbeFields DEF ChannelsCall, Lookups
<1>15. \A d \in {x} : CallOK(d) /\ ChannelsCall(d, u)
  BY <1>10, <1>14
<1>16. {x} \subseteq DOMAIN r.pending
  BY <1>12, <1>13, <1>15, OutFollows
<1>17. \A q : c.probe = subchannelProbe(q) => q = p
  BY ProbeFields DEF p
<1>18. LookedUp({x}, "channel_exists", p) /\ LookedUp(DOMAIN r.pending, "channel_exists", p)
  BY <1>9, <1>16 DEF LookedUp
<1>19. \A q : c.probe = subchannelProbe(q) => ChannelAhead(r, DOMAIN r.pending, q)
  BY <1>17, <1>18 DEF ChannelAhead, Lookups
<1>20. \A q \in DOMAIN s.cursor.channels : q # p => q \in DOMAIN u.cursor.channels /\ u.cursor.channels[q] = s.cursor.channels[q]
  BY <1>7, <1>8 DEF OthersKept
<1>21. \A q \in DOMAIN s.cursor.channels : s.cursor.channels[q].key =>
              \/ q \in DOMAIN u.cursor.channels /\ u.cursor.channels[q] = s.cursor.channels[q]
              \/ LookedUp({x}, "channel_exists", q)
  BY <1>18, <1>20
<1>22. \A q : c.probe = subchannelProbe(q) => q \in DOMAIN u.cursor.channels
  BY <1>7, <1>8, <1>17
<1>23. c.do \in Lookups
  BY DEF Lookups
<1>24. PICK N : N = {x}
  OBVIOUS
<1>25. Issued(u, r, N) /\ \A d \in N : CallOK(d) /\ ChannelsCall(d, u)
  BY <1>13, <1>15, <1>24
<1>26. \A q \in DOMAIN s.cursor.channels : s.cursor.channels[q].key =>
              \/ q \in DOMAIN u.cursor.channels /\ u.cursor.channels[q] = s.cursor.channels[q]
              \/ LookedUp(N, "channel_exists", q)
              \/ /\ q \in DOMAIN u.cursor.channels /\ u.cursor.channels[q].key
                 /\ u.cursor.channels[q].tokens = s.cursor.channels[q].tokens
  BY <1>21, <1>24
<1> QED BY ONLY <1>12, <1>19, <1>22, <1>23, <1>25, <1>26, LookupStep

\* There are finitely many members of a list, one for a position if they are distinct.
LEMMA ListFinite ==
    ASSUME NEW S, NEW list \in Seq(S)
    PROVE  /\ IsFiniteSet(ToSet(list)) /\ Cardinality(ToSet(list)) \in Nat
           /\ Distinct(list) => Cardinality(ToSet(list)) = Len(list)
PROOF
<1> DEFINE I == 1 .. Len(list)
           T == ToSet(list)
<1>1. Len(list) \in Nat /\ DOMAIN list = I
  OBVIOUS
<1>2. IsFiniteSet(I) /\ Cardinality(I) = Len(list)
  BY <1>1, FS_Interval, SMTT(60)
<1>3. T = {list[i] : i \in I}
  BY <1>1 DEF ToSet
<1>4. list \in [I -> T]
  BY <1>1, <1>3
<1>5. list \in Surjection(I, T)
  BY <1>3, <1>4 DEF Surjection
<1> HIDE DEF I, T
<1>6. IsFiniteSet(T) /\ (Cardinality(T) = Cardinality(I) <=> list \in Injection(I, T))
  BY <1>2, <1>5, FS_Surjection
<1>7. Distinct(list) => list \in Injection(I, T)
  BY <1>1, <1>4 DEF Distinct, Injection, IsInjective
<1>8. Cardinality(T) \in Nat
  BY <1>6, FS_CardinalityType
<1> QED BY <1>2, <1>6, <1>7, <1>8 DEF T

\* The scan of a known channel's subchannels reaches all of them.
LEMMA SubchannelsScanned ==
    ASSUME PoolOK(pool), NEW s, CursorOK(s.cursor, pool), NEW p \in Peers, p \in DOMAIN s.cursor.channels
    PROVE  /\ CallOK(subchannelScan(s, p)) /\ subchannelScan(s, p).probe = subchannelProbe(p)
           /\ subchannelScan(s, p).do = "scan" /\ \A i \in Nat : Reaches(subchannelScan(s, p), i)
PROOF
<1> DEFINE T == DOMAIN s.cursor.channels[p].tokens
           U == ToSet(pool.tokens[p])
<1>1. T \subseteq U
  <2>1. OutgoingOK(s.cursor.channels[p], p, pool)
    BY DEF CursorOK
  <2> QED BY <2>1 DEF OutgoingOK, TokenOK, ToSet
<1>2. IsFiniteSet(U)
  BY PoolTyped, ListFinite
<1> HIDE DEF T, U
<1>3. IsFiniteSet(T)
  BY <1>1, <1>2, FS_Subset
<1>4. Cardinality(T) \in Nat
  BY <1>3, FS_CardinalityType
<1>5. PICK n \in Nat : n = Cardinality(T)
  BY <1>4
<1>6. subchannelScan(s, p) = ScanFrom(subchannelProbe(p), n)
  BY <1>5 DEF subchannelScan, T
<1>7. subchannelProbe(p) \in Probes
  BY ProbeFields
<1> QED BY <1>6, <1>7, ScanFromOK

\* Such a scan is all that a channel with a key needs.
LEMMA ScanSuffices ==
    ASSUME NEW r, PoolOK(r.chain), NEW p \in Peers, p \in DOMAIN r.cursor.channels, r.cursor.channels[p].key,
           NEW x \in DOMAIN r.pending, x.probe = subchannelProbe(p), \A i \in Nat : Reaches(x, i)
    PROVE  ChannelAhead(r, DOMAIN r.pending, p)
PROOF
<1>1. ASSUME NEW k \in DOMAIN r.chain.tokens[p] PROVE TokenAhead(r, DOMAIN r.pending, p, k)
  <2>1. r.chain.tokens[p] \in Seq(Tokens)
    BY PoolTyped
  <2>2. k - 1 \in Nat
    BY <2>1
  <2>3. Reached(DOMAIN r.pending, subchannelProbe(p), k - 1)
    BY <2>2 DEF Reached
  <2> QED BY <2>3 DEF TokenAhead
<1>2. KeyedAhead(r, DOMAIN r.pending, p)
  BY <1>1 DEF KeyedAhead
<1> QED BY <1>2 DEF ChannelAhead

\* channel_exists: there is none.
LEMMA AnswerNoChannel ==
    ASSUME NEW s, ChannelsAtWork(s), NEW c \in DOMAIN s.pending, c.do = "channel_exists",
           c.probe.peer \notin ToSet(pool.channels)
    PROVE  SessionOK(Without(s, c), pool)
PROOF
<1>1. OutReady(s, c, Without(s, c))
  BY OutQuiet
<1>2. Issued(Without(s, c), Without(s, c), {})
  BY StillChannels, NothingIssued
<1>3. Without(s, c).cursor = s.cursor
  BY StillChannels
<1>4. PoolOK(s.chain) /\ Grown(s.chain, pool)
  BY OutAtWork
<1>5. \A p \in ToSet(s.chain.channels) : p \in ToSet(pool.channels)
  BY <1>4 DEF Grown, Starts, ToSet
<1>6. \A p : c.probe = subchannelProbe(p) => p \notin ToSet(s.chain.channels)
  BY <1>5, ProbeFields
<1>7. c.do \in Lookups
  BY DEF Lookups
<1> QED BY <1>1, <1>2, <1>3, <1>6, <1>7, LookupStep

\* There is: its subchannels are looked for.
LEMMA AnswerExists ==
    ASSUME NEW s, ChannelsAtWork(s), NEW c \in DOMAIN s.pending, c.do = "channel_exists",
           c.probe.peer \in ToSet(pool.channels), NEW r, r = gotChannel(Without(s, c), c.probe.peer)
    PROVE  SessionOK(r, pool)
PROOF
<1> DEFINE p == c.probe.peer
           k == MarkExists(s.cursor, p)
           u == [Without(s, c) EXCEPT !.cursor = k]
           x == subchannelScan(s, p)
<1>1. /\ DOMAIN s = SessionFields /\ CallOK(c) /\ PoolOK(pool) /\ CursorOK(s.cursor, pool) /\ s.failed \in BOOLEAN
      /\ PoolOK(s.chain) /\ ChannelsCall(c, s)
  BY OutAtWork DEF ChannelsAtWork
<1>2. c.probe \in Probes /\ c.probe.on = "subchannel" /\ p \in DOMAIN s.cursor.channels
  BY <1>1, CallTyped DEF CallOK, Lookups, ChannelsCall
<1>3. c.probe = subchannelProbe(p) /\ p \in Peers /\ subchannelProbe(p) \in Probes
  BY <1>2, ProbeKinds
<1>4. r = Track(u, {x})
  <2>1. Without(s, c).cursor = s.cursor
    BY StillChannels
  <2>2. r = Track([Without(s, c) EXCEPT !.cursor.channels[p].key = TRUE], {subchannelScan(Without(s, c), p)})
    BY SMTT(60) DEF gotChannel, Contains, ToSet
  <2>3. [Without(s, c) EXCEPT !.cursor.channels[p].key = TRUE] = u
    BY <2>1 DEF MarkExists
  <2>4. subchannelScan(Without(s, c), p) = x
    BY <2>1 DEF subchannelScan
  <2> QED BY <2>2, <2>3, <2>4
<1>5. /\ DOMAIN Without(s, c) = SessionFields /\ Without(s, c).pending = s.pending (-) SetToBag({c})
      /\ IsABag(Without(s, c).pending) /\ Without(s, c).failed = s.failed
      /\ \A f \in SessionFields \ {"pending"} : Without(s, c)[f] = s[f]
  BY StillChannels
<1>6. PICK k2 : k2 = k
  OBVIOUS
<1>7. /\ OthersKept(s.cursor, k2, p) /\ DOMAIN k2.channels = DOMAIN s.cursor.channels
      /\ k2.channels[p].key /\ k2.channels[p].tokens = s.cursor.channels[p].tokens
  BY <1>1, <1>2, <1>6, ExistsMarked
<1>8. /\ DOMAIN u = SessionFields /\ u.cursor = k2
      /\ \A f \in SessionFields \ {"cursor"} : u[f] = Without(s, c)[f]
  BY <1>5, <1>6, CursorChanged
<1>9. CallOK(x) /\ x.probe = subchannelProbe(p) /\ x.do = "scan" /\ \A i \in Nat : Reaches(x, i)
  BY <1>1, <1>2, <1>3, SubchannelsScanned
<1> HIDE DEF u, k, x, p
<1>11. u.pending = s.pending (-) SetToBag({c}) /\ IsABag(u.pending) /\ u.failed = s.failed /\ \A f \in Fixed : u[f] = s[f]
  BY <1>5, <1>8 DEF SessionFields, Fixed
<1>12. OutReady(s, c, u)
  <2>1. s.cursor.total \in Nat
    BY <1>1 DEF CursorOK
  <2> QED BY <1>1, <1>7, <1>8, <1>11, <2>1 DEF OutReady, OthersKept
<1>13. PICK N : N = {x}
  OBVIOUS
<1>14. Issued(u, r, N)
  BY <1>4, <1>8, <1>11, <1>13, TrackIssues
<1>15. \A d \in N : CallOK(d) /\ ChannelsCall(d, u)
  BY <1>9, <1>13, ProbeFields DEF ChannelsCall, Scans
<1>16. x \in DOMAIN r.pending /\ r.cursor = u.cursor /\ r.chain = s.chain
  BY <1>12, <1>13, <1>14, <1>15, OutFollows
<1>17. \A q : c.probe = subchannelProbe(q) => q = p
  BY ProbeFields DEF p
<1>18. ChannelAhead(r, DOMAIN r.pending, p)
  BY <1>1, <1>2, <1>3, <1>7, <1>8, <1>9, <1>16, ScanSuffices
<1>19. \A q : c.probe = subchannelProbe(q) => ChannelAhead(r, DOMAIN r.pending, q)
  BY <1>17, <1>18
<1>20. \A q \in DOMAIN s.cursor.channels : q # p => q \in DOMAIN u.cursor.channels /\ u.cursor.channels[q] = s.cursor.channels[q]
  BY <1>7, <1>8 DEF OthersKept
<1>21. \A q \in DOMAIN s.cursor.channels : s.cursor.channels[q].key =>
              \/ q \in DOMAIN u.cursor.channels /\ u.cursor.channels[q] = s.cursor.channels[q]
              \/ LookedUp(N, "channel_exists", q)
              \/ /\ q \in DOMAIN u.cursor.channels /\ u.cursor.channels[q].key
                 /\ u.cursor.channels[q].tokens = s.cursor.channels[q].tokens
  BY <1>2, <1>7, <1>8, <1>20
<1>22. \A q : c.probe = subchannelProbe(q) => q \in DOMAIN u.cursor.channels
  BY <1>2, <1>7, <1>8, <1>17
<1>23. c.do \in Lookups
  BY DEF Lookups
<1> QED BY ONLY <1>12, <1>14, <1>15, <1>19, <1>21, <1>22, <1>23, LookupStep

\* A scan or a bisection goes on, beside the calls that what it read leads to.
ScanGoesOn(s, c, n, u, X, r) ==
    /\ \E N : OutCarried(s, r, c, N)
    /\ r.cursor = u.cursor /\ r.failed = u.failed /\ X \subseteq DOMAIN r.pending
    /\ r.asked = s.asked /\ r.chain = s.chain
    /\ \A i \in Nat : Reaches(c, i) /\ i < n =>
          \/ Reached(DOMAIN r.pending, c.probe, i)
          \/ i = c.at /\ c.at < n
          \/ lengthOnly(s, c.probe) /\ c.at < n /\ i < c.at

\* A scan of a channels session goes on with what it has not read.
LEMMA ScanFollows ==
    ASSUME NEW s, NEW c, NEW u, OutReady(s, c, u), c.do \in Scans, NEW n \in Nat, NEW X, NEW v, Issued(u, v, X),
           \A x \in X : CallOK(x) /\ ChannelsCall(x, u) /\ x.probe # c.probe,
           NEW r, r = Continue(v, c, c.at < n)
    PROVE  ScanGoesOn(s, c, n, u, X, r)
PROOF
<1>1. /\ ChannelsAtWork(s) /\ c \in DOMAIN s.pending /\ DOMAIN u = SessionFields
      /\ u.pending = s.pending (-) SetToBag({c}) /\ u.what = "channels" /\ u.asked = s.asked /\ s.what = "channels"
  BY DEF OutReady, ChannelsAtWork, Fixed
<1>2. DOMAIN s = SessionFields /\ IsABag(s.pending) /\ CallOK(c)
  BY <1>1, OutAtWork
<1>3. IsABag(u.pending)
  <2>1. IsABag(s.pending (-) SetToBag({c}))
    BY ONLY <1>1, <1>2, TakeOne
  <2> QED BY <1>1, <2>1
<1>4. PICK touches \in BOOLEAN : touches = ~lengthOnly(u, c.probe)
  <2>1. (~lengthOnly(u, c.probe)) \in BOOLEAN
    OBVIOUS
  <2> QED BY ONLY <2>1, Zenon
<1>5. lengthOnly(u, c.probe) = lengthOnly(s, c.probe)
  BY <1>1 DEF lengthOnly
<1> DEFINE M == Onward(c, c.at < n, touches)
           N == X \cup M
<1>6. Issued(u, r, N)
  BY <1>1, <1>2, <1>3, <1>4, OutIssues
<1>7. /\ \A d \in M : CallOK(d) /\ d.probe = c.probe /\ d.do \in Scans /\ (d.do = "touch" => touches)
      /\ \A i \in Nat : Reaches(c, i) /\ i < n =>
            (i = c.at /\ c.at < n) \/ Reached(M, c.probe, i) \/ (~touches /\ c.at < n /\ i < c.at)
  BY <1>2, OutOnward
<1> HIDE DEF M
<1>8. \A d \in M : CallOK(d) /\ ChannelsCall(d, u)
  <2>1. c.probe.on = "note" => ~touches
    BY <1>1, <1>4 DEF lengthOnly
  <2> QED BY <1>7, <2>1 DEF ChannelsCall, Scans
<1>9. \A d \in N : CallOK(d) /\ ChannelsCall(d, u)
  BY <1>8
<1> HIDE DEF N
<1>10. /\ OutCarried(s, r, c, N) /\ r.cursor = u.cursor /\ r.failed = u.failed /\ N \subseteq DOMAIN r.pending
       /\ r.asked = s.asked /\ r.chain = s.chain
  BY <1>6, <1>9, OutFollows
<1>11. \A i \in Nat : Reaches(c, i) /\ i < n =>
          \/ Reached(DOMAIN r.pending, c.probe, i)
          \/ i = c.at /\ c.at < n
          \/ lengthOnly(s, c.probe) /\ c.at < n /\ i < c.at
  <2>1. \A i : Reached(M, c.probe, i) => Reached(DOMAIN r.pending, c.probe, i)
    BY <1>10 DEF Reached, N
  <2> QED BY <1>4, <1>5, <1>7, <2>1
<1>12. X \subseteq DOMAIN r.pending
  BY <1>10 DEF N
<1> QED BY <1>10, <1>11, <1>12 DEF ScanGoesOn

\* It keeps the invariant if it counts the channels, and leaves each channel whose key
\* is known with its tokens, and each one it reads with what it needs.
LEMMA ScanStep ==
    ASSUME NEW s, ChannelsAtWork(s), NEW c \in DOMAIN s.pending, c.do \in Scans, NEW n \in Nat, NEW u, NEW X, NEW r,
           ScanGoesOn(s, c, n, u, X, r),
           ~r.failed => TotalKept(s, r, c),
           ~r.failed /\ s.asked = {"all"} /\ c.probe = channelProbe =>
              \A i \in Nat : Reaches(c, i) /\ i < Len(pool.channels) =>
                 Reached(DOMAIN r.pending, channelProbe, i) \/ ChannelAhead(r, DOMAIN r.pending, pool.channels[i + 1]),
           \A p \in Peers : p \in DOMAIN s.cursor.channels /\ s.cursor.channels[p].key => TokensKept(s, r, c, p)
    PROVE  SessionOK(r, pool)
PROOF
<1>1. PICK N : OutCarried(s, r, c, N)
  BY DEF ScanGoesOn
<1>2. /\ PoolOK(pool) /\ PoolOK(s.chain) /\ Grown(s.chain, pool) /\ CursorOK(s.cursor, pool)
  BY OutAtWork DEF ChannelsAtWork
<1>3. c.do \notin Lookups
  BY DEF Scans, Lookups
<1>4. ASSUME ~r.failed PROVE AsksKept(s, r)
  BY <1>1, <1>2, <1>3, <1>4, AsksStill DEF Lookups
<1> QED BY <1>1, <1>4, ChannelsStep

\* A slot is empty.
LEMMA AnswerOutEmpty ==
    ASSUME NEW s, ChannelsAtWork(s), NEW c \in DOMAIN s.pending, c.do \in Scans, NEW n \in Nat, n = Slots(c.probe),
           ~(c.at < n), NEW r, r = Continue(Without(s, c), c, c.at < n)
    PROVE  SessionOK(r, pool)
PROOF
<1>1. OutReady(s, c, Without(s, c)) /\ Without(s, c).cursor = s.cursor
  BY OutQuiet, StillChannels
<1>2. Issued(Without(s, c), Without(s, c), {})
  BY StillChannels, NothingIssued
<1>3. PICK X : X = {}
  OBVIOUS
<1>4. Issued(Without(s, c), Without(s, c), X) /\ \A x \in X : CallOK(x) /\ ChannelsCall(x, Without(s, c)) /\ x.probe # c.probe
  BY <1>2, <1>3
<1>5. ScanGoesOn(s, c, n, Without(s, c), X, r)
  BY <1>1, <1>4, ScanFollows
<1>6. /\ \A i \in Nat : Reaches(c, i) /\ i < n => Reached(DOMAIN r.pending, c.probe, i)
      /\ r.cursor = s.cursor
  BY <1>1, <1>5 DEF ScanGoesOn
<1>7. c.probe = channelProbe => n = Len(pool.channels)
  BY ProbeFields DEF Slots
<1>8. TotalKept(s, r, c)
  BY <1>6, <1>7 DEF TotalKept
<1>9. CursorOK(s.cursor, pool)
  BY OutAtWork
<1>10. \A p \in Peers : p \in DOMAIN s.cursor.channels /\ s.cursor.channels[p].key => TokensKept(s, r, c, p)
  BY <1>6, <1>9, TokensSame
<1>11. c.probe = channelProbe => \A i \in Nat : Reaches(c, i) /\ i < Len(pool.channels) =>
          Reached(DOMAIN r.pending, channelProbe, i) \/ ChannelAhead(r, DOMAIN r.pending, pool.channels[i + 1])
  BY <1>6, <1>7
<1> QED BY <1>5, <1>8, <1>10, <1>11, ScanStep

\* discoverChannel: of each recipient the key is asked for, or the subchannels are; one
\* that is known without its channel fails the session.
Discovering(s, R, u, X) ==
    /\ DOMAIN u = SessionFields /\ \A f \in SessionFields \ {"failed"} : u[f] = s[f]
    /\ u.failed \in BOOLEAN /\ (s.failed => u.failed)
    /\ \A x \in X : /\ CallOK(x) /\ x.do \in {"get_public_key", "scan"}
                    /\ \E p \in R : x.probe = subchannelProbe(p)
    /\ ~u.failed => \A p \in R :
          /\ p \notin DOMAIN s.cursor.channels => LookedUp(X, "get_public_key", p)
          /\ p \in DOMAIN s.cursor.channels =>
                s.cursor.channels[p].key /\ \E x \in X : x.probe = subchannelProbe(p) /\ \A i \in Nat : Reaches(x, i)

\* discoverChannel asks for the key of a recipient not known, and scans one that has a
\* key.
LEMMA DiscoverIssues ==
    ASSUME PoolOK(pool), NEW s, DOMAIN s = SessionFields, IsABag(s.pending), s.failed \in BOOLEAN,
           CursorOK(s.cursor, pool), NEW R \in SUBSET Peers
    PROVE  \E u, X : Discovering(s, R, u, X) /\ Issued(u, discoverChannel(s, R), X)
PROOF
<1> DEFINE seen == R \cap DOMAIN s.cursor.channels
           keyed == {p \in seen : s.cursor.channels[p].key}
           Y == {Call("get_public_key", subchannelProbe(p), 0, 0, 0, 0) : p \in R \ seen}
           Z == {subchannelScan(s, p) : p \in keyed}
           X == Y \cup Z
           u == [s EXCEPT !.failed = s.failed \/ keyed # seen]
<1>1. discoverChannel(s, R) = Track(u, X)
  BY DEF discoverChannel
<1>2. /\ DOMAIN u = SessionFields /\ u.failed = (s.failed \/ keyed # seen)
      /\ \A f \in SessionFields \ {"failed"} : u[f] = s[f]
  BY DEF SessionFields
<1>3. \A p \in R \ seen : LET x == Call("get_public_key", subchannelProbe(p), 0, 0, 0, 0)
                          IN  CallOK(x) /\ x.do = "get_public_key" /\ x.probe = subchannelProbe(p)
  <2> SUFFICES ASSUME NEW p \in R \ seen
               PROVE  LET x == Call("get_public_key", subchannelProbe(p), 0, 0, 0, 0)
                      IN  CallOK(x) /\ x.do = "get_public_key" /\ x.probe = subchannelProbe(p)
    OBVIOUS
  <2> DEFINE x == Call("get_public_key", subchannelProbe(p), 0, 0, 0, 0)
  <2>1. x.do = "get_public_key" /\ x.probe = subchannelProbe(p) /\ x.at = 0 /\ x.lo = 0 /\ x.hi = 0 /\ x.step = 0
    BY CallFields
  <2>2. subchannelProbe(p) \in Probes /\ subchannelProbe(p).on = "subchannel"
    BY ProbeFields
  <2>3. CallOK(x)
    BY <2>1, <2>2 DEF CallOK, Call, Scans, Reads, Lookups
  <2> QED BY <2>1, <2>3
<1>4. \A p \in keyed : /\ CallOK(subchannelScan(s, p)) /\ subchannelScan(s, p).probe = subchannelProbe(p)
                       /\ subchannelScan(s, p).do = "scan" /\ \A i \in Nat : Reaches(subchannelScan(s, p), i)
  BY SubchannelsScanned
<1>5. \A x \in Y : CallOK(x) /\ x.do = "get_public_key" /\ \E p \in R : x.probe = subchannelProbe(p)
  BY <1>3
<1>6. \A x \in Z : CallOK(x) /\ x.do = "scan" /\ \E p \in R : x.probe = subchannelProbe(p)
  BY <1>4
<1>7. \A p \in R : p \notin DOMAIN s.cursor.channels => LookedUp(Y, "get_public_key", p)
  BY <1>3 DEF LookedUp
<1>8. \A p \in keyed : \E x \in Z : x.probe = subchannelProbe(p) /\ \A i \in Nat : Reaches(x, i)
  BY <1>4
<1> HIDE DEF Y, Z, u
<1>9. ASSUME ~u.failed, NEW p \in R, p \in DOMAIN s.cursor.channels
      PROVE  s.cursor.channels[p].key /\ \E x \in X : x.probe = subchannelProbe(p) /\ \A i \in Nat : Reaches(x, i)
  <2>1. p \in keyed
    BY <1>2, <1>9
  <2> QED BY <1>8, <2>1
<1>10. \A p \in R : p \notin DOMAIN s.cursor.channels => LookedUp(X, "get_public_key", p)
  BY <1>7 DEF LookedUp
<1>11. u.failed \in BOOLEAN /\ (s.failed => u.failed)
  BY <1>2
<1>12. \A x \in X : CallOK(x) /\ x.do \in {"get_public_key", "scan"} /\ \E p \in R : x.probe = subchannelProbe(p)
  BY <1>5, <1>6
<1> HIDE DEF X
<1>13. Discovering(s, R, u, X)
  BY <1>2, <1>9, <1>10, <1>11, <1>12 DEF Discovering
<1>14. u.pending = s.pending
  BY <1>2 DEF SessionFields
<1>15. Issued(u, Track(u, X), X)
  BY <1>2, <1>14, TrackIssues
<1> QED BY <1>1, <1>13, <1>15

\* The session without the call, and with another cursor.
LEMMA OutMarked ==
    ASSUME NEW s, ChannelsAtWork(s), NEW c \in DOMAIN s.pending, NEW k2, CursorOK(k2, pool),
           k2.notes = s.cursor.notes, s.cursor.total <= k2.total, DOMAIN s.cursor.channels \subseteq DOMAIN k2.channels,
           NEW u, DOMAIN u = SessionFields, u.cursor = k2,
           \A f \in SessionFields \ {"cursor", "shared"} : u[f] = Without(s, c)[f]
    PROVE  OutReady(s, c, u) /\ IsABag(u.pending) /\ u.failed = s.failed
PROOF
<1>1. /\ Without(s, c).pending = s.pending (-) SetToBag({c}) /\ IsABag(Without(s, c).pending)
      /\ Without(s, c).failed = s.failed /\ \A f \in SessionFields \ {"pending"} : Without(s, c)[f] = s[f]
  BY StillChannels
<1>2. u.pending = s.pending (-) SetToBag({c}) /\ IsABag(u.pending) /\ u.failed = s.failed
  BY <1>1 DEF SessionFields
<1>3. \A f \in Fixed : u[f] = s[f]
  BY <1>1 DEF SessionFields, Fixed
<1>4. s.failed \in BOOLEAN
  BY OutAtWork
<1> QED BY <1>2, <1>3, <1>4 DEF OutReady

\* A filled slot of a subchannel: its notes are counted.
LEMMA AnswerOutNote ==
    ASSUME NEW s, ChannelsAtWork(s), NEW c \in DOMAIN s.pending, c.do \in Scans, NEW n \in Nat, n = Slots(c.probe),
           c.at < n, c.probe.on = "note",
           NEW r, r = Continue(countNote(Without(s, c), c.probe.peer, c.probe.token, c.at), c, c.at < n)
    PROVE  SessionOK(r, pool)
PROOF
<1> DEFINE p == c.probe.peer
           t == c.probe.token
           k == MarkCount(s.cursor, p, t, c.at)
           u == [Without(s, c) EXCEPT !.cursor = k]
<1>1. /\ CallOK(c) /\ PoolOK(pool) /\ CursorOK(s.cursor, pool) /\ s.what = "channels"
  BY OutAtWork DEF ChannelsAtWork
<1>2. c.probe \in Probes /\ c.at \in Nat
  BY <1>1, CallTyped
<1>3. c.probe = noteProbe(p, t) /\ p \in Peers /\ t \in Tokens
  BY <1>2, ProbeKinds
<1>4. n = pool.count[p][t]
  BY DEF Slots
<1>5. /\ DOMAIN Without(s, c) = SessionFields /\ Without(s, c).cursor = s.cursor
  BY StillChannels
<1>6. countNote(Without(s, c), p, t, c.at) = u
  BY <1>5, Zenon DEF countNote, MarkCount
<1>7. PICK k2 : k2 = k
  OBVIOUS
<1>8. CountKept(s.cursor, k2, p, t, c.at)
  BY <1>1, <1>2, <1>3, <1>4, <1>7, CountMarked
<1>9. /\ DOMAIN u = SessionFields /\ u.cursor = k2
      /\ \A f \in SessionFields \ {"cursor"} : u[f] = Without(s, c)[f]
  BY <1>5, <1>7, CursorChanged
<1>10. r = Continue(u, c, c.at < n)
  BY <1>6
<1> HIDE DEF u, k, p, t
<1>11. /\ CursorOK(k2, pool) /\ k2.notes = s.cursor.notes /\ k2.total = s.cursor.total
       /\ DOMAIN k2.channels = DOMAIN s.cursor.channels
       /\ \A q \in DOMAIN s.cursor.channels : q # p => k2.channels[q] = s.cursor.channels[q]
  BY <1>8 DEF CountKept, OthersKept
<1>12. s.cursor.total <= k2.total
  BY <1>1, <1>11 DEF CursorOK
<1>13. OutReady(s, c, u) /\ IsABag(u.pending)
  BY <1>9, <1>11, <1>12, OutMarked
<1>14. PICK X : X = {}
  OBVIOUS
<1>15. Issued(u, u, X) /\ \A x \in X : CallOK(x) /\ ChannelsCall(x, u) /\ x.probe # c.probe
  BY <1>9, <1>13, <1>14, NothingIssued
<1>16. ScanGoesOn(s, c, n, u, X, r)
  BY <1>10, <1>13, <1>15, ScanFollows
<1>17. /\ r.cursor = k2
       /\ \A i \in Nat : Reaches(c, i) /\ i < n => Reached(DOMAIN r.pending, c.probe, i) \/ i <= c.at
  BY <1>2, <1>9, <1>16 DEF ScanGoesOn
<1>18. c.probe # channelProbe /\ \A q : c.probe # subchannelProbe(q)
  BY ProbeFields
<1>19. TotalKept(s, r, c)
  BY <1>18 DEF TotalKept
<1>20. ASSUME NEW q \in Peers, q \in DOMAIN s.cursor.channels, s.cursor.channels[q].key PROVE TokensKept(s, r, c, q)
  <2>1. CASE q # p
    BY <1>1, <1>11, <1>17, <1>20, <2>1, TokensSame DEF p
  <2>2. CASE q = p
    <3>1. /\ k2.channels[p].key = s.cursor.channels[p].key
          /\ DOMAIN k2.channels[p].tokens = DOMAIN s.cursor.channels[p].tokens
          /\ \A o \in DOMAIN s.cursor.channels[p].tokens : s.cursor.channels[p].tokens[o].nonce <= k2.channels[p].tokens[o].nonce
          /\ t \in DOMAIN s.cursor.channels[p].tokens => c.at + 1 <= k2.channels[p].tokens[t].nonce
      BY <1>8, <1>20, <2>2 DEF CountKept
    <3>2. ASSUME NEW o \in DOMAIN s.cursor.channels[p].tokens, c.probe = noteProbe(p, o), NEW i \in Nat,
                 Reaches(c, i), i < pool.count[p][o]
          PROVE  Reached(DOMAIN r.pending, noteProbe(p, o), i) \/ i + 1 <= r.cursor.channels[p].tokens[o].nonce
      <4>1. o = t
        BY <3>2, ProbeFields DEF t
      <4>2. Reached(DOMAIN r.pending, c.probe, i) \/ i <= c.at
        BY <1>4, <1>17, <3>2, <4>1
      <4>3. k2.channels[p].tokens[t].nonce \in Nat
        BY <1>11, <2>2, <1>20, <3>1, <3>2, <4>1 DEF CursorOK, OutgoingOK, TokenOK
      <4>4. c.at + 1 <= k2.channels[p].tokens[t].nonce
        BY <3>1, <3>2, <4>1
      <4>5. i <= c.at => i + 1 <= k2.channels[p].tokens[t].nonce
        BY ONLY <1>2, <3>2, <4>3, <4>4
      <4> QED BY <1>17, <3>2, <4>1, <4>2, <4>5
    <3>3. TokensKept(s, r, c, p)
      BY <1>11, <1>17, <1>18, <1>20, <2>2, <3>1, <3>2, Zenon DEF TokensKept
    <3> QED BY <2>2, <3>3
  <2> QED BY <2>1, <2>2
<1> QED BY <1>16, <1>18, <1>19, <1>20, ScanStep

\* A filled slot of a channel: the token is noted, and all its notes are to be counted.
LEMMA AnswerOutToken ==
    ASSUME NEW s, ChannelsAtWork(s), NEW c \in DOMAIN s.pending, c.do \in Scans, NEW n \in Nat, n = Slots(c.probe),
           c.at < n, c.probe.on = "subchannel",
           NEW r, r = Continue(foundToken(Without(s, c), c.probe.peer, c.at), c, c.at < n)
    PROVE  SessionOK(r, pool)
PROOF
<1> DEFINE p == c.probe.peer
           t == pool.tokens[p][c.at + 1]
           k == MarkIndex(s.cursor, p, t, c.at)
           h == Without(s, c).shared \ {<<p, t>>}
           u == [Without(s, c) EXCEPT !.cursor = k, !.shared = h]
           x == ScanFrom(noteProbe(p, t), 0)
<1>1. /\ CallOK(c) /\ PoolOK(pool) /\ CursorOK(s.cursor, pool) /\ s.what = "channels"
  BY OutAtWork DEF ChannelsAtWork
<1>2. c.probe \in Probes /\ c.at \in Nat
  BY <1>1, CallTyped
<1>3. c.probe = subchannelProbe(p) /\ p \in Peers
  BY <1>2, ProbeKinds
<1>4. n = Len(pool.tokens[p])
  BY DEF Slots
<1>5. t \in Tokens
  <2>1. pool.tokens[p] \in Seq(Tokens)
    BY <1>1, <1>3, PoolTyped
  <2>2. c.at + 1 \in DOMAIN pool.tokens[p]
    BY <1>2, <1>4, <2>1
  <2> QED BY <2>1, <2>2
<1>6. /\ DOMAIN Without(s, c) = SessionFields /\ Without(s, c).cursor = s.cursor
  BY StillChannels, Zenon
<1>7. foundToken(Without(s, c), p, c.at) = Track(u, {x})
  <2>1. foundToken(Without(s, c), p, c.at) =
           Track([Without(s, c) EXCEPT !.cursor.channels[p].tokens = Put(@, t, [index |-> c.at, nonce |-> 0]),
                                       !.shared = @ \ {<<p, t>>}], {x})
    BY DEF foundToken, Scan
  <2>2. [Without(s, c) EXCEPT !.cursor.channels[p].tokens = Put(@, t, [index |-> c.at, nonce |-> 0]),
                              !.shared = @ \ {<<p, t>>}] = u
    BY <1>6 DEF MarkIndex
  <2> QED BY <2>1, <2>2, Zenon
<1>8. PICK k2 : k2 = k
  OBVIOUS
<1>9. PICK o : o = t
  OBVIOUS
<1>10. IndexKept(s.cursor, k2, p, o)
  BY <1>1, <1>2, <1>3, <1>4, <1>8, <1>9, IndexMarked
<1>11. /\ DOMAIN u = SessionFields /\ u.cursor = k2
       /\ \A f \in SessionFields \ {"cursor", "shared"} : u[f] = Without(s, c)[f]
  <2> HIDE DEF k, h
  <2> QED BY <1>6, <1>8 DEF SessionFields
<1>12. CallOK(x) /\ x.probe = noteProbe(p, o) /\ x.do = "scan" /\ \A i \in Nat : Reaches(x, i)
  <2>1. noteProbe(p, t) \in Probes
    BY <1>3, <1>5, ProbeFields
  <2> QED BY <1>9, <2>1, ScanFromOK
<1>13. o = pool.tokens[p][c.at + 1]
  BY <1>9
<1>14. PICK X : X = {x}
  OBVIOUS
<1>15. r = Continue(Track(u, X), c, c.at < n)
  BY <1>7, <1>14
<1> HIDE DEF u, k, p, t, x, h
<1>16. /\ CursorOK(k2, pool) /\ k2.notes = s.cursor.notes /\ k2.total = s.cursor.total
       /\ DOMAIN k2.channels = DOMAIN s.cursor.channels
       /\ \A q \in DOMAIN s.cursor.channels : q # p => k2.channels[q] = s.cursor.channels[q]
  BY <1>10 DEF IndexKept, OthersKept
<1>17. s.cursor.total <= k2.total
  BY <1>1, <1>16 DEF CursorOK
<1>18. OutReady(s, c, u) /\ IsABag(u.pending)
  BY <1>11, <1>16, <1>17, OutMarked
<1>19. Issued(u, Track(u, X), X)
  BY <1>11, <1>18, TrackIssues
<1>20. \A y \in X : CallOK(y) /\ ChannelsCall(y, u) /\ y.probe # c.probe
  BY <1>12, <1>14, ProbeFields DEF ChannelsCall, Scans
<1>21. ScanGoesOn(s, c, n, u, X, r)
  BY <1>15, <1>18, <1>19, <1>20, ScanFollows
<1>22. ~lengthOnly(s, c.probe)
  BY DEF lengthOnly
<1>23. /\ r.cursor = k2 /\ x \in DOMAIN r.pending
       /\ \A i \in Nat : Reaches(c, i) /\ i < n => Reached(DOMAIN r.pending, c.probe, i) \/ i = c.at
  BY <1>11, <1>14, <1>21, <1>22 DEF ScanGoesOn
<1>24. c.probe # channelProbe /\ \A q, z : c.probe # noteProbe(q, z)
  BY ProbeFields
<1>25. TotalKept(s, r, c)
  BY <1>24 DEF TotalKept
<1>26. Recounted(DOMAIN r.pending, p, o)
  BY <1>12, <1>23 DEF Recounted, Reached
<1>27. ASSUME NEW q \in Peers, q \in DOMAIN s.cursor.channels, s.cursor.channels[q].key PROVE TokensKept(s, r, c, q)
  <2>1. CASE q # p
    BY <1>1, <1>16, <1>23, <1>27, <2>1, TokensSame DEF p
  <2>2. CASE q = p
    <3>1. /\ k2.channels[p].key = s.cursor.channels[p].key
          /\ DOMAIN k2.channels[p].tokens = DOMAIN s.cursor.channels[p].tokens \cup {o}
          /\ \A z \in DOMAIN s.cursor.channels[p].tokens : z # o => k2.channels[p].tokens[z] = s.cursor.channels[p].tokens[z]
      BY <1>10, <1>27, <2>2, SMTT(30) DEF IndexKept
    <3>2. \A z \in DOMAIN s.cursor.channels[p].tokens : s.cursor.channels[p].tokens[z].nonce \in Nat
      BY <1>1, <1>27, <2>2 DEF CursorOK, OutgoingOK, TokenOK
    <3>3. \A z \in DOMAIN s.cursor.channels[p].tokens :
             s.cursor.channels[p].tokens[z].nonce <= k2.channels[p].tokens[z].nonce \/ Recounted(DOMAIN r.pending, p, z)
      BY <1>26, <3>1, <3>2
    <3>4. \A i \in Nat : Reaches(c, i) /\ i < Len(pool.tokens[p]) =>
             \/ Reached(DOMAIN r.pending, subchannelProbe(p), i)
             \/ /\ pool.tokens[p][i + 1] \in DOMAIN k2.channels[p].tokens
                /\ Recounted(DOMAIN r.pending, p, pool.tokens[p][i + 1])
      BY <1>3, <1>4, <1>13, <1>23, <1>26, <3>1
    <3>5. p \in DOMAIN k2.channels /\ k2.channels[p].key /\ DOMAIN s.cursor.channels[p].tokens \subseteq DOMAIN k2.channels[p].tokens
      BY <1>16, <1>27, <2>2, <3>1
    <3>6. r.cursor = k2 /\ \A z : c.probe # noteProbe(p, z)
      BY <1>23, <1>24
    <3>7. TokensKept(s, r, c, p)
      BY ONLY <3>3, <3>4, <3>5, <3>6 DEF TokensKept
    <3> QED BY <2>2, <3>7
  <2> QED BY <2>1, <2>2
<1> QED BY <1>21, <1>24, <1>25, <1>27, ScanStep

\* A filled slot of the list of channels, when only their number is wanted.
LEMMA AnswerOutCounted ==
    ASSUME NEW s, ChannelsAtWork(s), NEW c \in DOMAIN s.pending, c.do \in Scans, NEW n \in Nat, n = Slots(c.probe),
           c.at < n, c.probe.on = "channel", s.asked = {"total-only"},
           NEW r, r = Continue(foundOutgoing(Without(s, c), c.at), c, c.at < n)
    PROVE  SessionOK(r, pool)
PROOF
<1> DEFINE k == MarkTotal(s.cursor, c.at)
           u == [Without(s, c) EXCEPT !.cursor = k]
<1>1. /\ CallOK(c) /\ PoolOK(pool) /\ CursorOK(s.cursor, pool)
  BY OutAtWork DEF ChannelsAtWork
<1>2. c.probe \in Probes /\ c.at \in Nat
  BY <1>1, CallTyped
<1>3. n = Len(pool.channels)
  BY DEF Slots
<1>4. /\ DOMAIN Without(s, c) = SessionFields /\ Without(s, c).cursor = s.cursor /\ Without(s, c).asked = s.asked
  BY StillChannels
<1>5. foundOutgoing(Without(s, c), c.at) = u
  BY <1>4 DEF foundOutgoing, MarkTotal
<1>6. PICK k2 : k2 = k
  OBVIOUS
<1>7. /\ CursorOK(k2, pool) /\ k2.notes = s.cursor.notes /\ k2.channels = s.cursor.channels
      /\ s.cursor.total <= k2.total /\ c.at + 1 <= k2.total
  BY <1>1, <1>2, <1>3, <1>6, TotalMarked
<1>8. /\ DOMAIN u = SessionFields /\ u.cursor = k2
      /\ \A f \in SessionFields \ {"cursor"} : u[f] = Without(s, c)[f]
  BY <1>4, <1>6, CursorChanged
<1>9. r = Continue(u, c, c.at < n)
  BY <1>5
<1> HIDE DEF u, k
<1>10. OutReady(s, c, u) /\ IsABag(u.pending)
  BY <1>7, <1>8, OutMarked
<1>11. PICK X : X = {}
  OBVIOUS
<1>12. Issued(u, u, X) /\ \A x \in X : CallOK(x) /\ ChannelsCall(x, u) /\ x.probe # c.probe
  BY <1>8, <1>10, <1>11, NothingIssued
<1>13. ScanGoesOn(s, c, n, u, X, r)
  BY <1>9, <1>10, <1>12, ScanFollows
<1>14. /\ r.cursor = k2
       /\ \A i \in Nat : Reaches(c, i) /\ i < n => Reached(DOMAIN r.pending, c.probe, i) \/ i <= c.at
  BY <1>2, <1>8, <1>13 DEF ScanGoesOn
<1>15. TotalKept(s, r, c)
  <2>1. k2.total \in Nat
    BY <1>7 DEF CursorOK
  <2>2. \A i \in Nat : i <= c.at => i + 1 <= k2.total
    BY ONLY <1>2, <1>7, <2>1
  <2> QED BY <1>3, <1>14, <2>2 DEF TotalKept
<1>16. \A q \in Peers : q \in DOMAIN s.cursor.channels /\ s.cursor.channels[q].key => TokensKept(s, r, c, q)
  BY <1>1, <1>7, <1>14, TokensSame
<1>17. s.asked # {"all"}
  OBVIOUS
<1> QED BY <1>13, <1>15, <1>16, <1>17, ScanStep

\* When the channels are wanted: this one is looked for, or its subchannels are.
LEMMA AnswerOutgoing ==
    ASSUME NEW s, ChannelsAtWork(s), NEW c \in DOMAIN s.pending, c.do \in Scans, NEW n \in Nat, n = Slots(c.probe),
           c.at < n, c.probe.on = "channel", s.asked # {"total-only"},
           NEW r, r = Continue(foundOutgoing(Without(s, c), c.at), c, c.at < n)
    PROVE  SessionOK(r, pool)
PROOF
<1> DEFINE k == MarkTotal(s.cursor, c.at)
           w == [Without(s, c) EXCEPT !.cursor = k]
           p == pool.channels[c.at + 1]
<1>1. /\ CallOK(c) /\ PoolOK(pool) /\ CursorOK(s.cursor, pool) /\ s.failed \in BOOLEAN /\ PoolOK(s.chain)
  BY OutAtWork DEF ChannelsAtWork
<1>2. c.probe \in Probes /\ c.at \in Nat
  BY <1>1, CallTyped
<1>3. n = Len(pool.channels) /\ c.probe = channelProbe
  BY <1>2, ProbeKinds DEF Slots
<1>4. /\ DOMAIN Without(s, c) = SessionFields /\ Without(s, c).cursor = s.cursor /\ Without(s, c).asked = s.asked
  BY StillChannels
<1>5. PICK R : R = {p}
  OBVIOUS
<1>6. foundOutgoing(Without(s, c), c.at) = discoverChannel(w, R)
  BY <1>4, <1>5 DEF foundOutgoing, MarkTotal
<1>7. PICK k2 : k2 = k
  OBVIOUS
<1>8. /\ CursorOK(k2, pool) /\ k2.notes = s.cursor.notes /\ k2.channels = s.cursor.channels
      /\ s.cursor.total <= k2.total /\ c.at + 1 <= k2.total
  BY <1>1, <1>2, <1>3, <1>7, TotalMarked
<1>9. /\ DOMAIN w = SessionFields /\ w.cursor = k2
      /\ \A f \in SessionFields \ {"cursor"} : w[f] = Without(s, c)[f]
  BY <1>4, <1>7, CursorChanged
<1>10. p \in Peers
  <2>1. pool.channels \in Seq(Peers)
    BY <1>1, PoolTyped
  <2>2. c.at + 1 \in DOMAIN pool.channels
    BY <1>2, <1>3, <2>1
  <2> QED BY <2>1, <2>2
<1> HIDE DEF w, k
<1>11. OutReady(s, c, w) /\ IsABag(w.pending) /\ w.failed = s.failed
  BY <1>8, <1>9, OutMarked
<1>12. PICK u, X : Discovering(w, R, u, X) /\ Issued(u, discoverChannel(w, R), X)
  <2>1. R \in SUBSET Peers
    BY <1>5, <1>10
  <2> QED BY <1>1, <1>8, <1>9, <1>11, <2>1, DiscoverIssues
<1>13. /\ DOMAIN u = SessionFields /\ \A f \in SessionFields \ {"failed"} : u[f] = w[f]
       /\ u.failed \in BOOLEAN /\ (w.failed => u.failed)
  BY <1>12 DEF Discovering
<1>14. u.cursor = k2 /\ u.pending = w.pending /\ \A f \in Fixed : u[f] = w[f]
  BY <1>9, <1>13 DEF SessionFields, Fixed
<1>15. OutReady(s, c, u)
  BY <1>9, <1>11, <1>13, <1>14 DEF OutReady
<1>16. r = Continue(discoverChannel(w, R), c, c.at < n)
  BY <1>6
<1>17. \A x \in X : CallOK(x) /\ ChannelsCall(x, u) /\ x.probe # c.probe
  BY <1>3, <1>12, ProbeFields DEF Discovering, ChannelsCall, Scans, Lookups
<1>18. ScanGoesOn(s, c, n, u, X, r)
  BY <1>12, <1>15, <1>16, <1>17, ScanFollows
<1>19. ~lengthOnly(s, c.probe)
  BY DEF lengthOnly
<1>20. /\ r.cursor = k2 /\ X \subseteq DOMAIN r.pending /\ r.failed = u.failed /\ r.chain = s.chain
       /\ \A i \in Nat : Reaches(c, i) /\ i < n => Reached(DOMAIN r.pending, c.probe, i) \/ i = c.at
  BY <1>14, <1>18, <1>19 DEF ScanGoesOn
<1>21. TotalKept(s, r, c)
  BY <1>3, <1>8, <1>20 DEF TotalKept
<1>22. \A q \in Peers : q \in DOMAIN s.cursor.channels /\ s.cursor.channels[q].key => TokensKept(s, r, c, q)
  BY <1>1, <1>8, <1>20, TokensSame
<1>23. ASSUME ~r.failed PROVE ChannelAhead(r, DOMAIN r.pending, p)
  <2>1. /\ p \notin DOMAIN k2.channels => LookedUp(X, "get_public_key", p)
        /\ p \in DOMAIN k2.channels =>
              k2.channels[p].key /\ \E x \in X : x.probe = subchannelProbe(p) /\ \A i \in Nat : Reaches(x, i)
    BY <1>5, <1>9, <1>12, <1>20, <1>23 DEF Discovering
  <2>2. CASE p \notin DOMAIN k2.channels
    BY <1>20, <2>1, <2>2 DEF ChannelAhead, LookedUp, Lookups
  <2>3. CASE p \in DOMAIN k2.channels
    <3>1. PICK x \in X : x.probe = subchannelProbe(p) /\ \A i \in Nat : Reaches(x, i)
      BY <2>1, <2>3
    <3> QED BY <1>1, <1>10, <1>20, <2>1, <2>3, <3>1, ScanSuffices
  <2> QED BY <2>2, <2>3
<1>24. ~r.failed => \A i \in Nat : Reaches(c, i) /\ i < Len(pool.channels) =>
          Reached(DOMAIN r.pending, channelProbe, i) \/ ChannelAhead(r, DOMAIN r.pending, pool.channels[i + 1])
  BY <1>3, <1>20, <1>23
<1> QED BY <1>18, <1>21, <1>22, <1>24, ScanStep

\* Any answer keeps a channels session's invariant.
LEMMA ChannelsAnswer ==
    ASSUME NEW s, ChannelsAtWork(s), NEW c \in DOMAIN s.pending
    PROVE  SessionOK(Answered(s, c), pool)
PROOF
<1> DEFINE u == Without(s, c)
<1>1. CallOK(c) /\ ChannelsCall(c, s) /\ PoolOK(pool)
  BY OutAtWork DEF ChannelsAtWork
<1>2. c.probe \in Probes /\ c.at \in Nat /\ c.do \in Scans \cup Lookups
  BY <1>1, CallTyped DEF ChannelsCall
<1>3. u.what = "channels" /\ u.asked = s.asked
  BY StillChannels
<1>4. pool.channels \in Seq(Peers)
  BY <1>1, PoolTyped
<1> HIDE DEF u
<1>5. CASE c.do = "get_public_key" /\ c.probe.peer \notin pool.keys
  <2>1. Answered(s, c) = Without(s, c)
    BY <1>5 DEF Answered, gotPublicKey
  <2> QED BY <1>5, <2>1, AnswerNoKey
<1>6. CASE c.do = "get_public_key" /\ c.probe.peer \in pool.keys
  <2>1. Answered(s, c) = gotPublicKey(Without(s, c), c.probe.peer)
    BY <1>6 DEF Answered
  <2> QED BY <1>6, <2>1, AnswerKey
<1>7. CASE c.do = "channel_exists" /\ c.probe.peer \notin ToSet(pool.channels)
  <2>1. ~Contains(pool.channels, c.probe.peer)
    BY <1>4, <1>7 DEF Contains, ToSet
  <2>2. Answered(s, c) = Without(s, c)
    BY <1>7, <2>1 DEF Answered, gotChannel
  <2> QED BY <1>7, <2>2, AnswerNoChannel
<1>8. CASE c.do = "channel_exists" /\ c.probe.peer \in ToSet(pool.channels)
  <2>1. Answered(s, c) = gotChannel(Without(s, c), c.probe.peer)
    BY <1>8 DEF Answered
  <2> QED BY <1>8, <2>1, AnswerExists
<1>9. CASE c.do \in Scans
  <2>1. PICK n \in Nat : n = Slots(c.probe) /\ Filled(c.probe, c.at) = (c.at < n)
    BY <1>1, <1>2, FilledSlots
  <2>2. Answered(s, c) = Continue(IF c.at < n THEN Hit(u, c) ELSE u, c, c.at < n)
    BY <1>3, <1>9, <2>1 DEF Answered, Scans, u
  <2>3. CASE ~(c.at < n)
    <3>1. Answered(s, c) = Continue(Without(s, c), c, c.at < n)
      BY <2>2, <2>3 DEF u
    <3> QED BY <1>9, <2>1, <2>3, <3>1, AnswerOutEmpty
  <2>4. CASE c.at < n /\ c.probe.on = "channel"
    <3>1. Hit(u, c) = foundOutgoing(u, c.at)
      BY <1>3, <2>4 DEF Hit
    <3>2. Answered(s, c) = Continue(foundOutgoing(Without(s, c), c.at), c, c.at < n)
      BY <2>2, <2>4, <3>1 DEF u
    <3>3. CASE s.asked = {"total-only"}
      BY <1>9, <2>1, <2>4, <3>2, <3>3, AnswerOutCounted
    <3>4. CASE s.asked # {"total-only"}
      BY <1>9, <2>1, <2>4, <3>2, <3>4, AnswerOutgoing
    <3> QED BY <3>3, <3>4
  <2>5. CASE c.at < n /\ c.probe.on = "subchannel"
    <3>1. Hit(u, c) = foundToken(u, c.probe.peer, c.at)
      BY <1>3, <2>5 DEF Hit
    <3>2. Answered(s, c) = Continue(foundToken(Without(s, c), c.probe.peer, c.at), c, c.at < n)
      BY <2>2, <2>5, <3>1 DEF u
    <3> QED BY <1>9, <2>1, <2>5, <3>2, AnswerOutToken
  <2>6. CASE c.at < n /\ c.probe.on = "note"
    <3>1. Hit(u, c) = countNote(u, c.probe.peer, c.probe.token, c.at)
      BY <1>3, <2>6 DEF Hit
    <3>2. Answered(s, c) = Continue(countNote(Without(s, c), c.probe.peer, c.probe.token, c.at), c, c.at < n)
      BY <2>2, <2>6, <3>1 DEF u
    <3> QED BY <1>9, <2>1, <2>6, <3>2, AnswerOutNote
  <2>7. c.probe.on \in {"channel", "subchannel", "note"}
    BY <1>2, ProbeKinds
  <2> QED BY ONLY <2>3, <2>4, <2>5, <2>6, <2>7
<1> QED BY <1>2, <1>5, <1>6, <1>7, <1>8, <1>9 DEF Lookups

-----------------------------------------------------------------------------
(***************************************************************************)
(* The steps of the system.                                                *)
(***************************************************************************)

\* An answer: the session keeps its invariant, and the counters it shares with the
\* caller stay true.
LEMMA AnswerKeeps ==
    ASSUME DiscoveryInv, NEW c \in BagToSet(session.pending), answer(c)
    PROVE  DiscoveryInv'
PROOF
<1>1. PICK s : s = session
  OBVIOUS
<1>2. s.pc = "running" /\ c \in DOMAIN s.pending /\ session' = Answered(s, c) /\ pool' = pool /\ cursor' = Counted(c)
  BY <1>1 DEF answer, Answered, Without, BagToSet
<1>3. PoolOK(pool) /\ CursorOK(cursor, pool) /\ FirstKnown(DOMAIN cursor.notes, pool)
  BY DEF DiscoveryInv
<1>4. SessionOK(s, pool)
  <2>1. session # NoSession
    BY <1>1, <1>2 DEF NoSession
  <2> QED BY <1>1, <2>1 DEF DiscoveryInv
<1>5. CallOK(c) /\ (s.what = "notes" \/ s.what = "channels")
  BY <1>2, <1>4 DEF SessionOK
<1>6. SessionOK(session', pool)
  <2>1. CASE s.what = "notes"
    BY <1>2, <1>3, <1>4, <2>1, NotesAnswer DEF NotesAtWork
  <2>2. CASE s.what = "channels"
    BY <1>2, <1>3, <1>4, <2>2, ChannelsAnswer DEF ChannelsAtWork
  <2> QED BY <1>5, <2>1, <2>2
<1>7. CursorOK(cursor', pool) /\ cursor'.notes = cursor.notes
  <2>1. CASE cursor' = cursor
    BY <1>3, <2>1
  <2>2. CASE cursor' # cursor
    <3> DEFINE p == c.probe.peer
               t == c.probe.token
    <3>1. /\ c.probe.on = "note" /\ Filled(c.probe, c.at) /\ cursor' = MarkCount(cursor, p, t, c.at)
      BY <1>2, <2>2, Zenon DEF Counted, MarkCount
    <3>2. c.probe \in Probes /\ c.at \in Nat
      BY <1>5, CallTyped
    <3>3. p \in Peers /\ t \in Tokens
      BY <3>1, <3>2, ProbeKinds
    <3>4. c.at < pool.count[p][t]
      BY <3>1 DEF Filled
    <3>5. PICK k : k = cursor
      OBVIOUS
    <3>6. PICK k2 : k2 = MarkCount(k, p, t, c.at) /\ k2 = cursor'
      BY <3>1, <3>5
    <3>7. CountKept(k, k2, p, t, c.at)
      BY <1>3, <3>2, <3>3, <3>4, <3>5, <3>6, CountMarked
    <3> QED BY <3>5, <3>6, <3>7 DEF CountKept, OthersKept
  <2> QED BY <2>1, <2>2
<1>8. FirstKnown(DOMAIN cursor'.notes, pool)
  BY <1>3, <1>7
<1> QED BY <1>2, <1>3, <1>6, <1>7, <1>8 DEF DiscoveryInv

\* A failed call: nothing is promised of the session any more, but the caller's cursor
\* and what is found remain true.
LEMMA FailureKeeps ==
    ASSUME DiscoveryInv, NEW c \in BagToSet(session.pending), callFails(c)
    PROVE  DiscoveryInv'
PROOF
<1>1. PICK s : s = session
  OBVIOUS
<1> DEFINE B == s.pending (-) SetToBag({c})
           r == [s EXCEPT !.pending = B, !.failed = TRUE]
<1>2. s.pc = "running" /\ c \in DOMAIN s.pending /\ session' = r /\ pool' = pool /\ cursor' = cursor
  BY <1>1 DEF callFails, BagToSet
<1>3. SessionOK(s, pool)
  <2>1. session # NoSession
    BY <1>1, <1>2 DEF NoSession
  <2> QED BY <1>1, <2>1 DEF DiscoveryInv
<1>4. DOMAIN s = SessionFields /\ IsABag(s.pending)
  BY <1>3 DEF SessionOK
<1>5. IsABag(B) /\ DOMAIN B \subseteq DOMAIN s.pending /\ (AllOnce(s.pending) => AllOnce(B))
  BY ONLY <1>2, <1>4, TakeOne
<1> HIDE DEF B
<1>6. /\ DOMAIN r = SessionFields /\ r.pending = B /\ r.failed = TRUE
      /\ \A f \in SessionFields \ {"pending", "failed"} : r[f] = s[f]
  BY <1>4 DEF SessionFields
<1>7. /\ r.what = s.what /\ r.cursor = s.cursor /\ r.chain = s.chain /\ r.asked = s.asked /\ r.found = s.found
      /\ r.fresh = s.fresh /\ r.pc = "running"
  BY <1>2, <1>6 DEF SessionFields
<1> HIDE DEF r
<1>8. SUFFICES SessionOK(r, pool)
  BY <1>2 DEF DiscoveryInv
<1>9. /\ PoolOK(s.chain) /\ Grown(s.chain, pool) /\ CursorOK(s.cursor, pool)
      /\ \A d \in DOMAIN s.pending : CallOK(d)
      /\ \/ s.what = "notes" /\ NotesInv(s, DOMAIN s.pending, pool)
         \/ s.what = "channels" /\ ChannelsInv(s, DOMAIN s.pending, pool)
  BY <1>3 DEF SessionOK
<1>10. CASE s.what = "notes" /\ NotesInv(s, DOMAIN s.pending, pool)
  <2>1. s.fresh => Once(r, DOMAIN B, pool)
    <3> SUFFICES ASSUME Once(s, DOMAIN s.pending, pool) PROVE Once(r, DOMAIN B, pool)
      BY <1>10 DEF NotesInv
    <3>1. \A probe, i : Read(r, pool, probe, i) => Read(s, pool, probe, i)
      BY <1>7 DEF Read
    <3>2. \A p, t : Below(s, p, t) => Below(r, p, t)
      BY <1>7 DEF Below
    <3>3. AllOnce(s.pending) /\ AllOnce(s.found) /\ \A n \in DOMAIN s.found : Below(s, n.peer, n.token)
      BY DEF Once
    <3>4. \A d \in DOMAIN s.pending :
             /\ d.probe.on = "subchannel" => d.probe.peer \in DOMAIN s.cursor.notes
             /\ d.probe.on = "note" => Below(s, d.probe.peer, d.probe.token)
             /\ \A i \in Nat : Reaches(d, i) => ~Read(s, pool, d.probe, i)
      BY DEF Once
    <3>5. \A d, e \in DOMAIN s.pending : d # e /\ d.probe = e.probe => \A i \in Nat : ~(Reaches(d, i) /\ Reaches(e, i))
      BY DEF Once
    <3> QED BY <1>5, <1>6, <1>7, <3>1, <3>2, <3>3, <3>4, <3>5 DEF Once
  <2>2. NotesInv(r, DOMAIN B, pool)
    <3>1. /\ IsABag(s.found) /\ DOMAIN s.found \cap s.chain.spent = {}
          /\ \A d \in DOMAIN s.pending : NotesCall(d, s, pool)
      BY <1>10 DEF NotesInv
    <3>2. \A d \in DOMAIN B : NotesCall(d, r, pool)
      BY <1>5, <1>7, <3>1 DEF NotesCall
    <3> QED BY <1>6, <1>7, <2>1, <3>1, <3>2 DEF NotesInv
  <2> QED BY <1>5, <1>6, <1>7, <1>10, <1>9, <2>2 DEF SessionOK
<1>11. CASE s.what = "channels" /\ ChannelsInv(s, DOMAIN s.pending, pool)
  <2>1. FirstKnown(DOMAIN s.cursor.notes, pool) /\ \A d \in DOMAIN s.pending : ChannelsCall(d, s)
    BY <1>11 DEF ChannelsInv
  <2>2. \A d \in DOMAIN B : ChannelsCall(d, r)
    BY <1>5, <1>7, <2>1 DEF ChannelsCall
  <2>3. ChannelsInv(r, DOMAIN B, pool)
    BY <1>6, <1>7, <2>1, <2>2 DEF ChannelsInv
  <2> QED BY <1>5, <1>6, <1>7, <1>11, <1>9, <2>3 DEF SessionOK
<1> QED BY ONLY <1>10, <1>11, <1>9

\* A set of numbers has a least one.
LEMMA LeastNumber ==
    ASSUME NEW S, S \subseteq Nat, S # {}
    PROVE  \E x \in S : \A y \in S : x <= y
PROOF
<1> DEFINE R == {ss \in Nat \X Nat : ss[1] < ss[2]}
<1>1. IsWellFoundedOn(R, Nat)
  BY NatLessThanWellFounded DEF OpToRel
<1> HIDE DEF R
<1>2. PICK x \in S : \A y \in S : <<y, x>> \notin R
  BY <1>1, WFMin
<1>3. \A y \in S : <<y, x>> \in R \/ x <= y
  BY DEF R
<1> QED BY <1>2, <1>3

\* When no call is left, the channels seen in order are the first ones.
LEMMA SeenFirst ==
    ASSUME NEW now, PoolOK(now), NEW seen, seen \subseteq ToSet(now.channels), InOrder(seen, {}, now)
    PROVE  FirstKnown(seen, now)
PROOF
<1>1. PICK list : list = now.channels
  OBVIOUS
<1>2. PICK l \in Nat : l = Len(list) /\ DOMAIN list = 1 .. l
  <2>1. list \in Seq(Peers)
    BY <1>1, PoolTyped
  <2> QED BY ONLY <2>1
<1> DEFINE S == {i \in Nat : i <= l /\ (i = l \/ list[i + 1] \notin seen)}
<1>3. \A j \in 1 .. l : list[j] \in seen => \A i \in Nat : i < j => list[i + 1] \in seen
  BY <1>2, <1>1 DEF InOrder, Listed, Reached
<1>4. seen \subseteq {list[j] : j \in 1 .. l}
  BY <1>2, <1>1 DEF ToSet
<1>5. l \in S
  BY ONLY l \in Nat
<1>6. PICK n \in S : \A y \in S : n <= y
  <2>1. S \subseteq Nat /\ S # {}
    BY <1>5
  <2> HIDE DEF S
  <2> QED BY <2>1, LeastNumber
<1>7. n \in Nat /\ n <= l /\ (n = l \/ list[n + 1] \notin seen)
  BY ONLY n \in S
<1>8. \A i \in Nat : i < l /\ i \notin S => list[i + 1] \in seen
  BY ONLY l \in Nat
<1> HIDE DEF S
<1>9. ASSUME NEW j \in 1 .. n PROVE list[j] \in seen
  <2>1. j - 1 \in Nat /\ j - 1 < l /\ ~(n <= j - 1) /\ (j - 1) + 1 = j
    BY ONLY l \in Nat, <1>7, <1>9
  <2>2. j - 1 \notin S
    BY ONLY <1>6, <2>1
  <2> QED BY ONLY <1>8, <2>1, <2>2
<1>10. ASSUME NEW p \in seen PROVE \E j \in 1 .. n : list[j] = p
  <2>1. PICK j \in 1 .. l : list[j] = p
    BY <1>4
  <2>2. CASE j <= n
    BY ONLY l \in Nat, <1>7, <2>1, <2>2
  <2>3. CASE n < j
    <3>1. n # l
      BY ONLY l \in Nat, <1>7, <2>1, <2>3
    <3>2. list[n + 1] \in seen
      BY <1>3, <1>7, <2>1, <2>3
    <3> QED BY <1>7, <3>1, <3>2
  <2> QED BY ONLY l \in Nat, <1>7, <2>1, <2>2, <2>3
<1>11. seen = {list[j] : j \in 1 .. n}
  BY <1>9, <1>10
<1>12. n \in 0 .. l
  BY ONLY l \in Nat, <1>7
<1> QED BY <1>2, <1>1, <1>11, <1>12 DEF FirstKnown

\* A session ends: what it returns is what it knows.
LEMMA WaitKeeps ==
    ASSUME DiscoveryInv, wait
    PROVE  DiscoveryInv'
PROOF
<1>1. PICK s : s = session
  OBVIOUS
<1>2. s.pc = "running" /\ s.pending = EmptyBag /\ pool' = pool
  BY <1>1 DEF wait
<1>3. SessionOK(s, pool) /\ PoolOK(pool)
  <2>1. session # NoSession
    BY <1>1, <1>2 DEF NoSession
  <2> QED BY <1>1, <2>1 DEF DiscoveryInv
<1>4. CASE s.failed
  <2>1. session' = NoSession /\ cursor' = cursor
    BY <1>1, <1>4 DEF wait
  <2> QED BY <1>2, <2>1 DEF DiscoveryInv
<1>5. CASE ~s.failed
  <2> DEFINE r == [s EXCEPT !.pc = "returned"]
  <2>1. session' = r /\ cursor' = s.cursor
    BY <1>1, <1>5 DEF wait
  <2>2. DOMAIN s = SessionFields
    BY <1>3 DEF SessionOK
  <2>3. DOMAIN r = SessionFields /\ \A f \in SessionFields \ {"pc"} : r[f] = s[f]
    BY <2>2 DEF SessionFields
  <2>4. /\ r.what = s.what /\ r.cursor = s.cursor /\ r.chain = s.chain /\ r.asked = s.asked /\ r.found = s.found
        /\ r.fresh = s.fresh /\ r.pending = s.pending /\ r.failed = s.failed
    BY <2>3 DEF SessionFields
  <2> HIDE DEF r
  <2>5. DOMAIN s.pending = {}
    BY <1>2, NothingPending
  <2>6. SessionOK(r, pool) /\ CursorOK(s.cursor, pool)
    <3>1. CASE s.what = "notes" /\ NotesInv(s, {}, pool)
      <4>1. NotesInv(r, {}, pool)
        <5>1. /\ \A n \in NotesIn(s.chain) : NoteAhead(s, {}, n) => NoteAhead(r, {}, n)
          BY <2>4 DEF NoteAhead
        <5>2. Wanted(r, pool) = Wanted(s, pool) /\ Wanted(s, pool) \subseteq NotesIn(s.chain)
          BY <2>4 DEF Wanted
        <5>3. s.fresh => Once(r, {}, pool)
          <6> SUFFICES ASSUME Once(s, {}, pool) PROVE Once(r, {}, pool)
            BY <3>1 DEF NotesInv
          <6>1. AllOnce(s.pending) /\ AllOnce(s.found) /\ \A n \in DOMAIN s.found : Below(s, n.peer, n.token)
            BY DEF Once
          <6>2. \A p, t : Below(s, p, t) => Below(r, p, t)
            BY <2>4 DEF Below
          <6> QED BY <2>4, <6>1, <6>2 DEF Once
        <5> QED BY <2>4, <3>1, <5>1, <5>2, <5>3 DEF NotesInv
      <4> QED BY <1>2, <1>3, <1>5, <2>3, <2>4, <2>5, <3>1, <4>1 DEF SessionOK
    <3>2. CASE s.what = "channels" /\ ChannelsInv(s, {}, pool)
      <4>1. \A p : ChannelAhead(s, {}, p) => ChannelAhead(r, {}, p)
        BY <2>4, Zenon DEF ChannelAhead, KeyedAhead, TokenAhead, NotesAhead
      <4>2. ChannelsInv(r, {}, pool)
        BY <2>4, <3>2, <4>1 DEF ChannelsInv
      <4> QED BY <1>2, <1>3, <1>5, <2>3, <2>4, <2>5, <3>2, <4>2 DEF SessionOK
    <3> QED BY <1>3, <2>5, <3>1, <3>2 DEF SessionOK
  <2>7. FirstKnown(DOMAIN s.cursor.notes, pool)
    <3>1. CASE s.what = "notes" /\ NotesInv(s, {}, pool)
      <4>1. InOrder(DOMAIN s.cursor.notes, {}, pool)
        BY <1>5, <3>1 DEF NotesInv
      <4>2. DOMAIN s.cursor.notes \subseteq ToSet(pool.channels)
        BY <2>6 DEF CursorOK
      <4> QED BY <1>3, <4>1, <4>2, SeenFirst
    <3>2. CASE s.what = "channels" /\ ChannelsInv(s, {}, pool)
      BY <3>2 DEF ChannelsInv
    <3> QED BY <1>3, <2>5, <3>1, <3>2 DEF SessionOK
  <2> QED BY <1>2, <1>3, <2>1, <2>6, <2>7 DEF DiscoveryInv
<1> QED BY <1>4, <1>5

\* What was true of the storage stays true of storage that has grown.
LEMMA StartsFurther ==
    ASSUME NEW a, NEW b, NEW d, Starts(a, b), Starts(b, d)
    PROVE  Starts(a, d)
PROOF
BY DEF Starts

\* Storage that has grown twice has grown.
LEMMA GrownFurther ==
    ASSUME NEW chain, NEW now, NEW next, PoolOK(chain), PoolOK(now), PoolOK(next), Grown(chain, now), Grown(now, next)
    PROVE  Grown(chain, next)
PROOF
<1>1. \A p \in Peers, t \in Tokens : chain.count[p][t] <= next.count[p][t]
  <2> SUFFICES ASSUME NEW p \in Peers, NEW t \in Tokens PROVE chain.count[p][t] <= next.count[p][t]
    OBVIOUS
  <2>1. chain.count[p][t] \in Nat /\ now.count[p][t] \in Nat /\ next.count[p][t] \in Nat
    BY PoolTyped
  <2>2. chain.count[p][t] <= now.count[p][t] /\ now.count[p][t] <= next.count[p][t]
    BY DEF Grown
  <2> QED BY ONLY <2>1, <2>2
<1>2. Starts(chain.channels, next.channels) /\ \A p \in Peers : Starts(chain.tokens[p], next.tokens[p])
  BY StartsFurther DEF Grown
<1>3. chain.keys \subseteq next.keys /\ chain.spent \subseteq next.spent
  BY DEF Grown
<1> QED BY <1>1, <1>2, <1>3 DEF Grown

\* A list that has grown has the members it had, in the same places.
LEMMA ListGrown ==
    ASSUME NEW S, NEW list \in Seq(S), NEW longer \in Seq(S), Starts(list, longer)
    PROVE  /\ ToSet(list) \subseteq ToSet(longer) /\ Len(list) <= Len(longer)
           /\ Distinct(longer) => \A j \in DOMAIN longer : longer[j] \in ToSet(list) => j \in DOMAIN list
PROOF
<1>1. ToSet(list) \subseteq ToSet(longer)
  BY DEF Starts, ToSet
<1>2. Len(list) \in Nat /\ Len(longer) \in Nat /\ DOMAIN list = 1 .. Len(list) /\ DOMAIN longer = 1 .. Len(longer)
  OBVIOUS
<1>3. Len(list) <= Len(longer)
  <2>1. CASE Len(list) = 0
    BY <1>2, <2>1
  <2>2. CASE Len(list) > 0
    <3>1. Len(list) \in DOMAIN list
      BY <1>2, <2>2
    <3>2. Len(list) \in DOMAIN longer
      BY <3>1 DEF Starts
    <3> QED BY <1>2, <3>2
  <2> QED BY <1>2, <2>1, <2>2
<1>4. ASSUME Distinct(longer), NEW j \in DOMAIN longer, longer[j] \in ToSet(list) PROVE j \in DOMAIN list
  <2>1. PICK i \in DOMAIN list : list[i] = longer[j]
    BY <1>4 DEF ToSet
  <2>2. i \in DOMAIN longer /\ longer[i] = longer[j]
    BY <2>1 DEF Starts
  <2>3. i = j
    BY <1>4, <2>2 DEF Distinct
  <2> QED BY <2>1, <2>3
<1> QED BY <1>1, <1>3, <1>4

\* A cursor that is true stays so.
LEMMA CursorStays ==
    ASSUME NEW now, NEW next, PoolOK(now), PoolOK(next), Grown(now, next), NEW k, CursorOK(k, now)
    PROVE  CursorOK(k, next)
PROOF
<1>1. /\ ToSet(now.channels) \subseteq ToSet(next.channels) /\ Len(now.channels) <= Len(next.channels)
      /\ Len(now.channels) \in Nat /\ Len(next.channels) \in Nat
      /\ \A p \in Peers : ToSet(now.tokens[p]) \subseteq ToSet(next.tokens[p]) /\ Starts(now.tokens[p], next.tokens[p])
      /\ now.keys \subseteq next.keys
  BY PoolTyped, ListGrown DEF Grown
<1>2. ToSet(now.channels) \subseteq Peers /\ now.keys \subseteq Peers
  BY PoolTyped
<1>3. \A p \in DOMAIN k.notes : p \in ToSet(next.channels) /\ IncomingOK(k.notes[p], next.tokens[p])
  <2> SUFFICES ASSUME NEW p \in DOMAIN k.notes PROVE p \in ToSet(next.channels) /\ IncomingOK(k.notes[p], next.tokens[p])
    OBVIOUS
  <2>1. p \in ToSet(now.channels) /\ IncomingOK(k.notes[p], now.tokens[p])
    BY DEF CursorOK
  <2> QED BY <1>1, <1>2, <2>1 DEF IncomingOK
<1>4. \A p \in DOMAIN k.channels : p \in next.keys /\ OutgoingOK(k.channels[p], p, next)
  <2> SUFFICES ASSUME NEW p \in DOMAIN k.channels PROVE p \in next.keys /\ OutgoingOK(k.channels[p], p, next)
    OBVIOUS
  <2>1. p \in now.keys /\ OutgoingOK(k.channels[p], p, now)
    BY DEF CursorOK
  <2>2. ASSUME NEW t \in DOMAIN k.channels[p].tokens PROVE t \in Tokens /\ TokenOK(k.channels[p].tokens[t], p, t, next)
    <3> DEFINE r == k.channels[p].tokens[t]
    <3>1. t \in Tokens /\ TokenOK(r, p, t, now)
      BY <2>1, <2>2 DEF OutgoingOK
    <3> HIDE DEF r
    <3>2. r.index + 1 \in DOMAIN next.tokens[p] /\ next.tokens[p][r.index + 1] = t
      BY <1>1, <1>2, <2>1, <3>1 DEF TokenOK, Starts
    <3>3. now.count[p][t] \in Nat /\ next.count[p][t] \in Nat /\ now.count[p][t] <= next.count[p][t]
      BY <1>2, <2>1, <3>1, PoolTyped DEF Grown
    <3>4. r.nonce \in Nat /\ r.nonce <= now.count[p][t]
      BY <3>1 DEF TokenOK
    <3>5. r.nonce <= next.count[p][t]
      BY ONLY <3>3, <3>4
    <3> QED BY <3>1, <3>2, <3>5 DEF TokenOK, r
  <2> QED BY <1>1, <2>1, <2>2 DEF OutgoingOK
<1>5. k.total \in Nat /\ k.total <= Len(next.channels)
  <2>1. k.total \in Nat /\ k.total <= Len(now.channels)
    BY DEF CursorOK
  <2> QED BY <1>1, <2>1
<1> QED BY <1>3, <1>4, <1>5 DEF CursorOK

\* So do the channels seen, and those that a call in flight is to read.
LEMMA FirstStays ==
    ASSUME NEW now, NEW next, PoolOK(now), PoolOK(next), Grown(now, next), NEW seen, FirstKnown(seen, now)
    PROVE  FirstKnown(seen, next)
PROOF
<1>1. /\ now.channels \in Seq(Peers) /\ next.channels \in Seq(Peers) /\ Starts(now.channels, next.channels)
  BY PoolTyped DEF Grown
<1>2. Len(now.channels) <= Len(next.channels) /\ Len(now.channels) \in Nat /\ Len(next.channels) \in Nat
  BY <1>1, ListGrown
<1>3. PICK n \in 0 .. Len(now.channels) : seen = {now.channels[j] : j \in 1 .. n}
  BY DEF FirstKnown
<1>4. n \in 0 .. Len(next.channels)
  BY <1>2
<1>5. \A j \in 1 .. n : j \in DOMAIN now.channels
  BY <1>1, <1>2, <1>3
<1>6. \A j \in 1 .. n : now.channels[j] = next.channels[j]
  BY <1>1, <1>5 DEF Starts
<1>7. seen = {next.channels[j] : j \in 1 .. n}
  BY <1>3, <1>6
<1> QED BY <1>4, <1>7 DEF FirstKnown

\* What a notes session has read, and is to read, are the same slots.
LEMMA OrderStays ==
    ASSUME NEW now, NEW next, PoolOK(now), PoolOK(next), Grown(now, next), NEW s, CursorOK(s.cursor, now),
           NEW calls, \A c \in calls : CallOK(c) /\ NotesCall(c, s, now), InOrder(DOMAIN s.cursor.notes, calls, now)
    PROVE  InOrder(DOMAIN s.cursor.notes, calls, next)
PROOF
<1> DEFINE seen == DOMAIN s.cursor.notes
<1>1. /\ now.channels \in Seq(Peers) /\ next.channels \in Seq(Peers) /\ Starts(now.channels, next.channels)
      /\ Distinct(next.channels)
  BY PoolTyped DEF Grown
<1>2. PICK l \in Nat : l = Len(now.channels) /\ DOMAIN now.channels = 1 .. l
  BY <1>1
<1>3. \A j \in DOMAIN next.channels : next.channels[j] \in seen => j \in 1 .. l
  <2>1. seen \subseteq ToSet(now.channels)
    BY DEF CursorOK
  <2> QED BY <1>1, <1>2, <2>1, ListGrown
<1>4. \A i \in 1 .. l : next.channels[i] = now.channels[i]
  BY <1>1, <1>2 DEF Starts
<1>5. \A i \in Nat : i < l /\ Listed(seen, calls, now, i) => Listed(seen, calls, next, i)
  <2> SUFFICES ASSUME NEW i \in Nat, i < l PROVE next.channels[i + 1] = now.channels[i + 1]
    BY DEF Listed
  <2>1. i + 1 \in 1 .. l
    BY <1>2
  <2> QED BY <1>4, <2>1
<1>6. ASSUME NEW j \in DOMAIN next.channels, next.channels[j] \in seen, NEW i \in Nat, i < j
      PROVE  Listed(seen, calls, next, i)
  <2>1. j \in 1 .. l /\ now.channels[j] \in seen
    BY <1>3, <1>4, <1>6
  <2>2. Listed(seen, calls, now, i)
    BY <1>2, <1>6, <2>1 DEF InOrder
  <2>3. i < l
    BY <1>2, <1>6, <2>1
  <2> QED BY <1>5, <2>2, <2>3
<1>7. ASSUME NEW c \in calls, c.probe = channelProbe, NEW i \in Nat, i < (IF c.do = "touch" THEN c.at ELSE c.lo)
      PROVE  Listed(seen, calls, next, i)
  <2>1. Listed(seen, calls, now, i)
    BY <1>7 DEF InOrder
  <2>2. i < l
    <3>1. CallOK(c) /\ NotesCall(c, s, now) /\ c.probe.on = "channel"
      BY <1>7, ProbeFields
    <3>2. c.at \in Nat /\ c.lo \in Nat /\ c.hi \in Nat
      BY <3>1, CallTyped
    <3>3. \/ c.do = "get_num_of_channels" /\ c.lo <= l
          \/ c.do = "bisect" /\ c.hi <= l /\ c.lo <= c.at /\ c.at < c.hi
          \/ c.do = "touch" /\ c.at < l
      BY <1>2, <3>1 DEF NotesCall, CallOK
    <3> QED BY ONLY l \in Nat, <1>7, <3>2, <3>3
  <2> QED BY <1>5, <2>1, <2>2
<1> QED BY <1>6, <1>7 DEF InOrder

\* What a session has not read it has not read when storage grows, as a new slot is not
\* in its cursor.
LEMMA OnceStays ==
    ASSUME NEW now, NEW next, PoolOK(now), PoolOK(next), Grown(now, next), NEW s, CursorOK(s.cursor, now),
           NEW calls, \A c \in calls : CallOK(c), Once(s, calls, now)
    PROVE  Once(s, calls, next)
PROOF
<1>1. /\ now.channels \in Seq(Peers) /\ next.channels \in Seq(Peers) /\ Starts(now.channels, next.channels)
      /\ Distinct(next.channels)
      /\ \A p \in Peers : now.tokens[p] \in Seq(Tokens) /\ next.tokens[p] \in Seq(Tokens)
                          /\ Starts(now.tokens[p], next.tokens[p]) /\ Distinct(next.tokens[p])
  BY PoolTyped DEF Grown
<1>2. ASSUME NEW c \in calls, NEW i \in Nat, Read(s, next, c.probe, i) PROVE Read(s, now, c.probe, i)
  <2>1. CASE c.probe.on = "channel" /\ i + 1 \in DOMAIN next.channels /\ next.channels[i + 1] \in DOMAIN s.cursor.notes
    <3>1. next.channels[i + 1] \in ToSet(now.channels)
      BY <2>1 DEF CursorOK
    <3>2. i + 1 \in DOMAIN now.channels
      BY <1>1, <2>1, <3>1, ListGrown
    <3>3. now.channels[i + 1] = next.channels[i + 1]
      BY <1>1, <3>2 DEF Starts
    <3> QED BY <2>1, <3>2, <3>3 DEF Read
  <2>2. CASE c.probe.on = "subchannel" /\ i + 1 \in DOMAIN next.tokens[c.probe.peer]
             /\ next.tokens[c.probe.peer][i + 1] \in DOMAIN s.cursor.notes[c.probe.peer].indexes
    <3>1. PICK p \in Peers : p = c.probe.peer
      BY <2>2, CallTyped, ProbeKinds
    <3>2. p \in DOMAIN s.cursor.notes
      BY <2>2, <3>1 DEF Once
    <3>3. next.tokens[p][i + 1] \in ToSet(now.tokens[p])
      BY <2>2, <3>1, <3>2 DEF CursorOK, IncomingOK
    <3>4. i + 1 \in DOMAIN now.tokens[p]
      BY <1>1, <2>2, <3>1, <3>3, ListGrown
    <3>5. now.tokens[p][i + 1] = next.tokens[p][i + 1]
      BY <1>1, <3>4 DEF Starts
    <3> QED BY <2>2, <3>1, <3>4, <3>5 DEF Read
  <2>3. CASE c.probe.on = "note" /\ Note(c.probe.peer, c.probe.token, i) \in DOMAIN s.found
    BY <2>3 DEF Read
  <2> QED BY <1>2, <2>1, <2>2, <2>3 DEF Read
<1>3. \A c \in calls : \A i \in Nat : Reaches(c, i) => ~Read(s, next, c.probe, i)
  BY <1>2 DEF Once
<1> QED BY <1>3 DEF Once

\* The invariant of a session is kept when the pool grows.
LEMMA SessionStays ==
    ASSUME NEW now, NEW next, PoolOK(now), PoolOK(next), Grown(now, next), NEW s, SessionOK(s, now)
    PROVE  SessionOK(s, next)
PROOF
<1> DEFINE D == DOMAIN s.pending
<1>1. /\ DOMAIN s = SessionFields /\ s.failed \in BOOLEAN /\ PoolOK(s.chain) /\ Grown(s.chain, now)
      /\ CursorOK(s.cursor, now) /\ IsABag(s.pending) /\ \A c \in D : CallOK(c)
      /\ s.pc = "returned" => s.pending = EmptyBag /\ ~s.failed
  BY DEF SessionOK
<1>2. Grown(s.chain, next) /\ CursorOK(s.cursor, next)
  BY <1>1, GrownFurther, CursorStays
<1>3. \/ s.what = "notes" /\ NotesInv(s, D, now)
      \/ s.what = "channels" /\ ChannelsInv(s, D, now)
  BY DEF SessionOK
<1> HIDE DEF D
<1>4. CASE s.what = "notes" /\ NotesInv(s, D, now)
  <2>1. \A c \in D : NotesCall(c, s, now)
    BY <1>4 DEF NotesInv
  <2>2. \A c \in D : NotesCall(c, s, next)
    <3> SUFFICES ASSUME NEW c \in D PROVE NotesCall(c, s, next)
      OBVIOUS
    <3>1. Len(now.channels) <= Len(next.channels) /\ Len(now.channels) \in Nat /\ Len(next.channels) \in Nat
      BY PoolTyped, ListGrown DEF Grown
    <3>2. c.at \in Nat /\ c.lo \in Nat /\ c.hi \in Nat
      BY <1>1, CallTyped
    <3>3. NotesCall(c, s, now)
      BY <2>1
    <3> QED BY <3>1, <3>2, <3>3 DEF NotesCall
  <2>3. ~s.failed => \A n \in Wanted(s, next) : NoteAhead(s, D, n)
    <3>1. Wanted(s, next) \subseteq Wanted(s, now)
      BY DEF Wanted, Grown
    <3> QED BY <1>4, <3>1 DEF NotesInv
  <2>4. ~s.failed => InOrder(DOMAIN s.cursor.notes, D, next)
    BY <1>1, <1>4, <2>1, OrderStays DEF NotesInv
  <2>5. s.fresh => Once(s, D, next)
    BY <1>1, <1>4, OnceStays DEF NotesInv
  <2>6. NotesInv(s, D, next)
    BY <1>4, <2>2, <2>3, <2>4, <2>5 DEF NotesInv
  <2> QED BY <1>1, <1>2, <1>4, <2>6 DEF SessionOK, D
<1>5. CASE s.what = "channels" /\ ChannelsInv(s, D, now)
  <2>1. FirstKnown(DOMAIN s.cursor.notes, next)
    BY <1>5, FirstStays DEF ChannelsInv
  <2>2. ChannelsInv(s, D, next)
    BY <1>5, <2>1 DEF ChannelsInv
  <2> QED BY <1>1, <1>2, <1>5, <2>2 DEF SessionOK, D
<1> QED BY <1>3, <1>4, <1>5

\* A list with a new member at its end.
LEMMA Appended ==
    ASSUME NEW S, NEW list \in Seq(S), NEW e \in S, e \notin ToSet(list), Distinct(list)
    PROVE  /\ Append(list, e) \in Seq(S) /\ Starts(list, Append(list, e)) /\ Distinct(Append(list, e))
           /\ ToSet(Append(list, e)) = ToSet(list) \cup {e} /\ Append(list, e) # <<>>
PROOF
<1>1. PICK l \in Nat : l = Len(list) /\ DOMAIN list = 1 .. l
  OBVIOUS
<1>2. PICK longer : longer = Append(list, e)
  OBVIOUS
<1>3. /\ longer \in Seq(S) /\ DOMAIN longer = 1 .. l + 1 /\ longer[l + 1] = e
      /\ \A i \in 1 .. l : longer[i] = list[i]
  BY <1>1, <1>2
<1>4. Starts(list, longer)
  BY <1>1, <1>3 DEF Starts
<1>5. \A i \in 1 .. l : list[i] # e
  BY <1>1 DEF ToSet
<1>6. \A i, j \in 1 .. l : list[i] = list[j] => i = j
  BY <1>1 DEF Distinct
<1>7. \A i \in 1 .. l + 1 : i = l + 1 \/ i \in 1 .. l
  OBVIOUS
<1>8. Distinct(longer)
  BY ONLY <1>3, <1>5, <1>6, <1>7 DEF Distinct
<1>9. ToSet(longer) = {longer[i] : i \in 1 .. l + 1} /\ ToSet(list) = {list[i] : i \in 1 .. l}
  BY <1>1, <1>3 DEF ToSet
<1>10. l + 1 \in 1 .. l + 1 /\ \A i \in 1 .. l : i \in 1 .. l + 1
  OBVIOUS
<1>11. ToSet(longer) = ToSet(list) \cup {e}
  BY ONLY <1>3, <1>7, <1>9, <1>10
<1>12. longer # <<>>
  BY <1>3, <1>10
<1> QED BY <1>2, <1>3, <1>4, <1>8, <1>11, <1>12

\* Nothing is added, and a list is not changed.
LEMMA NotGrown ==
    ASSUME NEW now, PoolOK(now)
    PROVE  /\ Starts(now.channels, now.channels) /\ \A p \in Peers : Starts(now.tokens[p], now.tokens[p])
           /\ \A p \in Peers, t \in Tokens : now.count[p][t] <= now.count[p][t]
PROOF
<1>1. \A p \in Peers, t \in Tokens : now.count[p][t] \in Nat
  BY PoolTyped
<1> QED BY <1>1 DEF Starts

\* The notes there are.
LEMMA NotesGrown ==
    ASSUME NEW now, PoolOK(now), NEW next, \A p \in Peers, t \in Tokens :
              next.count[p][t] \in Nat /\ now.count[p][t] <= next.count[p][t]
    PROVE  NotesIn(now) \subseteq NotesIn(next)
PROOF
<1> SUFFICES ASSUME NEW n \in NotesIn(now) PROVE n \in NotesIn(next)
  OBVIOUS
<1>1. PICK p \in Peers, t \in Tokens : n \in {Note(p, t, i) : i \in 0 .. now.count[p][t] - 1}
  BY DEF NotesIn
<1>2. PICK i \in 0 .. now.count[p][t] - 1 : n = Note(p, t, i)
  BY <1>1
<1>3. now.count[p][t] \in Nat
  BY PoolTyped
<1>4. i \in 0 .. next.count[p][t] - 1
  BY <1>3
<1>5. n \in {Note(p, t, j) : j \in 0 .. next.count[p][t] - 1}
  BY <1>2, <1>4
<1> DEFINE W(q, o) == {Note(q, o, j) : j \in 0 .. next.count[q][o] - 1}
<1>6. NotesIn(next) = UNION {W(q, o) : q \in Peers, o \in Tokens} /\ n \in W(p, t)
  BY <1>5 DEF NotesIn
<1> HIDE DEF W
<1> QED BY <1>6

Changed(now, next) == PoolOK(next) /\ Grown(now, next)

\* Another user registers.
LEMMA KeyAdded ==
    ASSUME NEW now, PoolOK(now), NEW p \in Peers, NEW next, next = [now EXCEPT !.keys = @ \cup {p}]
    PROVE  Changed(now, next)
PROOF
<1>1. now \in [keys : SUBSET Peers, channels : Seq(Peers), tokens : [Peers -> Seq(Tokens)],
               count : [Peers -> [Tokens -> Nat]], spent : SUBSET NotesIn(now)]
  BY DEF PoolOK
<1>2. /\ next.keys = now.keys \cup {p} /\ next.channels = now.channels /\ next.tokens = now.tokens
      /\ next.count = now.count /\ next.spent = now.spent
  BY <1>1
<1>3. NotesIn(next) = NotesIn(now)
  BY <1>2 DEF NotesIn
<1>4. next \in [keys : SUBSET Peers, channels : Seq(Peers), tokens : [Peers -> Seq(Tokens)],
                count : [Peers -> [Tokens -> Nat]], spent : SUBSET NotesIn(next)]
  BY <1>1, <1>3
<1>5. PoolOK(next)
  BY <1>2, <1>4 DEF PoolOK
<1>6. Grown(now, next)
  BY <1>2, NotGrown DEF Grown
<1> QED BY <1>5, <1>6 DEF Changed

\* A channel is opened.
LEMMA ChannelAdded ==
    ASSUME NEW now, PoolOK(now), NEW p \in now.keys, p \notin ToSet(now.channels),
           NEW next, next = [now EXCEPT !.channels = Append(@, p)]
    PROVE  Changed(now, next)
PROOF
<1>1. now \in [keys : SUBSET Peers, channels : Seq(Peers), tokens : [Peers -> Seq(Tokens)],
               count : [Peers -> [Tokens -> Nat]], spent : SUBSET NotesIn(now)]
  BY DEF PoolOK
<1>2. PICK longer : longer = Append(now.channels, p)
  OBVIOUS
<1>3. /\ longer \in Seq(Peers) /\ Starts(now.channels, longer) /\ Distinct(longer)
      /\ ToSet(longer) = ToSet(now.channels) \cup {p}
  BY <1>2, Appended, PoolTyped
<1>4. next = [now EXCEPT !.channels = longer]
  BY <1>2
<1>5. /\ next.keys = now.keys /\ next.channels = longer /\ next.tokens = now.tokens
      /\ next.count = now.count /\ next.spent = now.spent
  BY <1>1, <1>4
<1>6. NotesIn(next) = NotesIn(now)
  BY <1>5 DEF NotesIn
<1>7. next \in [keys : SUBSET Peers, channels : Seq(Peers), tokens : [Peers -> Seq(Tokens)],
                count : [Peers -> [Tokens -> Nat]], spent : SUBSET NotesIn(next)]
  BY <1>1, <1>3, <1>4, <1>6
<1>8. PoolOK(next)
  BY <1>3, <1>5, <1>7 DEF PoolOK
<1>9. Grown(now, next)
  BY <1>3, <1>5, NotGrown DEF Grown
<1> QED BY <1>8, <1>9 DEF Changed

\* A subchannel is opened.
LEMMA TokenAdded ==
    ASSUME NEW now, PoolOK(now), NEW p \in ToSet(now.channels), NEW t \in Tokens, t \notin ToSet(now.tokens[p]),
           NEW next, next = [now EXCEPT !.tokens[p] = Append(@, t)]
    PROVE  Changed(now, next)
PROOF
<1>1. now \in [keys : SUBSET Peers, channels : Seq(Peers), tokens : [Peers -> Seq(Tokens)],
               count : [Peers -> [Tokens -> Nat]], spent : SUBSET NotesIn(now)]
  BY DEF PoolOK
<1>2. p \in Peers
  BY PoolTyped
<1>3. PICK longer : longer = Append(now.tokens[p], t)
  OBVIOUS
<1>4. /\ longer \in Seq(Tokens) /\ Starts(now.tokens[p], longer) /\ Distinct(longer)
      /\ ToSet(longer) = ToSet(now.tokens[p]) \cup {t}
  BY <1>2, <1>3, Appended, PoolTyped
<1>5. PICK lists : lists = [now.tokens EXCEPT ![p] = longer]
  OBVIOUS
<1>6. lists \in [Peers -> Seq(Tokens)] /\ lists[p] = longer /\ \A q \in Peers : q # p => lists[q] = now.tokens[q]
  BY <1>1, <1>2, <1>4, <1>5
<1>7. next = [now EXCEPT !.tokens = lists]
  BY <1>3, <1>5
<1>8. /\ next.keys = now.keys /\ next.channels = now.channels /\ next.tokens = lists
      /\ next.count = now.count /\ next.spent = now.spent
  BY <1>1, <1>7
<1>9. NotesIn(next) = NotesIn(now)
  BY <1>8 DEF NotesIn
<1>10. next \in [keys : SUBSET Peers, channels : Seq(Peers), tokens : [Peers -> Seq(Tokens)],
                 count : [Peers -> [Tokens -> Nat]], spent : SUBSET NotesIn(next)]
  BY <1>1, <1>6, <1>7, <1>9
<1>11. \A q \in Peers :
          /\ Distinct(lists[q])
          /\ lists[q] # <<>> => q \in ToSet(now.channels)
          /\ \A o \in Tokens : now.count[q][o] > 0 => o \in ToSet(lists[q])
  <2>1. \A q \in Peers :
          /\ Distinct(now.tokens[q])
          /\ now.tokens[q] # <<>> => q \in ToSet(now.channels)
          /\ \A o \in Tokens : now.count[q][o] > 0 => o \in ToSet(now.tokens[q])
    BY DEF PoolOK
  <2> QED BY <1>4, <1>6, <2>1
<1>12. PoolOK(next)
  BY <1>8, <1>10, <1>11 DEF PoolOK
<1>13. \A q \in Peers : Starts(now.tokens[q], lists[q])
  BY <1>4, <1>6, NotGrown
<1>14. Grown(now, next)
  BY <1>8, <1>13, NotGrown DEF Grown
<1> QED BY <1>12, <1>14 DEF Changed

\* A note is created.
LEMMA NoteCreated ==
    ASSUME NEW now, PoolOK(now), NEW p \in Peers, NEW t \in Tokens, t \in ToSet(now.tokens[p]),
           NEW next, next = [now EXCEPT !.count[p][t] = @ + 1]
    PROVE  Changed(now, next)
PROOF
<1>1. now \in [keys : SUBSET Peers, channels : Seq(Peers), tokens : [Peers -> Seq(Tokens)],
               count : [Peers -> [Tokens -> Nat]], spent : SUBSET NotesIn(now)]
  BY DEF PoolOK
<1>2. PICK counts : counts = [now.count EXCEPT ![p][t] = @ + 1]
  OBVIOUS
<1>3. /\ counts \in [Peers -> [Tokens -> Nat]]
      /\ \A q \in Peers, o \in Tokens : counts[q][o] = IF q = p /\ o = t THEN now.count[p][t] + 1 ELSE now.count[q][o]
  BY <1>1, <1>2
<1>4. next = [now EXCEPT !.count = counts]
  BY <1>2
<1>5. /\ next.keys = now.keys /\ next.channels = now.channels /\ next.tokens = now.tokens
      /\ next.count = counts /\ next.spent = now.spent
  BY <1>1, <1>4
<1>6. \A q \in Peers, o \in Tokens : now.count[q][o] \in Nat
  BY PoolTyped
<1>7. \A q \in Peers, o \in Tokens : counts[q][o] \in Nat /\ now.count[q][o] <= counts[q][o]
  BY <1>3, <1>6
<1>8. NotesIn(now) \subseteq NotesIn(next)
  <2>1. \A q \in Peers, o \in Tokens : next.count[q][o] \in Nat /\ now.count[q][o] <= next.count[q][o]
    BY <1>5, <1>7
  <2> QED BY <2>1, NotesGrown, ZenonT(60)
<1>9. next \in [keys : SUBSET Peers, channels : Seq(Peers), tokens : [Peers -> Seq(Tokens)],
                count : [Peers -> [Tokens -> Nat]], spent : SUBSET NotesIn(next)]
  BY <1>1, <1>3, <1>4, <1>8
<1>10. \A q \in Peers : \A o \in Tokens : counts[q][o] > 0 => o \in ToSet(now.tokens[q])
  BY <1>3 DEF PoolOK
<1>11. PoolOK(next)
  BY <1>5, <1>9, <1>10 DEF PoolOK
<1>12. Grown(now, next)
  BY <1>5, <1>7, NotGrown DEF Grown
<1> QED BY <1>11, <1>12 DEF Changed

\* A note is spent.
LEMMA NoteSpent ==
    ASSUME NEW now, PoolOK(now), NEW n \in NotesIn(now), NEW next, next = [now EXCEPT !.spent = @ \cup {n}]
    PROVE  Changed(now, next)
PROOF
<1>1. now \in [keys : SUBSET Peers, channels : Seq(Peers), tokens : [Peers -> Seq(Tokens)],
               count : [Peers -> [Tokens -> Nat]], spent : SUBSET NotesIn(now)]
  BY DEF PoolOK
<1>2. /\ next.keys = now.keys /\ next.channels = now.channels /\ next.tokens = now.tokens
      /\ next.count = now.count /\ next.spent = now.spent \cup {n}
  BY <1>1
<1>3. NotesIn(next) = NotesIn(now)
  BY <1>2 DEF NotesIn
<1>4. next \in [keys : SUBSET Peers, channels : Seq(Peers), tokens : [Peers -> Seq(Tokens)],
                count : [Peers -> [Tokens -> Nat]], spent : SUBSET NotesIn(next)]
  BY <1>1, <1>3
<1>5. PoolOK(next)
  BY <1>2, <1>4 DEF PoolOK
<1>6. Grown(now, next)
  BY <1>2, NotGrown DEF Grown
<1> QED BY <1>5, <1>6 DEF Changed

\* What the others do keeps the invariant.
LEMMA OthersKeep ==
    ASSUME DiscoveryInv, others
    PROVE  DiscoveryInv'
PROOF
<1>1. PICK now : now = pool
  OBVIOUS
<1>2. PICK next : next = pool'
  OBVIOUS
<1>3. PoolOK(now) /\ CursorOK(cursor, now) /\ FirstKnown(DOMAIN cursor.notes, now)
  BY <1>1 DEF DiscoveryInv
<1>4. cursor' = cursor /\ session' = session
  BY DEF others
<1>5. Changed(now, next)
  <2>1. CASE \E p \in Peers \ now.keys : next = [now EXCEPT !.keys = @ \cup {p}]
    BY <1>3, <2>1, KeyAdded
  <2>2. CASE \E p \in now.keys \ ToSet(now.channels) : next = [now EXCEPT !.channels = Append(@, p)]
    BY <1>3, <2>2, ChannelAdded
  <2>3. CASE \E p \in ToSet(now.channels), t \in Tokens :
                ~Contains(now.tokens[p], t) /\ next = [now EXCEPT !.tokens[p] = Append(@, t)]
    <3>1. PICK p \in ToSet(now.channels), t \in Tokens :
                ~Contains(now.tokens[p], t) /\ next = [now EXCEPT !.tokens[p] = Append(@, t)]
      BY <2>3
    <3>2. now.tokens[p] \in Seq(Tokens)
      BY <1>3, PoolTyped
    <3>3. t \notin ToSet(now.tokens[p])
      BY <3>1, <3>2 DEF Contains, ToSet
    <3> QED BY <1>3, <3>1, <3>3, TokenAdded
  <2>4. CASE \E p \in Peers, t \in Tokens :
                Contains(now.tokens[p], t) /\ next = [now EXCEPT !.count[p][t] = @ + 1]
    <3>1. PICK p \in Peers, t \in Tokens :
                Contains(now.tokens[p], t) /\ next = [now EXCEPT !.count[p][t] = @ + 1]
      BY <2>4
    <3>2. now.tokens[p] \in Seq(Tokens)
      BY <1>3, PoolTyped
    <3>3. t \in ToSet(now.tokens[p])
      BY <3>1, <3>2 DEF Contains, ToSet
    <3> QED BY <1>3, <3>1, <3>3, NoteCreated
  <2>5. CASE \E n \in NotesIn(now) \ now.spent : next = [now EXCEPT !.spent = @ \cup {n}]
    BY <1>3, <2>5, NoteSpent
  <2> QED BY <1>1, <1>2, <2>1, <2>2, <2>3, <2>4, <2>5 DEF others
<1>6. PoolOK(next) /\ Grown(now, next)
  BY <1>5 DEF Changed
<1>7. CursorOK(cursor, next)
  <2>1. PICK k : k = cursor
    OBVIOUS
  <2> QED BY <1>3, <1>6, <2>1, CursorStays
<1>8. FirstKnown(DOMAIN cursor.notes, next)
  <2>1. PICK seen : seen = DOMAIN cursor.notes
    OBVIOUS
  <2> QED BY <1>3, <1>6, <2>1, FirstStays
<1>9. session # NoSession => SessionOK(session, next)
  <2>1. PICK s : s = session
    OBVIOUS
  <2>2. s # NoSession => SessionOK(s, now)
    BY <1>1, <2>1 DEF DiscoveryInv
  <2> QED BY <1>3, <1>6, <2>1, <2>2, SessionStays
<1> QED BY <1>2, <1>4, <1>6, <1>7, <1>8, <1>9 DEF DiscoveryInv

\* A session begins, from the cursor the caller keeps or from none.
BeginsFrom(from) ==
    /\ PoolOK(pool) /\ CursorOK(from, pool) /\ FirstKnown(DOMAIN from.notes, pool)

\* The empty cursor is true of every pool.
LEMMA NothingKnown ==
    ASSUME PoolOK(pool)
    PROVE  BeginsFrom(NoCursor) /\ DOMAIN NoCursor.notes = {}
PROOF
<1>1. /\ DOMAIN NoCursor = {"notes", "channels", "total"} /\ DOMAIN NoCursor.notes = {}
      /\ DOMAIN NoCursor.channels = {} /\ NoCursor.total = 0
  BY DEF NoCursor, Nothing
<1>2. Len(pool.channels) \in Nat
  BY PoolTyped
<1>3. CursorOK(NoCursor, pool)
  BY <1>1, <1>2 DEF CursorOK
<1>4. 0 \in 0 .. Len(pool.channels) /\ {} = {pool.channels[j] : j \in 1 .. 0}
  BY <1>2
<1>5. FirstKnown({}, pool)
  BY <1>4 DEF FirstKnown
<1> QED BY <1>1, <1>3, <1>5 DEF BeginsFrom

\* A session just begun, with its first calls.
Begun(s, what, asked, from, N) ==
    /\ DOMAIN s = SessionFields /\ s.pc = "running" /\ s.what = what /\ s.asked = asked
    /\ (s.fresh => from = NoCursor) /\ s.cursor = from /\ s.chain = pool /\ s.found = EmptyBag
    /\ IsABag(s.pending) /\ DOMAIN s.pending = N

\* A session begins with nothing in flight.
LEMMA BeginIssues ==
    ASSUME NEW what, NEW asked, NEW from
    PROVE  /\ Begun(Begin(what, asked, from), what, asked, from, {}) /\ Begin(what, asked, from).failed = FALSE
           /\ AllOnce(Begin(what, asked, from).pending)
PROOF
BY NothingPending DEF Begin, Begun, SessionFields

\* A session just begun, given more calls.
LEMMA BegunIssues ==
    ASSUME NEW s, NEW what, NEW asked, NEW from, NEW M, Begun(s, what, asked, from, M), NEW r, NEW N, Issued(s, r, N)
    PROVE  Begun(r, what, asked, from, M \cup N) /\ r.failed = s.failed
PROOF
<1>1. DOMAIN r = SessionFields /\ \A f \in SessionFields \ {"pending"} : r[f] = s[f]
  BY DEF Issued
<1>2. /\ r.pc = s.pc /\ r.what = s.what /\ r.asked = s.asked /\ r.fresh = s.fresh /\ r.cursor = s.cursor
      /\ r.chain = s.chain /\ r.found = s.found /\ r.failed = s.failed
  BY <1>1 DEF SessionFields
<1>3. IsABag(r.pending) /\ DOMAIN r.pending = M \cup N
  BY DEF Issued, Begun
<1> QED BY <1>1, <1>2, <1>3 DEF Begun

\* The storage has not changed.
LEMMA JustGrown ==
    ASSUME PoolOK(pool)
    PROVE  Grown(pool, pool)
PROOF
BY NotGrown DEF Grown

\* As many channels are known as the last of them has predecessors.
LEMMA KnownCounted ==
    ASSUME NEW from, BeginsFrom(from)
    PROVE  \E n \in 0 .. Len(pool.channels) :
              /\ DOMAIN from.notes = {pool.channels[j] : j \in 1 .. n} /\ Cardinality(DOMAIN from.notes) = n
PROOF
<1>1. pool.channels \in Seq(Peers) /\ Distinct(pool.channels) /\ Len(pool.channels) \in Nat
  BY PoolTyped DEF BeginsFrom
<1>2. PICK n \in 0 .. Len(pool.channels) : DOMAIN from.notes = {pool.channels[j] : j \in 1 .. n}
  BY DEF BeginsFrom, FirstKnown
<1> DEFINE list == [j \in 1 .. n |-> pool.channels[j]]
<1>3. n \in Nat /\ \A j \in 1 .. n : j \in DOMAIN pool.channels /\ pool.channels[j] \in Peers
  BY <1>1
<1>4. list \in Seq(Peers) /\ Len(list) = n /\ DOMAIN list = 1 .. n
  BY <1>3
<1>5. ToSet(list) = DOMAIN from.notes
  BY <1>2 DEF ToSet
<1>6. Distinct(list)
  BY <1>1, <1>3 DEF Distinct
<1> HIDE DEF list
<1>7. Cardinality(ToSet(list)) = Len(list)
  BY <1>4, <1>6, ListFinite
<1> QED BY <1>2, <1>4, <1>5, <1>7

\* The first calls of a notes session: the number of channels, and a scan of each list
\* that the cursor knows.
FirstCalls(from, n, N) ==
    /\ \E g \in N : g.probe = channelProbe /\ g.do = "get_num_of_channels" /\ g.lo = n
    /\ \A p \in DOMAIN from.notes : \E c \in N : c.probe = subchannelProbe(p) /\ \A i \in Nat : Reaches(c, i)
    /\ \A c \in N : /\ CallOK(c)
                    /\ \/ c.probe = channelProbe /\ c.do = "get_num_of_channels" /\ c.lo = n
                       \/ c.probe.on # "channel" /\ c.do = "scan"
    /\ from.notes = Nothing => N = {Call("get_num_of_channels", channelProbe, 0, n, 0, 0)}

\* The first calls of a notes session reach every list that the cursor knows and the
\* channels it does not.
LEMMA FirstCallsMade ==
    ASSUME NEW from, BeginsFrom(from), NEW n \in Nat, NEW N,
           N = {Call("get_num_of_channels", channelProbe, 0, n, 0, 0)}
               \cup {ScanFrom(subchannelProbe(p), from.notes[p].sub) : p \in DOMAIN from.notes}
               \cup UNION {{ScanFrom(noteProbe(p, t), from.notes[p].indexes[t]) :
                               t \in DOMAIN from.notes[p].indexes} : p \in DOMAIN from.notes}
    PROVE  FirstCalls(from, n, N)
PROOF
<1> DEFINE g == Call("get_num_of_channels", channelProbe, 0, n, 0, 0)
           f(p) == ScanFrom(subchannelProbe(p), from.notes[p].sub)
           h(p, t) == ScanFrom(noteProbe(p, t), from.notes[p].indexes[t])
           K == DOMAIN from.notes
           T(p) == DOMAIN from.notes[p].indexes
<1>1. N = {g} \cup {f(p) : p \in K} \cup UNION {{h(p, t) : t \in T(p)} : p \in K}
  OBVIOUS
<1>2. /\ g.do = "get_num_of_channels" /\ g.probe = channelProbe /\ g.at = 0 /\ g.lo = n /\ g.hi = 0 /\ g.step = 0
  BY CallFields
<1>3. CallOK(g)
  BY <1>2, ProbeFields DEF CallOK, Call, Scans, Reads, Lookups
<1>4. ASSUME NEW p \in K
      PROVE  p \in Peers /\ from.notes[p].sub \in Nat /\ \A t \in T(p) : t \in Tokens /\ from.notes[p].indexes[t] \in Nat
  <2>1. p \in ToSet(pool.channels) /\ IncomingOK(from.notes[p], pool.tokens[p])
    BY <1>4 DEF BeginsFrom, CursorOK
  <2>2. p \in Peers
    BY <2>1, PoolTyped DEF BeginsFrom
  <2>3. pool.tokens[p] \in Seq(Tokens)
    BY <2>2, PoolTyped DEF BeginsFrom
  <2>4. ToSet(pool.tokens[p]) \subseteq Tokens
    BY <2>3 DEF ToSet
  <2> QED BY <2>1, <2>2, <2>4 DEF IncomingOK
<1>5. \A p \in K : CallOK(f(p)) /\ f(p).probe = subchannelProbe(p) /\ f(p).do = "scan" /\ \A i \in Nat : Reaches(f(p), i)
  BY <1>4, ScanFromOK, ProbeFields
<1>6. \A p \in K : \A t \in T(p) : CallOK(h(p, t)) /\ h(p, t).probe = noteProbe(p, t) /\ h(p, t).do = "scan"
  BY <1>4, ScanFromOK, ProbeFields
<1>7. from.notes = Nothing => K = {}
  BY DEF Nothing
<1> HIDE DEF g, f, h, K, T
<1>8. g \in N /\ \A p \in K : f(p) \in N
  BY <1>1
<1>9. \A c \in N : c = g \/ (\E p \in K : c = f(p)) \/ (\E p \in K : \E t \in T(p) : c = h(p, t))
  <2> DEFINE H(p) == {h(p, t) : t \in T(p)}
  <2>1. \A p \in K : \A c \in H(p) : \E t \in T(p) : c = h(p, t)
    OBVIOUS
  <2>2. N = {g} \cup {f(p) : p \in K} \cup UNION {H(p) : p \in K}
    BY <1>1
  <2> HIDE DEF H
  <2>3. \A c \in N : c = g \/ (\E p \in K : c = f(p)) \/ (\E p \in K : c \in H(p))
    BY <2>2
  <2> QED BY <2>1, <2>3
<1>10. from.notes = Nothing => N = {g}
  BY <1>1, <1>7
<1>11. ASSUME NEW c \in N
       PROVE  CallOK(c) /\ (\/ c.probe = channelProbe /\ c.do = "get_num_of_channels" /\ c.lo = n
                            \/ c.probe.on # "channel" /\ c.do = "scan")
  <2>1. CASE c = g
    BY <1>2, <1>3, <2>1
  <2>2. CASE \E p \in K : c = f(p)
    BY <1>5, <2>2, ProbeFields
  <2>3. CASE \E p \in K : \E t \in T(p) : c = h(p, t)
    BY <1>6, <2>3, ProbeFields
  <2> QED BY ONLY <1>9, <2>1, <2>2, <2>3, c \in N
<1>12. \A p \in K : \E c \in N : c.probe = subchannelProbe(p) /\ \A i \in Nat : Reaches(c, i)
  BY <1>5, <1>8
<1> QED BY <1>2, <1>8, <1>10, <1>11, <1>12 DEF FirstCalls, g, K

\* A notes session begins with its invariant.
LEMMA NotesBegun ==
    ASSUME NEW from, BeginsFrom(from), NEW n \in Nat, n <= Len(pool.channels),
           DOMAIN from.notes = {pool.channels[j] : j \in 1 .. n}, NEW N, FirstCalls(from, n, N),
           NEW s, NEW asked, Begun(s, "notes", asked, from, N), s.failed = FALSE, AllOnce(s.pending)
    PROVE  SessionOK(s, pool)
PROOF
<1> DEFINE K == DOMAIN from.notes
<1>1. /\ DOMAIN s = SessionFields /\ s.pc = "running" /\ s.what = "notes" /\ s.cursor = from /\ s.chain = pool
      /\ s.found = EmptyBag /\ IsABag(s.pending) /\ DOMAIN s.pending = N
      /\ (s.fresh => from = NoCursor)
  BY DEF Begun
<1>2. PoolOK(pool) /\ CursorOK(from, pool) /\ Grown(pool, pool)
  BY JustGrown DEF BeginsFrom
<1>3. /\ pool.channels \in Seq(Peers) /\ Distinct(pool.channels) /\ Len(pool.channels) \in Nat
      /\ DOMAIN pool.channels = 1 .. Len(pool.channels)
  BY <1>2, PoolTyped
<1>4. PICK g \in N : g.probe = channelProbe /\ g.do = "get_num_of_channels" /\ g.lo = n
  BY DEF FirstCalls
<1>5. /\ \A p \in K : \E c \in N : c.probe = subchannelProbe(p) /\ \A i \in Nat : Reaches(c, i)
      /\ \A c \in N : CallOK(c)
  BY DEF FirstCalls
<1>6. \A c \in N : \/ c.probe = channelProbe /\ c.do = "get_num_of_channels" /\ c.lo = n
                   \/ c.probe.on # "channel" /\ c.do = "scan"
  BY DEF FirstCalls
<1>7. \A j \in DOMAIN pool.channels : pool.channels[j] \in K <=> j <= n
  <2> SUFFICES ASSUME NEW j \in DOMAIN pool.channels PROVE pool.channels[j] \in K <=> j <= n
    OBVIOUS
  <2>1. j \in Nat /\ 1 <= j
    BY <1>3
  <2>2. ASSUME pool.channels[j] \in K PROVE j <= n
    <3>1. PICK i \in 1 .. n : pool.channels[i] = pool.channels[j]
      BY <2>2
    <3>2. i \in DOMAIN pool.channels
      BY <1>3, <3>1
    <3>3. i = j
      BY <1>3, <3>1, <3>2 DEF Distinct
    <3> QED BY <3>1, <3>3
  <2>3. j <= n => j \in 1 .. n
    BY <2>1
  <2> QED BY <2>2, <2>3
<1> HIDE DEF K
<1>8. \A c \in N : NotesCall(c, s, pool)
  BY <1>6, ProbeFields DEF NotesCall, Lookups
<1>9. ASSUME NEW x \in Wanted(s, pool) PROVE NoteAhead(s, N, x)
  <2>1. x \in NotesIn(pool)
    BY <1>1, <1>9 DEF Wanted
  <2>2. x.peer \in Peers /\ x.token \in ToSet(pool.tokens[x.peer]) /\ x.peer \in ToSet(pool.channels)
    BY <1>2, <2>1, NotePlaced
  <2>3. PICK j \in DOMAIN pool.channels : pool.channels[j] = x.peer
    BY <2>2 DEF ToSet
  <2>4. j \in Nat /\ 1 <= j
    BY <1>3, <2>3
  <2>5. CASE j <= n
    <3>1. x.peer \in K
      BY <1>7, <2>3, <2>5
    <3>2. PICK c \in N : c.probe = subchannelProbe(x.peer) /\ \A i \in Nat : Reaches(c, i)
      BY <1>5, <3>1
    <3>3. PICK k \in DOMAIN pool.tokens[x.peer] : pool.tokens[x.peer][k] = x.token
      BY <2>2 DEF ToSet
    <3>4. pool.tokens[x.peer] \in Seq(Tokens)
      BY <1>2, <2>2, PoolTyped
    <3>5. k - 1 \in Nat
      BY <3>3, <3>4
    <3>6. Reached(N, subchannelProbe(x.peer), k - 1)
      BY <3>2, <3>5 DEF Reached
    <3> QED BY <1>1, <3>3, <3>6 DEF NoteAhead
  <2>6. CASE ~(j <= n)
    <3>1. n <= j - 1
      BY <2>4, <2>6
    <3>2. Reached(N, channelProbe, j - 1)
      BY <1>4, <3>1 DEF Reached, Reaches
    <3> QED BY <1>1, <2>3, <3>2 DEF NoteAhead
  <2> QED BY <2>5, <2>6
<1>10. InOrder(K, N, pool)
  <2>1. \A i \in Nat : i < n => Listed(K, N, pool, i)
    <3> SUFFICES ASSUME NEW i \in Nat, i < n PROVE pool.channels[i + 1] \in K
      BY DEF Listed
    <3>1. i + 1 \in DOMAIN pool.channels /\ i + 1 <= n
      BY <1>3
    <3> QED BY <1>7, <3>1
  <2>2. ASSUME NEW j \in DOMAIN pool.channels, pool.channels[j] \in K, NEW i \in Nat, i < j PROVE i < n
    <3>1. j \in Nat /\ j <= n
      BY <1>3, <1>7, <2>2
    <3> QED BY ONLY <2>2, <3>1, n \in Nat
  <2>3. ASSUME NEW c \in N, c.probe = channelProbe PROVE c.do # "touch" /\ c.lo = n
    BY <1>6, <2>3, ProbeFields
  <2> QED BY <2>1, <2>2, <2>3 DEF InOrder
<1>11. IsABag(s.found) /\ DOMAIN s.found = {} /\ AllOnce(s.found)
  BY <1>1, NothingPending
<1>12. s.fresh => Once(s, N, pool)
  <2> SUFFICES ASSUME s.fresh PROVE Once(s, N, pool)
    OBVIOUS
  <2>1. from.notes = Nothing /\ K = {}
    <3>1. NoCursor.notes = Nothing
      BY DEF NoCursor
    <3> QED BY <1>1, <1>2, <3>1, NothingKnown DEF K
  <2>2. PICK d : N = {d}
    BY <2>1 DEF FirstCalls
  <2>3. d = g /\ g.probe.on = "channel"
    BY <1>4, <2>2, ProbeFields
  <2>4. \A i \in Nat : ~Read(s, pool, g.probe, i)
    BY <1>1, <2>1, <2>3 DEF Read, K
  <2> QED BY <1>1, <1>11, <2>2, <2>3, <2>4 DEF Once
<1>13. DOMAIN s.found \cap s.chain.spent = {} /\ InOrder(DOMAIN s.cursor.notes, N, pool)
  BY <1>1, <1>10, <1>11 DEF K
<1>14. NotesInv(s, N, pool)
  BY <1>8, <1>9, <1>11, <1>12, <1>13 DEF NotesInv
<1> QED BY <1>1, <1>2, <1>5, <1>14 DEF SessionOK

\* The first calls of a channels session keep it, whatever they are, if what is asked for
\* is known or looked for.
LEMMA ChannelsBegun ==
    ASSUME NEW from, BeginsFrom(from), NEW s, NEW asked, NEW N, Begun(s, "channels", asked, from, N), s.failed \in BOOLEAN,
           \A c \in N : CallOK(c) /\ ChannelsCall(c, s),
           ~s.failed /\ asked \in {{"all"}, {"total-only"}} => \A i \in Nat : Reached(N, channelProbe, i),
           ~s.failed => \A p \in asked \cap Peers :
              LookedUp(N, "get_public_key", p) \/ (p \in DOMAIN from.channels /\ ChannelAhead(s, N, p))
    PROVE  SessionOK(s, pool)
PROOF
<1>1. /\ DOMAIN s = SessionFields /\ s.pc = "running" /\ s.what = "channels" /\ s.cursor = from /\ s.chain = pool
      /\ IsABag(s.pending) /\ DOMAIN s.pending = N /\ s.asked = asked
  BY DEF Begun
<1>2. PoolOK(pool) /\ CursorOK(from, pool) /\ Grown(pool, pool) /\ FirstKnown(DOMAIN from.notes, pool)
  BY JustGrown DEF BeginsFrom
<1>3. pool.channels \in Seq(Peers) /\ pool.keys \subseteq Peers /\ ToSet(pool.channels) \subseteq Peers
  BY <1>2, PoolTyped
<1>4. \A j \in DOMAIN pool.channels : j - 1 \in Nat
  BY <1>3
<1>5. ~s.failed /\ asked \in {{"all"}, {"total-only"}} => \A j \in DOMAIN pool.channels : Reached(N, channelProbe, j - 1)
  BY <1>4
<1>6. ASSUME ~s.failed, NEW p \in ToSet(pool.channels), asked = {"all"} \/ p \in asked PROVE ChannelAhead(s, N, p)
  <2>1. CASE asked = {"all"}
    <3>1. PICK j \in DOMAIN pool.channels : pool.channels[j] = p
      BY <1>6 DEF ToSet
    <3> QED BY <1>1, <1>5, <1>6, <2>1, <3>1 DEF ChannelAhead
  <2>2. CASE p \in asked
    <3>1. LookedUp(N, "get_public_key", p) \/ ChannelAhead(s, N, p)
      BY <1>3, <1>6, <2>2
    <3> QED BY <3>1 DEF ChannelAhead, Lookups
  <2> QED BY <1>6, <2>1, <2>2
<1>7. ChannelsInv(s, N, pool)
  BY <1>1, <1>2, <1>3, <1>5, <1>6 DEF ChannelsInv
<1> QED BY <1>1, <1>2, <1>7 DEF SessionOK

\* The calls for the channels whose key the cursor has.
KeyedCalls(s, from) ==
    {subchannelScan(s, p) : p \in {q \in DOMAIN from.channels : from.channels[q].key}}
    \cup UNION {{ScanFrom(noteProbe(p, t), from.channels[p].tokens[t].nonce) :
                    t \in DOMAIN from.channels[p].tokens} : p \in {q \in DOMAIN from.channels : from.channels[q].key}}

\* The first calls of a channels session are scans.
LEMMA KeyedCallsMade ==
    ASSUME NEW from, BeginsFrom(from), NEW s, s.cursor = from, NEW c \in KeyedCalls(s, from)
    PROVE  CallOK(c) /\ c.do = "scan"
PROOF
<1> DEFINE K == {q \in DOMAIN from.channels : from.channels[q].key}
           T(p) == DOMAIN from.channels[p].tokens
           h(p, t) == ScanFrom(noteProbe(p, t), from.channels[p].tokens[t].nonce)
           f(p) == subchannelScan(s, p)
           H(p) == {h(p, t) : t \in T(p)}
<1>1. PoolOK(pool) /\ CursorOK(from, pool)
  BY DEF BeginsFrom
<1>2. ASSUME NEW p \in K PROVE p \in Peers /\ \A t \in T(p) : t \in Tokens /\ from.channels[p].tokens[t].nonce \in Nat
  <2>1. p \in pool.keys /\ OutgoingOK(from.channels[p], p, pool)
    BY <1>1 DEF CursorOK
  <2>2. p \in Peers
    BY <1>1, <2>1, PoolTyped
  <2> QED BY <2>1, <2>2 DEF OutgoingOK, TokenOK
<1>3. \A p \in K : CallOK(f(p)) /\ f(p).do = "scan"
  BY <1>1, <1>2, SubchannelsScanned
<1>4. \A p \in K : \A t \in T(p) : CallOK(h(p, t)) /\ h(p, t).do = "scan"
  BY <1>2, ScanFromOK, ProbeFields
<1> HIDE DEF K, T, h, f
<1>5. \A p \in K : \A d \in H(p) : CallOK(d) /\ d.do = "scan"
  BY <1>4
<1>6. KeyedCalls(s, from) = {f(p) : p \in K} \cup UNION {H(p) : p \in K}
  BY DEF KeyedCalls, K, T, h, f
<1> HIDE DEF H
<1>7. (\E p \in K : c = f(p)) \/ (\E p \in K : c \in H(p))
  BY <1>6
<1> QED BY <1>3, <1>5, <1>7

\* All channels, or their number.
LEMMA BeginAll ==
    ASSUME NEW from, BeginsFrom(from), NEW asked \in {{"all"}, {"total-only"}}, discoverChannels(asked, from)
    PROVE  SessionOK(session', pool)
PROOF
<1>1. PICK s : s = Begin("channels", asked, from)
  OBVIOUS
<1>2. Begun(s, "channels", asked, from, {}) /\ s.failed = FALSE
  BY <1>1, BeginIssues
<1>3. PICK x : x = ScanFrom(channelProbe, from.total)
  OBVIOUS
<1>4. CallOK(x) /\ x.probe = channelProbe /\ x.do = "scan" /\ \A i \in Nat : Reaches(x, i)
  <2>1. from.total \in Nat
    BY DEF BeginsFrom, CursorOK
  <2> QED BY <1>3, <2>1, ScanFromOK, ProbeFields
<1>5. PICK X : X = {x}
  OBVIOUS
<1>6. PICK first : first = Track(s, X)
  OBVIOUS
<1>7. PICK E : E = KeyedCalls(s, from)
  OBVIOUS
<1>8. PICK r : r = Track(first, E)
  OBVIOUS
<1>9. session' = r
  BY <1>1, <1>3, <1>5, <1>6, <1>7, <1>8 DEF discoverChannels, KeyedCalls, Scan
<1>10. Issued(s, first, X)
  BY <1>2, <1>6, TrackIssues DEF Begun
<1>11. Begun(first, "channels", asked, from, {} \cup X) /\ first.failed = FALSE
  BY <1>2, <1>10, BegunIssues
<1>12. Issued(first, r, E)
  BY <1>8, <1>11, TrackIssues DEF Begun
<1>13. PICK N : N = ({} \cup X) \cup E
  OBVIOUS
<1>14. Begun(r, "channels", asked, from, N) /\ r.failed = FALSE
  BY <1>11, <1>12, <1>13, BegunIssues
<1>15. \A c \in N : CallOK(c) /\ c.do = "scan"
  <2>1. s.cursor = from
    BY <1>2 DEF Begun
  <2> QED BY <1>4, <1>5, <1>7, <1>13, <2>1, KeyedCallsMade
<1>16. \A c \in N : CallOK(c) /\ ChannelsCall(c, r)
  BY <1>15 DEF ChannelsCall, Scans
<1>17. \A i \in Nat : Reached(N, channelProbe, i)
  BY <1>4, <1>5, <1>13 DEF Reached
<1>18. asked \cap Peers = {}
  BY ScenarioAssumption
<1>19. SessionOK(r, pool)
  BY <1>14, <1>16, <1>17, <1>18, ChannelsBegun
<1> QED BY <1>9, <1>19

\* One recipient.
LEMMA BeginOne ==
    ASSUME NEW from, BeginsFrom(from), NEW p \in Peers, NEW asked, asked = {p}, discoverChannels(asked, from)
    PROVE  SessionOK(session', pool)
PROOF
<1>1. PICK s : s = Begin("channels", asked, from)
  OBVIOUS
<1>2. Begun(s, "channels", asked, from, {}) /\ s.failed = FALSE
  BY <1>1, BeginIssues
<1>3. asked \notin {{"all"}, {"total-only"}}
  BY ScenarioAssumption
<1>4. PoolOK(pool) /\ CursorOK(from, pool)
  BY DEF BeginsFrom
<1>5. s.cursor = from /\ DOMAIN s = SessionFields /\ IsABag(s.pending) /\ DOMAIN s.pending = {}
  BY <1>2 DEF Begun
<1>6. PICK first : first = discoverChannel(s, asked)
  OBVIOUS
<1>7. PICK u, X : Discovering(s, asked, u, X) /\ Issued(u, first, X)
  <2>1. asked \in SUBSET Peers /\ s.failed \in BOOLEAN
    BY <1>2
  <2> QED BY <1>4, <1>5, <1>6, <2>1, DiscoverIssues
<1>8. PICK E : E = KeyedCalls(s, from)
  OBVIOUS
<1>9. PICK r : r = Track(first, E)
  OBVIOUS
<1>10. session' = r
  BY <1>1, <1>3, <1>6, <1>8, <1>9 DEF discoverChannels, KeyedCalls
<1>11. DOMAIN u = SessionFields /\ u.failed \in BOOLEAN /\ \A f \in SessionFields \ {"failed"} : u[f] = s[f]
  BY <1>7 DEF Discovering
<1>12. Begun(u, "channels", asked, from, {})
  BY <1>2, <1>11 DEF Begun, SessionFields
<1>13. Begun(first, "channels", asked, from, {} \cup X) /\ first.failed = u.failed
  BY <1>7, <1>12, BegunIssues
<1>14. Issued(first, r, E)
  BY <1>9, <1>13, TrackIssues DEF Begun
<1>15. PICK N : N = ({} \cup X) \cup E
  OBVIOUS
<1>16. Begun(r, "channels", asked, from, N) /\ r.failed = u.failed
  BY <1>13, <1>14, <1>15, BegunIssues
<1>17. \A c \in N : CallOK(c) /\ c.do \in {"scan", "get_public_key"}
  <2>1. \A c \in X : CallOK(c) /\ c.do \in {"scan", "get_public_key"}
    BY <1>7 DEF Discovering
  <2> QED BY <1>5, <1>8, <1>15, <2>1, KeyedCallsMade
<1>18. \A c \in N : CallOK(c) /\ ChannelsCall(c, r)
  BY <1>17 DEF ChannelsCall, Scans, Lookups
<1>19. ASSUME ~r.failed PROVE LookedUp(N, "get_public_key", p) \/ (p \in DOMAIN from.channels /\ ChannelAhead(r, N, p))
  <2>1. /\ p \notin DOMAIN from.channels => LookedUp(X, "get_public_key", p)
        /\ p \in DOMAIN from.channels =>
              from.channels[p].key /\ \E x \in X : x.probe = subchannelProbe(p) /\ \A i \in Nat : Reaches(x, i)
    BY <1>5, <1>7, <1>16, <1>19 DEF Discovering
  <2>2. CASE p \notin DOMAIN from.channels
    BY <1>15, <2>1, <2>2 DEF LookedUp
  <2>3. CASE p \in DOMAIN from.channels
    <3>1. PICK x \in X : x.probe = subchannelProbe(p) /\ \A i \in Nat : Reaches(x, i)
      BY <2>1, <2>3
    <3>2. x \in DOMAIN r.pending /\ DOMAIN r.pending = N /\ r.cursor = from /\ r.chain = pool
      BY <1>15, <1>16, <3>1 DEF Begun
    <3>3. ChannelAhead(r, DOMAIN r.pending, p)
      BY <1>4, <2>1, <2>3, <3>1, <3>2, ScanSuffices
    <3> QED BY <2>3, <3>2, <3>3
  <2> QED BY <2>2, <2>3
<1>20. SessionOK(r, pool)
  BY <1>3, <1>11, <1>16, <1>18, <1>19, ChannelsBegun
<1> QED BY <1>10, <1>20

\* A session begins with its invariant.
LEMMA BeginKeeps ==
    ASSUME DiscoveryInv, begin
    PROVE  DiscoveryInv'
PROOF
<1>1. PoolOK(pool) /\ BeginsFrom(cursor)
  BY DEF DiscoveryInv, BeginsFrom
<1>2. pool' = pool /\ cursor' = cursor
  BY DEF begin
<1>3. PICK from \in {cursor, NoCursor} :
         \/ \E asked \in {{}} \cup {{t} : t \in Tokens} : discoverNotes(asked, from)
         \/ \E asked \in {{"all"}, {"total-only"}} \cup {{p} : p \in Peers} : discoverChannels(asked, from)
  BY DEF begin
<1>4. BeginsFrom(from)
  BY <1>1, NothingKnown
<1>5. CASE \E asked \in {{}} \cup {{t} : t \in Tokens} : discoverNotes(asked, from)
  <2>1. PICK asked : discoverNotes(asked, from)
    BY <1>5
  <2>2. PICK n \in 0 .. Len(pool.channels) :
           DOMAIN from.notes = {pool.channels[j] : j \in 1 .. n} /\ Cardinality(DOMAIN from.notes) = n
    BY <1>4, KnownCounted
  <2>3. Len(pool.channels) \in Nat
    BY <1>1, PoolTyped
  <2>4. n \in Nat /\ n <= Len(pool.channels)
    BY <2>3
  <2>5. PICK N : N = {Call("get_num_of_channels", channelProbe, 0, n, 0, 0)}
                     \cup {ScanFrom(subchannelProbe(p), from.notes[p].sub) : p \in DOMAIN from.notes}
                     \cup UNION {{ScanFrom(noteProbe(p, t), from.notes[p].indexes[t]) :
                                     t \in DOMAIN from.notes[p].indexes} : p \in DOMAIN from.notes}
    OBVIOUS
  <2>6. FirstCalls(from, n, N)
    BY <1>4, <2>4, <2>5, FirstCallsMade
  <2>7. PICK s : s = Begin("notes", asked, from)
    OBVIOUS
  <2>8. session' = Track(s, N)
    BY <2>1, <2>2, <2>5, <2>7 DEF discoverNotes
  <2>9. Begun(s, "notes", asked, from, {}) /\ s.failed = FALSE /\ AllOnce(s.pending)
    BY <2>7, BeginIssues
  <2>10. DOMAIN s = SessionFields /\ IsABag(s.pending) /\ DOMAIN s.pending = {}
    BY <2>9 DEF Begun
  <2>11. PICK r : r = Track(s, N)
    OBVIOUS
  <2>12. Issued(s, r, N)
    BY <2>10, <2>11, TrackIssues
  <2>13. Begun(r, "notes", asked, from, {} \cup N) /\ r.failed = FALSE
    BY <2>9, <2>12, BegunIssues
  <2>14. AllOnce(r.pending) /\ {} \cup N = N
    BY <2>9, <2>10, <2>12 DEF Issued
  <2>15. SessionOK(r, pool)
    BY <1>4, <2>2, <2>4, <2>6, <2>13, <2>14, NotesBegun
  <2> QED BY <1>1, <1>2, <2>8, <2>11, <2>15 DEF DiscoveryInv, BeginsFrom
<1>6. CASE \E asked \in {{"all"}, {"total-only"}} \cup {{p} : p \in Peers} : discoverChannels(asked, from)
  <2>1. PICK asked \in {{"all"}, {"total-only"}} \cup {{p} : p \in Peers} : discoverChannels(asked, from)
    BY <1>6
  <2>2. SessionOK(session', pool)
    <3>1. CASE asked \in {{"all"}, {"total-only"}}
      BY <1>4, <2>1, <3>1, BeginAll
    <3>2. CASE asked \in {{p} : p \in Peers}
      <4>1. PICK p \in Peers : asked = {p}
        BY <3>2
      <4> QED BY <1>4, <2>1, <4>1, BeginOne
    <3> QED BY <2>1, <3>1, <3>2
  <2> QED BY <1>1, <1>2, <2>2 DEF DiscoveryInv, BeginsFrom
<1> QED BY <1>3, <1>5, <1>6

\* Every step keeps the invariant.
LEMMA DiscoveryStep ==
    ASSUME DiscoveryInv, [cdNext]_cdVars
    PROVE  DiscoveryInv'
PROOF
<1>1. CASE begin
  BY <1>1, BeginKeeps
<1>2. CASE wait
  BY <1>2, WaitKeeps
<1>3. CASE others
  BY <1>3, OthersKeep
<1>4. CASE \E c \in BagToSet(session.pending) : answer(c) \/ callFails(c)
  BY <1>4, AnswerKeeps, FailureKeeps
<1>5. CASE UNCHANGED cdVars
  BY <1>5 DEF cdVars, DiscoveryInv
<1> QED BY <1>1, <1>2, <1>3, <1>4, <1>5 DEF cdNext

\* The discovery's bookkeeping is true in every state: each session's calls in flight
\* lead to all that it has still to find, and what it knows is in the pool.
THEOREM DiscoveryHolds == cdSpec => []DiscoveryInv
PROOF
<1>1. cdInit => DiscoveryInv
  <2> SUFFICES ASSUME cdInit PROVE DiscoveryInv
    OBVIOUS
  <2>1. PoolOK(pool)
    BY ScenarioAssumption DEF cdInit
  <2> QED BY <2>1, NothingKnown DEF cdInit, DiscoveryInv, BeginsFrom
<1>2. DiscoveryInv /\ [cdNext]_cdVars => DiscoveryInv'
  BY DiscoveryStep
<1> QED BY <1>1, <1>2, PTL DEF cdSpec

\* discoverNotes: the notes returned are those that were there, unspent and asked for,
\* none of them spent before and, without a cursor, each once.
THEOREM NotesAreExact == cdSpec => []NotesExact
PROOF
<1>1. DiscoveryInv => NotesExact
  <2> SUFFICES ASSUME DiscoveryInv, Returned("notes") PROVE NotesExact
    BY DEF NotesExact
  <2>1. PICK s : s = session
    OBVIOUS
  <2>2. s.pc = "returned" /\ s.what = "notes" /\ s # NoSession
    BY <2>1 DEF Returned, NoSession
  <2>3. SessionOK(s, pool)
    BY <2>1, <2>2 DEF DiscoveryInv
  <2>4. NotesInv(s, {}, pool) /\ ~s.failed
    <3>1. s.pending = EmptyBag /\ ~s.failed /\ NotesInv(s, DOMAIN s.pending, pool)
      BY <2>2, <2>3 DEF SessionOK
    <3> QED BY <3>1, NothingPending
  <2>5. \A n \in Wanted(s, pool) : n \in DOMAIN s.found
    BY <2>4 DEF NotesInv, NoteAhead, Reached
  <2>6. DOMAIN s.found \cap s.chain.spent = {} /\ (s.fresh => AllOnce(s.found))
    BY <2>4 DEF NotesInv, Once
  <2>7. \A n \in NotesIn(s.chain) \ pool.spent : (s.asked = {} \/ n.token \in s.asked) => n \in DOMAIN s.found
    BY <2>5 DEF Wanted
  <2> QED BY <2>1, <2>6, <2>7 DEF NotesExact, BagIn, BagToSet, AllOnce
<1> QED BY <1>1, DiscoveryHolds, PTL

\* A channel that was asked for, when the session has returned.
LEMMA ChannelKnown ==
    ASSUME NEW s, SessionOK(s, pool), PoolOK(pool), s.what = "channels", s.pc = "returned",
           NEW p \in ToSet(s.chain.channels), s.asked = {"all"} \/ p \in s.asked
    PROVE  /\ p \in DOMAIN s.cursor.channels /\ s.cursor.channels[p].key
           /\ \A k \in DOMAIN s.chain.tokens[p] :
                 LET t == s.chain.tokens[p][k]
                     tokens == s.cursor.channels[p].tokens
                 IN  /\ t \in DOMAIN tokens
                     /\ tokens[t].index = k - 1
                     /\ s.chain.count[p][t] <= tokens[t].nonce
                     /\ tokens[t].nonce <= pool.count[p][t]
PROOF
<1>1. /\ s.pending = EmptyBag /\ ~s.failed /\ ChannelsInv(s, DOMAIN s.pending, pool)
      /\ PoolOK(s.chain) /\ Grown(s.chain, pool) /\ CursorOK(s.cursor, pool)
  BY DEF SessionOK
<1>2. ChannelsInv(s, {}, pool)
  BY <1>1, NothingPending
<1>3. ChannelAhead(s, {}, p)
  BY <1>1, <1>2 DEF ChannelsInv
<1>4. KeyedAhead(s, {}, p)
  BY <1>3 DEF ChannelAhead, Reached, LookedUp
<1>5. p \in DOMAIN s.cursor.channels /\ s.cursor.channels[p].key
  BY <1>4 DEF KeyedAhead
<1>6. p \in Peers
  BY <1>1, PoolTyped
<1>7. ASSUME NEW k \in DOMAIN s.chain.tokens[p]
      PROVE  LET t == s.chain.tokens[p][k]
                 tokens == s.cursor.channels[p].tokens
             IN  /\ t \in DOMAIN tokens
                 /\ tokens[t].index = k - 1
                 /\ s.chain.count[p][t] <= tokens[t].nonce
                 /\ tokens[t].nonce <= pool.count[p][t]
  <2>1. PICK t : t = s.chain.tokens[p][k]
    OBVIOUS
  <2>2. PICK tokens : tokens = s.cursor.channels[p].tokens
    BY SMTT(60)
  <2>3. t \in DOMAIN tokens /\ s.chain.count[p][t] <= tokens[t].nonce
    <3>1. TokenAhead(s, {}, p, k)
      BY <1>4 DEF KeyedAhead
    <3> QED BY <2>1, <2>2, <3>1 DEF TokenAhead, NotesAhead, Reached
  <2>4. TokenOK(tokens[t], p, t, pool)
    BY <1>1, <1>5, <2>2, <2>3 DEF CursorOK, OutgoingOK
  <2>5. /\ tokens[t].index \in Nat /\ tokens[t].index + 1 \in DOMAIN pool.tokens[p]
        /\ pool.tokens[p][tokens[t].index + 1] = t /\ tokens[t].nonce <= pool.count[p][t]
    BY <2>4 DEF TokenOK
  <2>6. /\ s.chain.tokens[p] \in Seq(Tokens) /\ Starts(s.chain.tokens[p], pool.tokens[p]) /\ Distinct(pool.tokens[p])
    BY <1>1, <1>6, PoolTyped DEF Grown
  <2>7. k \in DOMAIN pool.tokens[p] /\ pool.tokens[p][k] = t /\ k \in Nat
    BY <2>1, <2>6 DEF Starts
  <2>8. tokens[t].index + 1 = k
    BY <2>5, <2>6, <2>7 DEF Distinct
  <2>9. tokens[t].index = k - 1
    BY ONLY <2>5, <2>7, <2>8
  <2> QED BY <2>1, <2>2, <2>3, <2>5, <2>9, Zenon
<1> QED BY <1>5, <1>7, Zenon

\* The requirement answered for a recipient.
LEMMA RequirementTrue ==
    ASSUME NEW s, SessionOK(s, pool), PoolOK(pool), s.what = "channels", s.pc = "returned",
           NEW p \in s.asked \cap Peers, NEW t \in Tokens
    PROVE  /\ Needed(s.chain, p, t) <= discoverRequirement(s.cursor.channels, p, t)
           /\ discoverRequirement(s.cursor.channels, p, t) <= Needed(pool, p, t)
PROOF
<1> DEFINE known2 == s.cursor.channels
<1>1. /\ s.pending = EmptyBag /\ ~s.failed /\ ChannelsInv(s, DOMAIN s.pending, pool)
      /\ PoolOK(s.chain) /\ Grown(s.chain, pool) /\ CursorOK(s.cursor, pool)
  BY DEF SessionOK
<1>2. p \in s.chain.keys => p \in DOMAIN known2
  <2>1. ChannelsInv(s, {}, pool)
    BY <1>1, NothingPending
  <2> QED BY <1>1, <2>1 DEF ChannelsInv, LookedUp
<1>3. ToSet(s.chain.channels) \subseteq s.chain.keys /\ ToSet(pool.channels) \subseteq pool.keys
  BY <1>1, PoolTyped
<1>4. s.chain.tokens[p] \in Seq(Tokens) /\ pool.tokens[p] \in Seq(Tokens)
  BY <1>1, PoolTyped
<1>5. p \in ToSet(s.chain.channels) => /\ p \in DOMAIN known2 /\ known2[p].key
                                       /\ Contains(s.chain.tokens[p], t) => t \in DOMAIN known2[p].tokens
  <2> SUFFICES ASSUME p \in ToSet(s.chain.channels)
               PROVE  /\ p \in DOMAIN known2 /\ known2[p].key
                      /\ Contains(s.chain.tokens[p], t) => t \in DOMAIN known2[p].tokens
    OBVIOUS
  <2>1. /\ p \in DOMAIN known2 /\ known2[p].key
        /\ \A k \in DOMAIN s.chain.tokens[p] : s.chain.tokens[p][k] \in DOMAIN known2[p].tokens
    BY ChannelKnown, Zenon
  <2> QED BY <1>4, <2>1 DEF Contains
<1>6. ASSUME p \in DOMAIN known2
      PROVE  /\ p \in pool.keys /\ (known2[p].key => p \in ToSet(pool.channels)) /\ known2[p].key \in BOOLEAN
             /\ t \in DOMAIN known2[p].tokens => Contains(pool.tokens[p], t)
  <2>1. p \in pool.keys /\ OutgoingOK(known2[p], p, pool)
    BY <1>1, <1>6 DEF CursorOK
  <2>2. ASSUME t \in DOMAIN known2[p].tokens PROVE Contains(pool.tokens[p], t)
    <3>1. TokenOK(known2[p].tokens[t], p, t, pool)
      BY <2>1, <2>2 DEF OutgoingOK
    <3> QED BY <1>4, <3>1 DEF TokenOK, Contains
  <2> QED BY <2>1, <2>2 DEF OutgoingOK
<1> DEFINE x == discoverRequirement(known2, p, t)
<1>7. /\ SetupRequirement.Register = 0 /\ SetupRequirement.SetupChannel = 1
      /\ SetupRequirement.SetupToken = 2 /\ SetupRequirement.Ready = 3
  BY DEF SetupRequirement
<1>8. /\ p \notin DOMAIN known2 => x = 0
      /\ p \in DOMAIN known2 /\ ~known2[p].key => x = 1
      /\ p \in DOMAIN known2 /\ known2[p].key /\ t \notin DOMAIN known2[p].tokens => x = 2
      /\ p \in DOMAIN known2 /\ known2[p].key /\ t \in DOMAIN known2[p].tokens => x = 3
  BY <1>7 DEF discoverRequirement, toSetupRequirement
<1>9. \A chain : LET y == Needed(chain, p, t)
                 IN  /\ p \notin chain.keys => y = 0
                     /\ p \in chain.keys /\ p \notin ToSet(chain.channels) => y = 1
                     /\ p \in chain.keys /\ p \in ToSet(chain.channels) /\ ~Contains(chain.tokens[p], t) => y = 2
                     /\ p \in chain.keys /\ p \in ToSet(chain.channels) /\ Contains(chain.tokens[p], t) => y = 3
  BY <1>7 DEF Needed
<1>10. PICK y : y = Needed(s.chain, p, t)
  OBVIOUS
<1>11. PICK z : z = Needed(pool, p, t)
  OBVIOUS
<1> HIDE DEF known2, x
<1>12. y <= x
  <2>1. /\ p \notin s.chain.keys => y = 0
        /\ p \in s.chain.keys /\ p \notin ToSet(s.chain.channels) => y = 1
        /\ p \in s.chain.keys /\ p \in ToSet(s.chain.channels) /\ ~Contains(s.chain.tokens[p], t) => y = 2
        /\ p \in s.chain.keys /\ p \in ToSet(s.chain.channels) /\ Contains(s.chain.tokens[p], t) => y = 3
    BY <1>9, <1>10
  <2> QED BY ONLY <1>2, <1>5, <1>8, <2>1
<1>13. x <= z
  <2>1. /\ p \notin pool.keys => z = 0
        /\ p \in pool.keys /\ p \notin ToSet(pool.channels) => z = 1
        /\ p \in pool.keys /\ p \in ToSet(pool.channels) /\ ~Contains(pool.tokens[p], t) => z = 2
        /\ p \in pool.keys /\ p \in ToSet(pool.channels) /\ Contains(pool.tokens[p], t) => z = 3
    BY <1>9, <1>11
  <2> QED BY ONLY <1>6, <1>8, <2>1
<1> QED BY <1>10, <1>11, <1>12, <1>13 DEF known2, x

\* discoverChannels: the channels asked for are returned with their keys, their tokens
\* at their indexes, and counters between the number of notes when the session began and
\* the number now; a requirement lies between what was set up then and what is now.
THEOREM ChannelsAreTrue == cdSpec => []ChannelsTrue
PROOF
<1>1. DiscoveryInv => ChannelsTrue
  <2> SUFFICES ASSUME DiscoveryInv, Returned("channels") PROVE ChannelsTrue
    BY Zenon DEF ChannelsTrue
  <2>1. PICK s : s = session
    OBVIOUS
  <2>2. s.pc = "returned" /\ s.what = "channels" /\ s # NoSession
    BY <2>1 DEF Returned, NoSession
  <2>3. SessionOK(s, pool) /\ PoolOK(pool)
    BY <2>1, <2>2 DEF DiscoveryInv
  <2>4. /\ s.pending = EmptyBag /\ ~s.failed /\ ChannelsInv(s, DOMAIN s.pending, pool)
        /\ PoolOK(s.chain) /\ CursorOK(s.cursor, pool)
    BY <2>2, <2>3 DEF SessionOK
  <2>5. ChannelsInv(s, {}, pool)
    BY <2>4, NothingPending
  <2>6. s.cursor.total \in Nat /\ s.cursor.total <= Len(pool.channels)
    BY <2>4 DEF CursorOK
  <2>7. s.asked \in {{"all"}, {"total-only"}} => Len(s.chain.channels) <= s.cursor.total
    <3> SUFFICES ASSUME s.asked \in {{"all"}, {"total-only"}} PROVE Len(s.chain.channels) <= s.cursor.total
      OBVIOUS
    <3>1. \A j \in DOMAIN s.chain.channels : j <= s.cursor.total
      BY <2>4, <2>5 DEF ChannelsInv, Reached
    <3>2. PICK l \in Nat : l = Len(s.chain.channels) /\ DOMAIN s.chain.channels = 1 .. l
      BY <2>4, PoolTyped
    <3>3. CASE l = 0
      BY <2>6, <3>2, <3>3
    <3>4. CASE l > 0
      <4>1. l \in 1 .. l
        BY <3>4
      <4> QED BY <3>1, <3>2, <4>1
    <3> QED BY <3>2, <3>3, <3>4
  <2>8. \A p \in ToSet(s.chain.channels) : Asked(p) =>
              /\ p \in DOMAIN s.cursor.channels /\ s.cursor.channels[p].key
              /\ \A k \in DOMAIN s.chain.tokens[p] :
                    LET t == s.chain.tokens[p][k]
                        tokens == s.cursor.channels[p].tokens
                    IN  /\ t \in DOMAIN tokens
                        /\ tokens[t].index = k - 1
                        /\ s.chain.count[p][t] <= tokens[t].nonce
                        /\ tokens[t].nonce <= pool.count[p][t]
    <3>1. \A p : Asked(p) => s.asked = {"all"} \/ p \in s.asked
      BY <2>1 DEF Asked
    <3> QED BY ONLY <2>2, <2>3, <3>1, ChannelKnown, Zenon
  <2>9. \A p \in s.asked \cap Peers, t \in Tokens :
           /\ Needed(s.chain, p, t) <= discoverRequirement(s.cursor.channels, p, t)
           /\ discoverRequirement(s.cursor.channels, p, t) <= Needed(pool, p, t)
    BY <2>2, <2>3, RequirementTrue
  <2>10. Returned("channels") =>
           /\ s.asked \in {{"all"}, {"total-only"}} =>
                 Len(s.chain.channels) <= s.cursor.total /\ s.cursor.total <= Len(pool.channels)
           /\ \A p \in ToSet(s.chain.channels) : Asked(p) =>
                 /\ p \in DOMAIN s.cursor.channels /\ s.cursor.channels[p].key
                 /\ \A k \in DOMAIN s.chain.tokens[p] :
                       LET t == s.chain.tokens[p][k]
                           tokens == s.cursor.channels[p].tokens
                       IN  /\ t \in DOMAIN tokens
                           /\ tokens[t].index = k - 1
                           /\ s.chain.count[p][t] <= tokens[t].nonce
                           /\ tokens[t].nonce <= pool.count[p][t]
           /\ s.fresh => \A p \in s.asked \cap Peers, t \in Tokens :
                 LET answered == discoverRequirement(s.cursor.channels, p, t)
                 IN  Needed(s.chain, p, t) <= answered /\ answered <= Needed(pool, p, t)
    BY <2>6, <2>7, <2>8, <2>9, Zenon
  <2> QED BY ONLY <2>1, <2>10, Zenon DEF ChannelsTrue
<1> QED BY <1>1, DiscoveryHolds, PTL
=============================================================================
