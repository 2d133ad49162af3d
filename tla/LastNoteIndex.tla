--------------------------- MODULE LastNoteIndex ---------------------------
(***************************************************************************)
(* The searches of discovery/last_note_index.rs: a batch of probes at      *)
(* exponentially growing offsets, then bisection, for the last note of a   *)
(* subchannel.  The notes of a subchannel occupy the indices 0 .. n - 1    *)
(* (NoDanglingEntry of the pool): that note i exists is i < n.             *)
(***************************************************************************)
EXTENDS Integers

CONSTANTS
    max_note_log_index,  \* exponent of the last probe
    Pow2                 \* powers of two up to that exponent

ProbeIndex == 0 .. max_note_log_index

ASSUME LastNoteIndexAssumption ==
    /\ max_note_log_index \in Nat
    /\ Pow2 \in [ProbeIndex -> Nat \ {0}]
    /\ Pow2[0] = 1
    /\ \A k \in ProbeIndex : k > 0 => Pow2[k] = 2 * Pow2[k - 1]

\* Reads reserved for one search: every probe and every possible bisection step.
boundary_budget == 2 * max_note_log_index + 1

Exists(n, i) == i < n

probe_offset(k) == Pow2[k] - 1

\* The k-th probe is the first of the batch that finds no note.
FirstMiss(n, start, k) ==
    /\ ~Exists(n, start + probe_offset(k))
    /\ \A j \in 0 .. (k - 1) : Exists(n, start + probe_offset(j))

\* What the batch says: the last index seen to exist, the first seen to be empty.
exponential_probe(start, k) ==
    [lower |-> start + probe_offset(k - 1), upper |-> start + probe_offset(k)]

AllProbesHit(n, start) == \A k \in ProbeIndex : Exists(n, start + probe_offset(k))

midpoint(bounds) == bounds.lower + ((bounds.upper - bounds.lower) \div 2)

\* Mutant: goes on after the bounds are adjacent.
Unresolved_adjacent(bounds) == bounds.lower < bounds.upper

Unresolved(bounds) == bounds.lower + 1 < bounds.upper

\* Mutant: the bounds are narrowed the wrong way.
bisect_boundary_swapped(n, bounds) ==
    IF Exists(n, midpoint(bounds))
    THEN [bounds EXCEPT !.upper = midpoint(bounds)]
    ELSE [bounds EXCEPT !.lower = midpoint(bounds)]

\* One iteration of the bisection.
bisect_boundary(n, bounds) ==
    IF Exists(n, midpoint(bounds))
    THEN [bounds EXCEPT !.lower = midpoint(bounds)]
    ELSE [bounds EXCEPT !.upper = midpoint(bounds)]
=============================================================================
