--------------------------- MODULE BoundarySearch ---------------------------
(***************************************************************************)
(* find_last_note_index over a subchannel that may grow while it runs: a   *)
(* session pinned to a block tag instead of a block hash reads the         *)
(* newest state on every call (validate_block_ref passes a tag through).   *)
(***************************************************************************)
EXTENDS LastNoteIndex

CONSTANT MaxNotes  \* bound: notes of the subchannel explored

ASSUME MaxNotesAssumption == MaxNotes \in Nat

VARIABLES
    phase,    \* "probe", "bisect", "done" or "error"
    n_notes,  \* notes in the subchannel
    known,    \* notes when the search read its probes
    start,    \* the cursor's start index
    bounds,   \* bounds of the bisection
    steps,    \* bisection steps taken
    total     \* total_n_notes, once found

vars == <<phase, n_notes, known, start, bounds, steps, total>>

NoBounds == [lower |-> 0, upper |-> 0]

Init ==
    /\ phase = "probe"
    /\ n_notes \in 0 .. MaxNotes
    /\ known = 0
    /\ start \in 0 .. n_notes
    /\ bounds = NoBounds
    /\ steps = 0
    /\ total = 0

\* The first probe missed: nothing beyond the cursor.
probe_empty ==
    /\ phase = "probe" /\ FirstMiss(n_notes, start, 0)
    /\ phase' = "done"
    /\ known' = n_notes
    /\ total' = 0
    /\ UNCHANGED <<n_notes, start, bounds, steps>>

probe_bounds ==
    /\ phase = "probe"
    /\ \E k \in ProbeIndex \ {0} :
          /\ FirstMiss(n_notes, start, k)
          /\ bounds' = exponential_probe(start, k)
    /\ phase' = "bisect"
    /\ known' = n_notes
    /\ UNCHANGED <<n_notes, start, steps, total>>

probe_overflow ==
    /\ phase = "probe" /\ AllProbesHit(n_notes, start)
    /\ phase' = "error"
    /\ known' = n_notes
    /\ UNCHANGED <<n_notes, start, bounds, steps, total>>

bisect ==
    /\ phase = "bisect" /\ Unresolved(bounds)
    /\ bounds' = bisect_boundary(n_notes, bounds)
    /\ steps' = steps + 1
    /\ UNCHANGED <<phase, n_notes, known, start, total>>

finish ==
    /\ phase = "bisect" /\ ~Unresolved(bounds)
    /\ phase' = "done"
    /\ total' = bounds.lower + 1
    /\ UNCHANGED <<n_notes, known, start, bounds, steps>>

\* A sender adds a note while the search is running.
note_created ==
    /\ n_notes < MaxNotes
    /\ n_notes' = n_notes + 1
    /\ UNCHANGED <<phase, known, start, bounds, steps, total>>

Next ==
    probe_empty \/ probe_bounds \/ probe_overflow \/ bisect \/ finish \/ note_created

Spec == Init /\ [][Next]_vars

-----------------------------------------------------------------------------
TypeOK ==
    /\ phase \in {"probe", "bisect", "done", "error"}
    /\ n_notes \in Nat /\ known \in Nat /\ start \in Nat /\ steps \in Nat /\ total \in Nat
    /\ bounds \in [lower : Nat, upper : Nat]

(***************************************************************************)
(* The search returns the number of notes: no less than there were when it *)
(* began, no more than there are now, so exactly the number if the         *)
(* subchannel did not grow.  It reports zero, or no progress on a resumed  *)
(* cursor, only if there was nothing beyond the cursor, and gives up only  *)
(* if there were more notes than the probes cover (find_last_note_index).  *)
(***************************************************************************)
BoundaryCorrect ==
    /\ (phase = "done" /\ total > 0) => known <= total /\ total <= n_notes
    /\ (phase = "done" /\ total = 0) => known <= start
    /\ phase = "error" => known - start >= Pow2[max_note_log_index]

(***************************************************************************)
(* The bisection never takes more steps than were reserved for it, however *)
(* the subchannel grows under it: it ends, and the unsigned subtraction of *)
(* what is reclaimed does not wrap around (boundary_budget,                *)
(* find_last_note_index).                                                  *)
(***************************************************************************)
StepsReserved == steps <= max_note_log_index

-----------------------------------------------------------------------------
\* Inductive strengthening: what the bounds say, and halvings left for the interval.
BoundsInv ==
    phase = "bisect" =>
        /\ bounds.lower < n_notes
        /\ known <= bounds.upper
        /\ bounds.lower < bounds.upper
        /\ \E r \in ProbeIndex : /\ bounds.upper - bounds.lower <= Pow2[r]
                                 /\ steps + r <= max_note_log_index

SearchInv ==
    /\ TypeOK
    /\ known <= n_notes
    /\ phase = "probe" => steps = 0
    /\ BoundsInv
    /\ BoundaryCorrect
    /\ StepsReserved
=============================================================================
