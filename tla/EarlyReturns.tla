---------------------------- MODULE EarlyReturns ----------------------------
(***************************************************************************)
(* A handler that makes its checks in order and returns at the first that  *)
(* applies.  A check is <<condition, outcome>>.                            *)
(***************************************************************************)
EXTENDS Integers, Sequences

\* The outcome of the first check whose condition holds, or otherwise.
FirstOf(checks, otherwise) ==
    LET hits == {i \in DOMAIN checks : checks[i][1]}
    IN  IF hits = {} THEN otherwise
        ELSE checks[CHOOSE i \in hits : \A j \in hits : i <= j][2]
=============================================================================
