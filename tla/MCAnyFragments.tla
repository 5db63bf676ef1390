--------------------------- MODULE MCAnyFragments ---------------------------
(* TLC instance: one datagram key that gets regular, overlapping, empty and *)
(* second last fragments, and beside it a datagram whose total_length no    *)
(* longer fits LengthRange.                                                 *)
EXTENDS AnyFragments

CONSTANT MaxTime

Piece(k, o, l, m, b) == [key |-> k, off |-> o, len |-> l, mf |-> m, body |-> b, from |-> 8 * o]

MCArriving ==
  { Piece("k1", 0,  8, TRUE,  "a"),  Piece("k1", 0, 12, TRUE, "b"),
    Piece("k1", 1,  8, TRUE,  "a"),  Piece("k1", 1, 0, TRUE, "b"),
    Piece("k1", 2,  3, FALSE, "a"),  Piece("k1", 1, 4, FALSE, "b"),
    Piece("k1", 0,  5, FALSE, "c"),
    Piece("k2", 0, 64, TRUE,  "a"),  Piece("k2", 8, 8, FALSE, "a") }

ASSUME \A f \in MCArriving : IsFragment(f)

\* FedSpec of these.
Spec == ReassemblerInit /\ [][FedNext(MCArriving, MaxTime)]_reassemblerVars
=============================================================================
