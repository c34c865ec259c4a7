--------------------------- MODULE MCCalibration ---------------------------
EXTENDS Calibration, TLC

CONSTANTS c1, c2, c3, r1, r2

MCClis == {c1, c2}
MCRevs == {r1, r2}

\* No two manifests may weigh the same, so that a sample tells what it measured.
MCFootprint == r1 :> {40} @@ r2 :> {41} @@ Base :> {20}

Old(weight, source, host) == [mb |-> weight, source |-> source, host |-> host, sure |-> TRUE]

\* A ring with room, and a full one, shared with another host.
MCOldRings ==
  { r1 :> <<Old(90, "health", "elsewhere"), Old(42, "unload", Here)>> @@ r2 :> << >>,
    r1 :> <<Old(40, "health", Here), Old(7, "unload", Here), Old(40, "health", Here)>>
      @@ r2 :> <<Old(41, "health", Here)>> }

Typical ==
  [weights |-> 300, model |-> None, mmproj |-> None, kvPerToken |-> 20, flags |-> <<4>>,
   ctx |-> None, overhead |-> None, llamacpp |-> TRUE, peak |-> 50]

\* Variations: sized files, missing files, the flag given twice and malformed, no flag but
\* tokens declared; a product, a sum and a context that overflow, and such a context where
\* no figure is multiplied by it.
MCDeclared ==
  { Typical,
    [Typical EXCEPT !.weights = None, !.model = 450],
    [Typical EXCEPT !.weights = None, !.model = 450, !.mmproj = 31, !.llamacpp = FALSE],
    [Typical EXCEPT !.weights = None, !.model = 450, !.mmproj = Missing],
    [Typical EXCEPT !.weights = None, !.model = Missing],
    [Typical EXCEPT !.weights = 3, !.kvPerToken = 21, !.flags = <<4, 7>>, !.overhead = 3],
    [Typical EXCEPT !.flags = <<8, 0>>, !.ctx = 8],
    [Typical EXCEPT !.flags = <<0, 8>>, !.peak = None],
    [Typical EXCEPT !.flags = << >>, !.ctx = 16],
    [Typical EXCEPT !.kvPerToken = 400, !.flags = <<20>>],
    [Typical EXCEPT !.flags = <<6001>>],
    [Typical EXCEPT !.kvPerToken = None, !.flags = <<6001>>],
    [Typical EXCEPT !.peak = 60000] }

Symmetry == Permutations(MCClis)
=============================================================================
