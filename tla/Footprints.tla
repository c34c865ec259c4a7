----------------------------- MODULE Footprints -----------------------------
(***************************************************************************)
(* ais_core/plan.py and the reading side of ais_core/calibration.py: what  *)
(* a preset will weigh, from samples, declared figures and file sizes.     *)
(* A footprint is a number of tenths of a MB, to which the code rounds     *)
(* (a tie may go either way), and the percentages of BANDS make bounds in  *)
(* 1/100 of that; a float above Huge is infinite.                          *)
(***************************************************************************)
EXTENDS Naturals, Sequences, FiniteSets

CONSTANTS
  None,     \* a figure that is not declared, or cannot be had
  Missing,  \* a file that is declared and is not there
  Huge,     \* the largest finite float
  Megabyte  \* the bytes in it

ASSUME HugeIsNat == Huge \in Nat
ASSUME MegabytePositive == Megabyte \in Nat \ {0}
ASSUME NoFigureIsNoNat == None \notin Nat /\ Missing \notin Nat \union {None}

-----------------------------------------------------------------------------
(* calibration.py: the weighted median.                                    *)

\* SOURCE_WEIGHTS, doubled.
Weight(s) == IF s.source = "health" THEN 2 ELSE 1

\* The weight of the first n samples.
Accumulated(s) ==
  LET acc[n \in 0..Len(s)] == IF n = 0 THEN 0 ELSE acc[n - 1] + Weight(s[n])
  IN acc

\* The samples by weight in MB; Where[i] is the place of the i-th lightest.
Sorts(s, where) ==
  /\ \A i, j \in 1..Len(s) : where[i] = where[j] => i = j
  /\ \A i \in 1..Len(s) - 1 : s[where[i]].mb <= s[where[i + 1]].mb

\* Mutant: the samples stay in the order they were taken in.
Unsorted(s) == s

Sorted(s) ==
  LET where == CHOOSE w \in [1..Len(s) -> 1..Len(s)] : Sorts(s, w)
  IN [i \in 1..Len(s) |-> s[where[i]]]

\* The first sample, from the lightest on, with half of the weight behind it.
WeightedMedian(s) ==
  IF s = << >> THEN None
  ELSE LET p == Sorted(s)
           acc == Accumulated(p)
           halfway == {i \in 1..Len(p) : 2 * acc[i] >= acc[Len(p)]}
       IN p[CHOOSE i \in halfway : \A j \in halfway : i <= j].mb

\* The samples of this host.
Fresh(s, host) ==
  LET kept[n \in 0..Len(s)] ==
        IF n = 0 THEN << >>
        ELSE IF s[n].host = host THEN Append(kept[n - 1], s[n]) ELSE kept[n - 1]
  IN kept[Len(s)]

\* measured_footprint_mb
MeasuredFootprint(samples, host) == WeightedMedian(Fresh(samples, host))

-----------------------------------------------------------------------------
(* plan.py: the estimate.                                                  *)

Ranks == [measured |-> 1, declared |-> 2, computed |-> 3, unknown |-> 4]

Band == [measured |-> 10, declared |-> 20, computed |-> 35]

\* LLAMACPP_OVERHEAD_MB, GENERIC_OVERHEAD_MB: in tenths, like every footprint.
LlamacppOverhead == 10240
GenericOverhead == 5120

Rounded(n, d) == (2 * n + d) \div (2 * d)

\* round(bytes / (1024 * 1024), 1)
Tenths(bytes) == Rounded(10 * bytes, Megabyte)

\* A footprint of which every band is infinite, too.
Infinite == 100 * (Huge + 1)

Component(mb, source) == [mb |-> mb, source |-> source]
Unknown == Component(None, "unknown")

\* Mutant: the first flag wins, as a search for the flag would have it.
FirstCtxSize(flags) == IF flags = << >> \/ flags[1] = 0 THEN None ELSE flags[1]

\* _parse_ctx_size: the last flag wins.  A value that is no positive integer is a 0 here.
CtxSize(flags) ==
  IF flags = << >> \/ flags[Len(flags)] = 0 THEN None ELSE flags[Len(flags)]

WeightsComponent(f) ==
  CASE f.weights # None -> Component(f.weights, "declared")
    [] f.weights = None /\ f.model \notin {None, Missing} /\ f.mmproj # Missing ->
         Component(Tenths(f.model + IF f.mmproj = None THEN 0 ELSE f.mmproj), "computed")
    [] OTHER -> Unknown

\* Declared tokens are for engines without a context flag.
Context(f) == IF f.flags # << >> THEN CtxSize(f.flags) ELSE f.ctx

\* _kv_component
KvComponent(f) ==
  IF f.kvPerToken = None \/ Context(f) = None THEN Unknown
  ELSE LET bytes == f.kvPerToken * Context(f)
       IN Component(IF bytes <= Huge THEN Tenths(bytes) ELSE Infinite, "declared")

\* The flag is a Python int of any size: the product with a float raises OverflowError
\* where it is beyond every float (plan.py:224).  Declared tokens are a float themselves.
KvRaises(f) ==
  /\ f.kvPerToken # None
  /\ f.flags # << >> /\ CtxSize(f.flags) # None /\ CtxSize(f.flags) > Huge

OverheadComponent(f) ==
  CASE f.overhead # None -> Component(f.overhead, "declared")
    [] f.overhead = None /\ f.llamacpp -> Component(LlamacppOverhead, "computed")
    [] OTHER -> Component(GenericOverhead, "computed")

Worse(a, b) == IF Ranks[a] >= Ranks[b] THEN a ELSE b

Peak(f) == IF f.peak = None THEN 0 ELSE f.peak

Cost(low, high, confidence) == [low |-> low, high |-> high, confidence |-> confidence]

\* _overflow_fallback, and the rounding of the bounds.
FailClosed(low, high, confidence) ==
  IF low <= 1000 * Huge /\ high <= 1000 * Huge
  THEN Cost(Rounded(low, 100), Rounded(high, 100), confidence)
  ELSE Cost(0, 0, "unknown")

Measured(f, median) ==
  FailClosed((100 - Band.measured) * median,
             (100 + Band.measured) * median + 100 * Peak(f), "measured")

LowOf(c) == (100 - Band[c.source]) * c.mb
HighOf(c) == (100 + Band[c.source]) * c.mb

Decomposed(f) ==
  LET w == WeightsComponent(f)
      k == KvComponent(f)
      o == OverheadComponent(f)
      confidence == Worse(w.source, Worse(k.source, o.source))
  IN IF confidence = "unknown" THEN Cost(0, 0, "unknown")
     ELSE FailClosed(LowOf(w) + LowOf(k) + LowOf(o),
                     HighOf(w) + HighOf(k) + HighOf(o) + 100 * Peak(f), confidence)

\* No estimate: the OverflowError leaves estimate_preset_cost.
Raised == Cost(0, 0, "raised")

\* estimate_preset_cost, given what was measured of the preset's revision.
Estimate(f, measured) ==
  CASE measured # None -> Measured(f, measured)
    [] measured = None /\ KvRaises(f) -> Raised
    [] OTHER -> Decomposed(f)

\* What a manifest says of its memory: footprints, the bytes of its files and of a token's
\* cache, the context flags.
Figures ==
  [weights : Nat \union {None}, model : Nat \union {None, Missing},
   mmproj : Nat \union {None, Missing}, kvPerToken : Nat \union {None},
   flags : Seq(Nat), ctx : Nat \union {None}, overhead : Nat \union {None},
   llamacpp : BOOLEAN, peak : Nat \union {None}]

-----------------------------------------------------------------------------
(* What the estimate has to be.                                            *)

\* The weight of the samples at some places: a health sample counts twice.
WeightOf(s, places) ==
  Cardinality(places) + Cardinality({i \in places : s[i].source = "health"})

\* A sample with at most half of the weight below it and at most half above it.
IsMedian(m, s) ==
  LET all == 1..Len(s)
  IN /\ \E i \in all : s[i].mb = m
     /\ 2 * WeightOf(s, {i \in all : s[i].mb < m}) <= WeightOf(s, all)
     /\ 2 * WeightOf(s, {i \in all : s[i].mb > m}) <= WeightOf(s, all)

\* The configuration starts and says what it needs: the runtime takes the last flag, the
\* files are there.
Starts(f) ==
  /\ IF f.flags # << >> THEN f.flags[Len(f.flags)] # 0 ELSE f.ctx # None
  /\ f.weights = None => f.model \notin {None, Missing} /\ f.mmproj # Missing
=============================================================================
