---------------------------- MODULE Distributions ----------------------------
(***************************************************************************)
(* Histograms and cumulative distributions (oldsim/Distributions.cpp, and  *)
(* the same text in sim/ for the tool cdf).                                *)
(*                                                                         *)
(* Values are integers and a resolution is the quotient num / den, so that *)
(* a bin is known by its number: bin n starts at n * num / den.  In a CDF  *)
(* a point is the number of a bin and a probability, in units that whoever *)
(* makes the CDF chooses.  The arithmetic is exact.  A histogram that      *)
(* finds its resolution by itself is used nowhere, and left out.           *)
(***************************************************************************)
EXTENDS Integers, SequencesExt, FiniteSetsExt

\* Histogram::Histogram(double)
Histogram(num, den) == [num |-> num, den |-> den, first |-> 0, bins |-> <<>>, samples |-> 0]

\* Every value is in bin 0 when the resolution is 0.
BinOf(h, v) == IF h.num = 0 THEN 0 ELSE (v * h.den) \div h.num

Zeros(n) == [i \in 1 .. n |-> 0]

\* Histogram::addValue: bins are added at the end or at the front as needed.
AddValue(h, v) ==
  LET first == IF h.samples = 0 THEN BinOf(h, v) ELSE h.first
      i == BinOf(h, v) - first
      bins == IF i < 0 THEN Zeros(-i) \o h.bins
              ELSE h.bins \o Zeros(Max({0, i + 1 - Len(h.bins)}))
      at == Max({0, i}) + 1
  IN [h EXCEPT !.first = Min({first, first + i}), !.samples = @ + 1,
               !.bins = [bins EXCEPT ![at] = @ + 1]]

\* The variant that forgets the last point of the same probability.
OptimizeKeepsFirst(points) ==
  FoldLeft(LAMBDA r, pt : IF pt.prob = Last(r).prob THEN r ELSE Append(r, pt),
           <<points[1]>>, Tail(points))

\* CDF::optimize: of the points with the same probability, the first and the
\* last one are left; of those at the end only the first one.
Optimize(points) ==
  LET Consider(s, pt) ==
        IF pt.prob = s.last.prob THEN [s EXCEPT !.last = pt, !.inSequence = TRUE]
        ELSE [last |-> pt, inSequence |-> FALSE,
              result |-> s.result \o (IF s.inSequence THEN <<s.last>> ELSE <<>>) \o <<pt>>]
  IN FoldLeft(Consider, [last |-> points[1], inSequence |-> FALSE, result |-> <<points[1]>>],
              Tail(points)).result

\* CDF::loadFrom(Histogram &), before optimize.  The unit of probability is
\* one sample.
PointsOf(h) ==
  LET n == Len(h.bins) IN
  [i \in 1 .. n + 1 |->
     [bin |-> h.first + i - 1,
      prob |-> IF i <= n THEN FoldLeft(LAMBDA a, b : a + b, 0, SubSeq(h.bins, 1, i))
               ELSE Max({h.samples, 1})]]

LoadFrom(h) == Optimize(PointsOf(h))

\* CDF::loadFrom(path) reads the points that operator<< wrote.
LoadFromFile(points) == IF points = <<>> THEN <<>> ELSE Optimize(points)

\* CDF::addValue: the new point goes after those that are not larger.
AddPoint(points, bin, prob) ==
  LET before == Cardinality({i \in DOMAIN points : points[i].bin <= bin})
  IN InsertAt(points, before + 1, [bin |-> bin, prob |-> prob])

\* CDF::inverse, as a quotient: the binary search finds the first point that
\* reaches x, and the result is between it and the one before.
InverseOf(points, x) ==
  IF points = <<>> THEN [num |-> 0, den |-> 1]
  ELSE IF x <= Head(points).prob THEN [num |-> Head(points).bin, den |-> 1]
  ELSE IF x >= Last(points).prob THEN [num |-> Last(points).bin, den |-> 1]
  ELSE LET hi == Min({i \in DOMAIN points : points[i].prob >= x})
           a == points[hi - 1]
           b == points[hi]
       IN [num |-> a.bin * (b.prob - a.prob) + (x - a.prob) * (b.bin - a.bin),
           den |-> b.prob - a.prob]

=============================================================================
