------------------------------ MODULE Statistics ------------------------------
(***************************************************************************)
(* What a simulation measures and what is made of it: how long events take *)
(* (oldsim/PerformanceStatistics.cpp), the files of results that the tool  *)
(* cdf turns into distributions (tools/cdf.cpp), and the distributions     *)
(* that RequestGenerator draws applications from                           *)
(* (oldsim/cases/RequestGenerator.cpp).                                    *)
(*                                                                         *)
(* A row of a file of results has the fields that cdf reads, by number.    *)
(* Lines that were cut are not modelled, nor the percentages and speedups  *)
(* that cdf calculates from other fields.                                  *)
(***************************************************************************)
EXTENDS Distributions

CONSTANTS
  EventNames, Spans,  \* the events that are timed, and how long they may take
  MaxSpans,           \* how many events are timed in all
  ResultRows,         \* for each file of results, the rows it may have
  MaxRows,            \* how many rows there are in all
  NumSamples,         \* option -s of cdf
  Generators,         \* what RequestGenerator may be given
  Precision           \* uniform01() is a multiple of 1 / Precision

ASSUME StatisticsAssumption ==
  /\ Spans \subseteq Nat /\ MaxSpans \in Nat /\ MaxRows \in Nat
  /\ NumSamples \in Nat \ {0} /\ Precision \in Nat \ {0}

VARIABLES
  partialStats, totalStats,  \* partialStatsPerEvent, statsPerEvent
  spans,      \* the durations of each event
  partials,   \* how many times the partial statistics were saved
  saved,      \* whether the total statistics were
  results,    \* the files of results
  cdfs,       \* the distributions that cdf wrote, with what they are of
  generator,  \* RequestGenerator: how many descriptions, and their distribution
  drawn       \* the description that was drawn, or None

statisticsVars ==
  <<partialStats, totalStats, spans, partials, saved, results, cdfs, generator, drawn>>

NoDescription == -1
NoGenerator == [size |-> 0, unit |-> 1, points |-> <<>>]
NoResults == [f \in DOMAIN ResultRows |-> <<>>]
NoSpans == [e \in EventNames |-> <<>>]

-----------------------------------------------------------------------------
(* The time of events.                                                     *)

NoStats == [numEvents |-> 0, minDuration |-> 0, maxDuration |-> 0, handleTime |-> 0]

\* EventStats::end
EndStats(s, micros) ==
  [numEvents |-> s.numEvents + 1,
   minDuration |-> IF s.numEvents = 0 \/ s.minDuration > micros THEN micros ELSE s.minDuration,
   maxDuration |-> Max({s.maxDuration, micros}),
   handleTime |-> s.handleTime + micros]

\* EventStats::operator+=
Joined(s, r) ==
  [numEvents |-> s.numEvents + r.numEvents,
   minDuration |-> IF s.numEvents = 0 \/ s.minDuration > r.minDuration THEN r.minDuration
                   ELSE s.minDuration,
   maxDuration |-> Max({s.maxDuration, r.maxDuration}),
   handleTime |-> s.handleTime + r.handleTime]

CopyPartialToTotal(total, partial) == [e \in EventNames |-> Joined(total[e], partial[e])]

\* Three things that do not meet: a behaviour is about one of them, which
\* bounds the states.
OnlyTimes == results = NoResults /\ generator = NoGenerator
OnlyResults == spans = NoSpans /\ ~saved /\ partials = 0 /\ generator = NoGenerator

\* The event is handled between startEvent and endEvent.
TimeEvent(e, d) ==
  /\ OnlyTimes /\ ~saved /\ FoldFunction(LAMBDA a, b : Len(a) + b, 0, spans) < MaxSpans
  /\ partialStats' = [partialStats EXCEPT ![e] = EndStats(@, d)]
  /\ spans' = [spans EXCEPT ![e] = Append(@, d)]
  /\ UNCHANGED <<totalStats, partials, saved, results, cdfs, generator, drawn>>

\* Only what is shown starts again.
AfterPartial(partial) ==
  [e \in EventNames |-> IF partial[e].numEvents > 0 THEN NoStats ELSE partial[e]]

SavePartialStatistics ==
  /\ OnlyTimes /\ ~saved /\ partials < MaxSpans
  /\ totalStats' = CopyPartialToTotal(totalStats, partialStats)
  /\ partialStats' = AfterPartial(partialStats)
  /\ partials' = partials + 1
  /\ UNCHANGED <<spans, saved, results, cdfs, generator, drawn>>

SaveTotalStatistics ==
  /\ OnlyTimes /\ ~saved /\ saved' = TRUE
  /\ totalStats' = CopyPartialToTotal(totalStats, partialStats)
  /\ UNCHANGED <<partialStats, spans, partials, results, cdfs, generator, drawn>>

-----------------------------------------------------------------------------
(* The files of results, and the tool cdf.                                 *)

\* LibStarsStatistics and AvailabilityStatistics write a line.
WriteRow(f, row) ==
  /\ OnlyResults /\ cdfs = {}
  /\ FoldFunction(LAMBDA a, b : Len(a) + b, 0, results) < MaxRows
  /\ results' = [results EXCEPT ![f] = Append(@, row)]
  /\ UNCHANGED <<partialStats, totalStats, spans, partials, saved, cdfs, generator, drawn>>

\* The fields of each file that become a distribution, as in readAppsFile,
\* readRequestsFile, readCPUFile and readAvailFile.
Fields(f) == CASE f = "apps" -> {9, 10, 11} [] f = "requests" -> {4, 7}
               [] f = "cpu" -> {1} [] f = "availability" -> {0, 1}

\* readFile: the values of a field, line by line.
ReadField(f, field) == [j \in DOMAIN results[f] |-> results[f][j][field]]

\* getResolution, as a quotient.
Extent(v) == Max(ToSet(v)) - Min(ToSet(v))

\* getHistograms; a value is there as many times as it is repeated.
HistogramOf(v, spread) == FoldLeft(AddValue, Histogram(spread, NumSamples), v)

Distribution(v, spread) == [of |-> v, spread |-> spread, points |-> LoadFrom(HistogramOf(v, spread))]

Repeated(values, times) ==
  FlattenSeq([j \in DOMAIN values |-> [i \in 1 .. times[j] |-> values[j]]])

\* readAppsFile: the lengths of the tasks that were accepted and of those that
\* were not, with the resolution of all of them.
TaskLengths(f) ==
  LET tasks == ReadField(f, 2)
      length == ReadField(f, 3)
      done == ReadField(f, 8)
  IN {Distribution(Repeated(length, done), Extent(length)),
      Distribution(Repeated(length, [j \in DOMAIN tasks |-> tasks[j] - done[j]]), Extent(length))}

\* main of cdf; a file without values gives nothing.
MakeCDFs ==
  /\ cdfs = {}
  /\ cdfs' = UNION {{Distribution(ReadField(f, x), Extent(ReadField(f, x))) : x \in Fields(f)}
                      \cup (IF f = "apps" THEN TaskLengths(f) ELSE {}) :
                    f \in {g \in DOMAIN results : results[g] # <<>>}}
  /\ cdfs' # {}
  /\ UNCHANGED <<partialStats, totalStats, spans, partials, saved, results, generator, drawn>>

-----------------------------------------------------------------------------
(* The applications of a case.                                             *)

\* RequestGenerator::RequestGenerator with a file: a description for each
\* line, as many times as the line says.
FromFile(frequencies) ==
  LET numbers == [i \in DOMAIN frequencies |-> i - 1]
      h == FoldLeft(AddValue, Histogram(1, 1), Repeated(numbers, frequencies))
  IN [size |-> Len(frequencies), unit |-> Max({h.samples, 1}), points |-> LoadFrom(h)]

\* And with lists of lengths, sizes and deadlines: all of their combinations,
\* and a last point after them.
FromLists(lengths, sizes, deadlines) ==
  LET n == Len(lengths) * Len(sizes) * Len(deadlines)
      Point(c, i) == AddPoint(c, i - 1, i)
  IN [size |-> n, unit |-> n,
      points |-> AddPoint(FoldLeft(Point, <<>>, [i \in 1 .. n |-> i]), n, n)]

\* RequestGenerator::createUniformCDF, of a list in ascending order: the last
\* value is there twice.  As a generator its descriptions are memory sizes.
UniformCDF(v) ==
  LET n == Len(v)
      Point(c, i) == AddPoint(c, v[i], i)
  IN [size |-> 1 + Last(v), unit |-> n,
      points |-> IF n = 1 THEN AddPoint(<<>>, v[1], 1)
                 ELSE AddPoint(FoldLeft(Point, <<>>, [i \in 1 .. n |-> i]), Last(v), n)]

GeneratorOf(g) ==
  CASE g.kind = "file" -> FromFile(g.frequencies)
    [] g.kind = "lists" -> FromLists(g.lengths, g.sizes, g.deadlines)
    [] g.kind = "values" -> UniformCDF(g.values)

\* The points in units of which uniform01() is a whole number.
Fine(points) == [i \in DOMAIN points |-> [points[i] EXCEPT !.prob = @ * Precision]]

\* The draws of RequestGenerator::generate.
Draw(u) ==
  /\ generator.size > 0
  /\ LET x == InverseOf(Fine(generator.points), u * generator.unit) IN
     drawn' = x.num \div x.den
  /\ UNCHANGED <<partialStats, totalStats, spans, partials, saved, results, cdfs, generator>>

-----------------------------------------------------------------------------
StatisticsStart(g, done) ==
  /\ partialStats = [e \in EventNames |-> NoStats] /\ totalStats = partialStats
  /\ spans = NoSpans /\ partials = 0 /\ saved = done
  /\ results = NoResults /\ cdfs = {} /\ generator = g /\ drawn = NoDescription

StatisticsInit ==
  \/ StatisticsStart(NoGenerator, FALSE)
  \/ \E g \in Generators : StatisticsStart(GeneratorOf(g), FALSE)

\* Nothing to do.
StatisticsIdle == StatisticsStart(NoGenerator, TRUE)

StatisticsNext ==
  \/ \E e \in EventNames, d \in Spans : TimeEvent(e, d)
  \/ SavePartialStatistics
  \/ SaveTotalStatistics
  \/ \E f \in DOMAIN ResultRows : \E row \in ResultRows[f] : WriteRow(f, row)
  \/ MakeCDFs
  \/ \E u \in 0 .. Precision - 1 : Draw(u)

-----------------------------------------------------------------------------
(* The properties.                                                         *)

\* The quantile that a distribution tells for each of its samples is not above
\* the sample and at most two bins below it, also when the distribution is
\* read from the file that cdf wrote (Distributions.cpp:26, 69, 107, 126).
\* With a single value the resolution is 0 and the distribution is of zeros.
QuantilesAreKept ==
  \A c \in cdfs :
    LET sorted == SortSeq(c.of, <) IN
    \A k \in DOMAIN sorted :
      LET q == InverseOf(LoadFromFile(c.points), k) IN
      /\ q = InverseOf(c.points, k)
      /\ c.spread > 0 =>
           /\ q.num * c.spread <= sorted[k] * NumSamples * q.den
           /\ sorted[k] * NumSamples * q.den < (q.num + 2 * q.den) * c.spread

\* A simulation that ends says how many events there were, how long the
\* longest one took, and all of them; and the shortest one, as long as no
\* partial statistics were saved (PerformanceStatistics.cpp:38, 86).
TotalsAreRight ==
  saved =>
    \A e \in EventNames :
      LET t == totalStats[e] IN
      /\ t.numEvents = Len(spans[e])
      /\ t.handleTime = FoldLeft(+, 0, spans[e])
      /\ spans[e] # <<>> => t.maxDuration = Max(ToSet(spans[e]))
      /\ spans[e] # <<>> /\ partials = 0 => t.minDuration = Min(ToSet(spans[e]))

\* Whatever number is drawn, there is a description for it, or it is a memory
\* size between the ones that were given (RequestGenerator.cpp:83, 115).
DrawsExist == drawn # NoDescription => drawn \in 0 .. generator.size - 1

\* What is measured, drawn and written about is what there was.
StatisticsAreFaithful == QuantilesAreKept /\ TotalsAreRight /\ DrawsExist

=============================================================================
