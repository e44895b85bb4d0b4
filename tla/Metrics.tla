------------------------------ MODULE Metrics ------------------------------
(***************************************************************************)
(* metrics/core.py: JsonlMetricWriter and summarize_result_file, on one    *)
(* result file.  Benchmarks that are given the same --output (it has a     *)
(* default) open the same file; each writes at its own offset.  Anyone may *)
(* summarize the file at any time.                                         *)
(*                                                                         *)
(* A row is a record with None for a field it lacks.  Of the required      *)
(* fields, the ones nothing is computed from are one, "labels".  Rows have *)
(* one length and reach the file in one write each.  (write on a writer    *)
(* that is not open raises RuntimeError and does nothing else.)            *)
(***************************************************************************)
EXTENDS Integers, FiniteSets, SequencesExt

CONSTANTS
    Writers,
    Scripts,    \* [Writers -> sequences of rows]: what the writers are to write
    None

\* The rows the writers may be given.
Rows == UNION {Range(s[w]) : s \in Scripts, w \in Writers}

\* Times are whole numbers of a unit that is small enough.
ASSUME ScriptAssumption ==
    /\ Scripts \subseteq [Writers -> Seq(Rows)]
    /\ None \notin Rows /\ None \notin Writers /\ None \notin Int
    /\ \A row \in Rows : {row.observed, row.modeled, row.critical_path} \subseteq Int \cup {None}

VARIABLES
    script,     \* script[w]: the rows w still has to write
    output,     \* output[w]: "fresh", "open", "closed" or "killed"
    offset,     \* offset[w]: rows from the file's start to where w writes next
    buffer,     \* buffer[w]: the rows in w's buffer
    file,       \* the rows of the file, None where no write has filled it; None if
                \* there is no file
    summary,    \* the outcome of the latest summarize_result_file
    accepted,   \* history: accepted[w]: the rows for which write returned
    latest,     \* history: the writer that has opened the file last
    clash       \* history: it has been opened while another writer had it open

history == <<latest, clash>>
vars == <<script, output, offset, buffer, file, summary, accepted, history>>

NoSummary == [kind |-> "none"]

Init ==
    /\ script \in Scripts
    /\ output = [w \in Writers |-> "fresh"]
    /\ offset = [w \in Writers |-> 0]
    /\ buffer = [w \in Writers |-> <<>>]
    /\ file = None
    /\ summary = NoSummary
    /\ accepted = [w \in Writers |-> <<>>]
    /\ latest = None
    /\ clash = FALSE

(***************************************************************************)
(* JsonlMetricWriter.                                                      *)
(***************************************************************************)
\* open(path, "w"): an existing file is emptied.
__enter__(w) ==
    /\ output[w] = "fresh"
    /\ output' = [output EXCEPT ![w] = "open"]
    /\ file' = <<>>
    /\ latest' = w
    /\ clash' = (clash \/ \E v \in Writers : output[v] = "open")
    /\ UNCHANGED <<script, offset, buffer, summary, accepted>>

missing(row) == \E field \in {"labels", "decision", "observed", "verified"} : row[field] = None

\* Where w's buffered rows end up: over what others have written there, and
\* past the end after a hole.
Flushed(w, rows) ==
    [j \in 1 .. Max({Len(file), offset[w] + Len(rows)}) |->
        IF j \in offset[w] + 1 .. offset[w] + Len(rows) THEN rows[j - offset[w]]
        ELSE IF j <= Len(file) THEN file[j] ELSE None]

Flush(w, rows) ==
    /\ file' = Flushed(w, rows)
    /\ offset' = [offset EXCEPT ![w] = @ + Len(rows)]
    /\ buffer' = [buffer EXCEPT ![w] = <<>>]

Accept(w) ==
    /\ output[w] = "open" /\ script[w] # <<>> /\ ~missing(Head(script[w]))
    /\ accepted' = [accepted EXCEPT ![w] = Append(@, Head(script[w]))]
    /\ script' = [script EXCEPT ![w] = Tail(@)]
    /\ UNCHANGED <<output, summary, history>>

\* Faulty variant: no flush after the write.
WriteBuffered(w) ==
    /\ Accept(w)
    /\ buffer' = [buffer EXCEPT ![w] = Append(@, Head(script[w]))]
    /\ UNCHANGED <<file, offset>>

Write(w) == Accept(w) /\ Flush(w, Append(buffer[w], Head(script[w])))

\* ValueError, which leaves the with-block: __exit__ closes the file.
WriteRaises(w) ==
    /\ output[w] = "open" /\ script[w] # <<>> /\ missing(Head(script[w]))
    /\ Flush(w, buffer[w])
    /\ output' = [output EXCEPT ![w] = "closed"]
    /\ UNCHANGED <<script, summary, accepted, history>>

\* The rows are written, or the benchmark has raised between two of them.
__exit__(w) ==
    /\ output[w] = "open"
    /\ Flush(w, buffer[w])
    /\ output' = [output EXCEPT ![w] = "closed"]
    /\ UNCHANGED <<script, summary, accepted, history>>

\* The process dies: what it has not flushed is gone.
Killed(w) ==
    /\ output[w] = "open"
    /\ output' = [output EXCEPT ![w] = "killed"]
    /\ buffer' = [buffer EXCEPT ![w] = <<>>]
    /\ UNCHANGED <<script, offset, file, summary, accepted, history>>

(***************************************************************************)
(* summarize_result_file.                                                  *)
(***************************************************************************)
\* How many of the values come no later than the i-th in a stable sort.
Rank(values, i) ==
    Cardinality({j \in 1..Len(values) :
                    values[j] < values[i] \/ (values[j] = values[i] /\ j <= i)})

\* sorted(values)
Ordered(values) ==
    [r \in 1..Len(values) |-> values[CHOOSE i \in 1..Len(values) : Rank(values, i) = r]]

\* Faulty variant: the fraction of the length is rounded down.
PercentileFloor(values, num, den) == Ordered(values)[Max({1, (num * Len(values)) \div den})]

\* percentile, with the fraction num/den.
percentile(values, num, den) == Ordered(values)[(num * Len(values) + den - 1) \div den]

\* Twice statistics.median, and the other statistics (mean is sum by number).
timing_summary(values) ==
    LET n == Len(values)
        ordered == Ordered(values)
    IN  [median2 |-> ordered[(n + 1) \div 2] + ordered[n \div 2 + 1],
         p95 |-> percentile(values, 19, 20),
         sum |-> FoldLeft(LAMBDA a, b : a + b, 0, values)]

Column(rows, field) == [j \in 1..Len(rows) |-> rows[j][field]]

\* Faulty variant: a zero counts as missing.
HasColumnTruthy(rows, field) == Range(Column(rows, field)) \cap {None, 0} = {}

HasColumn(rows, field) == None \notin Range(Column(rows, field))

modeled_summary(rows) ==
    LET modeled_key == IF HasColumn(rows, "modeled") THEN "modeled" ELSE "critical_path"
    IN  IF HasColumn(rows, modeled_key) THEN timing_summary(Column(rows, modeled_key)) ELSE None

Summary(rows) ==
    [kind |-> "summary",
     samples |-> Len(rows),
     decisions |-> [d \in Range(Column(rows, "decision")) |->
                        Cardinality({j \in 1..Len(rows) : rows[j].decision = d})],
     all_verified |-> \A j \in 1..Len(rows) : rows[j].verified,
     payload_bytes |-> Max(Range(Column(rows, "payload_bytes"))),
     observed |-> IF HasColumn(rows, "observed")
                  THEN timing_summary(Column(rows, "observed")) ELSE None,
     modeled |-> modeled_summary(rows)]

Fails(error) == [kind |-> error]

summarize_result_file ==
    /\ summary' =
        IF file = None THEN Fails("FileNotFoundError")
        ELSE IF None \in Range(file) THEN Fails("JSONDecodeError")
        ELSE IF file = <<>> THEN Fails("no samples")
        ELSE IF ~HasColumn(file, "payload_bytes") THEN Fails("KeyError")
        ELSE Summary(file)
    /\ UNCHANGED <<script, output, offset, buffer, file, accepted, history>>

Next ==
    \/ \E w \in Writers :
        __enter__(w) \/ Write(w) \/ WriteRaises(w) \/ __exit__(w) \/ Killed(w)
    \/ summarize_result_file

Spec == Init /\ [][Next]_vars

---------------------------------------------------------------------------
(***************************************************************************)
(* Properties.                                                             *)
(***************************************************************************)
\* A row is in the file from the moment write returns, and no other row is,
\* unless two writers had it open at once: a reader sees a benchmark's
\* progress, and a benchmark that is killed leaves all it has measured.
RowsAreOnFile == latest # None /\ ~clash => file = accepted[latest]

\* Summarizing a file, at any moment of its writer's run, fails only if there
\* is no row yet or if a row has no payload_bytes, which write does not
\* require.
OneWriterIsReadable ==
    ~clash =>
        /\ summary.kind # "JSONDecodeError"
        /\ summary.kind = "KeyError" =>
            \E w \in Writers : \E row \in Range(accepted[w]) : row.payload_bytes = None

\* The nearest-rank percentile by its definition: the least of the values
\* that is no less than the given share of them.
NearestRank(values, num, den) ==
    LET Covers(v) ==
            den * Cardinality({j \in 1..Len(values) : values[j] <= v}) >= num * Len(values)
    IN  Min({v \in Range(values) : Covers(v)})

\* The statistics of one column: the nearest rank for p95, and half of the
\* rows on either side of the median.
Matches(timing, rows, field) ==
    LET values == Column(rows, field)
        below == {j \in 1..Len(values) : 2 * values[j] < timing.median2}
        above == {j \in 1..Len(values) : 2 * values[j] > timing.median2}
    IN  /\ HasColumn(rows, field)
        /\ timing.p95 = NearestRank(values, 19, 20)
        /\ \A half \in {below, above} : 2 * Cardinality(half) <= Len(values)

\* A summary is that of a prefix of what one writer has written: its times
\* have the statistics of their column, its decisions add up to its samples,
\* and the "modeled" times are all of one kind.
SummaryIsExact ==
    ~clash /\ summary.kind = "summary" =>
        \E w \in Writers :
            LET rows == SubSeq(accepted[w], 1, summary.samples)
            IN  /\ summary.samples <= Len(accepted[w])
                /\ FoldFunction(LAMBDA a, b : a + b, 0, summary.decisions) = summary.samples
                /\ Matches(summary.observed, rows, "observed")
                /\ summary.modeled # None =>
                    \/ Matches(summary.modeled, rows, "modeled")
                    \/ Matches(summary.modeled, rows, "critical_path")
============================================================================
