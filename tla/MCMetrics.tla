----------------------------- MODULE MCMetrics -----------------------------
(***************************************************************************)
(* One writer with 41 rows, whose times are a permutation, so that p95 is  *)
(* the maximum, the second and the third largest in turn; one writer with  *)
(* every sequence of up to three rows of the kinds below, which lack what  *)
(* a row can lack; and two writers on the same file.                       *)
(***************************************************************************)
EXTENDS Metrics

Row(labels, decision, observed, modeled, critical_path, bytes) ==
    [labels |-> labels, decision |-> decision, observed |-> observed, modeled |-> modeled,
     critical_path |-> critical_path, payload_bytes |-> bytes, verified |-> decision # "local_hit"]

Full(n) == Row("l", "recompute", n, n, None, 1)
Kinds ==
    {Full(3), Row("l", "local_hit", 1, 2, 2, 0), Row("l", "recompute", 2, None, 1, 1),
     Row("l", "recompute", 2, 1, None, None), Row(None, "recompute", 1, 1, 1, None),
     Row("l", "recompute", None, 1, 1, 1)}

Long == [n \in 1..41 |-> Full((7 * n) % 41)]
Two == [n \in 1..2 |-> Full(n)]

MCScripts ==
    {[w1 |-> s, w2 |-> <<>>] : s \in BoundedSeq(Kinds, 3) \cup {Long}}
        \cup {[w1 |-> Two, w2 |-> Reverse(Two)]}
\* Ordered is what TLC sorts.
ASSUME OrderedSorts == \A s \in BoundedSeq(1..3, 4) \cup {Column(Long, "observed")} :
                          Ordered(s) = SortSeq(s, <)
============================================================================
