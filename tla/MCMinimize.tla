----------------------------- MODULE MCMinimize -----------------------------
(***************************************************************************)
(* Model checking of Minimize: every input of up to five bytes over three  *)
(* symbols for afl-tmin, longer ones for the trimmer and such with magic   *)
(* numbers for afl-analyze, on targets that are sensitive to length, order *)
(* and contents.                                                           *)
(***************************************************************************)
EXTENDS Minimize

Alphabet == {0, 1, 2, 3, 200}
Count(s, sym) == Len(SelectSeq(s, LAMBDA c : c = sym))
Prefix(s, p) == Len(s) >= Len(p) /\ SubSeq(s, 1, Len(p)) = p
Before(s, a, b) == \E j, k \in DOMAIN s : j < k /\ s[j] = a /\ s[k] = b

O(kind, x, y) ==
  [timed_out |-> kind = "hang", crashed |-> kind = "crash",
   hits      |-> [b \in {"x", "y"} |-> IF b = "x" THEN x ELSE y]]

\* The targets, by name.
TargetOutcome(t, s) ==
  CASE t = "count"  -> O("ok", Count(s, 1), Len(s) \div 3)
    [] t = "order"  -> O(IF Before(s, 1, 2) THEN "crash" ELSE "ok", Count(s, 1), Count(s, 2))
       \* Each symbol is needed as long as the next one is there; '0' is no substitute.
    [] t = "chain"  -> O(IF Count(s, 3) > 1 THEN "hang" ELSE "ok", 1,
                         IF \/ Count(s, 2) > 0 /\ Count(s, 1) = 0
                            \/ Count(s, 3) > 0 /\ Count(s, 2) = 0
                            \/ Count(s, 0) > 0 THEN 1 ELSE 0)
       \* Crashes without a trace, or with one.
    [] t = "parity" -> O(IF Count(s, 2) % 2 = 1 THEN "crash" ELSE "ok", Len(s) % 2, 0)
       \* The longest prefix that is as expected, in steps.
    [] t = "magic"  -> O("ok", IF Prefix(s, <<2, 0>>) THEN 2 ELSE 1,
                         IF Prefix(s, <<1, 200>>) THEN 1
                         ELSE IF Prefix(s, <<200, 1, 2, 3>>) THEN 2
                         ELSE IF Prefix(s, <<3, 0, 3, 0, 3, 0>>) THEN 4 ELSE 0)
    [] t = "size"   -> O(IF Len(s) > 2 THEN "crash" ELSE "ok", Len(s), 200)

Targets == {"count", "order", "chain", "parity", "size"}
Data(symbols, lengths) == UNION {[1 .. n -> symbols] : n \in lengths}

Job(tool, t, d) ==
  [tool |-> tool, target |-> t, data |-> d, exact_mode |-> FALSE, edges_only |-> FALSE,
   mask |-> {}]
SomeJobs ==
  {Job("tmin", t, d) : t \in Targets,
                       d \in Data({1, 2}, 1 .. 5) \cup Data({0, 1, 2, 3}, {3, 4})}
    \cup {[Job("tmin", t, d) EXCEPT !.exact_mode = TRUE, !.edges_only = e, !.mask = m] :
            t \in Targets, d \in Data({1, 2}, {3, 4}), e \in BOOLEAN, m \in {{}, {"x"}}}
    \cup {Job("analyze", t, d) : t \in Targets \cup {"magic"},
                                d \in Data({1, 2}, {1, 3}) \cup Data({0, 3}, {6})
                                        \cup Data({0, 1, 2, 3, 200}, {4})}
    \cup {Job("trim", t, d) : t \in Targets, d \in Data({1, 2}, 4 .. 7)}

=============================================================================
