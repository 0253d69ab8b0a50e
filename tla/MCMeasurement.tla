--------------------------- MODULE MCMeasurement ---------------------------
EXTENDS Measurement

Command(times, output, codes, rss, holds) ==
    [found |-> TRUE, times |-> times, output |-> output, codes |-> codes,
     rss |-> rss, holds |-> holds]

quick == Command({1, 2}, 1, {0}, 1, 0)
heavy == Command({2, 3}, 0, {0}, 3, 0)
flaky == Command({1}, 1, {0, 1}, 1, 0)
chatty == Command({1}, 3, {0}, 2, 0)
leaves == Command({1, 4}, 1, {0}, 1, 2)
steady == Command({3}, 0, {0}, 1, 0)
late == Command({3, 5}, 0, {0}, 1, 0)
missing == [quick EXCEPT !.found = FALSE]

Plain == [warmup |-> 1, repeat |-> 2, allow_nonzero |-> FALSE, timeout |-> 0,
          require_significance |-> FALSE, min_samples |-> 3, max_retries |-> 0,
          cv_threshold |-> -1, fail_on |-> -1, upload |-> FALSE]

RunRequests ==
    {[Plain EXCEPT !.timeout = t, !.allow_nonzero = a, !.upload = u] @@ [commands |-> <<c>>] :
       t \in {0, 4}, a \in BOOLEAN, u \in BOOLEAN,
       c \in {quick, heavy, flaky, chatty, leaves, late, missing}}
      \cup {[Plain EXCEPT !.repeat = 0] @@ [commands |-> <<quick>>]}

PairedRequests ==
    {[Plain EXCEPT !.timeout = t, !.warmup = 0, !.repeat = 1, !.require_significance = s,
                   !.max_retries = IF s THEN n ELSE 0, !.min_samples = n + 1,
                   !.cv_threshold = v, !.fail_on = f] @@ [commands |-> cs] :
       t \in {0, 4}, s \in BOOLEAN, n \in {1, 2}, v \in {-1, 30}, f \in {-1, 20},
       cs \in {<<steady, quick>>, <<quick, heavy>>, <<heavy, flaky>>, <<heavy, steady>>}}

AllRequests == RunRequests \cup PairedRequests
=============================================================================
