------------------------- MODULE MCDecisionEvaluate -------------------------
EXTENDS DecisionEvaluate

Four == <<[weight |-> 1, probes |-> "inputs"], [weight |-> 2, probes |-> "inputs"],
          [weight |-> 1, probes |-> "compare"], [weight |-> 1, probes |-> "none"]>>

D(b, c, cv) == [baseline |-> b, current |-> c, cv |-> cv]
Requires(m, p, n) == [metric |-> m, probe |-> p, min |-> n]
Allows(m, p, n) == [metric |-> m, probe |-> p, max |-> n]

(* Compare receipts: rss fails, or only just passes; wall improves or not, *)
(* is missing, or is noisy.                                                *)
fastHeavy == [rss |-> D(10, 16, 2), wall |-> D(10, 6, 2)]
noisyFast == [rss |-> D(4, 6, 2), wall |-> D(10, 6, 30)]
Heavier == {fastHeavy,
            [rss |-> D(10, 16, 2), wall |-> D(10, 10, 30)],
            [rss |-> D(10, 12, 2)],
            noisyFast}

(* A rate that was nothing in one scenario and stayed the same in another. *)
newRate == [rss |-> D(10, 16, 2), rate |-> D(0, 30, 2)]
steadyRate == [rss |-> D(10, 16, 2), rate |-> D(10, 10, 2)]

Probe(name, v) == [name |-> name, metrics |-> [wall |-> v, rate |-> 3]]
BaseProbes == <<Probe("p", 4)>>
CurProbes == {<<Probe("p", 2), Probe("p", 4)>>, <<Probe("p", 6)>>, <<Probe("q", 4)>>, <<>>}

OtherProbes == {<<Probe("p", 3)>>, <<Probe("q", 0)>>}

(* The third scenario's probes are compared by another command, or not     *)
(* yet; the last two benchmarks measure what no rule is about.             *)
other == [disk |-> D(10, 10, 2)]
elsewhere == <<Probe("p", 3)>>
Ev(a, b, p, q, done) ==
    [compares |-> <<a, b, other, other>>,
     base |-> <<BaseProbes, BaseProbes, BaseProbes, <<>> >>,
     cur |-> <<p, q, elsewhere, <<>> >>,
     probed |-> <<FALSE, FALSE, done, FALSE>>]
halved == <<Probe("p", 2), Probe("p", 4)>>
SomeEvidence ==
    {Ev(a, fastHeavy, p, q, FALSE) : a \in Heavier, p \in CurProbes, q \in OtherProbes}
      \cup {Ev(fastHeavy, b, halved, q, FALSE) : b \in Heavier, q \in OtherProbes}
      \cup {Ev(noisyFast, noisyFast, <<Probe("q", 4)>>, q, FALSE) : q \in OtherProbes}
      \cup {Ev(newRate, steadyRate, <<Probe("q", 4)>>, <<Probe("p", 3)>>, TRUE)}
      \cup {Ev(a, fastHeavy, p, <<Probe("q", 0)>>, TRUE) : a \in Heavier, p \in {halved, <<>>}}

Rule(m, req, alw, to) == [if_failed |-> m, require |-> req, allow |-> alw, downgrade_to |-> to]

onWall == Rule("rss", {Requires("wall", "", 120)}, {}, "pass")
onProbe == Rule("rss", {Requires("wall", "p", 110)}, {Allows("wall", "q", 5)}, "warn")
capped == Rule("rss", {Requires("wall", "", 110)}, {Allows("wall", "p", 20)}, "warn")
onRate == Rule("wall", {Requires("rate", "p", 100)}, {}, "warn")
onTotalRate == Rule("rss", {Requires("rate", "", 150)}, {}, "pass")

Policies == {[low_noise |-> FALSE, max_cv |-> 10, missing |-> "needs_review"],
             [low_noise |-> TRUE, max_cv |-> 10, missing |-> "needs_review"],
             [low_noise |-> TRUE, max_cv |-> 10, missing |-> "accept"]}

SomeConfigs ==
    {[rules |-> r, policy |-> p, defaults |-> [threshold |-> 20, warn |-> 18]] :
       r \in {<<onWall, onProbe, capped>>, <<capped, onTotalRate, onRate>>, <<onProbe, onRate>>, <<onWall>>, <<>>},
       p \in Policies}

(* The first run meets all the evidence; what the benchmarks leave later   *)
(* is there to be mixed with it, and a few kinds of it are enough.         *)
LaterEvidence ==
    {Ev(noisyFast, fastHeavy, halved, <<Probe("p", 3)>>, FALSE),
     Ev(fastHeavy, fastHeavy, <<Probe("q", 4)>>, <<Probe("q", 0)>>, FALSE),
     Ev(fastHeavy, fastHeavy, halved, <<Probe("q", 0)>>, TRUE),
     Ev(fastHeavy, fastHeavy, <<>>, <<Probe("q", 0)>>, TRUE)}

TwoRuns ==
    EvaluateInit
      /\ [][EvaluateNext /\ (evidence' # evidence => evidence' \in LaterEvidence)]_evaluateVars
=============================================================================
