------------------------------- MODULE MCUpkeep -------------------------------
(***************************************************************************)
(* `promote --ratchet` and `aggregate` share no file: each is explored     *)
(* while the other rests in a fixed state.                                 *)
(***************************************************************************)
EXTENDS Promotion, Aggregate

Own(v) == [v |-> v, form |-> "float"]
OwnInt(v) == [v |-> v, form |-> "integer"]
OwnInline(v) == [v |-> v, form |-> "inline"]

Cautious == [enabled |-> TRUE, min |-> 5, max |-> 25, significance |-> TRUE, allowed |-> TRUE]

Config(default, own, listed) ==
  [default |-> default, own |-> own, listed |-> listed, policy |-> Cautious]

MCConfigs ==
  {Config(40, None, TRUE), Config(40, Own(32), TRUE), Config(16, None, TRUE),
   Config(40, OwnInt(0), TRUE), Config(40, OwnInline(16), TRUE), Config(40, Own(40), FALSE),
   [Config(40, None, TRUE) EXCEPT !.policy.enabled = FALSE],
   [Config(40, None, TRUE) EXCEPT !.policy.allowed = FALSE]}

Change(pct, direction, others) ==
  [pct |-> pct, direction |-> direction, others |-> others, noisy |-> FALSE, significant |-> TRUE]

MCChanges ==
  {Change(-50, "lower", "pass"), Change(-10, "lower", "pass"), Change(120, "higher", "pass"),
   Change(-50, "lower", "fail"), Change(50, "lower", "pass"), Change(-2, "lower", "pass"),
   [Change(-50, "lower", "pass") EXCEPT !.noisy = TRUE],
   [Change(-50, "lower", "pass") EXCEPT !.significant = FALSE]}

Receipt(id, label, bad, walls) ==
  [id |-> id, bench |-> "bench", label |-> label, bad |-> bad, cold |-> (id = 2), walls |-> walls]

Walls == {<<5>>, <<4, 4>>, <<4, 6>>, <<1, 9>>}

MCFleets ==
  {<<>>, <<Receipt(1, "linux", FALSE, <<>>)>>,
   <<Receipt(1, "linux", FALSE, <<5>>), Receipt(1, "linux", FALSE, <<5>>)>>,
   <<Receipt(1, "linux", FALSE, <<5>>), [Receipt(2, "linux", FALSE, <<5>>) EXCEPT !.bench = "other"]>>}
    \cup {<<Receipt(1, "linux", a, v)>> : a \in BOOLEAN, v \in Walls}
    \cup {<<Receipt(1, "linux", a, v), Receipt(2, "mac", b, w), Receipt(3, "linux", c, <<4, 6>>)>> :
            a \in BOOLEAN, b \in BOOLEAN, c \in BOOLEAN, v \in Walls, w \in Walls}

NoOptions == [policy |-> "all", mode |-> "configured", quorum |-> Unset, n |-> Unset, m |-> Unset,
              floor |-> Unset, weights |-> [none |-> 0]]

MCRequests ==
  {[NoOptions EXCEPT !.policy = p, !.quorum = q] : p \in Policies, q \in {Unset, 0, 34, 67, 101}}
    \cup {[NoOptions EXCEPT !.policy = "fail_if_n_of_m", !.n = n, !.m = m] :
            n \in {0, 1, 2}, m \in {Unset, 1, 2, 4}}
    \cup {[NoOptions EXCEPT !.policy = p, !.mode = d, !.floor = f, !.weights = w, !.quorum = q] :
            p \in {"weighted", "all"}, d \in {"configured", "inverse_variance"}, f \in {Unset, 8},
            w \in {[linux |-> 0, mac |-> 0], [linux |-> 1, mac |-> 3]}, q \in {Unset, 80}}

Resting == request = NoOptions /\ receipts = <<>> /\ outcome = Unset

UpkeepInit == (Init /\ Resting) \/ (Init /\ config = Config(40, None, TRUE) /\ AggregateInit)

UpkeepNext ==
  \/ Next /\ Resting /\ UNCHANGED aggregateVars
  \/ RunAggregate /\ compares = {} /\ config = Config(40, None, TRUE) /\ UNCHANGED vars

UpkeepSpec == UpkeepInit /\ [][UpkeepNext]_<<vars, aggregateVars>>
=============================================================================
