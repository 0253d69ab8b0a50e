------------------------- MODULE MCArtifactBaselines -------------------------
(***************************************************************************)
(* Three calls: one creates, one creates or deletes, and the third does    *)
(* anything, so that a reader meets two writes: a receipt overwritten      *)
(* between its SELECT and its load, a list of two rows.  Which version and *)
(* receipt the first call names is no loss: names are interchangeable.     *)
(***************************************************************************)
EXTENDS ArtifactBaselines, TLC

CONSTANTS t1, t2, t3, v1, v2, a, b

Creating(v, rc) ==
  [op : {"create"}, version : {v}, receipt : {rc}, at : 0 .. MaxClock]
Asking(op) ==
  {c \in [op : {op}, version : Versions \cup {None}, receipt : {None}, at : {0}] : WellFormed(c)}

CallsOf ==
  (t1 :> Creating(v1, a)) @@
  (t2 :> Creating(v1, b) \cup Creating(v2, b) \cup Asking("delete")) @@
  (t3 :> Creating(v1, a) \cup Creating(v2, a) \cup Asking("delete")
           \cup Asking("get") \cup Asking("latest") \cup Asking("list"))

(* Between two steps no time passes, or more than a retention period; a    *)
(* cleanup pass that starts before there is anything to expire is left out.*)
Bounded ==
  /\ \A t \in Tasks : call'[t] # None => call'[t] \in CallsOf[t]
  /\ clock \in 1 .. MaxClock - 1 => clock' = clock + 1
  /\ clock < MaxClock => UNCHANGED sweep

ThreeCalls ==
  Init /\ [][Next /\ Bounded]_vars /\ \A t \in Tasks : WF_vars(Handle(t))
=============================================================================
