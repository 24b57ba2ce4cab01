---------------------------- MODULE ImportLedger ----------------------------
(* What the controlled import promises its clients, without locks, files,     *)
(* receipts or restarts: every accepted import has one outcome, it adds its    *)
(* contents to the target at one instant or never, and no content is added to  *)
(* the same target twice.                                                      *)
CONSTANTS Import, Table, Content

VARIABLES
  outcome,    \* [Import -> {"none", "pending", "succeeded", "failed"}]
  registered  \* the contents added: {[import, table, content]}

Init ==
  /\ outcome = [i \in Import |-> "none"]
  /\ registered = {}

Accept(i) ==
  /\ outcome[i] = "none"
  /\ outcome' = [outcome EXCEPT ![i] = "pending"]
  /\ UNCHANGED registered

Added(i) == {e \in registered : e.import = i}

Register(i, t, contents) ==
  /\ outcome[i] = "pending" /\ Added(i) = {}
  /\ contents # {}
  /\ \A e \in registered : e.table = t => e.content \notin contents
  /\ registered' = registered \cup
       {[import |-> i, table |-> t, content |-> x] : x \in contents}
  /\ UNCHANGED outcome

Settle(i) ==
  /\ outcome[i] = "pending"
  /\ outcome' = [outcome EXCEPT ![i] = IF Added(i) = {} THEN "failed" ELSE "succeeded"]
  /\ UNCHANGED registered

Next ==
  \E i \in Import :
    \/ Accept(i) \/ Settle(i)
    \/ \E t \in Table, contents \in SUBSET Content : Register(i, t, contents)

Spec == Init /\ [][Next]_<<outcome, registered>>
=============================================================================
