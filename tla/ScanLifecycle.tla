---------------------------- MODULE ScanLifecycle ----------------------------
(***************************************************************************)
(* What a scan promises whoever looks at it from outside: it is created,   *)
(* queued for a worker, and then reported completed or failed, never       *)
(* before it was queued and never pending again.  A batch that is          *)
(* delivered twice may be reported twice, and the last report counts.      *)
(* Its owner may delete it at any point, and it never comes back.          *)
(***************************************************************************)
CONSTANT Dispatches

VARIABLE scan

Outcomes == {"completed", "failed"}
States == {"none", "created", "queued", "deleted"} \cup Outcomes

Init == scan = [d \in Dispatches |-> "none"]

Create(d) ==
  /\ scan[d] = "none"
  /\ scan' = [scan EXCEPT ![d] = "created"]

Enqueue(d) ==
  /\ scan[d] = "created"
  /\ scan' = [scan EXCEPT ![d] = "queued"]

Report(d, outcome) ==
  /\ scan[d] \in {"queued"} \cup Outcomes
  /\ scan' = [scan EXCEPT ![d] = outcome]

Delete(d) ==
  /\ scan[d] \in {"created", "queued"} \cup Outcomes
  /\ scan' = [scan EXCEPT ![d] = "deleted"]

Next == \E d \in Dispatches :
  \/ Create(d)
  \/ Enqueue(d)
  \/ \E outcome \in Outcomes : Report(d, outcome)
  \/ Delete(d)

Spec == Init /\ [][Next]_scan
=============================================================================
