------------------------------ MODULE MCDwangsom ------------------------------
EXTENDS Dwangsom, TLC

CONSTANTS c1, c2, p1, a, b

(* Notices are received on day 1, so that the calculation starts on day    *)
(* 15.  On day 30 it is in the second tier, on day 60 three days past the  *)
(* plafond: whoever asks then settles two tiers or all three in one go.    *)
MCDays == {0, 1, 30, 60}
Alike == Permutations(Calculations) \cup Permutations(Requests)

(* What goes wrong, goes wrong once.  From then on, and when there are two *)
(* calculations, requests follow each other, except for those that have    *)
(* begun at the same time.  A term with a calculation is not completed any *)
(* more: its status is read by a new notice only.  Who patches the term    *)
(* overlaps with notices and with others who do, not with handlers of a    *)
(* calculation, which never look at the term; and nobody does once there   *)
(* is a payout.  Those handlers run while the term is exceeded.            *)
MaxMishaps == 1
Busy == {r \in Requests : req[r] # Idle}
Bounds ==
  /\ Cardinality(mishaps) <= MaxMishaps
  /\ \A r \in Requests : req[r].op = "notice" => req[r].day = 1
  /\ Exists(c1) \/ Exists(c2) => term.status # "completed"
  /\ \A r \in Busy : req[r].calc # None => term.status = "exceeded"
  /\ \A r, q \in Busy :
       req[r].op \in Patching => /\ req[q].op \in Patching \cup {"notice"}
                                 /\ \A p \in Payouts : payouts[p] = NoPayout
  /\ \/ mishaps \subseteq {"raced", "overlap"} /\ ~(Exists(c1) /\ Exists(c2))
     \/ Cardinality(Busy) <= 1
===============================================================================
