------------------------------ MODULE MCPayout ------------------------------
(* Payout with few items and workers. *)
EXTENDS Payout, TLC

CONSTANTS i1, i2, i3, w1, w2

Symmetry == Permutations(Items \ Unbanked) \cup Permutations(Workers)

\* Lost answers and errors meet two overlapping retries, killed workers and holds meet
\* any retry: together they are too much for TLC.
OverlapFaults == {"error", "network"}
MCFaultSets == {{"crash", "hold", "retry"}, OverlapFaults}

\* The states Init reaches when the first pass pays one item, is refused the other and
\* commits, the transfer is processed and two retries are asked for: two workers may now
\* try the item together.
OverlapInit ==
  /\ batch = "payout_in_progress"
  /\ \E paid \in Items :
       /\ item = [i \in Items |-> [status |-> IF i = paid THEN "pending" ELSE "failed",
                                   attempts |-> 1]]
       /\ payout = [i \in Items |-> IF i = paid THEN [ref |-> 1, status |-> "queued"]
                                              ELSE NoPayout]
       /\ ledger = [i \in Items |-> IF i = paid THEN <<"processed">> ELSE <<>>]
  /\ heard = {}
  /\ published = {"payout_in_progress"}
  /\ tasks = [k \in Kinds |-> IF k = "process" THEN 0 ELSE 2]
  /\ slot = TRUE
  /\ pass = [w \in Workers |-> Idle]
  /\ faults = OverlapFaults

FirstInit == Init /\ faults # OverlapFaults

MCSpec == (FirstInit \/ OverlapInit) /\ [][Next]_vars
=============================================================================
