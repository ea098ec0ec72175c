--------------------------- MODULE SampleDelivery ---------------------------
(***************************************************************************)
(* What the 4G uplink promises about the samples the collector produces,   *)
(* with no cache, batches or connection: every sample waits until one      *)
(* report covers it, and that report settles all waiting samples up to a   *)
(* point, each as sent or as counted lost.  A settled sample never changes *)
(* again and no sample is passed over.                                     *)
(***************************************************************************)
EXTENDS Naturals

VARIABLES
  collected,    (* number of samples produced so far                       *)
  fate          (* sequence number -> what became of the sample            *)

Fate == {"waiting", "sent", "lost"}

Init == collected = 0 /\ fate = [q \in 1..0 |-> "waiting"]

Collect ==
  /\ collected' = collected + 1
  /\ fate' = [q \in 1..(collected + 1) |->
                IF q <= collected THEN fate[q] ELSE "waiting"]

(* One report settles everything that waits up to sample n.                *)
Settle ==
  /\ \E n \in 1..collected :
        /\ fate[n] = "waiting"
        /\ \E sent \in SUBSET {q \in 1..n : fate[q] = "waiting"} :
              fate' = [q \in 1..collected |->
                         IF q <= n /\ fate[q] = "waiting"
                         THEN IF q \in sent THEN "sent" ELSE "lost"
                         ELSE fate[q]]
  /\ UNCHANGED collected

Next == Collect \/ Settle

Spec == Init /\ [][Next]_<<collected, fate>>
=============================================================================
