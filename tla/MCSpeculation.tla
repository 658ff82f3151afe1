--------------------------- MODULE MCSpeculation ----------------------------
EXTENDS Speculation

(* A context that removes any positions, one that only removes all of them *)
(* and one with recurrent states, which rolls back a bounded distance.     *)
Part == [SeqRm |-> "PART", NMax |-> 3, NRs |-> 0]
Full == [SeqRm |-> "FULL", NMax |-> 2, NRs |-> 0]
Rs   == [SeqRm |-> "RS", NMax |-> 3, NRs |-> 1]

AllSetups == {Part, Full, Rs}
=============================================================================
