---------------------------- MODULE MCPublisher -----------------------------
(* A pool of two threads and two buffers; the clients produce three batches. *)
EXTENDS Publisher, TLC
=============================================================================
