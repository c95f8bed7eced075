------------------------------- MODULE MCPanel -------------------------------
(* Small instances of Panel for TLC.                                       *)
EXTENDS Panel, TLC

CONSTANTS c1, c2, c3, n1, n2

\* One live client and one disabled client; c3 is the UUID of a new one.
OneLive   == [clients |-> <<[id |-> c1, name |-> n1]>>, reality |-> "good"]
OneStored == <<[id |-> c2, name |-> n2]>>

\* Requests are interchangeable: each may ask for anything.
Interchangeable == Permutations(Req)

=============================================================================
