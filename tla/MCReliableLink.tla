--------------------------- MODULE MCReliableLink ---------------------------
(***************************************************************************)
(* Small instances of ReliableLink for TLC.                                *)
(***************************************************************************)
EXTENDS ReliableLink

\* Packets are interchangeable: sound for the runs without liveness properties.
PacketSymmetry == Permutations(Packets)

\* Transmitting threads are interchangeable too.
ThreadSymmetry == PacketSymmetry \cup Permutations(Threads)
=============================================================================
