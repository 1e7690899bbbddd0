---------------------------- MODULE OrderedStream ----------------------------
(***************************************************************************)
(* What an ordered reliable stream promises its user: the packets come out *)
(* in the order they were put in, each at most once, none skipped.         *)
(***************************************************************************)
EXTENDS Naturals, Sequences

CONSTANT Packets

VARIABLES input,  \* packets in the order the stream took them
          output  \* packets handed to the receiving handlers

Init == input = <<>> /\ output = <<>>

Submit(p) == input' = Append(input, p) /\ UNCHANGED output

Deliver ==
  /\ Len(output) < Len(input)
  /\ output' = Append(output, input[Len(output) + 1])
  /\ UNCHANGED input

Next == Deliver \/ \E p \in Packets : Submit(p)

Spec == Init /\ [][Next]_<<input, output>>
=============================================================================
