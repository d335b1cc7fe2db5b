--------------------------- MODULE MCSendCommand ---------------------------
(* Instances of SendCommand for TLC. *)
EXTENDS SendCommand

ZeroStack == {[i \in Places |-> 0]}

\* What is compared (places 5, 8 to 11 and 14) matches before anything is received, or not.
SomeStacks ==
  {[i \in Places |-> CASE i = 5 -> length
                       [] i = 14 -> status
                       [] i \in 8 .. 11 /\ matches -> Report(14)[i + 1]
                       [] OTHER -> 0] :
     length \in {0, 9, 18}, status \in {0, 254}, matches \in BOOLEAN}

=============================================================================
