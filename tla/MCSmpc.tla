------------------------------- MODULE MCSmpc -------------------------------
(* The manager with four nibbles of output registers, and ports that report *)
(* two, four or six.                                                       *)
EXTENDS Smpc

MCLengths == {2, 4, 6}

\* What no step and no property reads before it is written: the cursors of a
\* wait the manager is not in, the answer of an INTBACK that is over, the
\* registers but for a packet that is announced or being written.
Reading  == pc \in {"cont", "vbend", "start", "port", "read", "write", "nibble", "more"}
Writing  == Reading /\ pc \notin {"cont", "vbend", "start"}
Cut      == ~wants.ports \/ blanked \/ broken
LiveView ==
  <<pc, command, power, PendingVB, raster, late, asked, irq, answering /\ SF,
    IF pc = "clock" THEN turn ELSE 0,
    IF Reading THEN <<NextContBit, cont, brk>> ELSE <<>>,
    IF SF THEN <<wants, blanked, broken>> ELSE <<Cut, Cut \/ irq \/ got = report>>,
    IF Writing THEN <<OWP, PDCounter, CurPort, work>> ELSE <<>>,
    IF SF \/ irq THEN <<report, got, SR>> ELSE <<>>,
    IF Writing \/ irq THEN OREG ELSE <<>>>>
=============================================================================
