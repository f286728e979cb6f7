----------------------------- MODULE SectorPool -----------------------------
(* What the buffers of the CD block are to the program: partitions that are *)
(* sequences of sectors, a transfer that may have some in its hands, and    *)
(* room for a fixed number of sectors in all.  A sector that arrives goes   *)
(* to the end of one partition or is dropped; sectors are read, copied,     *)
(* moved and deleted by their place in a partition, and keep their order    *)
(* and their contents.                                                      *)
EXTENDS Naturals, FiniteSets, SequencesExt, FiniteSetsExt

CONSTANTS
  Parts,    \* the partitions
  Room,     \* the sectors there is room for
  Sectors,  \* what a sector may hold
  Blank,    \* a sector whose contents the host has not written yet
  Nowhere   \* where a sector goes that no partition takes

VARIABLES
  parts,  \* the sectors in each partition
  hand    \* those the transfer has taken out, or brings

vars == <<parts, hand>>

\* The room a partition's sectors and those in hand leave, when the partitions are ps
Left(ps) == Room - Len(hand) - MapThenSumSet(LAMBDA p : Len(ps[p]), Parts)

\* Runs of neighbours in a partition: where, from which place, how many
Runs(ps) == {r \in Parts \X (1..Room) \X (1..Room) : r[2] + r[3] - 1 <= Len(ps[r[1]])}

Segment(ps, r) == SubSeq(ps[r[1]], r[2], r[2] + r[3] - 1)

Without(ps, r) ==
  [ps EXCEPT ![r[1]] = SubSeq(@, 1, r[2] - 1) \o SubSeq(@, r[2] + r[3], Len(@))]

\* The partitions ps with the sectors of seg added at their ends: where a sector
\* goes is a matter of its contents.
Distributions(ps, seg) ==
  {[p \in Parts |-> ps[p] \o SelectSeq(seg, LAMBDA s : route[s] = p)] :
     route \in [ToSet(seg) -> Parts \cup {Nowhere}]}

-----------------------------------------------------------------------------
(* What may become of partitions ps, as long as the hand keeps what it has. *)

Arrivals(ps) ==
  IF Left(ps) = 0 THEN {} ELSE {[ps EXCEPT ![p] = Append(@, s)] : p \in Parts, s \in Sectors}

Loads(ps) ==
  {[ps EXCEPT ![p] = @ \o [i \in 1..n |-> Blank]] : p \in Parts, n \in 1..Left(ps)}

Deletions(ps) == {Without(ps, r) : r \in Runs(ps)}

Clears(ps) == {[p \in Parts |-> IF p \in S THEN <<>> ELSE ps[p]] : S \in SUBSET Parts}

Copied(ps, qs) ==
  \E r \in Runs(ps) : r[3] <= Left(ps) /\ qs \in Distributions(ps, Segment(ps, r))

Moved(ps, qs) ==
  \E r \in Runs(ps) : qs \in Distributions(Without(ps, r), Segment(ps, r))

Becomes(ps, qs) ==
  \/ qs \in Arrivals(ps) \/ qs \in Loads(ps) \/ qs \in Deletions(ps)
  \/ qs \in Clears(ps) \/ Copied(ps, qs) \/ Moved(ps, qs)

-----------------------------------------------------------------------------
Init == parts = [p \in Parts |-> <<>>] /\ hand = <<>>

\* Naming the two values keeps TLC from working them out again for each alternative.
Change ==
  /\ hand' = hand
  /\ \E before \in {parts}, after \in {parts'} : before # after /\ Becomes(before, after)

\* Sectors come into the hand: out of a partition, or blank ones to be written.
Take ==
  /\ hand = <<>> /\ hand' # <<>>
  /\ \E before \in {parts} :
       <<hand', parts'>> \in {<<Segment(before, r), Without(before, r)>> : r \in Runs(before)}

Reserve ==
  /\ hand = <<>> /\ hand' # <<>>
  /\ \E n \in 1..Left(parts) : hand' = [i \in 1..n |-> Blank]
  /\ parts' = parts

Fill ==
  /\ hand' # hand /\ hand' \in {[hand EXCEPT ![i] = s] : i \in DOMAIN hand, s \in Sectors}
  /\ parts' = parts

\* They leave it: given back, put into the partitions, or lost in a reset.
Release == hand' = <<>> /\ parts' = parts

Bring ==
  /\ hand # <<>> /\ hand' = <<>>
  /\ parts' \in Distributions(parts, hand)

Reset == hand' = <<>> /\ parts' = [p \in Parts |-> <<>>]

Next == Change \/ Take \/ Reserve \/ Fill \/ Release \/ Bring \/ Reset

Spec == Init /\ [][Next]_vars
=============================================================================
