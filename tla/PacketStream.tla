---------------------------- MODULE PacketStream ----------------------------
(***************************************************************************)
(* What a joined voice channel promises its listener: the packets that     *)
(* were received come out once each, in order and without a gap, and no    *)
(* more than Room of them wait.  VoicePackets implements it.               *)
(***************************************************************************)
EXTENDS Naturals

CONSTANTS
  Streams,  \* one for each joined channel
  Room      \* packets received and not yet taken, at most

VARIABLES
  fed,      \* packets received of each stream
  taken     \* the packet of each stream that was taken last

StreamInit == fed = [s \in Streams |-> 0] /\ taken = [s \in Streams |-> 0]

Feed(s) ==
  /\ fed[s] - taken[s] < Room
  /\ fed' = [fed EXCEPT ![s] = @ + 1] /\ UNCHANGED taken

Take(s) ==
  /\ taken[s] < fed[s]
  /\ taken' = [taken EXCEPT ![s] = @ + 1] /\ UNCHANGED fed

StreamNext == \E s \in Streams : Feed(s) \/ Take(s)
StreamSpec == StreamInit /\ [][StreamNext]_<<fed, taken>>
=============================================================================
