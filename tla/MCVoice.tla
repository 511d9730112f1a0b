------------------------------ MODULE MCVoice ------------------------------
(* The three parts of the voice feature share no state that their modules   *)
(* keep, so one run explores each by itself: a behaviour picks its part.    *)
EXTENDS VoicePackets, RealtimeClient, VoiceEngine, TLC

VARIABLE part

B(j, l, i, e, m, c) ==
  [join |-> j, leave |-> l, interrupt |-> i, event |-> e, move |-> m, crash |-> c]

R(c, o, x) == [configure |-> c, operate |-> o, close |-> x]
Calls == {R(2, 0, 0), R(1, 2, 0), R(1, 1, 1)}

(* Overlapping Joins and Leaves, with an event; with an Interrupt; people    *)
(* who move while Joins, or a Join and a Leave, run; the packets of a guest; *)
(* a crash between Joins.                                                    *)
Budgets == {B(2, 2, 0, 1, 0, 0), B(2, 1, 1, 1, 0, 0), B(2, 0, 0, 0, 2, 0), B(1, 1, 0, 0, 2, 0),
            B(1, 1, 1, 2, 0, 0), B(1, 0, 0, 2, 1, 0), B(2, 1, 0, 1, 0, 1)}

Same == {p @@ q : p \in Permutations(VoCallers), q \in Permutations(VoChannels)}

VoiceInit ==
  /\ part \in {"packets", "client", "engine"}
  /\ PkInit
  /\ RtInit /\ (part # "client" => ~rtOld /\ rtLeft = R(1, 1, 1))
  /\ VoInit /\ (part # "engine" => voLeft = B(1, 1, 1, 2, 0, 0))
  /\ voPlace[VoOwner] = VoNone <=> part # "engine"

VoiceNext ==
  \/ part = "packets" /\ PkNext /\ UNCHANGED <<rtVars, voVars, part>>
  \/ part = "client" /\ RtNext /\ UNCHANGED <<pkVars, voVars, part>>
  \/ part = "engine" /\ VoNext /\ UNCHANGED <<pkVars, rtVars, part>>

VoiceSpec == VoiceInit /\ [][VoiceNext]_<<pkVars, rtVars, voVars, part>>

VoiceTypeOK == PkTypeOK /\ RtTypeOK /\ VoTypeOK
=============================================================================
