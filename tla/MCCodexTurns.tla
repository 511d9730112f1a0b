---------------------------- MODULE MCCodexTurns ----------------------------
(* Small instances of CodexTurns: message handlers "a" and "b" and a job       *)
(* follow-up "f", all on the one thread of their channel.                      *)
EXTENDS CodexTurns, TLC

OneThread == [c \in Callers |-> 1]
ChatIds   == Callers \cap {"a", "b"}
TimedIds  == Callers \cap {"f"}
=============================================================================
