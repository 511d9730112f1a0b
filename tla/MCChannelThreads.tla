--------------------------- MODULE MCChannelThreads --------------------------
(* Small instances of ChannelThreads: one channel, whose handlers and threads *)
(* are interchangeable; channels share no state.                              *)
EXTENDS ChannelThreads, TLC

OneChannel == [h \in Handlers |-> CHOOSE c \in Channels : TRUE]

Symmetric == Permutations(Handlers) \cup Permutations(Threads)
=============================================================================
