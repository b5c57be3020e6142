----------------------------- MODULE MCTransfer -----------------------------
(***************************************************************************)
(* Instances of Transfer for TLC.                                          *)
(***************************************************************************)
EXTENDS Transfer

CONSTANTS a, b, c, d   \* chunks

NoChunk    == { << >> }
TwoChunks  == { <<a, b>> }
UpToOne    == { << >>, <<a>> }
UpToTwo    == { << >>, <<a>>, <<a, b>> }
UpToFour   == { << >>, <<a>>, <<a, b>>, <<a, b, c>>, <<a, b, c, d>> }
TooLong    == <<a, b, c, d, a, b, c, d, a, b>>   \* more chunks than SeqSpace numbers
ToTheLimit == UpToFour \cup {TooLong}

\* The numbers of DATA where ISN = {0} and streams have two chunks at most.
FairNetwork == NetworkFairness(1 .. 2)

LossySpec    == Spec /\ ProcessFairness /\ TurnsInTime /\ FairNetwork
WatchdogSpec == Spec /\ ProcessFairness /\ WatchdogFairness
=============================================================================
