--------------------------- MODULE MCNexusRuntime ---------------------------
(* Instances of NexusRuntime for TLC: the texts an artifact may hold, each *)
(* differing from a sound one in the one respect a gate looks at.          *)
EXTENDS NexusRuntime

SoundText == [zones_ok |-> TRUE, clean |-> TRUE, declares |-> TRUE,
              scan_ok |-> TRUE, kernel |-> "accepts", reads_as |-> "lean"]

(* One that every source gate passes and the kernel accepts, one the       *)
(* source gates refuse though the kernel does not, one it is the other way *)
(* round for.                                                              *)
Texts3 ==
  {SoundText, [SoundText EXCEPT !.clean = FALSE, !.zones_ok = FALSE, !.reads_as = "informal"],
   [SoundText EXCEPT !.kernel = "rejects"]}

PartlyAccepted == {[SoundText EXCEPT !.kernel = "accepts_some"]}
=============================================================================
