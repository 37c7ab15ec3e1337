-------------------------- MODULE MCTransitiveScan --------------------------
(***************************************************************************)
(* An instance of TransitiveScan for TLC: four files and three names, one  *)
(* of them with two candidates, and a name of dots.  The texts branch,     *)
(* meet again, import each other and themselves; one of them is unsound.   *)
(***************************************************************************)
EXTENDS TransitiveScan, TLC

Dots == {"."}

FourNames == {"A", "B", "C"} \cup Dots

CandidatePaths == [A |-> <<"A.lean", "A.v">>, B |-> <<"B.lean">>,
                   C |-> <<"C.lean">>] @@ ("." :> <<>>)

Paths == {"A.lean", "A.v", "B.lean", "C.lean"}

Importing(clean, imports) ==
  [status |-> "text", clean |-> clean, imports |-> imports]

NoText(status) == [status |-> status, clean |-> FALSE, imports |-> <<>>]

PathContents ==
  {Importing(TRUE, <<>>), Importing(FALSE, <<"B">>),
   Importing(TRUE, <<"C">>), Importing(TRUE, <<"B", "A">>),
   Importing(TRUE, <<"C", ".">>),
   NoText("absent"), NoText("locked"), NoText("garbled")}
=============================================================================
