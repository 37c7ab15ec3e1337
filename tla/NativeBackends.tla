--------------------------- MODULE NativeBackends ---------------------------
(***************************************************************************)
(* What the backends of src/src/mvpc/backends/ make of the answer of their *)
(* external tool, as the policy code sees it: whether a run records native *)
(* evidence and whether it records a finding of severity VIOLATION.        *)
(***************************************************************************)

(* A tool accepts the whole file, rejects a file some of whose             *)
(* declarations it did check, rejects it outright, or gives no answer: it  *)
(* times out, cannot be started, or finds no session to build.             *)
Answers == {"accepts", "accepts_some", "rejects", "none"}

FormalBackends == {"lean", "rocq", "isabelle", "dafny"}

(* What a backend's tool may say when asked about a file of which it would *)
(* say this.  Isabelle's is not given the file: it builds the sessions of  *)
(* a ROOT in its directory or one of the three above, whether or not they  *)
(* contain it, so what it says may be about other theories.                *)
AnswersTo(backend, of_file) == IF backend = "isabelle" THEN Answers ELSE {of_file}

(* Only Dafny's adapter records a run that gave no answer.                 *)
NativeEvidence(backend, answer) == backend = "dafny" \/ answer # "none"

(* Lean judges by the "#print axioms" lines it finds for any declaration   *)
(* and reads the exit status only when the file declares nothing.          *)
LeanObjects(answer) == answer \in {"rejects", "none"}

(* Dafny answers by its exit status; a time-out is no verdict either.      *)
DafnyObjects(answer) == answer # "accepts"

(* Rocq, Isabelle and Python go by the exit status, and turn the lack of   *)
(* an answer into a warning.                                               *)
ExitStatusObjects(answer) == answer \in {"accepts_some", "rejects"}

NativeViolation(backend, answer) ==
  CASE backend = "lean"  -> LeanObjects(answer)
    [] backend = "dafny" -> DafnyObjects(answer)
    [] OTHER             -> ExitStatusObjects(answer)
=============================================================================
