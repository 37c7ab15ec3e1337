----------------------------- MODULE RepairLoop -----------------------------
(***************************************************************************)
(* The bounded repair of hardening/repair_loop.py: a patcher, which may    *)
(* propose anything, rewrites a source that SafeVerify objects to until it *)
(* is clean or the attempts run out, within the EVOLVE zones that          *)
(* core/lexical_zones.py delimits.                                         *)
(***************************************************************************)
EXTENDS Naturals

CONSTANTS
  Texts,      \* sources and what a patcher may propose
  MaxDepth    \* max_depth, the number of attempts

(* What the gates tell apart in a text.  "zones" is the marker it begins   *)
(* zones with, "stray" a text that says EVOLVE and begins none; "frozen"   *)
(* and "body" stand for what is outside and inside of the zones.  "marked" *)
(* and "barred" are the backends whose syntax it shows and whose           *)
(* heuristic, or the Newton scan, objects; "clean" is for SafeVerify and   *)
(* "accepted_by" the kernels that accept it.                               *)
Text == [zones: {"none", "block", "value", "stray"}, balanced: BOOLEAN,
         frozen: STRING, body: STRING, clean: BOOLEAN,
         marked: SUBSET STRING, barred: SUBSET STRING, accepted_by: SUBSET STRING]

ASSUME RepairAssumption == MaxDepth \in Nat

VARIABLES
  source,     \* what the loop was given
  current,    \* what it has made of it
  attempt,    \* the number of the attempt under way
  stop        \* stop_reason, "idle" and "running" before there is one

repairVars == <<source, current, attempt, stop>>

StopReasons == {"clean", "repaired", "invalid_zones", "no_evolve_zones", "max_depth"}

success == stop \in {"clean", "repaired"}

validate_zones(text) == text.balanced

frozen_skeleton(text) == <<text.zones, text.frozen>>

(* Mutation: the edit is checked to be well zoned, not to stay in zones.   *)
zoned_edit_anywhere(original, proposed) ==
  validate_zones(original) /\ validate_zones(proposed)

(* apply_zoned_edit returns the proposed text instead of raising.          *)
zoned_edit(original, proposed) ==
  /\ validate_zones(original) /\ validate_zones(proposed)
  /\ frozen_skeleton(original) = frozen_skeleton(proposed)

RepairInit(text) ==
  source = text /\ current = text /\ attempt = 1 /\ stop = "idle"

BeginRepair ==
  /\ stop = "idle"
  /\ stop' = IF source.zones \in {"block", "value"} /\ ~validate_zones(source)
               THEN "invalid_zones"
             ELSE IF MaxDepth = 0 THEN "max_depth" ELSE "running"
  /\ UNCHANGED <<source, current, attempt>>

AlreadyClean ==
  /\ stop = "running" /\ current.clean
  /\ stop' = "clean"
  /\ UNCHANGED <<source, current, attempt>>

(* Mutation: one attempt more than max_depth.                              *)
NextAttemptTooMany ==
  IF attempt <= MaxDepth
    THEN attempt' = attempt + 1 /\ UNCHANGED stop
    ELSE stop' = "max_depth" /\ UNCHANGED attempt

NextAttempt ==
  IF attempt < MaxDepth
    THEN attempt' = attempt + 1 /\ UNCHANGED stop
    ELSE stop' = "max_depth" /\ UNCHANGED attempt

Proposing == stop = "running" /\ ~current.clean

(* The edit leaves the zones, and the attempt is spent.                    *)
RejectEdit(proposed) ==
  /\ Proposing
  /\ source.zones = "block" /\ ~zoned_edit(current, proposed)
  /\ NextAttempt
  /\ UNCHANGED <<source, current>>

RefuseRewrite(proposed) ==
  /\ Proposing
  /\ source.zones = "none" /\ proposed # source
  /\ stop' = "no_evolve_zones"
  /\ UNCHANGED <<source, current, attempt>>

(* The proposal becomes the current text, clean or not.  Only sources with *)
(* EVOLVE blocks have it compared with what was there.                     *)
AcceptEdit(proposed) ==
  /\ Proposing
  /\ source.zones = "block" => zoned_edit(current, proposed)
  /\ source.zones = "none" => proposed = source
  /\ current' = proposed
  /\ IF proposed.clean THEN stop' = "repaired" /\ UNCHANGED attempt ELSE NextAttempt
  /\ UNCHANGED source

RepairStep ==
  \/ AlreadyClean
  \/ \E proposed \in Texts :
       RejectEdit(proposed) \/ RefuseRewrite(proposed) \/ AcceptEdit(proposed)

RepairSpec ==
  /\ \E text \in Texts : RepairInit(text)
  /\ [][BeginRepair \/ RepairStep]_repairVars

-----------------------------------------------------------------------------
RepairTypeOK ==
  /\ source \in Texts /\ current \in Texts
  /\ attempt \in Nat /\ (attempt = 1 \/ attempt <= MaxDepth)
  /\ stop \in StopReasons \cup {"idle", "running"}

(* "Repair patches are zone-bounded": whatever was proposed in how many    *)
(* attempts, each compared with the one before it, a source with EVOLVE    *)
(* blocks keeps what was outside of them, and one without zones all of it. *)
RepairIsZoned ==
  /\ source.zones = "block" => frozen_skeleton(current) = frozen_skeleton(source)
  /\ source.zones = "none" => current = source
=============================================================================
