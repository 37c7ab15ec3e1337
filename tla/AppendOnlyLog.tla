---------------------------- MODULE AppendOnlyLog ----------------------------
(***************************************************************************)
(* What the ledger promises its one writer: a log that changes only by     *)
(* gaining one record at its end, until a failure makes it unreadable, and *)
(* then it stays so.  The records carry the position they were given.      *)
(***************************************************************************)
EXTENDS Naturals, Sequences

VARIABLES log, lost

LogInit == log = <<>> /\ lost = FALSE

(* The one record added is numbered and linked by the log it extends.      *)
AppendRecord ==
  /\ ~lost
  /\ Len(log') = Len(log) + 1
  /\ SubSeq(log', 1, Len(log)) = log
  /\ log'[Len(log')].sequence = Len(log)
  /\ log # <<>> => log'[Len(log')].previous = log[Len(log)].manifest_hash
  /\ UNCHANGED lost

Lose == ~lost /\ lost' = TRUE /\ log' = <<>>

LogNext == AppendRecord \/ Lose

LogSpec == LogInit /\ [][LogNext]_<<log, lost>>
=============================================================================
