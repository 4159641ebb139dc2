----------------------------- MODULE AuditLog -----------------------------
(***************************************************************************)
(* What an audit trail promises: entries are appended one at a time, none   *)
(* is ever changed or dropped, and the trail never exceeds its limit.       *)
(***************************************************************************)
EXTENDS Naturals, Sequences

CONSTANTS Entries, Limit

VARIABLE log

LogInit == log = <<>>

\* One more entry, whatever it is, behind the ones that are there.
Record ==
    /\ Len(log) < Limit
    /\ Len(log') = Len(log) + 1
    /\ LET e == log'[Len(log')] IN e \in Entries /\ log' = Append(log, e)

LogSpec == LogInit /\ [][Record]_log

=============================================================================
