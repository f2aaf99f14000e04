----------------------------- MODULE Transaction -----------------------------
(***************************************************************************)
(* The transaction aggregate.  All that its guards read of the event log is *)
(* the status, so a log is the sequence of statuses its events set.         *)
(***************************************************************************)
EXTENDS Integers, Sequences

TransactionStatuses == {"PENDING", "COMPLETED", "FAILED", "COMPENSATED"}

Terminal == TransactionStatuses \ {"PENDING"}

\* request<Kind>(): the aggregate is new, its first event makes it pending.
Requested == <<"PENDING">>

Status(log) == log[Len(log)]

\* fromEvents() on a log.  Replaying TransactionCompensated throws: the handler
\* calls toISOString() on the timestamp, a string once it comes from the store.
Replays(log) == \A n \in 1 .. Len(log) : log[n] # "COMPENSATED"

\* validateCanComplete(), the guard of all five complete<Kind>() methods.
CanComplete(status) == status = "PENDING"

\* Mutant: only a second failure is refused.
CanFailCompleted(status) == status # "FAILED"

\* fail()
CanFail(status) == status = "PENDING"

\* compensate()
CanCompensate(status) == status \notin {"COMPLETED", "COMPENSATED"}

==============================================================================
