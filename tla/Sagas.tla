-------------------------------- MODULE Sagas --------------------------------
(***************************************************************************)
(* The five transaction sagas, running concurrently in one process over the *)
(* accounts, the transactions' event logs and the saga_states table.        *)
(*                                                                         *)
(* A saga is a chain of awaited calls: on an account, on its transaction or *)
(* on its row.  A call returns, or throws: because the aggregate refuses,   *)
(* because the call failed, or because only its answer was lost.  What a    *)
(* throw leads to is in Catch.  The process may die at any await and        *)
(* nothing resumes the sagas that were running.                             *)
(*                                                                         *)
(* A command reads a prefix of its aggregate's log and later appends behind *)
(* the whole log.  One action does both: the prefix it read is a prefix of  *)
(* the log it appends to, so no outcome is lost.                            *)
(***************************************************************************)
EXTENDS Account, Transaction, Functions

CONSTANTS
    Transactions,   \* transaction ids
    KindsOf,        \* the assignments of kinds to transactions to consider
    Source,         \* transaction -> account to debit
    Dest,           \* transaction -> account to credit
    Amount,         \* transaction -> amount
    Here,           \* REGION_ID of the process
    Funds,          \* account -> balance before the sagas
    NoRow,          \* no row in saga_states
    MaxLag,         \* bound of the model: how many events a read may miss
    MaxFaults,      \* bound of the model: failing calls
    MaxCrashes,     \* bound of the model: crashes of the process
    MaxStatus       \* bound of the model: account -> log length status changes reach

Kinds == {"topup", "withdrawal", "transfer", "payment", "refund"}

RowStatuses == {"PROCESSING", "COMPENSATING", "COMPLETED", "FAILED"}

\* The steps that completeStep() checks off.
RowSteps == {"reserved", "debited", "credited", "completed"}

Rows == [status : RowStatuses, pending : SUBSET RowSteps]

ASSUME SagasAssumption ==
    /\ IsFiniteSet(Transactions)
    /\ KindsOf \subseteq [Transactions -> Kinds]
    /\ Source \in [Transactions -> Accounts] /\ Dest \in [Transactions -> Accounts]
    /\ Amount \in [Transactions -> Int]
    /\ IsFiniteSet(Accounts)
    /\ Here \in Regions
    /\ Funds \in [Accounts -> Int]
    /\ NoRow \notin Rows
    /\ MaxLag \in Nat /\ MaxFaults \in Nat /\ MaxCrashes \in Nat
    /\ MaxStatus \in [Accounts -> Nat]

VARIABLES
    kind,       \* transaction -> kind
    pc,         \* transaction -> the call its saga is in, or how it ended
    row,        \* transaction -> its row of saga_states
    txLog,      \* transaction -> its event log
    history,    \* account -> states after each event of its log
    legs,       \* transaction -> account events stored with its id
    stale,      \* ghost: accounts and transactions appended to on an old read
    unseen,     \* ghost: transactions with an event stored by a call that threw
    faults, crashes

vars == <<kind, pc, row, txLog, history, legs, stale, unseen, faults, crashes>>

------------------------------------------------------------------------------
(* What each handler does, call by call.                                    *)

TopupProgram == <<"start", "credit", "credited", "complete", "completed">>

WithdrawalProgram ==
    <<"start", "reserve", "reserved", "debit", "debited", "complete", "completed">>

\* Mutant: the destination is credited before the source is debited.
CreditFirstProgram ==
    <<"start", "reserve", "reserved", "credit", "credited", "debit", "debited",
      "complete", "completed">>

TransferProgram ==
    <<"start", "reserve", "reserved", "debit", "debited", "credit", "credited",
      "complete", "completed">>

PaymentProgram == TransferProgram

RefundProgram == TransferProgram

Program ==
    [topup |-> TopupProgram, withdrawal |-> WithdrawalProgram,
     transfer |-> TransferProgram, payment |-> PaymentProgram,
     refund |-> RefundProgram]

\* The catch block's branch for a debited source, after failSaga().
Compensation == <<"compensate", "refund", "refunded", "compensateTx", "compensated">>

\* The branch without compensation.
Failure == <<"fail", "failTx">>

TwoLegged(t) == kind[t] \in {"transfer", "payment", "refund"}

\* How a handler ends: returned, returned after it swallowed an error, threw,
\* died with the process.
Ended == {"done", "swallowed", "rejected", "gone"}

Labels ==
    {"idle"} \cup Ended
    \cup {"start", "reserve", "reserved", "debit", "debited", "credit", "credited",
          "complete", "completed", "fail", "failTx", "compensate", "refund",
          "refunded", "compensateTx", "compensated", "giveUp"}

Follows(program, l) ==
    LET n == CHOOSE n \in 1 .. Len(program) : program[n] = l
    IN  IF n = Len(program) THEN "done" ELSE program[n + 1]

In(l, program) == \E n \in 1 .. Len(program) : program[n] = l

\* The call after the one that returned.
After(t) ==
    CASE In(pc[t], Program[kind[t]]) -> Follows(Program[kind[t]], pc[t])
      [] In(pc[t], Compensation)     -> Follows(Compensation, pc[t])
      [] In(pc[t], Failure)          -> Follows(Failure, pc[t])
      [] pc[t] = "giveUp"            -> "done"

\* sourceNewBalance (customerNewBalance, merchantNewBalance) is set.
DebitReturned(t) == pc[t] \in {"debited", "credit", "credited", "complete", "completed"}

\* Mutant: a debited source is not given its money back.
CatchWithoutRefund(t) ==
    CASE pc[t] \in {"start", "fail", "compensate"} -> "rejected"
      [] pc[t] \in {"failTx", "giveUp"} -> "swallowed"
      [] In(pc[t], Compensation) /\ pc[t] # "compensate" -> "giveUp"
      [] OTHER -> "fail"

\* Mutant: the error branch ends without failing the transaction.
CatchAndReturn(t) ==
    CASE pc[t] \in {"start", "fail", "compensate"} -> "rejected"
      [] pc[t] \in {"failTx", "giveUp"} -> "swallowed"
      [] In(pc[t], Compensation) /\ pc[t] # "compensate" -> "giveUp"
      [] In(pc[t], Program[kind[t]]) /\ pc[t] # "start" ->
            IF TwoLegged(t) /\ DebitReturned(t) THEN "compensate" ELSE "done"

\* Mutant: a credit that throws is tried again.
CatchAndRepeat(t) ==
    CASE pc[t] \in {"start", "fail", "compensate"} -> "rejected"
      [] pc[t] \in {"failTx", "giveUp"} -> "swallowed"
      [] pc[t] = "credit" -> "credit"
      [] In(pc[t], Compensation) /\ pc[t] # "compensate" -> "giveUp"
      [] In(pc[t], Program[kind[t]]) /\ pc[t] \notin {"start", "credit"} ->
            IF TwoLegged(t) /\ DebitReturned(t) THEN "compensate" ELSE "fail"

\* Where control goes when the call throws.  startSaga() is outside the try,
\* failSaga() is in the catch block, the compensation has a try of its own.
Catch(t) ==
    CASE pc[t] \in {"start", "fail", "compensate"} -> "rejected"
      [] pc[t] \in {"failTx", "giveUp"} -> "swallowed"
      [] In(pc[t], Compensation) /\ pc[t] # "compensate" -> "giveUp"
      [] In(pc[t], Program[kind[t]]) /\ pc[t] # "start" ->
            IF TwoLegged(t) /\ DebitReturned(t) THEN "compensate" ELSE "fail"

Returns(t) == pc' = [pc EXCEPT ![t] = After(t)] /\ UNCHANGED faults

Throws(t) == pc' = [pc EXCEPT ![t] = Catch(t)] /\ UNCHANGED faults

\* The call fails although nothing refused it.
Fails(t) ==
    /\ faults < MaxFaults
    /\ faults' = faults + 1
    /\ pc' = [pc EXCEPT ![t] = Catch(t)]

\* What getEvents() may have read when its timer fires.
Readable(log) == {n \in 0 .. Len(log) : n >= Len(log) - MaxLag}

------------------------------------------------------------------------------
(* Calls on accounts: ReserveBalanceCommand and UpdateBalanceCommand.       *)

LegCalls == {"reserve", "debit", "credit", "refund"}

\* Mutant: the compensation goes to the destination.
LegAccountSwapped(t, leg) == IF leg \in {"credit", "refund"} THEN Dest[t] ELSE Source[t]

LegAccount(t, leg) == IF leg = "credit" THEN Dest[t] ELSE Source[t]

LegAccepted(t, leg, s) ==
    LET a == LegAccount(t, leg)
    IN  CASE leg = "reserve" -> CanReserve(a, s, Amount[t])
          [] leg = "debit"   -> CanChangeBalance(a, s, Here, "DEBIT", Amount[t])
          [] OTHER           -> CanChangeBalance(a, s, Here, "CREDIT", Amount[t])

LegEvent(t, leg, s) ==
    CASE leg = "reserve" -> BalanceReserved(s, Here, Amount[t])
      [] leg = "debit"   -> BalanceChanged(s, Here, "DEBIT", Amount[t])
      [] OTHER           -> BalanceChanged(s, Here, "CREDIT", Amount[t])

\* changeBalance() checks the threshold, reserve() does not.
LegRefills(leg, s) == leg # "reserve" /\ NeedsReplenishment(s, Here)

\* The command reads n events, is accepted, and its events are stored.
StoresLeg(t, n) ==
    LET leg == pc[t]
        a   == LegAccount(t, leg)
        e   == LegEvent(t, leg, history[a][n])
        refill == LegRefills(leg, Apply(history[a][n], e))
    IN  /\ LegAccepted(t, leg, history[a][n])
        /\ history' = [history EXCEPT ![a] = @ \o Replayed(@[Len(@)], e, refill)]
        /\ legs' = [legs EXCEPT ![t] = @ \cup {leg}]
        /\ stale' = IF n = Len(history[a]) THEN stale ELSE stale \cup {a}
        /\ UNCHANGED <<kind, row, txLog, crashes>>

LegReads(t, n) ==
    pc[t] \in LegCalls /\ n \in Readable(history[LegAccount(t, pc[t])])

LegReturns(t) ==
    /\ \E n \in Readable(history[LegAccount(t, pc[t])]) \ {0} :
          LegReads(t, n) /\ StoresLeg(t, n)
    /\ Returns(t)
    /\ UNCHANGED unseen

\* The events are stored, but the send reports an error.
LegAnswerLost(t) ==
    /\ \E n \in Readable(history[LegAccount(t, pc[t])]) \ {0} :
          LegReads(t, n) /\ StoresLeg(t, n)
    /\ Fails(t)
    /\ unseen' = unseen \cup {t}

\* "Account not found", or the aggregate refuses.
LegRefused(t) ==
    /\ \E n \in Readable(history[LegAccount(t, pc[t])]) :
          /\ LegReads(t, n)
          /\ n = 0 \/ ~LegAccepted(t, pc[t], history[LegAccount(t, pc[t])][n])
    /\ Throws(t)
    /\ UNCHANGED <<kind, row, txLog, history, legs, stale, unseen, crashes>>

------------------------------------------------------------------------------
(* Calls on the transaction: Complete<Kind>, Fail and CompensateTransaction. *)

TxCalls == {"complete", "failTx", "giveUp", "compensateTx"}

TxAccepted(call, status) ==
    CASE call = "complete"     -> CanComplete(status)
      [] call = "compensateTx" -> CanCompensate(status)
      [] OTHER                 -> CanFail(status)

TxOutcome(call) ==
    CASE call = "complete"     -> "COMPLETED"
      [] call = "compensateTx" -> "COMPENSATED"
      [] OTHER                 -> "FAILED"

\* The handler's read of n events leads to an event.
TxDecides(t, n) ==
    LET read == SubSeq(txLog[t], 1, n)
    IN  n > 0 /\ Replays(read) /\ TxAccepted(pc[t], Status(read))

StoresTx(t, n) ==
    /\ pc[t] \in TxCalls
    /\ TxDecides(t, n)
    /\ txLog' = [txLog EXCEPT ![t] = Append(@, TxOutcome(pc[t]))]
    /\ stale' = IF n = Len(txLog[t]) THEN stale ELSE stale \cup {t}
    /\ UNCHANGED <<kind, row, history, legs, crashes>>

TxReturns(t) ==
    /\ \E n \in Readable(txLog[t]) : StoresTx(t, n)
    /\ Returns(t)
    /\ UNCHANGED unseen

TxAnswerLost(t) ==
    /\ \E n \in Readable(txLog[t]) : StoresTx(t, n)
    /\ Fails(t)
    /\ unseen' = unseen \cup {t}

TxRefused(t) ==
    /\ pc[t] \in TxCalls
    /\ \E n \in Readable(txLog[t]) : ~TxDecides(t, n)
    /\ Throws(t)
    /\ UNCHANGED <<kind, row, txLog, history, legs, stale, unseen, crashes>>

------------------------------------------------------------------------------
(* Calls on the saga's row: SagaCoordinator.                                *)

StepsOf(k) == RowSteps \cap {Program[k][n] : n \in 1 .. Len(Program[k])}

RowCalls == {"start", "reserved", "debited", "credited", "completed", "fail",
             "compensate", "refunded", "compensated"}

\* Mutant: the status is set when the last step is still pending.
StepCompletedEarly(r, step) ==
    LET left == r.pending \ {step}
    IN  [status |-> IF left \subseteq {"completed"} THEN "COMPLETED" ELSE r.status,
         pending |-> left]

\* completeStep(): the last pending step completes the saga.
StepCompleted(r, step) ==
    LET left == r.pending \ {step}
    IN  [status |-> IF left = {} THEN "COMPLETED" ELSE r.status, pending |-> left]

\* failSaga(), recordCompensation(), completeCompensation().
RowSaved(t) ==
    CASE pc[t] = "start"       -> [status |-> "PROCESSING", pending |-> StepsOf(kind[t])]
      [] pc[t] = "fail"        -> [row[t] EXCEPT !.status = "FAILED"]
      [] pc[t] = "compensate"  -> [row[t] EXCEPT !.status = "COMPENSATING"]
      [] pc[t] = "refunded"    -> row[t]
      [] pc[t] = "compensated" -> [row[t] EXCEPT !.status = "FAILED"]
      [] OTHER                 -> StepCompleted(row[t], pc[t])

SavesRow(t) ==
    /\ pc[t] \in RowCalls
    /\ row' = [row EXCEPT ![t] = RowSaved(t)]
    /\ UNCHANGED <<kind, txLog, history, legs, stale, unseen, crashes>>

RowReturns(t) == SavesRow(t) /\ Returns(t)

RowAnswerLost(t) == SavesRow(t) /\ Fails(t)

------------------------------------------------------------------------------

\* Any call may fail without an effect.
CallFails(t) ==
    /\ pc[t] \in LegCalls \cup TxCalls \cup RowCalls
    /\ Fails(t)
    /\ UNCHANGED <<kind, row, txLog, history, legs, stale, unseen, crashes>>

\* Mutant: the event is published but not stored.
RequestWithoutStore(t) ==
    /\ pc[t] = "idle"
    /\ pc' = [pc EXCEPT ![t] = "start"]
    /\ UNCHANGED <<kind, row, txLog, history, legs, stale, unseen, faults, crashes>>

\* The request handler stores the first event and publishes it in the process,
\* which starts the saga.
Request(t) ==
    /\ pc[t] = "idle"
    /\ txLog' = [txLog EXCEPT ![t] = Requested]
    /\ pc' = [pc EXCEPT ![t] = "start"]
    /\ UNCHANGED <<kind, row, history, legs, stale, unseen, faults, crashes>>

\* The event is stored, but the send reports an error: nothing is published.
RequestAnswerLost(t) ==
    /\ pc[t] = "idle"
    /\ faults < MaxFaults
    /\ faults' = faults + 1
    /\ txLog' = [txLog EXCEPT ![t] = Requested]
    /\ pc' = [pc EXCEPT ![t] = "rejected"]
    /\ UNCHANGED <<kind, row, history, legs, stale, unseen, crashes>>

\* UpdateAccountStatusHandler, by another client.
ChangeStatus(a, new) ==
    /\ Len(history[a]) < MaxStatus[a]
    /\ \E n \in Readable(history[a]) \ {0} :
          /\ CanChangeStatus(history[a][n], new)
          /\ history' = [history EXCEPT ![a] =
                @ \o Replayed(@[Len(@)], StatusChanged(@[n], new), FALSE)]
          /\ stale' = IF n = Len(history[a]) THEN stale ELSE stale \cup {a}
    /\ UNCHANGED <<kind, pc, row, txLog, legs, unseen, faults, crashes>>

\* The process dies and a new one starts: it has no handler running.
Crash ==
    /\ crashes < MaxCrashes
    /\ \E t \in Transactions : pc[t] \notin Ended \cup {"idle"}
    /\ crashes' = crashes + 1
    /\ pc' = [t \in Transactions |->
                IF pc[t] \in Ended \cup {"idle"} THEN pc[t] ELSE "gone"]
    /\ UNCHANGED <<kind, row, txLog, history, legs, stale, unseen, faults>>

Init ==
    /\ kind \in KindsOf
    /\ pc      = [t \in Transactions |-> "idle"]
    /\ row     = [t \in Transactions |-> NoRow]
    /\ txLog   = [t \in Transactions |-> <<>>]
    /\ history = [a \in Accounts |->
          LET s == Created(Here)
          IN  <<s>> \o Replayed(s, BalanceChanged(s, Here, "CREDIT", Funds[a]), FALSE)]
    /\ legs    = [t \in Transactions |-> {}]
    /\ stale = {} /\ unseen = {} /\ faults = 0 /\ crashes = 0

\* The running handler's next step.
Step(t) ==
    \/ LegReturns(t) \/ LegRefused(t) \/ LegAnswerLost(t)
    \/ TxReturns(t) \/ TxRefused(t) \/ TxAnswerLost(t)
    \/ RowReturns(t) \/ RowAnswerLost(t)
    \/ CallFails(t)

Next ==
    \/ \E t \in Transactions : Request(t) \/ RequestAnswerLost(t)
    \/ \E t \in Transactions : Step(t)
    \/ \E a \in Accounts, new \in Statuses : ChangeStatus(a, new)
    \/ Crash

\* Every awaited call settles: each client and driver used has a timeout.
Fairness == \A t \in Transactions : WF_vars(Step(t))

Spec == Init /\ [][Next]_vars /\ Fairness

------------------------------------------------------------------------------

Has(log, status) == In(status, log)

LegsOf(t) ==
    {Program[kind[t]][n] : n \in 1 .. Len(Program[kind[t]])} \cap LegCalls

TypeOK ==
    /\ kind \in [Transactions -> Kinds]
    /\ pc \in [Transactions -> Labels]
    /\ row \in [Transactions -> Rows \cup {NoRow}]
    /\ txLog \in [Transactions -> Seq(TransactionStatuses)]
    /\ history \in [Accounts -> Seq(States)]
    /\ legs \in [Transactions -> SUBSET LegCalls]
    /\ \A t \in Transactions : row[t] # NoRow => txLog[t] # <<>>
    /\ stale \subseteq Accounts \cup Transactions
    /\ unseen \subseteq Transactions
    /\ faults \in 0 .. MaxFaults /\ crashes \in 0 .. MaxCrashes

\* Wherever a saga is cut off, what the logs report happened: money is credited
\* or given back only where it was taken, a completed transaction moved all its
\* money, a compensated one gave back what it took.
OutcomesAreEarned ==
    \A t \in Transactions :
        /\ TwoLegged(t) /\ legs[t] \cap {"credit", "refund"} # {} => "debit" \in legs[t]
        /\ Has(txLog[t], "COMPLETED") => LegsOf(t) \subseteq legs[t]
        /\ Has(txLog[t], "COMPENSATED") => "refund" \in legs[t]

\* What the stored calls of one kind moved at account a.
Moved(call, at, a) ==
    SumFunction([t \in Transactions |->
                    IF at[t] = a /\ call \in legs[t] THEN Amount[t] ELSE 0])

\* Whatever state the sagas are in, an account that never got a stale append
\* holds exactly what the transactions' stored legs put there, and its
\* reservation what they reserved and have not debited.
AccountsMatchTransactions ==
    \A a \in Accounts \ stale :
        LET s == history[a][Len(history[a])]
        IN  /\ s.balance = Funds[a] + Moved("credit", Dest, a) + Moved("refund", Source, a)
                                - Moved("debit", Source, a)
            /\ s.reserved[Here] = Moved("reserve", Source, a) - Moved("debit", Source, a)

Last(a) == history[a][Len(history[a])]

Balances == [a \in Accounts |-> Last(a).balance]

Movements == [t \in Transactions |-> legs[t] \ {"reserve"}]

Reported == [t \in Transactions |-> Range(txLog[t])]

Promise == INSTANCE Escrow WITH
    balance <- Balances, moved <- Movements, reported <- Reported, broken <- stale

\* Seen from the balances and the logs, the awaited calls of all sagas are
\* indivisible movements of money: each at most once, in the order that earns it,
\* within the limits, and every outcome reported once, until a stale append.
MoneyIsEscrowed == Promise!Spec

\* What the movements of t add to the sum of all balances: nothing when the money
\* left one account and reached one.
Net(t) ==
    (IF "credit" \in legs[t] THEN Amount[t] ELSE 0)
    + (IF "refund" \in legs[t] THEN Amount[t] ELSE 0)
    - (IF "debit" \in legs[t] THEN Amount[t] ELSE 0)

\* "Verify accounting equation": while no account got a stale append, the sum of
\* all balances is what the accounts opened with plus what each transaction's
\* stored legs say it brought in, took out or has on its way.
MoneyIsConserved ==
    stale \cap Accounts = {} =>
        SumFunction(Balances)
            = SumFunction(Funds) + SumFunction([t \in Transactions |-> Net(t)])

\* Money that left the source and is neither at the destination nor given back
\* belongs to a saga that getPendingSagas() lists, unless the answer to one of
\* its appends was lost.
MissingMoneyIsListed ==
    \A t \in Transactions \ unseen :
        TwoLegged(t) /\ legs[t] \cap {"debit", "credit", "refund"} = {"debit"}
            => row[t] # NoRow /\ row[t].status \in {"PROCESSING", "COMPENSATING"}

\* The saga's row says COMPLETED only once the transaction's log does: a client
\* that polls the row may go on to read the transaction.
CompletedRowIsCompletedTransaction ==
    \A t \in Transactions :
        row[t] # NoRow /\ row[t].status = "COMPLETED" => Has(txLog[t], "COMPLETED")

\* As long as commands read complete logs and no call fails, every saga the process
\* lives to finish ends its transaction once, and the outcome tells exactly what
\* was moved.  Only a failed one may have taken money and kept it: its refund was
\* refused, and its row still says COMPENSATING.
ReportsAreExact ==
    MaxLag = 0 /\ faults = 0 =>
        \A t \in Transactions :
            /\ pc[t] \in Ended => pc[t] \in {"done", "gone"}
            /\ pc[t] = "done" => \E s \in Terminal : txLog[t] = Append(Requested, s)
            /\ Has(txLog[t], "COMPLETED") => legs[t] = LegsOf(t)
            /\ Has(txLog[t], "COMPENSATED") => legs[t] = {"reserve", "debit", "refund"}
            /\ Has(txLog[t], "FAILED") =>
                  \/ legs[t] \subseteq {"reserve"}
                  \/ legs[t] = {"reserve", "debit"} /\ row[t].status = "COMPENSATING"

\* A transaction never leaves a terminal status, unless a command that had not
\* read the terminal event is appended behind it.
TerminalIsFinal ==
    [][\A t \in Transactions :
          txLog[t] # <<>> /\ Status(txLog[t]) \in Terminal /\ t \notin stale'
            => txLog[t]' = txLog[t]]_vars

Pending(t) == txLog[t] # <<>> /\ Status(txLog[t]) = "PENDING"

\* A pending transaction reaches a terminal status, unless the process died or
\* an error escaped the handler's two catch blocks.
EndsUnlessEscaped ==
    \A t \in Transactions :
        Pending(t) ~> (~Pending(t) \/ pc[t] \in {"swallowed", "rejected", "gone"})

\* "Either both accounts update or neither updates": the promise of the transfer
\* documentation, even when no answer of the event store is lost.
TransfersAreAtomic ==
    \A t \in Transactions \ unseen :
        TwoLegged(t) /\ pc[t] \in {"done", "swallowed", "rejected"}
            => ("credit" \in legs[t] <=> "debit" \in legs[t] /\ "refund" \notin legs[t])

\* "Enable saga recovery after crashes", a responsibility of the coordinator:
\* every pending transaction ends, also when the process died meanwhile.
EveryTransactionEnds == \A t \in Transactions : Pending(t) ~> ~Pending(t)

==============================================================================
