----------------------------- MODULE SagasProofs -----------------------------
(* Proofs about Sagas, for every finite set of transactions, of every mix of *)
(* kinds, every set of accounts, every amount and every bound of the model.  *)
EXTENDS Sagas, AccountProofs

(***************************************************************************)
(* Where control goes: After() and Catch() as tables.                      *)
(***************************************************************************)

\* What follows the call at one position of a program of distinct calls.
LEMMA FollowsNext ==
    ASSUME NEW program, NEW n \in 1 .. Len(program),
           \A m \in 1 .. Len(program) : program[m] = program[n] => m = n
    PROVE  /\ Follows(program, program[n]) = IF n = Len(program) THEN "done" ELSE program[n + 1]
           /\ In(program[n], program)
<1> DEFINE k == CHOOSE k \in 1 .. Len(program) : program[k] = program[n]
<1>1. k \in 1 .. Len(program) /\ program[k] = program[n]
    OBVIOUS
<1>2. k = n
    BY <1>1
<1>3. QED  BY <1>2 DEF Follows, In

\* The calls of a top-up and what follows each.
LEMMA TopupTable ==
    /\ \A l : In(l, TopupProgram) <=> l \in {"start", "credit", "credited",
                                             "complete", "completed"}
    /\ Follows(TopupProgram, "start") = "credit"
    /\ Follows(TopupProgram, "credit") = "credited"
    /\ Follows(TopupProgram, "credited") = "complete"
    /\ Follows(TopupProgram, "complete") = "completed"
    /\ Follows(TopupProgram, "completed") = "done"
<1> DEFINE p == TopupProgram
<1>1. Len(p) = 5 /\ p = <<"start", "credit", "credited", "complete", "completed">>
    BY DEF TopupProgram
<1> HIDE DEF p
<1>2. \A m \in 1 .. 5 : m \in {1, 2, 3, 4, 5}
    OBVIOUS
<1>3. \A m, n \in 1 .. Len(p) : p[m] = p[n] => m = n
    BY <1>1, <1>2
<1>4. \A n \in 1 .. Len(p) :
          Follows(p, p[n]) = IF n = Len(p) THEN "done" ELSE p[n + 1]
    BY <1>3, FollowsNext
<1>5. /\ Follows(p, p[1]) = p[2] /\ Follows(p, p[2]) = p[3] /\ Follows(p, p[3]) = p[4]
      /\ Follows(p, p[4]) = p[5] /\ Follows(p, p[5]) = "done"
    BY <1>1, <1>4
<1>6. \A l : In(l, p) <=> l \in {p[1], p[2], p[3], p[4], p[5]}
    BY <1>1, <1>2 DEF In
<1>7. QED  BY <1>1, <1>5, <1>6 DEF p

\* The calls of a withdrawal and what follows each.
LEMMA WithdrawalTable ==
    /\ \A l : In(l, WithdrawalProgram) <=> l \in {"start", "reserve", "reserved",
                                                  "debit", "debited", "complete",
                                                  "completed"}
    /\ Follows(WithdrawalProgram, "start") = "reserve"
    /\ Follows(WithdrawalProgram, "reserve") = "reserved"
    /\ Follows(WithdrawalProgram, "reserved") = "debit"
    /\ Follows(WithdrawalProgram, "debit") = "debited"
    /\ Follows(WithdrawalProgram, "debited") = "complete"
    /\ Follows(WithdrawalProgram, "complete") = "completed"
    /\ Follows(WithdrawalProgram, "completed") = "done"
<1> DEFINE p == WithdrawalProgram
<1>1. Len(p) = 7 /\ p = <<"start", "reserve", "reserved", "debit", "debited",
                          "complete", "completed">>
    BY DEF WithdrawalProgram
<1> HIDE DEF p
<1>2. \A m \in 1 .. 7 : m \in {1, 2, 3, 4, 5, 6, 7}
    OBVIOUS
<1>3. \A m, n \in 1 .. Len(p) : p[m] = p[n] => m = n
    BY <1>1, <1>2
<1>4. \A n \in 1 .. Len(p) :
          Follows(p, p[n]) = IF n = Len(p) THEN "done" ELSE p[n + 1]
    BY <1>3, FollowsNext
<1>5. /\ Follows(p, p[1]) = p[2] /\ Follows(p, p[2]) = p[3] /\ Follows(p, p[3]) = p[4]
      /\ Follows(p, p[4]) = p[5] /\ Follows(p, p[5]) = p[6] /\ Follows(p, p[6]) = p[7]
      /\ Follows(p, p[7]) = "done"
    BY <1>1, <1>4
<1>6. \A l : In(l, p) <=> l \in {p[1], p[2], p[3], p[4], p[5], p[6], p[7]}
    BY <1>1, <1>2 DEF In
<1>7. QED  BY <1>1, <1>5, <1>6 DEF p

\* The calls of a transfer and what follows each.
LEMMA TransferTable ==
    /\ \A l : In(l, TransferProgram) <=> l \in {"start", "reserve", "reserved",
                                                "debit", "debited", "credit",
                                                "credited", "complete", "completed"}
    /\ Follows(TransferProgram, "start") = "reserve"
    /\ Follows(TransferProgram, "reserve") = "reserved"
    /\ Follows(TransferProgram, "reserved") = "debit"
    /\ Follows(TransferProgram, "debit") = "debited"
    /\ Follows(TransferProgram, "debited") = "credit"
    /\ Follows(TransferProgram, "credit") = "credited"
    /\ Follows(TransferProgram, "credited") = "complete"
    /\ Follows(TransferProgram, "complete") = "completed"
    /\ Follows(TransferProgram, "completed") = "done"
<1> DEFINE p == TransferProgram
<1>1. Len(p) = 9 /\ p = <<"start", "reserve", "reserved", "debit", "debited",
                          "credit", "credited", "complete", "completed">>
    BY DEF TransferProgram
<1> HIDE DEF p
<1>2. \A m \in 1 .. 9 : m \in {1, 2, 3, 4, 5, 6, 7, 8, 9}
    OBVIOUS
<1>3. \A m, n \in 1 .. Len(p) : p[m] = p[n] => m = n
    BY <1>1, <1>2
<1>4. \A n \in 1 .. Len(p) :
          Follows(p, p[n]) = IF n = Len(p) THEN "done" ELSE p[n + 1]
    BY <1>3, FollowsNext
<1>5. /\ Follows(p, p[1]) = p[2] /\ Follows(p, p[2]) = p[3] /\ Follows(p, p[3]) = p[4]
      /\ Follows(p, p[4]) = p[5] /\ Follows(p, p[5]) = p[6] /\ Follows(p, p[6]) = p[7]
      /\ Follows(p, p[7]) = p[8] /\ Follows(p, p[8]) = p[9] /\ Follows(p, p[9]) = "done"
    BY <1>1, <1>4
<1>6. \A l : In(l, p) <=> l \in {p[1], p[2], p[3], p[4], p[5], p[6], p[7], p[8],
                                 p[9]}
    BY <1>1, <1>2 DEF In
<1>7. QED  BY <1>1, <1>5, <1>6 DEF p

\* The calls of a compensation and what follows each.
LEMMA CompensationTable ==
    /\ \A l : In(l, Compensation) <=> l \in {"compensate", "refund", "refunded",
                                             "compensateTx", "compensated"}
    /\ Follows(Compensation, "compensate") = "refund"
    /\ Follows(Compensation, "refund") = "refunded"
    /\ Follows(Compensation, "refunded") = "compensateTx"
    /\ Follows(Compensation, "compensateTx") = "compensated"
    /\ Follows(Compensation, "compensated") = "done"
<1> DEFINE p == Compensation
<1>1. Len(p) = 5 /\ p = <<"compensate", "refund", "refunded", "compensateTx",
                          "compensated">>
    BY DEF Compensation
<1> HIDE DEF p
<1>2. \A m \in 1 .. 5 : m \in {1, 2, 3, 4, 5}
    OBVIOUS
<1>3. \A m, n \in 1 .. Len(p) : p[m] = p[n] => m = n
    BY <1>1, <1>2
<1>4. \A n \in 1 .. Len(p) :
          Follows(p, p[n]) = IF n = Len(p) THEN "done" ELSE p[n + 1]
    BY <1>3, FollowsNext
<1>5. /\ Follows(p, p[1]) = p[2] /\ Follows(p, p[2]) = p[3] /\ Follows(p, p[3]) = p[4]
      /\ Follows(p, p[4]) = p[5] /\ Follows(p, p[5]) = "done"
    BY <1>1, <1>4
<1>6. \A l : In(l, p) <=> l \in {p[1], p[2], p[3], p[4], p[5]}
    BY <1>1, <1>2 DEF In
<1>7. QED  BY <1>1, <1>5, <1>6 DEF p

\* The calls after a failure without money moved, and what follows each.
LEMMA FailureTable ==
    /\ \A l : In(l, Failure) <=> l \in {"fail", "failTx"}
    /\ Follows(Failure, "fail") = "failTx"
    /\ Follows(Failure, "failTx") = "done"
<1> DEFINE p == Failure
<1>1. Len(p) = 2 /\ p = <<"fail", "failTx">>
    BY DEF Failure
<1> HIDE DEF p
<1>2. \A m \in 1 .. 2 : m \in {1, 2}
    OBVIOUS
<1>3. \A m, n \in 1 .. Len(p) : p[m] = p[n] => m = n
    BY <1>1, <1>2
<1>4. \A n \in 1 .. Len(p) :
          Follows(p, p[n]) = IF n = Len(p) THEN "done" ELSE p[n + 1]
    BY <1>3, FollowsNext
<1>5. /\ Follows(p, p[1]) = p[2] /\ Follows(p, p[2]) = "done"
    BY <1>1, <1>4
<1>6. \A l : In(l, p) <=> l \in {p[1], p[2]}
    BY <1>1, <1>2 DEF In
<1>7. QED  BY <1>1, <1>5, <1>6 DEF p

(***************************************************************************)
(* The invariant, transaction by transaction.                              *)
(***************************************************************************)

\* The places of a handler before each of its calls on an account has returned.
BeforeReserve == {"idle", "start", "reserve"}
BeforeDebit   == BeforeReserve \cup {"reserved", "debit"}
BeforeCredit  == BeforeDebit \cup {"debited", "credit"}

\* The places behind them; a handler whose debit has returned may go on to the
\* compensation.
Compensating == {"compensate", "refund", "refunded", "compensateTx", "compensated", "giveUp"}
BehindCredit == {"credited", "complete", "completed"}
BehindDebit  == {"debited", "credit"} \cup BehindCredit \cup Compensating
BehindRefund == {"refunded", "compensateTx", "compensated"}

\* A handler is only at calls of its program.
PlaceOK(t) ==
    /\ kind[t] = "topup" => pc[t] \notin {"reserve", "reserved", "debit", "debited"}
    /\ kind[t] = "withdrawal" => pc[t] \notin {"credit", "credited"}
    /\ pc[t] \in Compensating => TwoLegged(t)

\* An account call is stored once it has returned, and not before it is made.
LegsOK(t) ==
    /\ pc[t] \in BeforeReserve => "reserve" \notin legs[t]
    /\ pc[t] \in BeforeDebit => "debit" \notin legs[t]
    /\ pc[t] \in BeforeCredit => "credit" \notin legs[t]
    /\ pc[t] \notin BehindRefund \cup {"giveUp"} \cup Ended => "refund" \notin legs[t]
    /\ kind[t] # "topup" /\ pc[t] \in {"reserved", "debit"} \cup BehindDebit
          => "reserve" \in legs[t]
    /\ kind[t] # "topup" /\ pc[t] \in BehindDebit => "debit" \in legs[t]
    /\ kind[t] # "withdrawal" /\ pc[t] \in BehindCredit => "credit" \in legs[t]
    /\ pc[t] \in BehindRefund => "refund" \in legs[t]
    /\ TwoLegged(t) /\ t \notin unseen /\ pc[t] \in {"fail", "failTx"} => "debit" \notin legs[t]

\* The log of the transaction and the place of its handler.
LogOK(t) ==
    /\ pc[t] = "idle" <=> txLog[t] = <<>>
    /\ pc[t] = "completed" => Has(txLog[t], "COMPLETED")
    /\ Has(txLog[t], "FAILED") => pc[t] \in Ended

\* The row, the handler's place and what is stored.
RowOK(t) ==
    /\ pc[t] \in {"idle", "start"} => row[t] = NoRow
    /\ pc[t] \notin {"idle", "start"} \cup Ended \/ legs[t] # {} => row[t] # NoRow
    /\ row[t] # NoRow =>
          /\ "completed" \in row[t].pending \/ Has(txLog[t], "COMPLETED")
          /\ row[t].status = "COMPLETED" => Has(txLog[t], "COMPLETED")
          /\ row[t].status = "FAILED" => pc[t] \in {"failTx", "giveUp"} \cup Ended
          /\ row[t].status = "FAILED" /\ TwoLegged(t) /\ t \notin unseen
                => "debit" \notin legs[t] \/ "refund" \in legs[t]

\* OutcomesAreEarned, for one transaction.
Earned(t) ==
    /\ TwoLegged(t) /\ legs[t] \cap {"credit", "refund"} # {} => "debit" \in legs[t]
    /\ Has(txLog[t], "COMPLETED") => LegsOf(t) \subseteq legs[t]
    /\ Has(txLog[t], "COMPENSATED") => "refund" \in legs[t]

SagaOK(t) == PlaceOK(t) /\ LegsOK(t) /\ LogOK(t) /\ RowOK(t) /\ Earned(t)

\* Every account was opened before the sagas run.
Opened == \A a \in Accounts : history[a] # <<>>

Base == TypeOK /\ Opened /\ \A t \in Transactions : SagaOK(t)

(***************************************************************************)
(* One step of one saga.                                                   *)
(***************************************************************************)

\* The call after each call of a handler of each kind.
LEMMA AfterTable ==
    ASSUME NEW t \in Transactions, kind[t] \in Kinds, PlaceOK(t)
    PROVE  /\ pc[t] = "start" => After(t) = IF kind[t] = "topup" THEN "credit" ELSE "reserve"
           /\ pc[t] = "reserve" => After(t) = "reserved"
           /\ pc[t] = "reserved" => After(t) = "debit"
           /\ pc[t] = "debit" => After(t) = "debited"
           /\ pc[t] = "debited" => After(t) = IF TwoLegged(t) THEN "credit" ELSE "complete"
           /\ pc[t] = "credit" => After(t) = "credited"
           /\ pc[t] = "credited" => After(t) = "complete"
           /\ pc[t] = "complete" => After(t) = "completed"
           /\ pc[t] = "completed" => After(t) = "done"
           /\ pc[t] = "fail" => After(t) = "failTx"
           /\ pc[t] = "failTx" => After(t) = "done"
           /\ pc[t] = "compensate" => After(t) = "refund"
           /\ pc[t] = "refund" => After(t) = "refunded"
           /\ pc[t] = "refunded" => After(t) = "compensateTx"
           /\ pc[t] = "compensateTx" => After(t) = "compensated"
           /\ pc[t] = "compensated" => After(t) = "done"
           /\ pc[t] = "giveUp" => After(t) = "done"
<1>1. CASE kind[t] = "topup"
    <2>1. Program[kind[t]] = TopupProgram
        BY <1>1 DEF Program
    <2>2. QED  BY <1>1, <2>1, TopupTable, CompensationTable, FailureTable
               DEF After, PlaceOK, TwoLegged, Compensating
<1>2. CASE kind[t] = "withdrawal"
    <2>1. Program[kind[t]] = WithdrawalProgram
        BY <1>2 DEF Program
    <2>2. QED  BY <1>2, <2>1, WithdrawalTable, CompensationTable, FailureTable
               DEF After, PlaceOK, TwoLegged, Compensating
<1>3. CASE kind[t] \in {"transfer", "payment", "refund"}
    <2>1. Program[kind[t]] = TransferProgram
        BY <1>3 DEF Program, PaymentProgram, RefundProgram
    <2>2. QED  BY <1>3, <2>1, TransferTable, CompensationTable, FailureTable
               DEF After, PlaceOK, TwoLegged, Compensating
<1>4. QED  BY <1>1, <1>2, <1>3 DEF Kinds

\* Where a throw leads to.
LEMMA CatchTable ==
    ASSUME NEW t \in Transactions, kind[t] \in Kinds, PlaceOK(t)
    PROVE  /\ pc[t] \in {"start", "fail", "compensate"} => Catch(t) = "rejected"
           /\ pc[t] \in {"failTx", "giveUp"} => Catch(t) = "swallowed"
           /\ pc[t] \in {"refund", "refunded", "compensateTx", "compensated"}
                 => Catch(t) = "giveUp"
           /\ pc[t] \in {"reserve", "reserved", "debit"} => Catch(t) = "fail"
           /\ pc[t] \in {"debited", "credit", "credited", "complete", "completed"}
                 => Catch(t) = IF TwoLegged(t) THEN "compensate" ELSE "fail"
<1>1. CASE kind[t] = "topup"
    <2>1. Program[kind[t]] = TopupProgram
        BY <1>1 DEF Program
    <2>2. QED  BY <1>1, <2>1, TopupTable, CompensationTable
               DEF Catch, PlaceOK, TwoLegged, Compensating, DebitReturned
<1>2. CASE kind[t] = "withdrawal"
    <2>1. Program[kind[t]] = WithdrawalProgram
        BY <1>2 DEF Program
    <2>2. QED  BY <1>2, <2>1, WithdrawalTable, CompensationTable
               DEF Catch, PlaceOK, TwoLegged, Compensating, DebitReturned
<1>3. CASE kind[t] \in {"transfer", "payment", "refund"}
    <2>1. Program[kind[t]] = TransferProgram
        BY <1>3 DEF Program, PaymentProgram, RefundProgram
    <2>2. QED  BY <1>3, <2>1, TransferTable, CompensationTable
               DEF Catch, PlaceOK, TwoLegged, Compensating, DebitReturned
<1>4. QED  BY <1>1, <1>2, <1>3 DEF Kinds

\* What a call leaves behind, seen from its transaction.
LegEffect(t) ==
    /\ pc[t] \in LegCalls
    /\ legs' = [legs EXCEPT ![t] = @ \cup {pc[t]}]
    /\ UNCHANGED <<kind, row, txLog>>

TxEffect(t) ==
    /\ pc[t] \in TxCalls
    /\ txLog' = [txLog EXCEPT ![t] = Append(@, TxOutcome(pc[t]))]
    /\ UNCHANGED <<kind, row, legs>>

RowEffect(t) ==
    /\ pc[t] \in RowCalls
    /\ row' = [row EXCEPT ![t] = RowSaved(t)]
    /\ UNCHANGED <<kind, txLog, legs, unseen>>

NoEffect(t) ==
    /\ pc[t] \in LegCalls \cup TxCalls \cup RowCalls
    /\ UNCHANGED <<kind, row, txLog, legs, unseen>>

GoesTo(t, l) == pc' = [pc EXCEPT ![t] = l]

\* The call returned, or it threw although its event was stored.
Settles(t) ==
    \/ GoesTo(t, After(t)) /\ UNCHANGED unseen
    \/ GoesTo(t, Catch(t)) /\ unseen' = unseen \cup {t}

\* A step of a saga has the effect of one call, or none, and goes where the call leads.
LEMMA StepEffects ==
    ASSUME NEW t \in Transactions, Step(t)
    PROVE  \/ LegEffect(t) /\ Settles(t)
           \/ TxEffect(t) /\ Settles(t)
           \/ RowEffect(t) /\ (GoesTo(t, After(t)) \/ GoesTo(t, Catch(t)))
           \/ NoEffect(t) /\ GoesTo(t, Catch(t))
<1>1. LegReturns(t) \/ LegAnswerLost(t) => LegEffect(t) /\ Settles(t)
    BY DEF LegReturns, LegAnswerLost, LegReads, StoresLeg, Returns, Fails, LegEffect, Settles,
           GoesTo
<1>2. TxReturns(t) \/ TxAnswerLost(t) => TxEffect(t) /\ Settles(t)
    BY DEF TxReturns, TxAnswerLost, StoresTx, Returns, Fails, TxEffect, Settles, GoesTo
<1>3. RowReturns(t) \/ RowAnswerLost(t)
         => RowEffect(t) /\ (GoesTo(t, After(t)) \/ GoesTo(t, Catch(t)))
    BY DEF RowReturns, RowAnswerLost, SavesRow, Returns, Fails, RowEffect, GoesTo
<1>4. LegRefused(t) \/ TxRefused(t) \/ CallFails(t) => NoEffect(t) /\ GoesTo(t, Catch(t))
    BY DEF LegRefused, LegReads, TxRefused, CallFails, Throws, Fails, NoEffect, GoesTo
<1>5. QED  BY <1>1, <1>2, <1>3, <1>4 DEF Step

\* What a log has after an append.
LEMMA AppendHas ==
    ASSUME NEW log \in Seq(TransactionStatuses), NEW x \in TransactionStatuses, NEW y
    PROVE  /\ Append(log, x) \in Seq(TransactionStatuses) /\ Append(log, x) # <<>>
           /\ Has(Append(log, x), y) <=> Has(log, y) \/ x = y
<1>1. /\ Append(log, x) \in Seq(TransactionStatuses)
      /\ Len(Append(log, x)) = Len(log) + 1
      /\ Append(log, x)[Len(log) + 1] = x
      /\ \A n \in 1 .. Len(log) : Append(log, x)[n] = log[n]
    OBVIOUS
<1>2. QED  BY <1>1 DEF Has, In

\* The calls on accounts of each kind.
LEMMA LegsTable ==
    ASSUME NEW t \in Transactions, kind[t] \in Kinds
    PROVE  LegsOf(t) = CASE kind[t] = "topup" -> {"credit"}
                         [] kind[t] = "withdrawal" -> {"reserve", "debit"}
                         [] OTHER -> {"reserve", "debit", "credit"}
<1>1. LegsOf(t) = {l \in LegCalls : In(l, Program[kind[t]])}
    BY DEF LegsOf, In
<1>2. CASE kind[t] = "topup"
    BY <1>1, <1>2, TopupTable DEF Program, LegCalls
<1>3. CASE kind[t] = "withdrawal"
    BY <1>1, <1>3, WithdrawalTable DEF Program, LegCalls
<1>4. CASE kind[t] \in {"transfer", "payment", "refund"}
    BY <1>1, <1>4, TransferTable DEF Program, PaymentProgram, RefundProgram, LegCalls
<1>5. QED  BY <1>2, <1>3, <1>4 DEF Kinds

\* A call on an account.
LEMMA LegStep ==
    ASSUME Base, NEW t \in Transactions, LegEffect(t), Settles(t)
    PROVE  SagaOK(t)'
<1>1. /\ kind[t] \in Kinds /\ SagaOK(t) /\ pc[t] \in LegCalls
      /\ kind'[t] = kind[t] /\ row'[t] = row[t] /\ txLog'[t] = txLog[t]
      /\ legs'[t] = legs[t] \cup {pc[t]} /\ LegsOf(t)' = LegsOf(t)
      /\ TwoLegged(t)' <=> TwoLegged(t)
    BY DEF Base, TypeOK, LegEffect, LegsOf, TwoLegged
<1>2. \/ pc'[t] = After(t) /\ unseen' = unseen
      \/ pc'[t] = Catch(t) /\ t \in unseen'
    BY DEF Base, TypeOK, Settles, GoesTo
<1>3. PlaceOK(t)
    BY <1>1 DEF SagaOK
<1>4. PlaceOK(t)'
    BY <1>1, <1>2, <1>3, AfterTable, CatchTable
       DEF PlaceOK, LegCalls, Compensating, TwoLegged, Kinds
<1>5. LegsOK(t)'
    BY <1>1, <1>2, <1>3, AfterTable, CatchTable
       DEF SagaOK, PlaceOK, LegsOK, LegCalls, BeforeReserve, BeforeDebit, BeforeCredit,
           BehindRefund, BehindCredit, BehindDebit, Compensating, Ended, TwoLegged, Kinds
<1>6. LogOK(t)'
    BY <1>1, <1>2, <1>3, AfterTable, CatchTable DEF SagaOK, LogOK, LegCalls, Ended
<1>7. RowOK(t)'
    BY <1>1, <1>2, <1>3, AfterTable, CatchTable DEF SagaOK, RowOK, LegCalls, Ended
<1>8. Earned(t)'
    BY <1>1, <1>3 DEF SagaOK, LegsOK, PlaceOK, Earned, BehindDebit, Compensating, LegCalls,
                      TwoLegged, Kinds
<1>9. QED  BY <1>4, <1>5, <1>6, <1>7, <1>8 DEF SagaOK

\* A call on the transaction.
LEMMA TxStep ==
    ASSUME Base, NEW t \in Transactions, TxEffect(t), Settles(t)
    PROVE  SagaOK(t)'
<1>1. /\ kind[t] \in Kinds /\ SagaOK(t) /\ pc[t] \in TxCalls
      /\ kind'[t] = kind[t] /\ row'[t] = row[t] /\ legs'[t] = legs[t]
      /\ txLog'[t] = Append(txLog[t], TxOutcome(pc[t])) /\ LegsOf(t)' = LegsOf(t)
      /\ TwoLegged(t)' <=> TwoLegged(t)
    BY DEF Base, TypeOK, TxEffect, LegsOf, TwoLegged
<1>2. \/ pc'[t] = After(t) /\ unseen' = unseen
      \/ pc'[t] = Catch(t) /\ unseen' = unseen \cup {t}
    BY DEF Base, TypeOK, Settles, GoesTo
<1>3. PlaceOK(t)
    BY <1>1 DEF SagaOK
<1>4. /\ txLog'[t] # <<>>
      /\ \A y : Has(txLog[t], y)' <=> Has(txLog[t], y) \/ y = TxOutcome(pc[t])
    <2>1. txLog[t] \in Seq(TransactionStatuses) /\ TxOutcome(pc[t]) \in TransactionStatuses
        BY <1>1 DEF Base, TypeOK, TxOutcome, TransactionStatuses
    <2>2. \A y : Has(txLog'[t], y) <=> Has(txLog[t], y) \/ y = TxOutcome(pc[t])
        BY <1>1, <2>1, AppendHas
    <2>3. QED  BY <1>1, <2>1, <2>2, AppendHas DEF Has
<1>5. PlaceOK(t)'
    BY <1>1, <1>2, <1>3, AfterTable, CatchTable
       DEF PlaceOK, TxCalls, Compensating, TwoLegged, Kinds
<1>6. LegsOK(t)'
    BY <1>1, <1>2, <1>3, AfterTable, CatchTable
       DEF SagaOK, PlaceOK, LegsOK, TxCalls, BeforeReserve, BeforeDebit, BeforeCredit,
           BehindRefund, BehindCredit, BehindDebit, Compensating, Ended, TwoLegged, Kinds
<1>7. LogOK(t)'
    <2>1. pc[t] # "idle" /\ pc'[t] # "idle"
        BY <1>1, <1>2, <1>3, AfterTable, CatchTable DEF TxCalls
    <2>2. pc'[t] = "completed" => TxOutcome(pc[t]) = "COMPLETED"
        BY <1>1, <1>2, <1>3, AfterTable, CatchTable DEF TxCalls, TxOutcome
    <2>3. TxOutcome(pc[t]) = "FAILED" => pc'[t] \in Ended
        BY <1>1, <1>2, <1>3, AfterTable, CatchTable DEF TxCalls, TxOutcome, Ended
    <2>4. ~Has(txLog[t], "FAILED")
        BY <1>1 DEF SagaOK, LogOK, TxCalls, Ended
    <2>5. QED  BY <1>4, <2>1, <2>2, <2>3, <2>4 DEF LogOK
<1>8. RowOK(t)'
    BY <1>1, <1>2, <1>3, <1>4, AfterTable, CatchTable DEF SagaOK, RowOK, TxCalls, Ended
<1>9. Earned(t)'
    <2>1. TxOutcome(pc[t]) = "COMPLETED" => LegsOf(t) \subseteq legs[t]
        BY <1>1, LegsTable
           DEF SagaOK, PlaceOK, LegsOK, TxCalls, TxOutcome, BehindDebit, BehindCredit, Kinds
    <2>2. TxOutcome(pc[t]) = "COMPENSATED" => "refund" \in legs[t]
        BY <1>1 DEF SagaOK, LegsOK, TxCalls, TxOutcome, BehindRefund
    <2>3. QED  BY <1>1, <1>4, <2>1, <2>2 DEF SagaOK, Earned
<1>10. QED  BY <1>5, <1>6, <1>7, <1>8, <1>9 DEF SagaOK

\* What each call on the row saves.
LEMMA SavedFields ==
    ASSUME Base, NEW t \in Transactions, pc[t] \in RowCalls
    PROVE  /\ RowSaved(t) \in Rows
           /\ pc[t] = "start" => /\ RowSaved(t).status = "PROCESSING"
                                 /\ "completed" \in RowSaved(t).pending
           /\ pc[t] # "start" => row[t] \in Rows
           /\ pc[t] \in {"fail", "compensate", "refunded", "compensated"}
                 => RowSaved(t).pending = row[t].pending
           /\ pc[t] \in {"fail", "compensated"} => RowSaved(t).status = "FAILED"
           /\ pc[t] = "compensate" => RowSaved(t).status = "COMPENSATING"
           /\ pc[t] = "refunded" => RowSaved(t).status = row[t].status
           /\ pc[t] \in RowSteps =>
                 /\ RowSaved(t).pending = row[t].pending \ {pc[t]}
                 /\ \/ RowSaved(t).status = row[t].status
                    \/ RowSaved(t).status = "COMPLETED" /\ RowSaved(t).pending = {}
<1>1. kind[t] \in Kinds /\ SagaOK(t) /\ row[t] \in Rows \cup {NoRow}
    BY DEF Base, TypeOK
<1>2. CASE pc[t] = "start"
    <2>1. In("completed", Program[kind[t]])
        BY <1>1, TopupTable, WithdrawalTable, TransferTable
           DEF Program, PaymentProgram, RefundProgram, Kinds
    <2>2. StepsOf(kind[t]) \subseteq RowSteps /\ "completed" \in StepsOf(kind[t])
        BY <2>1 DEF In, StepsOf, RowSteps
    <2>3. RowSaved(t) = [status |-> "PROCESSING", pending |-> StepsOf(kind[t])]
        BY <1>2 DEF RowSaved
    <2>4. QED  BY <1>2, <2>2, <2>3 DEF Rows, RowStatuses, RowSteps
<1>3. CASE pc[t] # "start"
    <2>1. row[t] \in Rows
        BY <1>1, <1>3 DEF SagaOK, RowOK, RowCalls, Ended
    <2>2. CASE pc[t] \in {"fail", "compensate", "refunded", "compensated"}
        BY <1>3, <2>1, <2>2 DEF RowSaved, Rows, RowStatuses, RowSteps
    <2>3. CASE pc[t] \in RowSteps
        <3>1. RowSaved(t) = StepCompleted(row[t], pc[t])
            BY <2>3 DEF RowSaved, RowSteps
        <3>2. QED  BY <1>3, <2>1, <2>3, <3>1 DEF StepCompleted, Rows, RowStatuses, RowSteps
    <2>4. QED  BY <1>3, <2>2, <2>3 DEF RowCalls, RowSteps
<1>4. QED  BY <1>2, <1>3

\* A call on the row.
LEMMA RowStep ==
    ASSUME Base, NEW t \in Transactions, RowEffect(t),
           GoesTo(t, After(t)) \/ GoesTo(t, Catch(t))
    PROVE  SagaOK(t)'
<1>1. /\ kind[t] \in Kinds /\ SagaOK(t) /\ pc[t] \in RowCalls
      /\ kind'[t] = kind[t] /\ row'[t] = RowSaved(t) /\ legs'[t] = legs[t]
      /\ txLog'[t] = txLog[t] /\ LegsOf(t)' = LegsOf(t) /\ unseen' = unseen
      /\ TwoLegged(t)' <=> TwoLegged(t)
    BY DEF Base, TypeOK, RowEffect, LegsOf, TwoLegged
<1>2. pc'[t] = After(t) \/ pc'[t] = Catch(t)
    BY DEF Base, TypeOK, GoesTo
<1>3. PlaceOK(t)
    BY <1>1 DEF SagaOK
<1>4. PlaceOK(t)'
    BY <1>1, <1>2, <1>3, AfterTable, CatchTable
       DEF PlaceOK, RowCalls, Compensating, TwoLegged, Kinds
<1>5. LegsOK(t)'
    BY <1>1, <1>2, <1>3, AfterTable, CatchTable
       DEF SagaOK, PlaceOK, LegsOK, RowCalls, BeforeReserve, BeforeDebit, BeforeCredit,
           BehindRefund, BehindCredit, BehindDebit, Compensating, Ended, TwoLegged, Kinds
<1>6. LogOK(t)'
    BY <1>1, <1>2, <1>3, AfterTable, CatchTable DEF SagaOK, LogOK, RowCalls, Ended
<1>7. RowOK(t)'
    <2>1. pc'[t] \notin {"idle", "start"} /\ RowSaved(t) # NoRow
        BY <1>1, <1>2, <1>3, AfterTable, CatchTable, SavedFields, SagasAssumption
           DEF RowCalls
    <2>2. pc[t] # "start" => row[t] # NoRow
        BY <1>1 DEF SagaOK, RowOK, RowCalls, Ended
    <2>3. "completed" \in RowSaved(t).pending \/ Has(txLog[t], "COMPLETED")
        BY <1>1, <2>2, SavedFields DEF SagaOK, RowOK, LogOK, RowCalls, RowSteps
    <2>4. RowSaved(t).status = "COMPLETED" => Has(txLog[t], "COMPLETED")
        BY <1>1, <2>2, <2>3, SavedFields DEF SagaOK, RowOK, RowCalls, RowSteps
    <2>5. RowSaved(t).status = "FAILED"
             => pc[t] \in {"fail", "compensated"} \/ (row[t] # NoRow /\ row[t].status = "FAILED")
        BY <1>1, <2>2, SavedFields DEF RowCalls, RowSteps
    <2>6. row[t] # NoRow => row[t].status # "FAILED"
        BY <1>1 DEF SagaOK, RowOK, RowCalls, Ended
    <2>7. RowSaved(t).status = "FAILED" => pc'[t] \in {"failTx", "giveUp"} \cup Ended
        BY <1>1, <1>2, <1>3, <2>5, <2>6, AfterTable, CatchTable DEF Ended
    <2>8. RowSaved(t).status = "FAILED" /\ TwoLegged(t) /\ t \notin unseen
             => "debit" \notin legs[t] \/ "refund" \in legs[t]
        BY <1>1, <2>5, <2>6 DEF SagaOK, LegsOK, BehindRefund
    <2>9. QED  BY <1>1, <2>1, <2>3, <2>4, <2>7, <2>8 DEF RowOK
<1>8. Earned(t)'
    BY <1>1 DEF SagaOK, Earned
<1>9. QED  BY <1>4, <1>5, <1>6, <1>7, <1>8 DEF SagaOK

\* A call that failed or was refused, without an effect.
LEMMA NoStep ==
    ASSUME Base, NEW t \in Transactions, NoEffect(t), GoesTo(t, Catch(t))
    PROVE  SagaOK(t)'
<1>1. /\ kind[t] \in Kinds /\ SagaOK(t) /\ pc[t] \in LegCalls \cup TxCalls \cup RowCalls
      /\ kind'[t] = kind[t] /\ row'[t] = row[t] /\ legs'[t] = legs[t]
      /\ txLog'[t] = txLog[t] /\ LegsOf(t)' = LegsOf(t) /\ unseen' = unseen
      /\ TwoLegged(t)' <=> TwoLegged(t)
    BY DEF Base, TypeOK, NoEffect, LegsOf, TwoLegged
<1>2. pc'[t] = Catch(t)
    BY DEF Base, TypeOK, GoesTo
<1>3. PlaceOK(t)
    BY <1>1 DEF SagaOK
<1>4. PlaceOK(t)'
    BY <1>1, <1>2, <1>3, CatchTable
       DEF PlaceOK, LegCalls, TxCalls, RowCalls, Compensating, TwoLegged, Kinds
<1>5. LegsOK(t)'
    BY <1>1, <1>2, <1>3, CatchTable
       DEF SagaOK, PlaceOK, LegsOK, LegCalls, TxCalls, RowCalls, BeforeReserve, BeforeDebit,
           BeforeCredit, BehindRefund, BehindCredit, BehindDebit, Compensating, Ended,
           TwoLegged, Kinds
<1>6. LogOK(t)'
    BY <1>1, <1>2, <1>3, CatchTable
       DEF SagaOK, LogOK, LegCalls, TxCalls, RowCalls, Ended
<1>7. RowOK(t)'
    BY <1>1, <1>2, <1>3, CatchTable
       DEF SagaOK, RowOK, LegCalls, TxCalls, RowCalls, Ended
<1>8. Earned(t)'
    BY <1>1 DEF SagaOK, Earned
<1>9. QED  BY <1>4, <1>5, <1>6, <1>7, <1>8 DEF SagaOK

\* The request handler's append, answered or not.
LEMMA RequestStep ==
    ASSUME Base, NEW t \in Transactions, Request(t) \/ RequestAnswerLost(t)
    PROVE  SagaOK(t)'
<1>1. /\ kind[t] \in Kinds /\ SagaOK(t) /\ pc[t] = "idle"
      /\ kind'[t] = kind[t] /\ row'[t] = row[t] /\ legs'[t] = legs[t]
      /\ txLog'[t] = <<"PENDING">> /\ LegsOf(t)' = LegsOf(t) /\ unseen' = unseen
      /\ TwoLegged(t)' <=> TwoLegged(t)
      /\ pc'[t] = "start" \/ pc'[t] = "rejected"
    <2>1. /\ SagaOK(t) /\ kind[t] \in Kinds
          /\ pc \in [Transactions -> Labels] /\ DOMAIN txLog = Transactions
        BY DEF Base, TypeOK
    <2>2. /\ pc[t] = "idle" /\ txLog' = [txLog EXCEPT ![t] = <<"PENDING">>]
          /\ UNCHANGED <<kind, row, legs, unseen>>
          /\ GoesTo(t, "start") \/ GoesTo(t, "rejected")
        BY DEF Request, RequestAnswerLost, Requested, GoesTo
    <2>3. QED  BY <2>1, <2>2 DEF GoesTo, LegsOf, TwoLegged
<1>2. \A y : Has(txLog'[t], y) <=> y = "PENDING"
    BY <1>1 DEF Has, In
<1>3. PlaceOK(t)'
    BY <1>1 DEF PlaceOK, Compensating
<1>4. LegsOK(t)'
    BY <1>1 DEF SagaOK, LegsOK, BeforeReserve, BeforeDebit, BeforeCredit, BehindRefund,
                BehindCredit, BehindDebit, Compensating, Ended
<1>5. LogOK(t)'
    BY <1>1, <1>2 DEF LogOK, Has
<1>6. RowOK(t)'
    BY <1>1, <1>2 DEF SagaOK, LegsOK, RowOK, Ended
<1>7. Earned(t)'
    BY <1>1, <1>2 DEF SagaOK, LegsOK, Earned, Has
<1>8. QED  BY <1>3, <1>4, <1>5, <1>6, <1>7 DEF SagaOK

\* A crash, and every step in which the transaction's own handler has no part:
\* the handler stays where it is or is gone.
LEMMA OtherStep ==
    ASSUME Base, NEW t \in Transactions,
           kind'[t] = kind[t], row'[t] = row[t], legs'[t] = legs[t], txLog'[t] = txLog[t],
           t \in unseen => t \in unseen',
           pc'[t] = pc[t] \/ (pc[t] # "idle" /\ pc'[t] = "gone")
    PROVE  SagaOK(t)'
<1>1. /\ kind[t] \in Kinds /\ SagaOK(t) /\ LegsOf(t)' = LegsOf(t)
      /\ TwoLegged(t)' <=> TwoLegged(t)
    BY DEF Base, TypeOK, LegsOf, TwoLegged
<1>2. PlaceOK(t)'
    BY <1>1 DEF SagaOK, PlaceOK, Compensating
<1>3. LegsOK(t)'
    BY <1>1 DEF SagaOK, LegsOK, BeforeReserve, BeforeDebit, BeforeCredit, BehindRefund,
                BehindCredit, BehindDebit, Compensating, Ended
<1>4. LogOK(t)'
    BY <1>1 DEF SagaOK, LogOK, Ended
<1>5. RowOK(t)'
    BY <1>1 DEF SagaOK, RowOK, Ended
<1>6. Earned(t)'
    BY <1>1 DEF SagaOK, Earned
<1>7. QED  BY <1>2, <1>3, <1>4, <1>5, <1>6 DEF SagaOK

(***************************************************************************)
(* What a step does to the accounts.                                       *)
(***************************************************************************)

\* Events replayed behind an account's log: a log of states that ends with what
\* the first of them makes of its last state.
LEMMA AppendsTo ==
    ASSUME Base, NEW a \in Accounts, NEW e \in Events, NEW refill \in BOOLEAN,
           history' = [history EXCEPT ![a] = @ \o Replayed(@[Len(@)], e, refill)]
    PROVE  /\ Last(a) \in States
           /\ history' \in [Accounts -> Seq(States)] /\ Opened'
           /\ Last(a)'.balance = Apply(Last(a), e).balance
           /\ Last(a)'.reserved = Apply(Last(a), e).reserved
           /\ \A b \in Accounts \ {a} : Last(b)' = Last(b)
<1> DEFINE new == Replayed(Last(a), e, refill)
<1>1. history[a] \in Seq(States) /\ history[a] # <<>>
    BY DEF Base, TypeOK, Opened
<1>2. Len(history[a]) \in Nat \ {0} /\ Last(a) \in States
    BY <1>1 DEF Last
<1>3. /\ new \in Seq(States) /\ Len(new) \in {1, 2}
      /\ \A n \in 1 .. Len(new) : /\ new[n].balance = Apply(Last(a), e).balance
                                 /\ new[n].reserved = Apply(Last(a), e).reserved
    BY <1>2, ReplayedType
<1>4. history' = [history EXCEPT ![a] = history[a] \o new]
    BY DEF Last
<1> HIDE DEF new
<1>5. history'[a] = history[a] \o new /\ \A b \in Accounts \ {a} : history'[b] = history[b]
    <2>1. history \in [Accounts -> Seq(States)]
        BY DEF Base, TypeOK
    <2>2. QED  BY <1>4, <2>1
<1>6. /\ history[a] \o new \in Seq(States)
      /\ Len(history[a] \o new) = Len(history[a]) + Len(new)
      /\ (history[a] \o new)[Len(history[a]) + Len(new)] = new[Len(new)]
    <2>1. PICK log \in Seq(States) : log = history[a]
        BY <1>1
    <2>2. /\ log \o new \in Seq(States) /\ Len(log \o new) = Len(log) + Len(new)
          /\ \A n \in 1 .. Len(log) + Len(new) :
                (log \o new)[n] = IF n <= Len(log) THEN log[n] ELSE new[n - Len(log)]
        BY <1>3, ConcatProperties
    <2>3. Len(log) \in Nat /\ Len(new) \in {1, 2}
        BY <1>2, <1>3, <2>1
    <2>4. (log \o new)[Len(log) + Len(new)] = new[Len(new)]
        <3>1. PICK k, l : k = Len(log) /\ l = Len(new) /\ k \in Nat /\ l \in {1, 2}
            BY <2>3
        <3>2. k + l \in 1 .. k + l /\ ~(k + l <= k) /\ (k + l) - k = l
            BY <3>1
        <3>3. QED  BY <2>2, <3>1, <3>2
    <2>5. QED  BY <2>1, <2>2, <2>4
<1>7. history' \in [Accounts -> Seq(States)]
    BY <1>4, <1>6 DEF Base, TypeOK
<1>8. Opened'
    <2>1. history'[a] # <<>>
        BY <1>2, <1>3, <1>5, <1>6
    <2>2. QED  BY <1>5, <2>1 DEF Base, Opened
<1>9. Last(a)' = new[Len(new)]
    BY <1>5, <1>6 DEF Last
<1>10. \A b \in Accounts \ {a} : Last(b)' = Last(b)
    BY <1>5 DEF Last
<1>11. /\ new[Len(new)].balance = Apply(Last(a), e).balance
       /\ new[Len(new)].reserved = Apply(Last(a), e).reserved
    BY <1>3
<1>12. QED  BY <1>2, <1>7, <1>8, <1>9, <1>10, <1>11

\* A call on an account adds its events to that account.
LEMMA LegAppends ==
    ASSUME Base, NEW t \in Transactions, LegReturns(t) \/ LegAnswerLost(t)
    PROVE  \E n \in 1 .. Len(history[LegAccount(t, pc[t])]), refill \in BOOLEAN :
              LET a == LegAccount(t, pc[t])
                  e == LegEvent(t, pc[t], history[a][n])
              IN  /\ a \in Accounts /\ e \in Events /\ history[a][n] \in States
                  /\ LegAccepted(t, pc[t], history[a][n])
                  /\ history' = [history EXCEPT ![a] = @ \o Replayed(@[Len(@)], e, refill)]
                  /\ stale' = IF n = Len(history[a]) THEN stale ELSE stale \cup {a}
<1> DEFINE a == LegAccount(t, pc[t])
<1>1. a \in Accounts /\ Amount[t] \in Int
    BY SagasAssumption DEF LegAccount
<1>2. PICK n \in Readable(history[a]) \ {0} : StoresLeg(t, n)
    BY DEF LegReturns, LegAnswerLost
<1>3. n \in 1 .. Len(history[a]) /\ history[a] \in Seq(States)
    BY <1>1, <1>2 DEF Readable, Base, TypeOK
<1> DEFINE e == LegEvent(t, pc[t], history[a][n])
           refill == LegRefills(pc[t], Apply(history[a][n], e))
<1>4. history[a][n] \in States
    BY <1>3
<1>5. e \in Events
    BY <1>1, <1>4, EventType, SagasAssumption DEF LegEvent, Changes
<1>6. refill \in BOOLEAN
    BY DEF LegRefills, NeedsReplenishment
<1>7. /\ LegAccepted(t, pc[t], history[a][n])
      /\ history' = [history EXCEPT ![a] = @ \o Replayed(@[Len(@)], e, refill)]
      /\ stale' = IF n = Len(history[a]) THEN stale ELSE stale \cup {a}
    BY <1>2 DEF StoresLeg
<1> HIDE DEF e, refill
<1>8. QED  BY <1>1, <1>3, <1>4, <1>5, <1>6, <1>7 DEF e

\* A change of status adds its event to the account.
LEMMA StatusAppends ==
    ASSUME Base, NEW a \in Accounts, NEW new \in Statuses, ChangeStatus(a, new)
    PROVE  \E e \in StatusChangedEvents :
              /\ e \in Events
              /\ history' = [history EXCEPT ![a] = @ \o Replayed(@[Len(@)], e, FALSE)]
              /\ stale' \in {stale, stale \cup {a}}
<1>1. PICK n \in Readable(history[a]) \ {0} :
         /\ history' = [history EXCEPT ![a] =
                @ \o Replayed(@[Len(@)], StatusChanged(@[n], new), FALSE)]
         /\ stale' = IF n = Len(history[a]) THEN stale ELSE stale \cup {a}
    BY DEF ChangeStatus
<1>2. n \in 1 .. Len(history[a]) /\ history[a] \in Seq(States)
    BY <1>1 DEF Readable, Base, TypeOK
<1>3. history[a][n] \in States
    BY <1>2
<1> DEFINE e == StatusChanged(history[a][n], new)
<1>4. e \in StatusChangedEvents
    BY <1>3 DEF StatusChanged, StatusChangedEvents, States
<1>5. history' = [history EXCEPT ![a] = @ \o Replayed(@[Len(@)], e, FALSE)]
    BY <1>1
<1> HIDE DEF e
<1>6. QED  BY <1>1, <1>4, <1>5 DEF Events

(***************************************************************************)
(* Base is an invariant.                                                   *)
(***************************************************************************)

\* Where a handler goes is a place.
LEMMA PlaceType ==
    ASSUME Base, NEW t \in Transactions, pc[t] \in LegCalls \cup TxCalls \cup RowCalls
    PROVE  After(t) \in Labels /\ Catch(t) \in Labels
<1>1. kind[t] \in Kinds /\ PlaceOK(t)
    BY DEF Base, TypeOK, SagaOK
<1>2. QED  BY <1>1, AfterTable, CatchTable DEF Labels, Ended, LegCalls, TxCalls, RowCalls

\* The accounts' logs stay logs of states, whatever a call stores.
LEMMA HistoryStep ==
    ASSUME Base, [Next]_vars
    PROVE  /\ history' \in [Accounts -> Seq(States)] /\ Opened'
           /\ stale \subseteq stale' /\ stale' \subseteq Accounts \cup Transactions
<1>0. stale \subseteq Accounts \cup Transactions
    BY DEF Base, TypeOK
<1>1. ASSUME NEW t \in Transactions, LegReturns(t) \/ LegAnswerLost(t)
      PROVE  /\ history' \in [Accounts -> Seq(States)] /\ Opened'
             /\ stale \subseteq stale' /\ stale' \subseteq Accounts \cup Transactions
    <2>1. PICK n \in 1 .. Len(history[LegAccount(t, pc[t])]), refill \in BOOLEAN :
              LET a == LegAccount(t, pc[t])
                  e == LegEvent(t, pc[t], history[a][n])
              IN  /\ a \in Accounts /\ e \in Events
                  /\ history' = [history EXCEPT ![a] = @ \o Replayed(@[Len(@)], e, refill)]
                  /\ stale' = IF n = Len(history[a]) THEN stale ELSE stale \cup {a}
        BY <1>1, LegAppends
    <2>2. QED  BY <1>0, <2>1, AppendsTo
<1>2. ASSUME NEW a \in Accounts, NEW new \in Statuses, ChangeStatus(a, new)
      PROVE  /\ history' \in [Accounts -> Seq(States)] /\ Opened'
             /\ stale \subseteq stale' /\ stale' \subseteq Accounts \cup Transactions
    <2>1. PICK e \in StatusChangedEvents :
              /\ e \in Events
              /\ history' = [history EXCEPT ![a] = @ \o Replayed(@[Len(@)], e, FALSE)]
              /\ stale' \in {stale, stale \cup {a}}
        BY <1>2, StatusAppends
    <2>2. QED  BY <1>0, <2>1, AppendsTo
<1>3. ASSUME UNCHANGED history, stale \subseteq stale', stale' \subseteq stale \cup Transactions
      PROVE  /\ history' \in [Accounts -> Seq(States)] /\ Opened'
             /\ stale \subseteq stale' /\ stale' \subseteq Accounts \cup Transactions
    BY <1>0, <1>3 DEF Base, TypeOK, Opened
<1>4. ASSUME NEW t \in Transactions, TxReturns(t) \/ TxAnswerLost(t)
      PROVE  UNCHANGED history /\ stale \subseteq stale' /\ stale' \subseteq stale \cup Transactions
    BY <1>4 DEF TxReturns, TxAnswerLost, StoresTx
<1>5. ASSUME NEW t \in Transactions,
             \/ Request(t) \/ RequestAnswerLost(t)
             \/ LegRefused(t) \/ TxRefused(t) \/ CallFails(t)
             \/ RowReturns(t) \/ RowAnswerLost(t)
      PROVE  UNCHANGED <<history, stale>>
    BY <1>5 DEF Request, RequestAnswerLost, LegRefused, TxRefused, CallFails, RowReturns,
                RowAnswerLost, SavesRow
<1>6. Crash \/ UNCHANGED vars => UNCHANGED <<history, stale>>
    BY DEF Crash, vars
<1>7. ASSUME NEW t \in Transactions, Step(t)
      PROVE  /\ history' \in [Accounts -> Seq(States)] /\ Opened'
             /\ stale \subseteq stale' /\ stale' \subseteq Accounts \cup Transactions
    BY <1>1, <1>3, <1>4, <1>5, <1>7 DEF Step
<1>8. QED  BY <1>2, <1>3, <1>5, <1>6, <1>7 DEF Next

\* The bounds of the model hold, and nobody's kind changes.
LEMMA CountersStep ==
    ASSUME TypeOK, [Next]_vars
    PROVE  /\ faults' \in 0 .. MaxFaults /\ crashes' \in 0 .. MaxCrashes
           /\ kind' = kind
<1>1. ASSUME NEW t \in Transactions, Step(t)
      PROVE  /\ faults' = faults \/ (faults < MaxFaults /\ faults' = faults + 1)
             /\ crashes' = crashes /\ kind' = kind
    BY <1>1 DEF Step, LegReturns, LegRefused, LegAnswerLost, TxReturns, TxRefused, TxAnswerLost,
                RowReturns, RowAnswerLost, CallFails, StoresLeg, StoresTx, SavesRow, Returns,
                Throws, Fails
<1>2. ASSUME NEW t \in Transactions, Request(t) \/ RequestAnswerLost(t)
      PROVE  /\ faults' = faults \/ (faults < MaxFaults /\ faults' = faults + 1)
             /\ crashes' = crashes /\ kind' = kind
    BY <1>2 DEF Request, RequestAnswerLost
<1>3. ASSUME NEW a \in Accounts, NEW new \in Statuses, ChangeStatus(a, new)
      PROVE  UNCHANGED <<faults, crashes, kind>>
    BY <1>3 DEF ChangeStatus
<1>4. Crash => UNCHANGED <<faults, kind>> /\ crashes < MaxCrashes /\ crashes' = crashes + 1
    BY DEF Crash
<1>5. UNCHANGED vars => UNCHANGED <<faults, crashes, kind>>
    BY DEF vars
<1>6. /\ faults' = faults \/ (faults < MaxFaults /\ faults' = faults + 1)
      /\ crashes' = crashes \/ (crashes < MaxCrashes /\ crashes' = crashes + 1)
      /\ kind' = kind
    BY <1>1, <1>2, <1>3, <1>4, <1>5 DEF Next
<1>7. QED  BY <1>6, SagasAssumption DEF TypeOK

\* A step as one transaction sees it: its own call, its request, or neither.
LEMMA StepCases ==
    ASSUME TypeOK, [Next]_vars
    PROVE  \/ \E t \in Transactions :
                 \/ LegEffect(t) /\ Settles(t)
                 \/ TxEffect(t) /\ Settles(t)
                 \/ RowEffect(t) /\ (GoesTo(t, After(t)) \/ GoesTo(t, Catch(t)))
                 \/ NoEffect(t) /\ GoesTo(t, Catch(t))
                 \/ Request(t) \/ RequestAnswerLost(t)
           \/ /\ UNCHANGED <<kind, row, txLog, legs, unseen>>
              /\ pc' \in [Transactions -> Labels]
              /\ \A t \in Transactions :
                    pc'[t] = pc[t] \/ (pc[t] # "idle" /\ pc'[t] = "gone")
<1>1. \A a \in Accounts, new \in Statuses :
         ChangeStatus(a, new) => UNCHANGED <<kind, pc, row, txLog, legs, unseen>>
    BY DEF ChangeStatus
<1>2. UNCHANGED vars => UNCHANGED <<kind, pc, row, txLog, legs, unseen>>
    BY DEF vars
<1>3. ASSUME Crash
      PROVE  /\ UNCHANGED <<kind, row, txLog, legs, unseen>>
             /\ pc' \in [Transactions -> Labels]
             /\ \A t \in Transactions :
                   pc'[t] = pc[t] \/ (pc[t] # "idle" /\ pc'[t] = "gone")
    BY <1>3 DEF Crash, TypeOK, Labels, Ended
<1>4. UNCHANGED pc => /\ pc' \in [Transactions -> Labels]
                      /\ \A t \in Transactions : pc'[t] = pc[t]
    BY DEF TypeOK
<1>5. QED  BY <1>1, <1>2, <1>3, <1>4, StepEffects DEF Next

\* One saga's step keeps the invariant of every saga.
LEMMA SagaStep ==
    ASSUME Base, [Next]_vars, NEW u \in Transactions
    PROVE  SagaOK(u)'
<1>1. ASSUME UNCHANGED <<kind, row, txLog, legs, unseen>>,
             \A t \in Transactions : pc'[t] = pc[t] \/ (pc[t] # "idle" /\ pc'[t] = "gone")
      PROVE  SagaOK(u)'
    BY <1>1, OtherStep
<1>2. ASSUME NEW t \in Transactions,
             \/ LegEffect(t) /\ Settles(t)
             \/ TxEffect(t) /\ Settles(t)
             \/ RowEffect(t) /\ (GoesTo(t, After(t)) \/ GoesTo(t, Catch(t)))
             \/ NoEffect(t) /\ GoesTo(t, Catch(t))
             \/ Request(t) \/ RequestAnswerLost(t)
      PROVE  SagaOK(u)'
    <2>1. CASE u = t
        BY <1>2, <2>1, LegStep, TxStep, RowStep, NoStep, RequestStep
    <2>2. CASE u # t
        <3>1. /\ kind'[u] = kind[u] /\ row'[u] = row[u] /\ legs'[u] = legs[u]
              /\ txLog'[u] = txLog[u] /\ pc'[u] = pc[u]
              /\ u \in unseen => u \in unseen'
            BY <1>2, <2>2 DEF LegEffect, TxEffect, RowEffect, NoEffect, Settles, GoesTo, Request,
                              RequestAnswerLost, Base, TypeOK
        <3>2. QED  BY <3>1, OtherStep
    <2>3. QED  BY <2>1, <2>2
<1>3. TypeOK
    BY DEF Base
<1>4. QED  BY <1>1, <1>2, <1>3, StepCases

\* The variables of the sagas keep their types.
LEMMA SagaTypes ==
    ASSUME Base, [Next]_vars
    PROVE  /\ pc' \in [Transactions -> Labels]
           /\ row' \in [Transactions -> Rows \cup {NoRow}]
           /\ txLog' \in [Transactions -> Seq(TransactionStatuses)]
           /\ legs' \in [Transactions -> SUBSET LegCalls]
           /\ unseen' \subseteq Transactions
<1> USE DEF TypeOK
<1>0. TypeOK
    BY DEF Base
<1>1. ASSUME NEW t \in Transactions, pc[t] \in LegCalls \cup TxCalls \cup RowCalls,
             GoesTo(t, After(t)) \/ GoesTo(t, Catch(t))
      PROVE  pc' \in [Transactions -> Labels]
    BY <1>0, <1>1, PlaceType DEF GoesTo
<1>2. ASSUME NEW t \in Transactions, LegEffect(t), Settles(t)
      PROVE  /\ pc' \in [Transactions -> Labels]
             /\ legs' \in [Transactions -> SUBSET LegCalls]
             /\ UNCHANGED <<row, txLog>> /\ unseen' \subseteq Transactions
    BY <1>0, <1>1, <1>2 DEF LegEffect, Settles
<1>3. ASSUME NEW t \in Transactions, TxEffect(t), Settles(t)
      PROVE  /\ pc' \in [Transactions -> Labels]
             /\ txLog' \in [Transactions -> Seq(TransactionStatuses)]
             /\ UNCHANGED <<row, legs>> /\ unseen' \subseteq Transactions
    <2>1. Append(txLog[t], TxOutcome(pc[t])) \in Seq(TransactionStatuses)
        BY <1>0 DEF TxOutcome, TransactionStatuses
    <2>2. QED  BY <1>0, <1>1, <1>3, <2>1 DEF TxEffect, Settles
<1>4. ASSUME NEW t \in Transactions, RowEffect(t), GoesTo(t, After(t)) \/ GoesTo(t, Catch(t))
      PROVE  /\ pc' \in [Transactions -> Labels]
             /\ row' \in [Transactions -> Rows \cup {NoRow}]
             /\ UNCHANGED <<txLog, legs, unseen>>
    <2>1. RowSaved(t) \in Rows
        BY <1>4, SavedFields DEF RowEffect
    <2>2. QED  BY <1>0, <1>1, <1>4, <2>1 DEF RowEffect
<1>5. ASSUME NEW t \in Transactions, NoEffect(t), GoesTo(t, Catch(t))
      PROVE  pc' \in [Transactions -> Labels] /\ UNCHANGED <<row, txLog, legs, unseen>>
    BY <1>1, <1>5 DEF NoEffect
<1>6. ASSUME NEW t \in Transactions, Request(t) \/ RequestAnswerLost(t)
      PROVE  /\ pc' \in [Transactions -> Labels]
             /\ txLog' \in [Transactions -> Seq(TransactionStatuses)]
             /\ UNCHANGED <<row, legs, unseen>>
    <2>1. Requested \in Seq(TransactionStatuses)
        BY DEF Requested, TransactionStatuses
    <2>2. /\ txLog' = [txLog EXCEPT ![t] = Requested]
          /\ GoesTo(t, "start") \/ GoesTo(t, "rejected")
          /\ UNCHANGED <<row, legs, unseen>>
        BY <1>6 DEF Request, RequestAnswerLost, GoesTo
    <2>3. pc' \in [Transactions -> Labels]
        BY <1>0, <2>2 DEF GoesTo, Labels, Ended
    <2>4. QED  BY <1>0, <2>1, <2>2, <2>3
<1>7. QED  BY <1>0, <1>2, <1>3, <1>4, <1>5, <1>6, StepCases

\* Before the sagas run, every account has its creation and its funds.
LEMMA InitialHistory ==
    ASSUME Init, NEW a \in Accounts
    PROVE  /\ history[a] \in Seq(States) /\ history[a] # <<>>
           /\ Last(a).balance = Funds[a] /\ Last(a).reserved[Here] = 0
<1> DEFINE s == Created(Here)
           e == BalanceChanged(s, Here, "CREDIT", Funds[a])
           new == Replayed(s, e, FALSE)
<1>1. s \in States /\ <<s>> \in Seq(States) /\ Funds[a] \in Int
    BY CreatedType, SagasAssumption
<1>2. /\ e \in Events /\ e \in BalanceChangedEvents /\ e.change = "CREDIT"
      /\ e.newBalance = s.balance + Signed("CREDIT", Funds[a])
    <2>1. "CREDIT" \in Changes
        BY DEF Changes
    <2>2. QED  BY <1>1, <2>1, EventType, BalanceChangedFields, SagasAssumption
<1>3. new = <<Apply(s, e)>>
    BY DEF Replayed
<1>4. /\ Apply(s, e) \in States
      /\ Apply(s, e).balance = Funds[a] /\ Apply(s, e).reserved[Here] = 0
    <2>1. Apply(s, e).balance = e.newBalance /\ Apply(s, e).reserved = s.reserved
        BY <1>1, <1>2, ApplyFields
    <2>2. s.balance = 0 /\ s.reserved[Here] = 0
        BY SagasAssumption DEF Created
    <2>3. QED  BY <1>1, <1>2, <2>1, <2>2, ApplyType DEF Signed
<1>5. history[a] = <<s>> \o new
    BY DEF Init
<1> HIDE DEF s, e, new
<1>6. /\ history[a] \in Seq(States) /\ Len(history[a]) = 2
      /\ history[a][2] = Apply(s, e)
    BY <1>1, <1>3, <1>4, <1>5
<1>7. QED  BY <1>4, <1>6 DEF Last

\* At every await of every saga, and after a crash: the calls that returned are
\* stored, and the row and the log say no more than what is.
THEOREM BaseInvariant == Spec => []Base
<1>1. Init => Base
    <2> SUFFICES ASSUME Init PROVE Base
        OBVIOUS
    <2>1. Opened /\ history \in [Accounts -> Seq(States)]
        BY InitialHistory DEF Init, Opened
    <2>2. TypeOK
        <3>1. kind \in [Transactions -> Kinds] /\ MaxFaults \in Nat /\ MaxCrashes \in Nat
            BY SagasAssumption DEF Init
        <3>2. /\ pc \in [Transactions -> Labels] /\ row \in [Transactions -> Rows \cup {NoRow}]
              /\ legs \in [Transactions -> SUBSET LegCalls]
              /\ \A t \in Transactions : row[t] = NoRow
            BY DEF Init, Labels
        <3>3. <<>> \in Seq(TransactionStatuses)
            OBVIOUS
        <3>4. txLog \in [Transactions -> Seq(TransactionStatuses)]
            BY <3>3 DEF Init
        <3>5. stale = {} /\ unseen = {} /\ faults = 0 /\ crashes = 0
            BY DEF Init
        <3>6. QED  BY <2>1, <3>1, <3>2, <3>4, <3>5 DEF TypeOK
    <2>3. ASSUME NEW t \in Transactions
          PROVE  SagaOK(t)
        <3>1. pc[t] = "idle" /\ row[t] = NoRow /\ txLog[t] = <<>> /\ legs[t] = {}
            BY DEF Init
        <3>2. \A y : ~Has(txLog[t], y)
            BY <3>1 DEF Has, In
        <3>3. QED  BY <3>1, <3>2 DEF SagaOK, PlaceOK, LegsOK, LogOK, RowOK, Earned, Compensating,
                      BeforeReserve, BeforeDebit, BeforeCredit, BehindRefund, BehindCredit,
                      BehindDebit, Ended
    <2>4. QED  BY <2>1, <2>2, <2>3 DEF Base
<1>2. Base /\ [Next]_vars => Base'
    <2> SUFFICES ASSUME Base, [Next]_vars PROVE Base'
        OBVIOUS
    <2>1. \A t \in Transactions : SagaOK(t)'
        BY SagaStep
    <2>2. TypeOK'
        <3>1. \A t \in Transactions : row'[t] # NoRow => txLog'[t] # <<>>
            BY <2>1 DEF SagaOK, RowOK, LogOK
        <3>2. kind' \in [Transactions -> Kinds]
            BY CountersStep DEF Base, TypeOK
        <3>3. QED  BY <3>1, <3>2, SagaTypes, HistoryStep, CountersStep DEF Base, TypeOK
    <2>3. QED  BY <2>1, <2>2, HistoryStep DEF Base
<1>3. QED  BY <1>1, <1>2, PTL DEF Spec

\* Every reachable state of the sagas has the types the variables are declared
\* with, and a row only where there is a transaction.
THEOREM TypeCorrect == Spec => []TypeOK
<1>1. Base => TypeOK
    BY DEF Base
<1>2. QED  BY <1>1, BaseInvariant, PTL

\* Wherever a saga is cut off: no money arrives that was not taken, and a
\* completed or compensated transaction moved what it reports.
THEOREM OutcomesEarned == Spec => []OutcomesAreEarned
<1>1. Base => OutcomesAreEarned
    BY DEF Base, SagaOK, Earned, OutcomesAreEarned
<1>2. QED  BY <1>1, BaseInvariant, PTL

\* Money that left the source and is nowhere else belongs to a saga that
\* getPendingSagas() lists, unless an answer of the event store was lost.
THEOREM MissingMoneyListed == Spec => []MissingMoneyIsListed
<1>1. Base => MissingMoneyIsListed
    <2> SUFFICES ASSUME Base, NEW t \in Transactions \ unseen, TwoLegged(t),
                        legs[t] \cap {"debit", "credit", "refund"} = {"debit"}
                 PROVE  row[t] # NoRow /\ row[t].status \in {"PROCESSING", "COMPENSATING"}
        BY DEF MissingMoneyIsListed
    <2>1. /\ SagaOK(t) /\ kind[t] \in Kinds /\ row[t] \in Rows \cup {NoRow}
          /\ "debit" \in legs[t] /\ "credit" \notin legs[t] /\ "refund" \notin legs[t]
        BY DEF Base, TypeOK
    <2>2. row[t] # NoRow /\ row[t] \in Rows
        BY <2>1 DEF SagaOK, RowOK
    <2>3. row[t].status # "FAILED"
        BY <2>1, <2>2 DEF SagaOK, RowOK
    <2>4. row[t].status # "COMPLETED"
        <3>1. "credit" \in LegsOf(t)
            BY <2>1, LegsTable DEF TwoLegged
        <3>2. ~Has(txLog[t], "COMPLETED")
            BY <2>1, <3>1 DEF SagaOK, Earned
        <3>3. QED  BY <2>1, <2>2, <3>2 DEF SagaOK, RowOK
    <2>5. QED  BY <2>2, <2>3, <2>4 DEF Rows, RowStatuses
<1>2. QED  BY <1>1, BaseInvariant, PTL

\* A row that says COMPLETED belongs to a transaction whose log says so.
THEOREM CompletedRowsCompleted == Spec => []CompletedRowIsCompletedTransaction
<1>1. Base => CompletedRowIsCompletedTransaction
    BY DEF Base, SagaOK, RowOK, CompletedRowIsCompletedTransaction
<1>2. QED  BY <1>1, BaseInvariant, PTL

\* A step that appends to a transaction's log, on the whole log or an older part.
LEMMA LogSteps ==
    ASSUME Base, [Next]_vars, NEW t \in Transactions, txLog'[t] # txLog[t]
    PROVE  \/ pc[t] = "idle"
           \/ \E n \in Readable(txLog[t]) : StoresTx(t, n)
<1>1. ASSUME NEW u \in Transactions, Step(u)
      PROVE  \E n \in Readable(txLog[t]) : StoresTx(t, n)
    <2>1. \/ UNCHANGED txLog
          \/ \E n \in Readable(txLog[u]) : StoresTx(u, n)
        BY <1>1 DEF Step, LegReturns, LegRefused, LegAnswerLost, TxReturns, TxRefused,
                    TxAnswerLost, RowReturns, RowAnswerLost, CallFails, StoresLeg, SavesRow
    <2>2. PICK n \in Readable(txLog[u]) : StoresTx(u, n)
        BY <2>1
    <2>3. u = t
        BY <2>2 DEF StoresTx, Base, TypeOK
    <2>4. QED  BY <2>2, <2>3
<1>2. ASSUME NEW u \in Transactions, Request(u) \/ RequestAnswerLost(u)
      PROVE  pc[t] = "idle"
    BY <1>2 DEF Request, RequestAnswerLost, Base, TypeOK
<1>3. \A a \in Accounts, new \in Statuses : ~ChangeStatus(a, new)
    BY DEF ChangeStatus
<1>4. ~Crash /\ ~UNCHANGED vars
    BY DEF Crash, vars
<1>5. QED  BY <1>1, <1>2, <1>3, <1>4 DEF Next

\* A transaction with a terminal status keeps it, unless a command that had not
\* read the terminal event is appended behind it.
THEOREM TerminalStatusFinal == Spec => TerminalIsFinal
<1> DEFINE Final == \A t \in Transactions :
                       txLog[t] # <<>> /\ Status(txLog[t]) \in Terminal /\ t \notin stale'
                           => txLog[t]' = txLog[t]
<1>1. Base /\ [Next]_vars => Final
    <2> SUFFICES ASSUME Base, [Next]_vars, NEW t \in Transactions,
                        txLog[t] # <<>>, Status(txLog[t]) \in Terminal, t \notin stale',
                        txLog'[t] # txLog[t]
                 PROVE  FALSE
        OBVIOUS
    <2>1. SagaOK(t) /\ txLog[t] \in Seq(TransactionStatuses)
        BY DEF Base, TypeOK
    <2>2. PICK n \in Readable(txLog[t]) : StoresTx(t, n)
        BY <2>1, LogSteps DEF SagaOK, LogOK
    <2>3. n = Len(txLog[t]) /\ pc[t] \in TxCalls
        BY <2>2 DEF StoresTx
    <2>4. SubSeq(txLog[t], 1, n) = txLog[t]
        BY <2>1, <2>3
    <2>5. Replays(txLog[t]) /\ TxAccepted(pc[t], Status(txLog[t]))
        BY <2>2, <2>4 DEF StoresTx, TxDecides
    <2>6. Status(txLog[t]) \notin {"PENDING", "COMPLETED", "COMPENSATED"}
          => Status(txLog[t]) = "FAILED" /\ Has(txLog[t], "FAILED")
        BY <2>1 DEF Terminal, TransactionStatuses, Status, Has, In
    <2>7. Status(txLog[t]) # "FAILED"
        BY <2>1, <2>3, <2>6 DEF SagaOK, LogOK, TxCalls, Ended
    <2>8. Status(txLog[t]) \notin {"COMPLETED", "COMPENSATED"}
        BY <2>3, <2>5 DEF TxAccepted, CanComplete, CanCompensate, CanFail, TxCalls
    <2>9. QED  BY <2>6, <2>7, <2>8 DEF Terminal
<1>2. QED  BY <1>1, BaseInvariant, PTL DEF Spec, TerminalIsFinal

(***************************************************************************)
(* The accounts hold what the transactions' stored calls put there.        *)
(***************************************************************************)

\* The money that calls moved on an account is an integer.
LEMMA MovedType ==
    ASSUME TypeOK, NEW call, NEW at \in [Transactions -> Accounts], NEW a \in Accounts
    PROVE  Moved(call, at, a) \in Int
<1> DEFINE f == [t \in Transactions |->
                    IF at[t] = a /\ call \in legs[t] THEN Amount[t] ELSE 0]
<1>1. f \in [Transactions -> Int]
    BY SagasAssumption
<1>2. QED  BY <1>1, SumType, SagasAssumption DEF Moved

\* Another stored call of a transaction moves its amount, at the call's account.
LEMMA MovedStep ==
    ASSUME TypeOK, NEW t \in Transactions, LegEffect(t), pc[t] \notin legs[t],
           NEW call, NEW at \in [Transactions -> Accounts], NEW a \in Accounts
    PROVE  Moved(call, at, a)' = Moved(call, at, a)
                                   + IF call = pc[t] /\ at[t] = a THEN Amount[t] ELSE 0
<1> DEFINE f == [u \in Transactions |->
                    IF at[u] = a /\ call \in legs[u] THEN Amount[u] ELSE 0]
           g == [u \in Transactions |->
                    IF at[u] = a /\ call \in legs'[u] THEN Amount[u] ELSE 0]
<1>1. f \in [Transactions -> Int] /\ g \in [Transactions -> Int]
    BY SagasAssumption
<1>2. /\ legs'[t] = legs[t] \cup {pc[t]}
      /\ \A u \in Transactions \ {t} : legs'[u] = legs[u]
    BY DEF TypeOK, LegEffect
<1>3. \A u \in Transactions \ {t} : g[u] = f[u]
    BY <1>2
<1>4. g[t] - f[t] = IF call = pc[t] /\ at[t] = a THEN Amount[t] ELSE 0
    BY <1>2, SagasAssumption
<1> HIDE DEF f, g
<1>5. SumFunction(g) = SumFunction(f) + (g[t] - f[t])
    BY <1>1, <1>3, SumChange, SagasAssumption
<1>6. QED  BY <1>4, <1>5 DEF Moved, f, g

\* AccountsMatchTransactions, for one account.
Books(a) ==
    /\ Last(a).balance = Funds[a] + Moved("credit", Dest, a) + Moved("refund", Source, a)
                              - Moved("debit", Source, a)
    /\ Last(a).reserved[Here] = Moved("reserve", Source, a) - Moved("debit", Source, a)

\* What an accepted call on an account does to the state it was decided on.
LEMMA LegMoves ==
    ASSUME NEW t \in Transactions, NEW leg \in LegCalls, NEW s \in States
    PROVE  LET d == Apply(s, LegEvent(t, leg, s))
           IN  /\ d.balance = CASE leg = "reserve" -> s.balance
                                [] leg = "debit"   -> s.balance - Amount[t]
                                [] OTHER           -> s.balance + Amount[t]
               /\ d.reserved[Here] = CASE leg = "reserve" -> s.reserved[Here] + Amount[t]
                                       [] leg = "debit"   -> s.reserved[Here] - Amount[t]
                                       [] OTHER           -> s.reserved[Here]
<1>1. /\ Amount[t] \in Int /\ Here \in Regions /\ s.balance \in Int
      /\ s.reserved \in [Regions -> Int]
    BY SagasAssumption DEF States
<1> DEFINE e == LegEvent(t, leg, s)
<1>2. CASE leg = "reserve"
    <2>1. e = BalanceReserved(s, Here, Amount[t])
        BY <1>2 DEF LegEvent
    <2>2. /\ e \in BalanceReservedEvents /\ e \in Events
          /\ e.region = Here /\ e.amount = Amount[t]
        BY <1>1, <2>1 DEF BalanceReserved, BalanceReservedEvents, Events, States
    <2> HIDE DEF e
    <2>3. /\ Apply(s, e).balance = s.balance
          /\ Apply(s, e).reserved = [s.reserved EXCEPT ![e.region] = @ + e.amount]
        BY <2>2, ApplyFields
    <2>4. Apply(s, e).reserved[Here] = s.reserved[Here] + Amount[t]
        BY <1>1, <2>2, <2>3
    <2>5. QED  BY <1>2, <2>3, <2>4 DEF e
<1>3. CASE leg = "debit"
    <2>1. e = BalanceChanged(s, Here, "DEBIT", Amount[t])
        BY <1>3 DEF LegEvent
    <2>2. /\ e \in BalanceChangedEvents /\ e \in Events /\ e.change = "DEBIT"
          /\ e.region = Here /\ e.amount = Amount[t]
          /\ e.newBalance = s.balance - Amount[t]
        BY <1>1, <2>1, BalanceChangedFields DEF Changes, Events, Signed
    <2> HIDE DEF e
    <2>3. /\ Apply(s, e).balance = s.balance - Amount[t]
          /\ Apply(s, e).reserved = [s.reserved EXCEPT ![e.region] = @ - e.amount]
        BY <2>2, ApplyFields
    <2>4. Apply(s, e).reserved[Here] = s.reserved[Here] - Amount[t]
        BY <1>1, <2>2, <2>3
    <2>5. QED  BY <1>3, <2>3, <2>4 DEF e
<1>4. CASE leg \in {"credit", "refund"}
    <2>1. e = BalanceChanged(s, Here, "CREDIT", Amount[t])
        BY <1>4 DEF LegEvent
    <2>2. /\ e \in BalanceChangedEvents /\ e \in Events /\ e.change = "CREDIT"
          /\ e.newBalance = s.balance + Amount[t]
        BY <1>1, <2>1, BalanceChangedFields DEF Changes, Events, Signed
    <2> HIDE DEF e
    <2>3. Apply(s, e).balance = s.balance + Amount[t] /\ Apply(s, e).reserved = s.reserved
        BY <2>2, ApplyFields
    <2>4. QED  BY <1>1, <1>4, <2>3 DEF e
<1>5. QED  BY <1>2, <1>3, <1>4 DEF LegCalls

\* A call keeps the books of every account that its append was not stale for.
LEMMA LegBooks ==
    ASSUME Base, NEW t \in Transactions, LegReturns(t) \/ LegAnswerLost(t),
           NEW a \in Accounts \ stale', Books(a)
    PROVE  Books(a)'
<1>1. LegEffect(t) /\ pc[t] \in LegCalls /\ TypeOK /\ SagaOK(t)
    BY DEF LegReturns, LegAnswerLost, LegReads, StoresLeg, LegEffect, Base
<1>2. pc[t] \notin legs[t]
    BY <1>1 DEF SagaOK, LegsOK, LegCalls, BeforeReserve, BeforeDebit, BeforeCredit, BehindRefund,
                Ended
<1>0. PICK b : b = LegAccount(t, pc[t])
    OBVIOUS
<1>3. PICK n \in 1 .. Len(history[b]), refill \in BOOLEAN :
         /\ b \in Accounts /\ LegEvent(t, pc[t], history[b][n]) \in Events
         /\ history' = [history EXCEPT ![b] =
               @ \o Replayed(@[Len(@)], LegEvent(t, pc[t], history[b][n]), refill)]
         /\ stale' = IF n = Len(history[b]) THEN stale ELSE stale \cup {b}
    BY <1>0, LegAppends
<1> DEFINE e == LegEvent(t, pc[t], history[b][n])
<1>4. /\ b \in Accounts /\ e \in Events
      /\ history' = [history EXCEPT ![b] = @ \o Replayed(@[Len(@)], e, refill)]
      /\ a = b => e = LegEvent(t, pc[t], Last(b))
    BY <1>3 DEF Last
<1>5. b = IF pc[t] = "credit" THEN Dest[t] ELSE Source[t]
    BY <1>0 DEF LegAccount
<1> HIDE DEF e
<1>6. /\ Last(b) \in States
      /\ Last(b)'.balance = Apply(Last(b), e).balance
      /\ Last(b)'.reserved = Apply(Last(b), e).reserved
      /\ a # b => Last(a)' = Last(a)
    BY <1>4, AppendsTo
<1>7. /\ Source \in [Transactions -> Accounts] /\ Dest \in [Transactions -> Accounts]
      /\ Amount[t] \in Int /\ Funds[a] \in Int
    BY SagasAssumption
<1>8. \A call : \A at \in [Transactions -> Accounts] :
         /\ Moved(call, at, a) \in Int
         /\ Moved(call, at, a)' = Moved(call, at, a)
                                    + IF call = pc[t] /\ at[t] = a THEN Amount[t] ELSE 0
    BY <1>1, <1>2, MovedType, MovedStep
<1>9. /\ Moved("reserve", Source, a) \in Int /\ Moved("debit", Source, a) \in Int
      /\ Moved("refund", Source, a) \in Int /\ Moved("credit", Dest, a) \in Int
      /\ Moved("reserve", Source, a)' = Moved("reserve", Source, a)
            + IF pc[t] = "reserve" /\ a = b THEN Amount[t] ELSE 0
      /\ Moved("debit", Source, a)' = Moved("debit", Source, a)
            + IF pc[t] = "debit" /\ a = b THEN Amount[t] ELSE 0
      /\ Moved("refund", Source, a)' = Moved("refund", Source, a)
            + IF pc[t] = "refund" /\ a = b THEN Amount[t] ELSE 0
      /\ Moved("credit", Dest, a)' = Moved("credit", Dest, a)
            + IF pc[t] = "credit" /\ a = b THEN Amount[t] ELSE 0
    BY <1>5, <1>7, <1>8
<1>10. CASE a # b
    BY <1>6, <1>9, <1>10 DEF Books
<1>11. CASE a = b
    <2>1. /\ Last(a)'.balance = CASE pc[t] = "reserve" -> Last(a).balance
                                   [] pc[t] = "debit"   -> Last(a).balance - Amount[t]
                                   [] OTHER             -> Last(a).balance + Amount[t]
          /\ Last(a)'.reserved[Here] =
                CASE pc[t] = "reserve" -> Last(a).reserved[Here] + Amount[t]
                  [] pc[t] = "debit"   -> Last(a).reserved[Here] - Amount[t]
                  [] OTHER             -> Last(a).reserved[Here]
        BY <1>1, <1>4, <1>6, <1>11, LegMoves
    <2>2. CASE pc[t] = "reserve"
        <3>1. /\ Moved("reserve", Source, a)' = Moved("reserve", Source, a) + Amount[t]
              /\ Moved("debit", Source, a)' = Moved("debit", Source, a)
              /\ Moved("refund", Source, a)' = Moved("refund", Source, a)
              /\ Moved("credit", Dest, a)' = Moved("credit", Dest, a)
            BY <1>7, <1>9, <1>11, <2>2
        <3>2. QED  BY <1>7, <1>9, <2>1, <2>2, <3>1 DEF Books
    <2>3. CASE pc[t] = "debit"
        <3>1. /\ Moved("reserve", Source, a)' = Moved("reserve", Source, a)
              /\ Moved("debit", Source, a)' = Moved("debit", Source, a) + Amount[t]
              /\ Moved("refund", Source, a)' = Moved("refund", Source, a)
              /\ Moved("credit", Dest, a)' = Moved("credit", Dest, a)
            BY <1>7, <1>9, <1>11, <2>3
        <3>2. QED  BY <1>7, <1>9, <2>1, <2>3, <3>1 DEF Books
    <2>4. CASE pc[t] = "refund"
        <3>1. /\ Moved("reserve", Source, a)' = Moved("reserve", Source, a)
              /\ Moved("debit", Source, a)' = Moved("debit", Source, a)
              /\ Moved("refund", Source, a)' = Moved("refund", Source, a) + Amount[t]
              /\ Moved("credit", Dest, a)' = Moved("credit", Dest, a)
            BY <1>7, <1>9, <1>11, <2>4
        <3>2. QED  BY <1>7, <1>9, <2>1, <2>4, <3>1 DEF Books
    <2>5. CASE pc[t] = "credit"
        <3>1. /\ Moved("reserve", Source, a)' = Moved("reserve", Source, a)
              /\ Moved("debit", Source, a)' = Moved("debit", Source, a)
              /\ Moved("refund", Source, a)' = Moved("refund", Source, a)
              /\ Moved("credit", Dest, a)' = Moved("credit", Dest, a) + Amount[t]
            BY <1>7, <1>9, <1>11, <2>5
        <3>2. QED  BY <1>7, <1>9, <2>1, <2>5, <3>1 DEF Books
    <2>6. QED  BY <1>1, <2>2, <2>3, <2>4, <2>5 DEF LegCalls
<1>12. QED  BY <1>10, <1>11

\* Every other step leaves the sums, and the balance and the reservation of
\* every account, as they are.
LEMMA BooksStep ==
    ASSUME Base, [Next]_vars, NEW a \in Accounts \ stale', Books(a)
    PROVE  Books(a)'
<1>1. ASSUME UNCHANGED legs, Last(a)'.balance = Last(a).balance,
             Last(a)'.reserved = Last(a).reserved
      PROVE  Books(a)'
    BY <1>1 DEF Books, Moved
<1>2. ASSUME NEW b \in Accounts, NEW new \in Statuses, ChangeStatus(b, new)
      PROVE  Books(a)'
    <2>1. PICK e \in StatusChangedEvents :
              /\ e \in Events
              /\ history' = [history EXCEPT ![b] = @ \o Replayed(@[Len(@)], e, FALSE)]
        BY <1>2, StatusAppends
    <2>2. /\ Last(b) \in States
          /\ Last(b)'.balance = Apply(Last(b), e).balance
          /\ Last(b)'.reserved = Apply(Last(b), e).reserved
          /\ a # b => Last(a)' = Last(a)
        BY <2>1, AppendsTo
    <2>3. Apply(Last(b), e).balance = Last(b).balance /\ Apply(Last(b), e).reserved = Last(b).reserved
        BY <2>1, <2>2, ApplyFields
    <2>4. UNCHANGED legs
        BY <1>2 DEF ChangeStatus
    <2>5. QED  BY <1>1, <2>2, <2>3, <2>4
<1>3. ASSUME NEW t \in Transactions, Step(t)
      PROVE  Books(a)'
    <2>1. \/ LegReturns(t) \/ LegAnswerLost(t)
          \/ UNCHANGED <<legs, history>>
        BY <1>3 DEF Step, LegRefused, TxReturns, TxRefused, TxAnswerLost, StoresTx, RowReturns,
                    RowAnswerLost, SavesRow, CallFails
    <2>2. QED  BY <1>1, <2>1, LegBooks DEF Last
<1>4. ASSUME NEW t \in Transactions, Request(t) \/ RequestAnswerLost(t)
      PROVE  UNCHANGED <<legs, history>>
    BY <1>4 DEF Request, RequestAnswerLost
<1>5. Crash \/ UNCHANGED vars => UNCHANGED <<legs, history>>
    BY DEF Crash, vars
<1>6. QED  BY <1>1, <1>2, <1>3, <1>4, <1>5 DEF Next, Last

\* Whatever state the sagas are in, and wherever the process died, an account
\* that never got a stale append holds what the stored calls moved.
THEOREM AccountsMatch == Spec => []AccountsMatchTransactions
<1> DEFINE Inv == \A a \in Accounts \ stale : Books(a)
<1>1. Init => Inv
    <2> SUFFICES ASSUME Init, NEW a \in Accounts PROVE Books(a)
        OBVIOUS
    <2>1. \A call : \A at : Moved(call, at, a) = 0
        <3> SUFFICES ASSUME NEW call, NEW at PROVE Moved(call, at, a) = 0
            OBVIOUS
        <3>1. [t \in Transactions |-> IF at[t] = a /\ call \in legs[t] THEN Amount[t] ELSE 0]
                 = [t \in Transactions |-> 0]
            BY DEF Init
        <3>2. QED  BY <3>1, SumOfZeros, SagasAssumption DEF Moved
    <2>2. Last(a).balance = Funds[a] /\ Last(a).reserved[Here] = 0 /\ Funds[a] \in Int
        BY InitialHistory, SagasAssumption
    <2>3. QED  BY <2>1, <2>2 DEF Books
<1>2. Base /\ Inv /\ [Next]_vars => Inv'
    BY BooksStep, HistoryStep
<1>3. Inv => AccountsMatchTransactions
    BY DEF AccountsMatchTransactions, Books, Last
<1>4. QED  BY <1>1, <1>2, <1>3, BaseInvariant, PTL DEF Spec

(***************************************************************************)
(* The sagas implement Escrow.                                             *)
(***************************************************************************)

\* The places at which no outcome was reported, and those behind them at which no
\* compensation was.
Unreported    == {"start", "reserve", "reserved", "debit", "debited", "credit", "credited",
                  "complete"}
Uncompensated == {"completed", "compensate", "refund", "refunded", "compensateTx"}

\* The log of a transaction begins with its request, and a handler that still
\* moves money has reported nothing that forbids it.
ReportsOK(t) ==
    /\ txLog[t] # <<>> => txLog[t][1] = "PENDING"
    /\ \A n \in 2 .. Len(txLog[t]) : txLog[t][n] \in Terminal
    /\ pc[t] \in Unreported => Len(txLog[t]) = 1
    /\ pc[t] \in Uncompensated => ~Has(txLog[t], "COMPENSATED")
    /\ kind[t] = "topup" => "debit" \notin legs[t]

\* A step that leaves the transaction's log alone.
LEMMA ReportsKept ==
    ASSUME Base, NEW t \in Transactions, ReportsOK(t),
           kind'[t] = kind[t], txLog'[t] = txLog[t],
           legs'[t] = legs[t] \/ legs'[t] = legs[t] \cup {pc[t]},
           \/ pc'[t] = pc[t]
           \/ pc'[t] = "gone"
           \/ pc[t] \in LegCalls \cup TxCalls \cup RowCalls /\ pc'[t] \in {After(t), Catch(t)}
    PROVE  ReportsOK(t)'
<1>1. /\ kind[t] \in Kinds /\ PlaceOK(t) /\ txLog[t] \in Seq(TransactionStatuses)
      /\ Has(txLog[t], "COMPENSATED")' <=> Has(txLog[t], "COMPENSATED")
    BY DEF Base, TypeOK, SagaOK, Has
<1>2. pc[t] \in Unreported => ~Has(txLog[t], "COMPENSATED")
    BY <1>1 DEF ReportsOK, Has, In
<1>3. pc'[t] \in Unreported => pc[t] \in Unreported
    BY <1>1, AfterTable, CatchTable
       DEF Unreported, LegCalls, TxCalls, RowCalls
<1>4. pc'[t] \in Uncompensated => pc[t] \in Unreported \cup Uncompensated
    BY <1>1, AfterTable, CatchTable
       DEF Unreported, Uncompensated, LegCalls, TxCalls, RowCalls
<1>5. kind[t] = "topup" => pc[t] # "debit"
    BY <1>1 DEF PlaceOK
<1>6. QED  BY <1>1, <1>2, <1>3, <1>4, <1>5 DEF ReportsOK

\* An outcome joins the log.
LEMMA ReportsAdded ==
    ASSUME Base, NEW t \in Transactions, ReportsOK(t), TxEffect(t), Settles(t)
    PROVE  ReportsOK(t)'
<1>1. /\ kind[t] \in Kinds /\ SagaOK(t) /\ PlaceOK(t) /\ pc[t] \in TxCalls
      /\ txLog[t] \in Seq(TransactionStatuses)
      /\ txLog'[t] = Append(txLog[t], TxOutcome(pc[t]))
      /\ kind'[t] = kind[t] /\ legs'[t] = legs[t]
      /\ pc'[t] \in {After(t), Catch(t)}
    BY DEF Base, TypeOK, SagaOK, TxEffect, Settles, GoesTo
<1>2. TxOutcome(pc[t]) \in Terminal
    BY <1>1 DEF TxOutcome, Terminal, TransactionStatuses, TxCalls
<1>3. txLog[t] # <<>>
    BY <1>1 DEF SagaOK, LogOK, TxCalls
<1>4. txLog'[t][1] = "PENDING" /\ \A n \in 2 .. Len(txLog'[t]) : txLog'[t][n] \in Terminal
    <2>1. PICK log \in Seq(TransactionStatuses), x \in Terminal :
              log = txLog[t] /\ x = TxOutcome(pc[t])
        BY <1>1, <1>2
    <2>2. /\ Len(log) \in Nat \ {0} /\ Len(Append(log, x)) = Len(log) + 1
          /\ Append(log, x)[Len(log) + 1] = x
          /\ \A n \in 1 .. Len(log) : Append(log, x)[n] = log[n]
        BY <1>3, <2>1
    <2>3. log[1] = "PENDING" /\ \A n \in 2 .. Len(log) : log[n] \in Terminal
        BY <1>3, <2>1 DEF ReportsOK
    <2>4. \A n \in 2 .. Len(log) + 1 : n \in 2 .. Len(log) \/ n = Len(log) + 1
        BY <2>2
    <2>5. Append(log, x)[1] = "PENDING"
        BY <2>2, <2>3
    <2>6. \A n \in 2 .. Len(Append(log, x)) : Append(log, x)[n] \in Terminal
        BY <2>2, <2>3, <2>4
    <2>7. QED  BY <1>1, <2>1, <2>5, <2>6
<1>5. pc'[t] \notin Unreported
    BY <1>1, AfterTable, CatchTable DEF Unreported, TxCalls
<1>6. pc'[t] \in Uncompensated => pc[t] = "complete"
    BY <1>1, AfterTable, CatchTable DEF Uncompensated, TxCalls
<1>7. pc[t] = "complete" => ~Has(txLog[t], "COMPENSATED")'
    <2>1. Has(Append(txLog[t], TxOutcome(pc[t])), "COMPENSATED")
              <=> Has(txLog[t], "COMPENSATED") \/ TxOutcome(pc[t]) = "COMPENSATED"
        BY <1>1, <1>2, AppendHas DEF Terminal
    <2>2. pc[t] = "complete" => ~Has(txLog[t], "COMPENSATED")
        BY <1>3 DEF ReportsOK, Unreported, Has, In
    <2>3. Has(txLog[t], "COMPENSATED")' <=> Has(txLog'[t], "COMPENSATED")
        BY DEF Has
    <2>4. QED  BY <1>1, <2>1, <2>2, <2>3 DEF TxOutcome
<1>8. QED  BY <1>1, <1>4, <1>5, <1>6, <1>7 DEF ReportsOK

\* Every step keeps it for every transaction.
LEMMA ReportsStep ==
    ASSUME Base, [Next]_vars, NEW u \in Transactions, ReportsOK(u)
    PROVE  ReportsOK(u)'
<1>1. ASSUME UNCHANGED <<kind, row, txLog, legs, unseen>>,
             \A t \in Transactions : pc'[t] = pc[t] \/ (pc[t] # "idle" /\ pc'[t] = "gone")
      PROVE  ReportsOK(u)'
    BY <1>1, ReportsKept
<1>2. ASSUME NEW t \in Transactions, t # u,
             \/ LegEffect(t) /\ Settles(t)
             \/ TxEffect(t) /\ Settles(t)
             \/ RowEffect(t) /\ (GoesTo(t, After(t)) \/ GoesTo(t, Catch(t)))
             \/ NoEffect(t) /\ GoesTo(t, Catch(t))
             \/ Request(t) \/ RequestAnswerLost(t)
      PROVE  ReportsOK(u)'
    <2>1. /\ kind'[u] = kind[u] /\ legs'[u] = legs[u]
          /\ txLog'[u] = txLog[u] /\ pc'[u] = pc[u]
        BY <1>2 DEF LegEffect, TxEffect, RowEffect, NoEffect, Settles, GoesTo, Request,
                    RequestAnswerLost, Base, TypeOK
    <2>2. QED  BY <2>1, ReportsKept
<1>3. ASSUME \/ LegEffect(u) /\ Settles(u)
             \/ RowEffect(u) /\ (GoesTo(u, After(u)) \/ GoesTo(u, Catch(u)))
             \/ NoEffect(u) /\ GoesTo(u, Catch(u))
      PROVE  ReportsOK(u)'
    <2>1. /\ kind'[u] = kind[u] /\ txLog'[u] = txLog[u]
          /\ legs'[u] = legs[u] \/ legs'[u] = legs[u] \cup {pc[u]}
          /\ pc[u] \in LegCalls \cup TxCalls \cup RowCalls
          /\ pc'[u] \in {After(u), Catch(u)}
        BY <1>3 DEF LegEffect, RowEffect, NoEffect, Settles, GoesTo, Base, TypeOK
    <2>2. QED  BY <2>1, ReportsKept
<1>4. ASSUME Request(u) \/ RequestAnswerLost(u)
      PROVE  ReportsOK(u)'
    <2>1. /\ txLog'[u] = <<"PENDING">> /\ kind'[u] = kind[u] /\ legs'[u] = legs[u]
          /\ pc'[u] \in {"start", "rejected"}
        BY <1>4 DEF Request, RequestAnswerLost, Requested, Base, TypeOK
    <2>2. QED  BY <2>1 DEF ReportsOK, Uncompensated
<1>5. TypeOK
    BY DEF Base
<1>6. QED  BY <1>1, <1>2, <1>3, <1>4, <1>5, ReportsAdded, StepCases

\* Events behind an account's log change its balance and no other.
LEMMA BalanceSet ==
    ASSUME Base, NEW a \in Accounts, NEW e \in Events, NEW refill \in BOOLEAN,
           history' = [history EXCEPT ![a] = @ \o Replayed(@[Len(@)], e, refill)]
    PROVE  Balances' = [Balances EXCEPT ![a] = Apply(Last(a), e).balance]
<1>1. /\ Last(a)'.balance = Apply(Last(a), e).balance
      /\ \A b \in Accounts \ {a} : Last(b)' = Last(b)
    BY AppendsTo
<1>2. \A b \in Accounts :
         Last(b)'.balance = IF b = a THEN Apply(Last(a), e).balance ELSE Last(b).balance
    BY <1>1
<1>3. Balances' = [b \in Accounts |-> Last(b)'.balance]
    BY DEF Balances
<1>4. QED  BY <1>2, <1>3 DEF Balances

\* A stored call on an account, in the terms of Escrow: the balance moves by the
\* call's amount within the limits, or the account breaks.
LegChange(t) ==
    CASE pc[t] = "reserve" -> 0
      [] pc[t] = "debit"   -> -Amount[t]
      [] OTHER             -> Amount[t]

LEMMA LegPays ==
    ASSUME Base, NEW t \in Transactions, LegReturns(t) \/ LegAnswerLost(t)
    PROVE  LET b == LegAccount(t, pc[t])
           IN  /\ b \in Accounts /\ Amount[t] > 0
               /\ \/ Promise!Breaks(b)
                  \/ UNCHANGED <<Balances, stale>> /\ pc[t] = "reserve"
                  \/ Promise!Pays(b, LegChange(t)) /\ pc[t] # "reserve"
<1>1. pc[t] \in LegCalls /\ Amount[t] \in Int
    BY SagasAssumption DEF LegReturns, LegAnswerLost, LegReads
<1>0. PICK b : b = LegAccount(t, pc[t])
    OBVIOUS
<1>2. PICK n \in 1 .. Len(history[b]), refill \in BOOLEAN :
         /\ b \in Accounts /\ LegEvent(t, pc[t], history[b][n]) \in Events
         /\ LegAccepted(t, pc[t], history[b][n])
         /\ history' = [history EXCEPT ![b] =
               @ \o Replayed(@[Len(@)], LegEvent(t, pc[t], history[b][n]), refill)]
         /\ stale' = IF n = Len(history[b]) THEN stale ELSE stale \cup {b}
    BY <1>0, LegAppends
<1> DEFINE e == LegEvent(t, pc[t], history[b][n])
<1>3. Balances' = [Balances EXCEPT ![b] = Apply(Last(b), e).balance] /\ Last(b) \in States
    <2>1. e \in Events /\ b \in Accounts
          /\ history' = [history EXCEPT ![b] = @ \o Replayed(@[Len(@)], e, refill)]
        BY <1>2
    <2> HIDE DEF e
    <2>2. QED  BY <2>1, BalanceSet, AppendsTo
<1>4. Amount[t] > 0
    BY <1>0, <1>2 DEF LegAccepted, CanReserve, CanChangeBalance
<1>5. CASE stale' = stale \cup {b}
    BY <1>0, <1>2, <1>3, <1>4, <1>5 DEF Promise!Breaks, Balances
<1>6. CASE stale' = stale /\ b \notin stale /\ n = Len(history[b])
    <2>1. e = LegEvent(t, pc[t], Last(b)) /\ LegAccepted(t, pc[t], Last(b))
        BY <1>2, <1>6 DEF Last
    <2>2. Balances[b] = Last(b).balance /\ Last(b).balance \in Int /\ b \in Accounts
        BY <1>2, <1>3 DEF Balances, States
    <2>3. Apply(Last(b), e).balance = Balances[b] + LegChange(t)
        BY <1>1, <1>3, <2>1, <2>2, LegMoves DEF LegChange
    <2> HIDE DEF e
    <2>4. CASE pc[t] = "reserve"
        <3>1. Apply(Last(b), e).balance = Balances[b]
            BY <2>2, <2>3, <2>4 DEF LegChange
        <3>2. Balances' = [Balances EXCEPT ![b] = Balances[b]]
            BY <1>3, <3>1
        <3>3. Balances' = Balances
            BY <2>2, <3>2 DEF Balances
        <3>4. QED  BY <1>0, <1>4, <1>6, <2>2, <2>4, <3>3
    <2>5. CASE pc[t] # "reserve"
        <3>1. CanChangeBalance(b, Last(b), Here, IF pc[t] = "debit" THEN "DEBIT" ELSE "CREDIT",
                               Amount[t])
            BY <1>0, <2>1, <2>5 DEF LegAccepted
        <3>2. WithinLimits(b, Balances[b] + LegChange(t))
            BY <1>1, <2>2, <2>5, <3>1 DEF CanChangeBalance, Signed, LegChange
        <3>3. Balances' = [Balances EXCEPT ![b] = Balances[b] + LegChange(t)]
            BY <1>3, <2>3
        <3>4. Promise!Pays(b, LegChange(t))
            BY <1>6, <3>2, <3>3 DEF Promise!Pays, WithinLimits, BelowMax
        <3>5. QED  BY <1>0, <1>4, <2>2, <2>5, <3>4
    <2>6. QED  BY <2>4, <2>5
<1>7. QED  BY <1>2, <1>5, <1>6

\* A call on an account is a movement of money, a broken account, or nothing.
LEMMA LegPromised ==
    ASSUME Base, NEW t \in Transactions, ReportsOK(t), LegReturns(t) \/ LegAnswerLost(t)
    PROVE  [Promise!Next]_(Promise!evars)
<1>1. /\ LegEffect(t) /\ pc[t] \in LegCalls /\ kind[t] \in Kinds /\ SagaOK(t)
      /\ legs[t] \subseteq LegCalls /\ txLog[t] \in Seq(TransactionStatuses)
    BY DEF LegReturns, LegAnswerLost, LegReads, StoresLeg, LegEffect, Base, TypeOK
<1> DEFINE b == LegAccount(t, pc[t])
           x == LegChange(t)
<1>2. /\ b \in Accounts /\ Amount[t] > 0
      /\ \/ Promise!Breaks(b)
         \/ UNCHANGED <<Balances, stale>> /\ pc[t] = "reserve"
         \/ Promise!Pays(b, x) /\ pc[t] # "reserve"
    BY LegPays
<1>3. UNCHANGED Reported /\ UNCHANGED kind
    BY <1>1 DEF LegEffect, Reported
<1>4. Movements[t] = legs[t] \ {"reserve"} /\ Reported[t] = Range(txLog[t])
    BY DEF Movements, Reported
<1>5. Movements' = [Movements EXCEPT ![t] = @ \cup ({pc[t]} \ {"reserve"})]
    <2>1. legs' = [legs EXCEPT ![t] = legs[t] \cup {pc[t]}] /\ legs \in [Transactions -> SUBSET LegCalls]
        BY <1>1 DEF LegEffect, Base, TypeOK
    <2>2. \A u \in Transactions :
             legs'[u] \ {"reserve"} = IF u = t THEN (legs[t] \ {"reserve"}) \cup ({pc[t]} \ {"reserve"})
                                              ELSE legs[u] \ {"reserve"}
        BY <2>1
    <2>3. QED  BY <2>2 DEF Movements
<1>6. Promise!TwoLegged(t) <=> TwoLegged(t)
    BY DEF Promise!TwoLegged, TwoLegged
<1> HIDE DEF b, x
<1>7. CASE pc[t] = "reserve"
    <2>1. UNCHANGED Movements
        BY <1>4, <1>5, <1>7 DEF Movements
    <2>2. CASE Promise!Breaks(b)
        <3>1. Promise!Break(b)
            BY <1>3, <2>1, <2>2 DEF Promise!Break
        <3>2. QED  BY <1>2, <3>1 DEF Promise!Next
    <2>3. QED  BY <1>2, <1>3, <1>7, <2>1, <2>2 DEF Promise!evars
<1>8. CASE pc[t] \in {"debit", "credit"}
    <2>1. Reported[t] = {"PENDING"}
        <3>1. pc[t] \in Unreported /\ txLog[t] # <<>>
            BY <1>1, <1>8 DEF SagaOK, LogOK, Unreported
        <3>2. Len(txLog[t]) = 1 /\ txLog[t][1] = "PENDING"
            BY <3>1 DEF ReportsOK
        <3>3. Range(txLog[t]) = {"PENDING"}
            BY <1>1, <3>2 DEF Range
        <3>4. QED  BY <1>4, <3>3
    <2>2. Movements' = [Movements EXCEPT ![t] = @ \cup {pc[t]}]
        BY <1>5, <1>8
    <2>3. CASE pc[t] = "debit"
        <3>1. Movements[t] = {} /\ kind[t] # "topup"
            BY <1>1, <1>4, <2>3
               DEF SagaOK, PlaceOK, LegsOK, LegCalls, BeforeDebit, BeforeCredit, BeforeReserve,
                   BehindRefund, Ended
        <3>2. b = Source[t] /\ x = -Amount[t]
            BY <2>3 DEF b, x, LegAccount, LegChange
        <3>3. Promise!Moves(t, "debit")
            BY <1>2, <1>3, <2>2, <2>3, <3>1 DEF Promise!Moves
        <3>4. Promise!Take(t)
            BY <1>2, <2>1, <2>3, <3>1, <3>2, <3>3 DEF Promise!Take
        <3>5. QED  BY <3>4 DEF Promise!Next
    <2>4. CASE pc[t] = "credit"
        <3>1. Movements[t] = (IF TwoLegged(t) THEN {"debit"} ELSE {}) /\ kind[t] # "withdrawal"
            <4>1. kind[t] # "withdrawal" /\ "credit" \notin legs[t] /\ "refund" \notin legs[t]
                BY <1>1, <2>4 DEF SagaOK, PlaceOK, LegsOK, BeforeCredit, BehindRefund, Ended
            <4>2. "debit" \in legs[t] <=> TwoLegged(t)
                BY <1>1, <2>4, <4>1
                   DEF SagaOK, LegsOK, BehindDebit, ReportsOK, TwoLegged, Kinds
            <4>3. QED  BY <1>1, <1>4, <4>1, <4>2 DEF LegCalls
        <3>2. b = Dest[t] /\ x = Amount[t]
            BY <2>4 DEF b, x, LegAccount, LegChange
        <3>3. "credit" \notin Movements[t]
            BY <3>1
        <3>4. Promise!Moves(t, "credit")
            BY <1>2, <1>3, <2>2, <2>4, <3>3 DEF Promise!Moves
        <3>5. Promise!Give(t)
            BY <1>2, <1>6, <2>1, <2>4, <3>1, <3>2, <3>4 DEF Promise!Give
        <3>6. QED  BY <3>5 DEF Promise!Next
    <2>5. QED  BY <1>8, <2>3, <2>4
<1>9. CASE pc[t] = "refund"
    <2>1. /\ TwoLegged(t) /\ "debit" \in Movements[t] /\ "refund" \notin Movements[t]
        BY <1>1, <1>4, <1>9
           DEF SagaOK, PlaceOK, LegsOK, Compensating, BehindDebit, BehindRefund, Ended, TwoLegged
    <2>2. Reported[t] \in {{"PENDING"}, {"PENDING", "COMPLETED"}}
        <3>1. txLog[t] # <<>> /\ ~Has(txLog[t], "COMPENSATED") /\ ~Has(txLog[t], "FAILED")
            BY <1>1, <1>9 DEF SagaOK, LogOK, ReportsOK, Uncompensated, Ended
        <3>2. "PENDING" \in Range(txLog[t])
            BY <1>1, <3>1 DEF ReportsOK, Range
        <3>3. Range(txLog[t]) \subseteq {"PENDING", "COMPLETED"}
            BY <1>1, <3>1 DEF Range, Has, In, TransactionStatuses
        <3>4. QED  BY <1>4, <3>2, <3>3
    <2>3. Movements' = [Movements EXCEPT ![t] = @ \cup {"refund"}]
        BY <1>5, <1>9
    <2>4. b = Source[t] /\ x = Amount[t]
        BY <1>9 DEF b, x, LegAccount, LegChange
    <2>5. Promise!Moves(t, "refund")
        BY <1>2, <1>3, <2>1, <2>3 DEF Promise!Moves
    <2>6. Promise!GiveBack(t)
        BY <1>2, <1>6, <1>9, <2>1, <2>2, <2>4, <2>5 DEF Promise!GiveBack
    <2>7. QED  BY <2>6 DEF Promise!Next
<1>10. QED  BY <1>1, <1>7, <1>8, <1>9 DEF LegCalls

\* The statuses a log shows after an append.
LEMMA RangeAppend ==
    ASSUME NEW log \in Seq(TransactionStatuses), NEW x \in TransactionStatuses
    PROVE  Range(Append(log, x)) = Range(log) \cup {x}
<1>1. \A y : y \in Range(Append(log, x)) <=> Has(Append(log, x), y)
    <2>1. Append(log, x) \in Seq(TransactionStatuses)
        OBVIOUS
    <2>2. QED  BY <2>1 DEF Range, Has, In
<1>2. \A y : y \in Range(log) <=> Has(log, y)
    BY DEF Range, Has, In
<1>3. \A y : Has(Append(log, x), y) <=> Has(log, y) \/ x = y
    BY AppendHas
<1>4. QED  BY <1>1, <1>2, <1>3

\* A call on the transaction reports an outcome that is earned, and the first one
\* unless it broke the transaction.
LEMMA TxPromised ==
    ASSUME Base, NEW t \in Transactions, ReportsOK(t), ReportsOK(t)', SagaOK(t)',
           NEW n \in Readable(txLog[t]), StoresTx(t, n)
    PROVE  \E outcome \in Promise!Outcomes : Promise!Report(t, outcome)
<1> DEFINE x == TxOutcome(pc[t])
<1>1. /\ pc[t] \in TxCalls /\ kind[t] \in Kinds /\ SagaOK(t)
      /\ txLog \in [Transactions -> Seq(TransactionStatuses)]
      /\ txLog' = [txLog EXCEPT ![t] = Append(@, x)]
      /\ UNCHANGED <<kind, legs, history>>
    BY DEF StoresTx, Base, TypeOK
<1>2. x \in Promise!Outcomes /\ x \in TransactionStatuses
    BY <1>1 DEF TxOutcome, TxCalls, Promise!Outcomes, TransactionStatuses
<1> HIDE DEF x
<1>3. Reported' = [Reported EXCEPT ![t] = @ \cup {x}]
    <2>1. \A u \in Transactions :
             Range(txLog'[u]) = IF u = t THEN Range(txLog[t]) \cup {x} ELSE Range(txLog[u])
        BY <1>1, <1>2, RangeAppend
    <2>2. QED  BY <2>1 DEF Reported
<1>4. UNCHANGED <<Movements, Balances, kind>>
    BY <1>1 DEF Movements, Balances, Last
<1>5. Movements[t] = legs[t] \ {"reserve"} /\ Reported[t] = Range(txLog[t])
    BY DEF Movements, Reported
<1>6. txLog[t] # <<>>
    BY <1>1 DEF SagaOK, LogOK, TxCalls
<1>7. Reported[t] # {}
    <2>1. "PENDING" \in Range(txLog[t])
        BY <1>1, <1>6 DEF ReportsOK, Range
    <2>2. QED  BY <1>5, <2>1
<1>8. \A y : y = x => Has(txLog[t], y)'
    <2>1. txLog'[t] = Append(txLog[t], x)
        BY <1>1
    <2>2. Has(txLog'[t], x)
        BY <1>1, <1>2, <2>1, AppendHas
    <2>3. \A y : Has(txLog[t], y)' <=> Has(txLog'[t], y)
        BY DEF Has
    <2>4. QED  BY <2>2, <2>3
<1>9. x = "COMPLETED" => Promise!Owed(t) \subseteq Movements[t]
    <2>1. x = "COMPLETED" => LegsOf(t) \subseteq legs[t]
        BY <1>1, <1>8 DEF SagaOK, Earned, LegsOf
    <2>2. Promise!Owed(t) = LegsOf(t) \ {"reserve"}
        BY <1>1, LegsTable DEF Promise!Owed
    <2>3. QED  BY <1>5, <2>1, <2>2
<1>10. x = "COMPENSATED" => "refund" \in Movements[t]
    BY <1>1, <1>5, <1>8 DEF SagaOK, Earned
<1>11. \/ Reported[t] = {"PENDING"} /\ UNCHANGED stale
       \/ stale' = stale \cup {t}
    <2>1. CASE stale' # stale \cup {t}
        <3>1. n = Len(txLog[t]) /\ stale' = stale
            BY <2>1 DEF StoresTx
        <3>2. SubSeq(txLog[t], 1, n) = txLog[t]
            BY <1>1, <3>1
        <3>3. Replays(txLog[t]) /\ TxAccepted(pc[t], Status(txLog[t]))
            BY <3>2 DEF StoresTx, TxDecides
        <3>4. Len(txLog[t]) \in Nat \ {0} /\ Status(txLog[t]) \in TransactionStatuses
              /\ Has(txLog[t], Status(txLog[t]))
            BY <1>1, <1>6 DEF Status, Has, In
        <3>5. Status(txLog[t]) # "FAILED"
            BY <1>1, <3>4 DEF SagaOK, LogOK, TxCalls, Ended
        <3>6. Status(txLog[t]) = "PENDING"
            BY <1>1, <3>3, <3>4, <3>5
               DEF TxAccepted, CanComplete, CanCompensate, CanFail, TxCalls, TransactionStatuses
        <3>7. Len(txLog[t]) = 1
            <4>1. PICK k \in Nat \ {0} : k = Len(txLog[t])
                BY <3>4
            <4>2. k # 1 => k \in 2 .. k
                OBVIOUS
            <4>3. Len(txLog[t]) # 1 => txLog[t][Len(txLog[t])] \in Terminal
                BY <4>1, <4>2 DEF ReportsOK
            <4>4. QED  BY <3>6, <4>3 DEF Status, Terminal
        <3>8. Range(txLog[t]) = {"PENDING"}
            BY <1>1, <3>6, <3>7 DEF Range, Status
        <3>9. QED  BY <1>5, <3>1, <3>8
    <2>2. QED  BY <2>1
<1>12. Promise!Report(t, x)
    BY <1>3, <1>4, <1>7, <1>9, <1>10, <1>11 DEF Promise!Report
<1>13. QED  BY <1>2, <1>12

\* The request reports that the transaction is pending.
LEMMA RequestPromised ==
    ASSUME Base, NEW t \in Transactions, Request(t) \/ RequestAnswerLost(t)
    PROVE  Promise!Request(t)
<1>1. /\ txLog' = [txLog EXCEPT ![t] = <<"PENDING">>]
      /\ UNCHANGED <<kind, legs, history, stale>>
      /\ txLog[t] = <<>> /\ txLog \in [Transactions -> Seq(TransactionStatuses)]
    BY DEF Request, RequestAnswerLost, Requested, Base, TypeOK, SagaOK, LogOK
<1>2. Reported[t] = {}
    BY <1>1 DEF Reported, Range
<1>3. Range(<<"PENDING">>) = {"PENDING"}
    BY DEF Range
<1>4. Reported' = [Reported EXCEPT ![t] = {"PENDING"}]
    <2>1. \A u \in Transactions :
             Range(txLog'[u]) = IF u = t THEN {"PENDING"} ELSE Range(txLog[u])
        BY <1>1, <1>3
    <2>2. QED  BY <2>1 DEF Reported
<1>5. UNCHANGED <<Movements, Balances>>
    BY <1>1 DEF Movements, Balances, Last
<1>6. QED  BY <1>1, <1>2, <1>4, <1>5 DEF Promise!Request

\* A change of an account's status moves no money, but may break the account.
LEMMA StatusPromised ==
    ASSUME Base, NEW a \in Accounts, NEW new \in Statuses, ChangeStatus(a, new)
    PROVE  [Promise!Next]_(Promise!evars)
<1>1. PICK e \in StatusChangedEvents :
         /\ e \in Events
         /\ history' = [history EXCEPT ![a] = @ \o Replayed(@[Len(@)], e, FALSE)]
         /\ stale' \in {stale, stale \cup {a}}
    BY StatusAppends
<1>2. Balances' = [Balances EXCEPT ![a] = Apply(Last(a), e).balance] /\ Last(a) \in States
    BY <1>1, BalanceSet, AppendsTo
<1>3. Apply(Last(a), e).balance = Balances[a]
    BY <1>1, <1>2, ApplyFields DEF Balances
<1>4. Balances' = Balances
    BY <1>2, <1>3 DEF Balances
<1>5. UNCHANGED <<kind, Movements, Reported>>
    BY DEF ChangeStatus, Movements, Reported
<1>6. CASE stale' = stale
    BY <1>4, <1>5, <1>6 DEF Promise!evars
<1>7. CASE stale' = stale \cup {a}
    <2>1. Promise!Break(a)
        BY <1>4, <1>5, <1>7 DEF Promise!Break, Promise!Breaks
    <2>2. QED  BY <2>1 DEF Promise!Next
<1>8. QED  BY <1>1, <1>6, <1>7

\* Every step of the sagas is a step of Escrow, or none.
LEMMA PromisedStep ==
    ASSUME Base, \A t \in Transactions : ReportsOK(t), [Next]_vars
    PROVE  [Promise!Next]_(Promise!evars)
<1>1. \A t \in Transactions : SagaOK(t)' /\ ReportsOK(t)'
    BY SagaStep, ReportsStep
<1>2. ASSUME UNCHANGED <<kind, txLog, history, legs, stale>>
      PROVE  UNCHANGED Promise!evars
    BY <1>2 DEF Promise!evars, Movements, Balances, Reported, Last
<1>3. ASSUME NEW t \in Transactions, NEW n \in Readable(txLog[t]), StoresTx(t, n)
      PROVE  Promise!Next
    BY <1>1, <1>3, TxPromised DEF Promise!Next
<1>4. ASSUME NEW t \in Transactions, Step(t)
      PROVE  [Promise!Next]_(Promise!evars)
    <2>1. LegReturns(t) \/ LegAnswerLost(t) => [Promise!Next]_(Promise!evars)
        BY LegPromised
    <2>2. TxReturns(t) \/ TxAnswerLost(t) => Promise!Next
        BY <1>3 DEF TxReturns, TxAnswerLost
    <2>3. LegRefused(t) \/ TxRefused(t) \/ RowReturns(t) \/ RowAnswerLost(t) \/ CallFails(t)
              => UNCHANGED <<kind, txLog, history, legs, stale>>
        BY DEF LegRefused, TxRefused, RowReturns, RowAnswerLost, SavesRow, CallFails
    <2>4. QED  BY <1>2, <1>4, <2>1, <2>2, <2>3 DEF Step
<1>5. ASSUME NEW t \in Transactions, Request(t) \/ RequestAnswerLost(t)
      PROVE  Promise!Next
    BY <1>5, RequestPromised DEF Promise!Next
<1>6. Crash \/ UNCHANGED vars => UNCHANGED <<kind, txLog, history, legs, stale>>
    BY DEF Crash, vars
<1>7. QED  BY <1>2, <1>4, <1>5, <1>6, StatusPromised DEF Next

\* The initial states of the sagas are initial states of Escrow.
LEMMA PromisedInit ==
    ASSUME Init
    PROVE  Promise!Init
<1>1. kind \in [Transactions -> Kinds]
    BY SagasAssumption DEF Init
<1>2. Movements = [t \in Transactions |-> {}]
    BY DEF Init, Movements
<1>3. Reported = [t \in Transactions |-> {}]
    BY DEF Init, Reported, Range
<1>4. Balances = Funds
    BY InitialHistory, SagasAssumption DEF Balances
<1>5. QED  BY <1>1, <1>2, <1>3, <1>4 DEF Init, Promise!Init, Kinds

\* The requests' statuses and the movements each handler has still to make, at
\* every await of every saga.
THEOREM ReportsInvariant == Spec => [](\A t \in Transactions : ReportsOK(t))
<1> DEFINE Inv == \A t \in Transactions : ReportsOK(t)
<1>1. Init => Inv
    BY DEF Init, ReportsOK, Unreported, Uncompensated
<1>2. Base /\ Inv /\ [Next]_vars => Inv'
    BY ReportsStep
<1>3. QED  BY <1>1, <1>2, BaseInvariant, PTL DEF Spec

\* The awaited calls of concurrent sagas, whichever throw, lose their answer or
\* die with the process, implement indivisible movements of money, each made at
\* most once, only where it is earned and within the accounts' limits.
THEOREM SagasImplementEscrow == Spec => MoneyIsEscrowed
<1> DEFINE Inv == \A t \in Transactions : ReportsOK(t)
<1>1. Init => Promise!Init
    BY PromisedInit
<1>2. Base /\ Inv /\ [Next]_vars => [Promise!Next]_(Promise!evars)
    BY PromisedStep
<1>3. QED  BY <1>1, <1>2, BaseInvariant, ReportsInvariant, PTL
           DEF Spec, MoneyIsEscrowed, Promise!Spec

(***************************************************************************)
(* The sum of all balances.                                                *)
(***************************************************************************)

\* The amounts and the balances that the sums add are integers.
LEMMA SumTypes ==
    ASSUME Base
    PROVE  /\ Balances \in [Accounts -> Int]
           /\ [t \in Transactions |-> Net(t)] \in [Transactions -> Int]
<1>1. \A a \in Accounts : Last(a) \in States
    BY DEF Base, TypeOK, Opened, Last
<1>2. \A t \in Transactions : Net(t) \in Int
    BY SagasAssumption DEF Net
<1>3. QED  BY <1>1, <1>2 DEF Balances, States

\* And they are in the next state.
LEMMA SumTypesNext ==
    ASSUME Base'
    PROVE  /\ Balances' \in [Accounts -> Int]
           /\ [t \in Transactions |-> Net(t)]' \in [Transactions -> Int]
<1>1. \A a \in Accounts : Last(a)' \in States
    BY DEF Base, TypeOK, Opened, Last
<1>2. \A t \in Transactions : Net(t)' \in Int
    BY SagasAssumption DEF Net
<1>3. QED  BY <1>1, <1>2 DEF Balances, States

\* A stored call changes what its transaction moved in all by what it moves.
LEMMA NetStep ==
    ASSUME Base, NEW t \in Transactions, LegEffect(t)
    PROVE  /\ Net(t)' = Net(t) + LegChange(t)
           /\ \A u \in Transactions \ {t} : Net(u)' = Net(u)
<1>1. /\ legs'[t] = legs[t] \cup {pc[t]} /\ pc[t] \in LegCalls
      /\ \A u \in Transactions \ {t} : legs'[u] = legs[u]
    BY DEF LegEffect, Base, TypeOK
<1>2. pc[t] \notin legs[t]
    BY <1>1 DEF Base, SagaOK, LegsOK, LegCalls, BeforeReserve, BeforeDebit, BeforeCredit,
                BehindRefund, Ended
<1>3. Amount[t] \in Int
    BY SagasAssumption
<1>4. Net(t)' = Net(t) + LegChange(t)
    <2>1. CASE pc[t] = "reserve"
        BY <1>1, <1>3, <2>1 DEF Net, LegChange
    <2>2. CASE pc[t] = "debit"
        BY <1>1, <1>2, <1>3, <2>2 DEF Net, LegChange
    <2>3. CASE pc[t] = "credit"
        BY <1>1, <1>2, <1>3, <2>3 DEF Net, LegChange
    <2>4. CASE pc[t] = "refund"
        BY <1>1, <1>2, <1>3, <2>4 DEF Net, LegChange
    <2>5. QED  BY <1>1, <2>1, <2>2, <2>3, <2>4 DEF LegCalls
<1>5. QED  BY <1>1, <1>4 DEF Net

\* Both sides of the equation, as functions of a state.
Held == SumFunction(Balances)
Added == SumFunction([t \in Transactions |-> Net(t)])

\* A stored call that breaks no account moves both sides by the same amount.
LEMMA ConservedLeg ==
    ASSUME Base, Base', NEW t \in Transactions, LegReturns(t) \/ LegAnswerLost(t),
           stale' \cap Accounts = {}
    PROVE  Held' - Held = Added' - Added
<1> DEFINE b == LegAccount(t, pc[t])
           x == LegChange(t)
           f == [u \in Transactions |-> Net(u)]
<1>1. LegEffect(t) /\ Amount[t] \in Int
    BY SagasAssumption DEF LegReturns, LegAnswerLost, LegReads, StoresLeg, LegEffect
<1>2. x \in Int
    BY <1>1 DEF LegChange
<1>3. /\ Balances \in [Accounts -> Int] /\ Balances' \in [Accounts -> Int]
      /\ f \in [Transactions -> Int] /\ f' \in [Transactions -> Int]
    BY SumTypes, SumTypesNext
<1>4. Added' = Added + x
    <2>1. f'[t] = f[t] + x /\ \A u \in Transactions \ {t} : f'[u] = f[u]
        BY <1>1, NetStep
    <2> HIDE DEF f, x
    <2>2. SumFunction(f') = SumFunction(f) + (f'[t] - f[t])
        BY <1>3, <2>1, SumChange, SagasAssumption
    <2>3. f[t] \in Int
        BY <1>3
    <2>4. SumFunction(f') = SumFunction(f) + x
        BY <1>2, <2>1, <2>2, <2>3
    <2>5. QED  BY <2>4 DEF Added, f
<1>5. Held' = Held + x
    <2>1. /\ b \in Accounts
          /\ \/ Promise!Breaks(b)
             \/ UNCHANGED Balances /\ pc[t] = "reserve"
             \/ Promise!Pays(b, x)
        BY LegPays
    <2>2. ~Promise!Breaks(b)
        BY <2>1 DEF Promise!Breaks
    <2>3. Held \in Int
        BY <1>3, SumType, SagasAssumption DEF Held
    <2>4. CASE UNCHANGED Balances /\ pc[t] = "reserve"
        BY <1>2, <2>3, <2>4 DEF Held, LegChange
    <2>5. CASE Promise!Pays(b, x)
        <3> HIDE DEF b, x
        <3>1. Balances' = [Balances EXCEPT ![b] = @ + x]
            BY <2>5 DEF Promise!Pays
        <3>2. Balances'[b] - Balances[b] = x /\ \A a \in Accounts \ {b} : Balances'[a] = Balances[a]
            BY <1>2, <1>3, <2>1, <3>1
        <3>3. SumFunction(Balances') = SumFunction(Balances) + (Balances'[b] - Balances[b])
            BY <1>3, <2>1, <3>2, SumChange, SagasAssumption
        <3>4. QED  BY <3>2, <3>3 DEF Held
    <2>6. QED  BY <2>1, <2>2, <2>4, <2>5
<1>6. Held \in Int /\ Added \in Int
    BY <1>3, SumType, SagasAssumption DEF Held, Added
<1>7. QED  BY <1>2, <1>4, <1>5, <1>6

\* No saga creates money: while no account got a stale append, the sum of all
\* balances is the opening funds plus what the stored calls of the transactions
\* brought in, took out or have on its way, at every await and after a crash.
THEOREM MoneyConserved == Spec => []MoneyIsConserved
<1> DEFINE Opening == SumFunction(Funds)
           Inv == stale \cap Accounts = {} => Held = Opening + Added
<1>1. Opening \in Int
    BY SumType, SagasAssumption
<1>2. /\ Base => Held \in Int /\ Added \in Int
      /\ Base' => Held' \in Int /\ Added' \in Int
    BY SumTypes, SumTypesNext, SumType, SagasAssumption DEF Held, Added
<1>3. Init => Inv
    <2> SUFFICES ASSUME Init PROVE Held = Opening + Added
        OBVIOUS
    <2>1. Balances = Funds
        BY InitialHistory, SagasAssumption DEF Balances
    <2>2. [t \in Transactions |-> Net(t)] = [t \in Transactions |-> 0]
        <3>1. \A t \in Transactions : Net(t) = 0
            BY DEF Init, Net
        <3>2. QED  BY <3>1
    <2>3. Added = 0
        BY <2>2, SumOfZeros, SagasAssumption DEF Added
    <2>4. QED  BY <1>1, <2>1, <2>3 DEF Held
<1>4. Base /\ Base' /\ Inv /\ [Next]_vars => Inv'
    <2> SUFFICES ASSUME Base, Base', [Next]_vars, stale' \cap Accounts = {}, Inv
                 PROVE  (Held = Opening + Added)'
        OBVIOUS
    <2>1. Held = Opening + Added
        BY HistoryStep
    <2> HIDE DEF Opening
    <2>2. Opening' = Opening
        BY DEF Opening
    <2>3. SUFFICES Held' - Held = Added' - Added
        BY <1>1, <1>2, <2>1, <2>2
    <2>4. ASSUME UNCHANGED <<Balances, legs>> PROVE Held' - Held = Added' - Added
        <3>1. Added' = Added /\ Held' = Held
            BY <2>4 DEF Held, Added, Net
        <3>2. QED  BY <1>2, <3>1
    <2>5. ASSUME NEW a \in Accounts, NEW new \in Statuses, ChangeStatus(a, new)
          PROVE  UNCHANGED <<Balances, legs>>
        <3>1. PICK e \in StatusChangedEvents :
                 /\ e \in Events
                 /\ history' = [history EXCEPT ![a] = @ \o Replayed(@[Len(@)], e, FALSE)]
            BY <2>5, StatusAppends
        <3>2. Balances' = [Balances EXCEPT ![a] = Apply(Last(a), e).balance]
              /\ Last(a) \in States
            BY <3>1, BalanceSet, AppendsTo
        <3>3. Apply(Last(a), e).balance = Balances[a]
            BY <3>1, <3>2, ApplyFields DEF Balances
        <3>4. QED  BY <2>5, <3>2, <3>3 DEF Balances, ChangeStatus
    <2>6. ASSUME NEW t \in Transactions, Step(t) \/ Request(t) \/ RequestAnswerLost(t)
          PROVE  LegReturns(t) \/ LegAnswerLost(t) \/ UNCHANGED <<history, legs>>
        BY <2>6 DEF Step, LegRefused, TxReturns, TxRefused, TxAnswerLost, StoresTx, RowReturns,
                    RowAnswerLost, SavesRow, CallFails, Request, RequestAnswerLost
    <2>7. Crash \/ UNCHANGED vars => UNCHANGED <<history, legs>>
        BY DEF Crash, vars
    <2>8. UNCHANGED history => UNCHANGED Balances
        BY DEF Balances, Last
    <2>9. QED  BY <2>4, <2>5, <2>6, <2>7, <2>8, ConservedLeg DEF Next
<1>5. Inv => MoneyIsConserved
    BY DEF MoneyIsConserved, Held, Added
<1>6. QED  BY <1>3, <1>4, <1>5, BaseInvariant, PTL DEF Spec

(***************************************************************************)
(* Reports of sagas whose calls all work.                                  *)
(***************************************************************************)

\* What is stored at each place of a handler while no call has failed.
LegsExact(t) ==
    /\ pc[t] \in BeforeReserve => legs[t] = {}
    /\ pc[t] \in {"reserved", "debit"} => legs[t] = {"reserve"}
    /\ pc[t] \in {"debited", "credit", "compensate", "refund", "giveUp"}
          => legs[t] = IF kind[t] = "topup" THEN {} ELSE {"reserve", "debit"}
    /\ pc[t] \in BehindCredit => legs[t] = LegsOf(t)
    /\ pc[t] \in {"fail", "failTx"} => legs[t] \subseteq {"reserve"}
    /\ pc[t] \in BehindRefund => legs[t] = {"reserve", "debit", "refund"}

\* The outcome is the handler's last event, reported once.
LogExact(t) ==
    /\ pc[t] \notin {"swallowed", "rejected"}
    /\ pc[t] \notin {"idle", "completed", "compensated"} \cup Ended => txLog[t] = Requested
    /\ pc[t] = "completed" => txLog[t] = Append(Requested, "COMPLETED")
    /\ pc[t] = "compensated" => txLog[t] = Append(Requested, "COMPENSATED")
    /\ pc[t] = "done" => \E s \in Terminal : txLog[t] = Append(Requested, s)

\* A handler that gives money back has said so in its row.
RowExact(t) == pc[t] \in {"refund", "giveUp"} => row[t].status = "COMPENSATING"

\* What each outcome tells of the stored calls.
OutcomeExact(t) ==
    /\ Has(txLog[t], "COMPLETED") => legs[t] = LegsOf(t)
    /\ Has(txLog[t], "COMPENSATED") => legs[t] = {"reserve", "debit", "refund"}
    /\ Has(txLog[t], "FAILED") =>
          \/ legs[t] \subseteq {"reserve"}
          \/ legs[t] = {"reserve", "debit"} /\ row[t].status = "COMPENSATING"

ExactOK(t) == LegsExact(t) /\ LogExact(t) /\ RowExact(t) /\ OutcomeExact(t)

\* The aggregate refuses the call; a transaction does so having read its whole log.
Refused(t) ==
    /\ pc[t] \in LegCalls \cup TxCalls
    /\ pc[t] \in TxCalls => ~TxDecides(t, Len(txLog[t]))
    /\ UNCHANGED <<kind, row, txLog, legs, unseen>>

\* The statuses of a log that holds the request, and of one that holds the outcome.
LEMMA OutcomeLogs ==
    /\ Requested \in Seq(TransactionStatuses) /\ Len(Requested) = 1
    /\ \A y : Has(Requested, y) <=> y = "PENDING"
    /\ \A s \in Terminal : \A y : Has(Append(Requested, s), y) <=> y = "PENDING" \/ y = s
<1>1. Requested \in Seq(TransactionStatuses) /\ Len(Requested) = 1 /\ Requested[1] = "PENDING"
    BY DEF Requested, TransactionStatuses
<1>2. \A y : Has(Requested, y) <=> y = "PENDING"
    BY <1>1 DEF Has, In
<1>3. ASSUME NEW s \in Terminal, NEW y
      PROVE  Has(Append(Requested, s), y) <=> y = "PENDING" \/ y = s
    <2>1. s \in TransactionStatuses
        BY DEF Terminal
    <2>2. Has(Append(Requested, s), y) <=> Has(Requested, y) \/ s = y
        BY <1>1, <2>1, AppendHas
    <2>3. QED  BY <1>2, <2>2
<1>4. QED  BY <1>1, <1>2, <1>3

\* A complete read holds the whole log.
LEMMA CompleteRead ==
    ASSUME MaxLag = 0, NEW S, NEW log \in Seq(S), NEW n \in Readable(log)
    PROVE  n = Len(log)
BY DEF Readable

\* No call failed: each step is a call that returned or was refused.
LEMMA ExactEffects ==
    ASSUME Base, MaxLag = 0, faults' = 0, NEW t \in Transactions, Step(t)
    PROVE  \/ LegEffect(t) /\ GoesTo(t, After(t))
           \/ TxEffect(t) /\ GoesTo(t, After(t))
           \/ RowEffect(t) /\ GoesTo(t, After(t))
           \/ Refused(t) /\ GoesTo(t, Catch(t))
<1>1. faults \in Nat /\ txLog[t] \in Seq(TransactionStatuses)
    BY SagasAssumption DEF Base, TypeOK
<1>2. ~Fails(t)
    BY <1>1 DEF Fails
<1>3. LegReturns(t) => LegEffect(t) /\ GoesTo(t, After(t))
    BY DEF LegReturns, LegReads, StoresLeg, Returns, LegEffect, GoesTo
<1>4. TxReturns(t) => TxEffect(t) /\ GoesTo(t, After(t))
    BY DEF TxReturns, StoresTx, Returns, TxEffect, GoesTo
<1>5. RowReturns(t) => RowEffect(t) /\ GoesTo(t, After(t))
    BY DEF RowReturns, SavesRow, Returns, RowEffect, GoesTo
<1>6. LegRefused(t) => Refused(t) /\ GoesTo(t, Catch(t))
    BY DEF LegRefused, LegReads, Throws, Refused, GoesTo, LegCalls, TxCalls
<1>7. TxRefused(t) => Refused(t) /\ GoesTo(t, Catch(t))
    <2> SUFFICES ASSUME TxRefused(t) PROVE Refused(t) /\ GoesTo(t, Catch(t))
        OBVIOUS
    <2>1. PICK n \in Readable(txLog[t]) : ~TxDecides(t, n)
        BY DEF TxRefused
    <2>2. n = Len(txLog[t])
        BY <1>1, <2>1, CompleteRead
    <2>3. QED  BY <2>1, <2>2 DEF TxRefused, Throws, Refused, GoesTo
<1>8. QED  BY <1>2, <1>3, <1>4, <1>5, <1>6, <1>7
           DEF Step, LegAnswerLost, TxAnswerLost, RowAnswerLost, CallFails

\* An account call returned.
LEMMA ExactLeg ==
    ASSUME Base, NEW t \in Transactions, ExactOK(t), LegEffect(t), GoesTo(t, After(t))
    PROVE  ExactOK(t)'
<1>1. /\ kind[t] \in Kinds /\ SagaOK(t) /\ PlaceOK(t) /\ pc[t] \in LegCalls
      /\ kind'[t] = kind[t] /\ row'[t] = row[t] /\ txLog'[t] = txLog[t]
      /\ legs'[t] = legs[t] \cup {pc[t]} /\ LegsOf(t)' = LegsOf(t)
      /\ pc'[t] = After(t)
    BY DEF Base, TypeOK, SagaOK, LegEffect, LegsOf, GoesTo
<1>2. \/ pc[t] = "reserve" /\ pc'[t] = "reserved"
      \/ pc[t] = "debit" /\ pc'[t] = "debited"
      \/ pc[t] = "credit" /\ pc'[t] = "credited"
      \/ pc[t] = "refund" /\ pc'[t] = "refunded"
    BY <1>1, AfterTable DEF LegCalls
<1>3. LegsExact(t)'
    <2>1. LegsExact(t) /\ (pc[t] = "credit" => kind[t] # "withdrawal")
          /\ (pc[t] = "refund" => kind[t] # "topup") /\ (pc[t] = "debit" => kind[t] # "topup")
        BY <1>1 DEF ExactOK, PlaceOK, Compensating, TwoLegged
    <2>2. LegsOf(t) = IF kind[t] = "topup" THEN {"credit"}
                      ELSE IF kind[t] = "withdrawal" THEN {"reserve", "debit"}
                      ELSE {"reserve", "debit", "credit"}
        BY <1>1, LegsTable
    <2>3. QED  BY <1>1, <1>2, <2>1, <2>2
               DEF LegsExact, BeforeReserve, BehindCredit, BehindRefund
<1>4. txLog[t] = Requested /\ LogExact(t)' /\ RowExact(t)'
    BY <1>1, <1>2 DEF ExactOK, LogExact, RowExact, Ended
<1>5. OutcomeExact(t)'
    <2>1. ~Has(txLog'[t], "COMPLETED") /\ ~Has(txLog'[t], "COMPENSATED") /\ ~Has(txLog'[t], "FAILED")
        BY <1>1, <1>4, OutcomeLogs
    <2>2. QED  BY <2>1 DEF OutcomeExact, Has
<1>6. QED  BY <1>3, <1>4, <1>5 DEF ExactOK

\* The outcome is stored: what it tells is what the place says.
LEMMA ExactTx ==
    ASSUME Base, NEW t \in Transactions, ExactOK(t), TxEffect(t), GoesTo(t, After(t))
    PROVE  ExactOK(t)'
<1>1. /\ kind[t] \in Kinds /\ SagaOK(t) /\ PlaceOK(t) /\ pc[t] \in TxCalls
      /\ kind'[t] = kind[t] /\ row'[t] = row[t] /\ legs'[t] = legs[t]
      /\ txLog'[t] = Append(txLog[t], TxOutcome(pc[t])) /\ LegsOf(t)' = LegsOf(t)
      /\ pc'[t] = After(t)
    BY DEF Base, TypeOK, SagaOK, TxEffect, LegsOf, GoesTo
<1>2. \/ pc[t] = "complete" /\ pc'[t] = "completed" /\ TxOutcome(pc[t]) = "COMPLETED"
      \/ pc[t] = "compensateTx" /\ pc'[t] = "compensated" /\ TxOutcome(pc[t]) = "COMPENSATED"
      \/ pc[t] \in {"failTx", "giveUp"} /\ pc'[t] = "done" /\ TxOutcome(pc[t]) = "FAILED"
    BY <1>1, AfterTable DEF TxCalls, TxOutcome
<1>3. txLog'[t] = Append(Requested, TxOutcome(pc[t])) /\ TxOutcome(pc[t]) \in Terminal
    BY <1>1, <1>2 DEF ExactOK, LogExact, Ended, Terminal, TransactionStatuses
<1>4. LegsExact(t)'
    BY <1>1, <1>2 DEF ExactOK, LegsExact, BeforeReserve, BehindCredit, BehindRefund
<1>5. LogExact(t)' /\ RowExact(t)'
    BY <1>2, <1>3 DEF LogExact, RowExact, Ended
<1>6. OutcomeExact(t)'
    <2>1. \A y : Has(txLog'[t], y) <=> y = "PENDING" \/ y = TxOutcome(pc[t])
        BY <1>3, OutcomeLogs
    <2>2. LegsExact(t) /\ RowExact(t) /\ (pc[t] = "giveUp" => kind[t] # "topup")
        BY <1>1 DEF ExactOK, PlaceOK, Compensating, TwoLegged
    <2>3. CASE pc[t] = "complete"
        BY <1>1, <1>2, <2>1, <2>2, <2>3 DEF LegsExact, BehindCredit, OutcomeExact, Has
    <2>4. CASE pc[t] = "compensateTx"
        BY <1>1, <1>2, <2>1, <2>2, <2>4 DEF LegsExact, BehindRefund, OutcomeExact, Has
    <2>5. CASE pc[t] \in {"failTx", "giveUp"}
        BY <1>1, <1>2, <2>1, <2>2, <2>5 DEF LegsExact, RowExact, OutcomeExact, Has
    <2>6. QED  BY <1>2, <2>3, <2>4, <2>5
<1>7. QED  BY <1>4, <1>5, <1>6 DEF ExactOK

\* A call on the row returned.
LEMMA ExactRow ==
    ASSUME Base, NEW t \in Transactions, ExactOK(t), RowEffect(t), GoesTo(t, After(t))
    PROVE  ExactOK(t)'
<1>1. /\ kind[t] \in Kinds /\ SagaOK(t) /\ PlaceOK(t) /\ pc[t] \in RowCalls
      /\ kind'[t] = kind[t] /\ row'[t] = RowSaved(t) /\ legs'[t] = legs[t]
      /\ txLog'[t] = txLog[t] /\ LegsOf(t)' = LegsOf(t) /\ pc'[t] = After(t)
    BY DEF Base, TypeOK, SagaOK, RowEffect, LegsOf, GoesTo
<1>2. \/ pc[t] = "start" /\ pc'[t] = IF kind[t] = "topup" THEN "credit" ELSE "reserve"
      \/ pc[t] = "reserved" /\ pc'[t] = "debit"
      \/ pc[t] = "debited" /\ pc'[t] = IF TwoLegged(t) THEN "credit" ELSE "complete"
      \/ pc[t] = "credited" /\ pc'[t] = "complete"
      \/ pc[t] = "completed" /\ pc'[t] = "done"
      \/ pc[t] = "fail" /\ pc'[t] = "failTx"
      \/ pc[t] = "compensate" /\ pc'[t] = "refund"
      \/ pc[t] = "refunded" /\ pc'[t] = "compensateTx"
      \/ pc[t] = "compensated" /\ pc'[t] = "done"
    BY <1>1, AfterTable DEF RowCalls
<1>3. LegsExact(t)'
    <2>1. LegsExact(t) /\ (pc[t] = "debited" => kind[t] # "topup")
        BY <1>1 DEF ExactOK, PlaceOK
    <2>2. kind[t] = "withdrawal" => LegsOf(t) = {"reserve", "debit"}
        BY <1>1, LegsTable
    <2>3. ~TwoLegged(t) => kind[t] \in {"topup", "withdrawal"}
        BY <1>1 DEF TwoLegged, Kinds
    <2>4. QED  BY <1>1, <1>2, <2>1, <2>2, <2>3
               DEF LegsExact, BeforeReserve, BehindCredit, BehindRefund
<1>4. LogExact(t)'
    BY <1>1, <1>2 DEF ExactOK, LogExact, Ended, Terminal, TransactionStatuses
<1>5. RowExact(t)'
    BY <1>1, <1>2, SavedFields DEF RowExact
<1>6. OutcomeExact(t)'
    <2>1. ~Has(txLog[t], "FAILED")
        BY <1>1 DEF SagaOK, LogOK, RowCalls, Ended
    <2>2. QED  BY <1>1, <2>1 DEF ExactOK, OutcomeExact, Has
<1>7. QED  BY <1>3, <1>4, <1>5, <1>6 DEF ExactOK

\* Only an account call is refused: the log still holds just the request.  What
\* is stored is then given back, or the outcome tells it.
LEMMA ExactRefused ==
    ASSUME Base, NEW t \in Transactions, ExactOK(t), Refused(t), GoesTo(t, Catch(t))
    PROVE  ExactOK(t)'
<1>1. /\ kind[t] \in Kinds /\ PlaceOK(t) /\ pc[t] \in LegCalls \cup TxCalls
      /\ kind'[t] = kind[t] /\ row'[t] = row[t] /\ legs'[t] = legs[t]
      /\ txLog'[t] = txLog[t] /\ LegsOf(t)' = LegsOf(t) /\ pc'[t] = Catch(t)
    BY DEF Base, TypeOK, SagaOK, Refused, LegsOf, GoesTo
<1>2. txLog[t] = Requested
    BY <1>1 DEF ExactOK, LogExact, LegCalls, TxCalls, Ended
<1>3. pc[t] \notin TxCalls
    <2>1. PICK log \in Seq(TransactionStatuses) : log = Requested
        BY OutcomeLogs
    <2>2. Len(log) = 1 /\ SubSeq(log, 1, Len(log)) = log
        BY <2>1, OutcomeLogs
    <2>3. log[1] = "PENDING"
        BY <2>1 DEF Requested
    <2>4. Replays(log) /\ Status(log) = "PENDING"
        BY <2>2, <2>3 DEF Replays, Status
    <2>5. TxAccepted(pc[t], "PENDING")
        BY DEF TxAccepted, CanComplete, CanCompensate, CanFail
    <2>6. txLog[t] = log /\ Len(log) > 0
        BY <1>2, <2>1, <2>2
    <2>7. TxDecides(t, Len(txLog[t]))
        BY <2>2, <2>4, <2>5, <2>6, Zenon DEF TxDecides
    <2>8. QED  BY <2>7 DEF Refused
<1>4. \/ pc[t] \in {"reserve", "debit"} /\ pc'[t] = "fail"
      \/ pc[t] = "credit" /\ kind[t] = "topup" /\ pc'[t] = "fail"
      \/ pc[t] = "credit" /\ kind[t] # "topup" /\ pc'[t] = "compensate"
      \/ pc[t] = "refund" /\ pc'[t] = "giveUp"
    <2>1. pc[t] = "credit" => kind[t] # "withdrawal"
        BY <1>1 DEF PlaceOK
    <2>2. kind[t] \notin {"topup", "withdrawal"} => TwoLegged(t)
        BY <1>1 DEF TwoLegged, Kinds
    <2>3. kind[t] = "topup" => ~TwoLegged(t)
        BY DEF TwoLegged
    <2>4. QED  BY <1>1, <1>3, <2>1, <2>2, <2>3, CatchTable DEF LegCalls
<1>5. LegsExact(t)'
    BY <1>1, <1>4 DEF ExactOK, LegsExact, BeforeReserve, BehindCredit, BehindRefund
<1>6. LogExact(t)' /\ RowExact(t)'
    BY <1>1, <1>2, <1>4 DEF ExactOK, LogExact, RowExact, Ended
<1>7. OutcomeExact(t)'
    BY <1>1 DEF ExactOK, OutcomeExact, Has
<1>8. QED  BY <1>5, <1>6, <1>7 DEF ExactOK

\* The request is stored and answered.
LEMMA ExactRequest ==
    ASSUME Base, NEW t \in Transactions, ExactOK(t), Request(t)
    PROVE  ExactOK(t)'
<1>1. /\ pc[t] = "idle" /\ pc'[t] = "start" /\ txLog'[t] = Requested
      /\ kind'[t] = kind[t] /\ legs'[t] = legs[t]
    BY DEF Base, TypeOK, Request
<1>2. LegsExact(t)' /\ LogExact(t)' /\ RowExact(t)'
    BY <1>1 DEF ExactOK, LegsExact, LogExact, RowExact, BeforeReserve, BehindCredit,
                BehindRefund, Ended
<1>3. ~Has(txLog'[t], "COMPLETED") /\ ~Has(txLog'[t], "COMPENSATED") /\ ~Has(txLog'[t], "FAILED")
    BY <1>1, OutcomeLogs
<1>4. QED  BY <1>2, <1>3 DEF ExactOK, OutcomeExact, Has

\* A step of another saga or of another client, or the end of the process.
LEMMA ExactOther ==
    ASSUME NEW t \in Transactions, ExactOK(t),
           kind'[t] = kind[t], row'[t] = row[t], legs'[t] = legs[t], txLog'[t] = txLog[t],
           pc'[t] = pc[t] \/ pc'[t] = "gone"
    PROVE  ExactOK(t)'
<1>1. LegsOf(t)' = LegsOf(t)
    BY DEF LegsOf
<1>2. LegsExact(t)'
    BY <1>1 DEF ExactOK, LegsExact, BeforeReserve, BehindCredit, BehindRefund
<1>3. LogExact(t)' /\ RowExact(t)'
    BY DEF ExactOK, LogExact, RowExact, Ended
<1>4. OutcomeExact(t)'
    BY <1>1 DEF ExactOK, OutcomeExact, Has
<1>5. QED  BY <1>2, <1>3, <1>4 DEF ExactOK

\* Every step that leaves the count of failed calls at zero keeps it.
LEMMA ExactStep ==
    ASSUME Base, MaxLag = 0, faults' = 0, [Next]_vars, NEW u \in Transactions, ExactOK(u)
    PROVE  ExactOK(u)'
<1>1. ASSUME NEW t \in Transactions, t # u, Step(t) \/ Request(t)
      PROVE  ExactOK(u)'
    <2>1. \/ LegEffect(t) /\ GoesTo(t, After(t))
          \/ TxEffect(t) /\ GoesTo(t, After(t))
          \/ RowEffect(t) /\ GoesTo(t, After(t))
          \/ Refused(t) /\ GoesTo(t, Catch(t))
          \/ Request(t)
        BY <1>1, ExactEffects
    <2>2. /\ kind'[u] = kind[u] /\ legs'[u] = legs[u] /\ row'[u] = row[u]
          /\ txLog'[u] = txLog[u] /\ pc'[u] = pc[u]
        BY <1>1, <2>1 DEF LegEffect, TxEffect, RowEffect, Refused, GoesTo, Request, Base, TypeOK
    <2>3. QED  BY <2>2, ExactOther
<1>2. ASSUME Step(u) \/ Request(u) PROVE ExactOK(u)'
    BY <1>2, ExactEffects, ExactLeg, ExactTx, ExactRow, ExactRefused, ExactRequest
<1>3. ASSUME NEW t \in Transactions PROVE ~RequestAnswerLost(t)
    <2>1. faults \in Nat
        BY SagasAssumption DEF Base, TypeOK
    <2>2. QED  BY <2>1 DEF RequestAnswerLost
<1>4. ASSUME UNCHANGED <<kind, row, txLog, legs>>,
             pc'[u] = pc[u] \/ pc'[u] = "gone"
      PROVE  ExactOK(u)'
    BY <1>4, ExactOther
<1>5. Crash => UNCHANGED <<kind, row, txLog, legs>> /\ (pc'[u] = pc[u] \/ pc'[u] = "gone")
    BY DEF Crash
<1>6. ASSUME NEW a \in Accounts, NEW new \in Statuses, ChangeStatus(a, new)
      PROVE  UNCHANGED <<kind, row, txLog, legs, pc>>
    BY <1>6 DEF ChangeStatus
<1>7. UNCHANGED vars => UNCHANGED <<kind, row, txLog, legs, pc>>
    BY DEF vars
<1>8. QED  BY <1>1, <1>2, <1>3, <1>4, <1>5, <1>6, <1>7 DEF Next

\* Failed calls are counted and never forgotten.
LEMMA FaultsCount ==
    ASSUME TypeOK, [Next]_vars, faults' = 0
    PROVE  faults = 0
<1>1. faults \in Nat
    BY SagasAssumption DEF TypeOK
<1>2. ASSUME NEW t \in Transactions, Step(t) PROVE faults' = faults \/ faults' = faults + 1
    BY <1>2 DEF Step, LegReturns, LegRefused, LegAnswerLost, TxReturns, TxRefused, TxAnswerLost,
                RowReturns, RowAnswerLost, CallFails, Returns, Throws, Fails
<1>3. ASSUME NEW t \in Transactions, Request(t) \/ RequestAnswerLost(t)
      PROVE  faults' = faults \/ faults' = faults + 1
    BY <1>3 DEF Request, RequestAnswerLost
<1>4. ASSUME NEW a \in Accounts, NEW new \in Statuses, ChangeStatus(a, new)
      PROVE  faults' = faults
    BY <1>4 DEF ChangeStatus
<1>5. Crash \/ UNCHANGED vars => faults' = faults
    BY DEF Crash, vars
<1>6. faults' = faults \/ faults' = faults + 1
    BY <1>2, <1>3, <1>4, <1>5 DEF Next
<1>7. QED  BY <1>1, <1>6

\* With complete reads and no failed call, every saga that the process lives to
\* finish reports its outcome once, and the outcome tells exactly what it moved.
THEOREM ReportsExact == Spec => []ReportsAreExact
<1> DEFINE Inv == MaxLag = 0 /\ faults = 0 => \A t \in Transactions : ExactOK(t)
<1>1. Init => Inv
    <2> SUFFICES ASSUME Init, NEW t \in Transactions PROVE ExactOK(t)
        OBVIOUS
    <2>1. pc[t] = "idle" /\ txLog[t] = <<>> /\ legs[t] = {}
        BY DEF Init
    <2>2. \A y : ~Has(txLog[t], y)
        BY <2>1 DEF Has, In
    <2>3. QED  BY <2>1, <2>2 DEF ExactOK, LegsExact, LogExact, RowExact, OutcomeExact,
                  BeforeReserve, BehindCredit, BehindRefund, Ended
<1>2. Base /\ Inv /\ [Next]_vars => Inv'
    BY FaultsCount, ExactStep DEF Base
<1>3. Inv => ReportsAreExact
    BY DEF ReportsAreExact, ExactOK, LogExact, OutcomeExact, Ended
<1>4. QED  BY <1>1, <1>2, <1>3, BaseInvariant, PTL DEF Spec

==============================================================================
