----------------------------- MODULE UtxoSelection -----------------------------
(***************************************************************************)
(* How a proposer turns spendable utxos and waiting withdrawals into a     *)
(* bitcoin transaction (wallet/withdraw_strategy.go, types/utxo.go): the   *)
(* size estimate, the choice of inputs, the split of the fee and the       *)
(* checks made before the transaction is signed.  Everything here is a     *)
(* function of its arguments; WithdrawStrategy runs it.                    *)
(*                                                                         *)
(* A utxo is [id, amount, type]; a payee (withdrawal or safebox task) is   *)
(* [id, amount, type] with the "price" a withdrawal accepts.  Amounts are  *)
(* satoshis.  The code holds estimated fees as floats of size * price with *)
(* sizes in quarters of a byte, so est is counted in quarter satoshis.     *)
(* sort.Slice is unstable: among equal amounts the id decides here.        *)
(* The check of the size (validateTransactionSize) and the retry with one  *)
(* input fewer (handleTxSizeError) are left out: by the limits on inputs   *)
(* and payees a transaction has 82 bytes at least and 9 kB at most.        *)
(***************************************************************************)
EXTENDS Integers, FiniteSets, Sequences, FiniteSetsExt

CONSTANTS
  MaxVin,         \* inputs gathered for a payment, the small extra one aside
  LargeVin,       \* the same when more than LargeAmount is needed
  LargeAmount,
  SmallUtxo       \* an extra input is added only below this amount

ASSUME SelectionAssumption ==
  {MaxVin, LargeVin, LargeAmount, SmallUtxo} \subseteq Nat \ {0}

GetDustAmount(price) == price * 93

Total(S, value) == MapThenSumSet(LAMBDA r : value[r], S)
Sum(S) == Total(S, [r \in S |-> r.amount])
CeilDiv(a, b) == (a + b - 1) \div b

-----------------------------------------------------------------------------
(* Sizes, in bytes *)

InputBase == [P2WPKH |-> 41, P2PKH |-> 148, P2WSH |-> 41, P2SH |-> 296, P2TR |-> 41]
InputWitness == [P2WPKH |-> 108, P2PKH |-> 0, P2WSH |-> 132, P2SH |-> 0, P2TR |-> 66]
OutputSize == [P2WPKH |-> 31, P2PKH |-> 34, P2WSH |-> 43, P2SH |-> 32, P2TR |-> 43]

Over(S, size) == Total(S, [r \in S |-> size[r.type]])

WitnessSize(ins) ==
  LET w == Over(ins, InputWitness) IN IF w > 0 THEN w + 2 ELSE 0

\* four times the virtual size, with n outputs of which the payees are some
TransactionSizeEstimateV2(ins, payees, n) ==
  4 * (10 + Over(ins, InputBase) + Over(payees, OutputSize) + 31 * (n - Cardinality(payees)))
    + WitnessSize(ins)

\* the serialized transaction before it is signed: no script in any input
NoWitnessSize(ins, payees, hasChange) ==
  10 + 41 * Cardinality(ins) + Over(payees, OutputSize) + (IF hasChange THEN 31 ELSE 0)

-----------------------------------------------------------------------------
(* The choice of inputs *)

Smaller(u, v) == u.amount < v.amount \/ (u.amount = v.amount /\ u.id < v.id)

Least(S) == {u \in S : \A v \in S \ {u} : Smaller(u, v)}     \* the one smallest
Largest(S, n) == {u \in S : Cardinality({v \in S : Smaller(u, v)}) < n}

Enough(S, required) == {u \in S : u.amount >= required}

\* v and its neighbour below, in ascending order
UpTo(utxos, v) == {v} \cup Largest({u \in utxos : Smaller(u, v)}, 1)

\* the upper elements of the neighbours that cover the required amount together
Pairs(utxos, required) ==
  {v \in utxos \ Least(utxos) : Sum(UpTo(utxos, v)) >= required}

VinLimit(required) == IF required > LargeAmount THEN LargeVin ELSE MaxVin

\* (bug) the loop stops one input before the limit
GatherTooFew(utxos, required) ==
  {u \in utxos : LET larger == {v \in utxos : Smaller(u, v)}
                 IN Sum(larger) < required /\ Cardinality(larger) < VinLimit(required) - 1}

\* a utxo is taken while those larger do not cover the amount, up to the limit
Gather(utxos, required) ==
  {u \in utxos : LET larger == {v \in utxos : Smaller(u, v)}
                 IN Sum(larger) < required /\ Cardinality(larger) < VinLimit(required)}

Cover(utxos, required) ==
  IF Enough(utxos, required) # {} THEN Least(Enough(utxos, required))
  ELSE IF Pairs(utxos, required) # {} THEN UNION {UpTo(utxos, v) : v \in Least(Pairs(utxos, required))}
  ELSE Gather(utxos, required)

\* the smallest utxo left over goes along when it pays for itself and is small
Extra(utxos, cover, price) ==
  {u \in Least({v \in utxos \ cover : v.amount > price * (296 + 31)}) : u.amount < SmallUtxo}

\* one set of inputs; none when they do not cover the required amount
Inputs(utxos, required, price) ==
  {ins \in {cover \cup Extra(utxos, cover, price) : cover \in {Cover(utxos, required)}} :
     Sum(ins) >= required}

\* change worth an output is returned; less is added to the estimate
Selection(ins, payees, price) ==
  LET change == Sum(ins) - Sum(payees)
      n == Cardinality(payees)
      returned == change > GetDustAmount(price)
  IN [ins |-> ins,
      change |-> IF returned THEN change ELSE 0,
      est |-> IF returned THEN TransactionSizeEstimateV2(ins, payees, n + 1) * price
                          ELSE TransactionSizeEstimateV2(ins, payees, n) * price + 4 * change]

\* the selection, as a set of at most one; empty where the code returns an error
SelectOptimalUTXOs(utxos, payees, external, price) ==
  {Selection(ins, payees, price) : ins \in Inputs(utxos, Sum(payees) + external, price)}

-----------------------------------------------------------------------------
(* The transaction: params is [ins, withdrawals, tasks, change, price] *)

\* (bug) the share of a withdrawal is rounded down
CalculateFeesDown(params, est) ==
  IF params.withdrawals = {} THEN [share |-> 0, changeFee |-> CeilDiv(est, 4)]
  ELSE [share |-> est \div (4 * Cardinality(params.withdrawals)), changeFee |-> 0]

\* withdrawals share the fee; without any, the change output pays it
CalculateFees(params, est) ==
  IF params.withdrawals = {} THEN [share |-> 0, changeFee |-> CeilDiv(est, 4)]
  ELSE [share |-> CeilDiv(est, 4 * Cardinality(params.withdrawals)), changeFee |-> 0]

\* addTransactionOutputs: the error it ends with
OutputError(params, fees) ==
  LET left == params.change - fees.changeFee
  IN IF \E w \in params.withdrawals : w.amount - fees.share <= GetDustAmount(params.price)
     THEN "withdraw dust"
     ELSE IF left > 0 /\ left <= GetDustAmount(params.price) THEN "change dust"
     ELSE "none"

\* validateTransactionFees: est over size + witness / 4 exceeds a withdrawal's price
PriceTooHigh(params, est, hasChange) ==
  \E w \in params.withdrawals :
    est > w.price * (4 * NoWitnessSize(params.ins, params.withdrawals \cup params.tasks, hasChange)
                       + WitnessSize(params.ins))

Built(params, fees) ==
  LET kept == IF params.change > fees.changeFee THEN params.change - fees.changeFee ELSE 0
      paid == Sum(params.tasks) + Sum(params.withdrawals)
                - fees.share * Cardinality(params.withdrawals)
  IN [error |-> "none", change |-> kept, fee |-> Sum(params.ins) - paid - kept]

Failed(code) == [error |-> code, change |-> 0, fee |-> 0]

\* a price too high is answered by a higher fee: est grows until a withdrawal is dust
CreateRawTransaction(params, est0) ==
  LET create[est \in Nat] ==
        LET fees == CalculateFees(params, est)
            error == OutputError(params, fees)
        IN IF error # "none" THEN Failed(error)
           ELSE IF PriceTooHigh(params, est, params.change > fees.changeFee)
           THEN create[(est * 11) \div 10]
           ELSE Built(params, fees)
  IN create[est0]

-----------------------------------------------------------------------------
(* Consolidation: the largest eligible utxos into one output *)

AfterFee(ins, price) == Sum(ins) - CeilDiv(TransactionSizeEstimateV2(ins, {}, 1), 4) * price

Eligible(utxos, threshold) ==
  {u \in utxos : u.type \in {"P2WPKH", "P2WSH", "P2PKH"} /\ u.amount < threshold}

\* the fee is already deducted from what is left, so est is 0; empty on an error
ConsolidateUTXOsByCount(utxos, price, threshold, maxVin) ==
  {[ins |-> ins, change |-> AfterFee(ins, price), est |-> 0] :
     ins \in {S \in {Largest(Eligible(utxos, threshold), maxVin)} :
                Sum(S) >= GetDustAmount(price) /\ AfterFee(S, price) > 0}}
=============================================================================
