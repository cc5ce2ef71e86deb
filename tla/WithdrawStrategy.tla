---------------------------- MODULE WithdrawStrategy ----------------------------
(***************************************************************************)
(* The ticks of one proposer's withdrawLoop (wallet/withdraw.go,           *)
(* initWithdrawSig): which order is built next, for whom, from which       *)
(* utxos and at which fee, while network fees move, requests arrive and    *)
(* age, and earlier orders are confirmed or given up.  WithdrawFlow says   *)
(* what happens to an order between these ticks; here an order is signed   *)
(* (its round succeeds and layer 2 accepts it), fails, or is confirmed.    *)
(*                                                                         *)
(* The relayer stays proposer and in sync: the first guards of             *)
(* initWithdrawSig hold.  A request is numbered by its arrival, which      *)
(* orders CreatedAt.                                                       *)
(***************************************************************************)
EXTENDS UtxoSelection

CONSTANTS
  Withdrawals,     \* [id, amount, price, type], ids in order of arrival
  Tasks,           \* safebox tasks: [id, amount, type, deadline]
  Pools,           \* sets of utxos a run may begin with
  Fees,            \* network fees: [fastest, halfHour, hour]
  MaxNetworkFee,   \* BTCMaxNetworkFee
  MaxVout, ImmediateCount,    \* of a withdrawal batch
  External,                   \* SAFEBOX_EXTERNAL_AMOUNT
  ConsolidationTrigger, ConsolidationThreshold, ConsolidationMaxVin,
  MaxOrder,        \* bound: orders built
  MaxTurn          \* bound: changes of the first network fee, and orders given up

ASSUME StrategyAssumption ==
  /\ {MaxNetworkFee, MaxVout, ImmediateCount} \subseteq Nat \ {0}
  /\ MaxOrder \in Nat
  /\ \A f \in Fees : f.fastest >= f.halfHour /\ f.halfHour >= f.hour /\ f.hour > 0
  /\ \A v, w \in Withdrawals : v.id = w.id => v = w
  /\ \A j, k \in Tasks : j.id = k.id => j = k
  /\ \A P \in Pools : \A u, v \in P : u.id = v.id => u = v
  /\ \A P \in Pools : \A u \in P : u.id \notin 1 .. MaxOrder  \* these name changes

ASSUME AmountAssumption ==
  /\ External \in Nat \ {0}
  /\ \A f \in Fees : {f.fastest, f.halfHour, f.hour} \subseteq Nat
  /\ IsFiniteSet(Withdrawals)
  /\ \A w \in Withdrawals : {w.id, w.amount, w.price} \subseteq Nat
  /\ \A k \in Tasks : k.amount \in Nat
  /\ \A r \in Withdrawals \cup Tasks : r.type \in DOMAIN OutputSize
  /\ \A P \in Pools : IsFiniteSet(P)
  /\ \A P \in Pools : \A u \in P : {u.id, u.amount} \subseteq Nat /\ u.type \in DOMAIN InputBase

VARIABLES
  fee,       \* networkFee of the bitcoin head; "fastest" 0 until the first update
  utxos,     \* what GetUtxoCanSpend returns
  waiting,   \* withdrawals of status create
  open,      \* safebox tasks of status received_ok
  age,       \* [Withdrawals -> -1 .. 2]: -1 not requested yet, 1 after waitTime1,
             \*    2 after waitTime2
  orders,    \* sequence of the orders built
  turns      \* how many of MaxTurn have happened

vars == <<fee, utxos, waiting, open, age, orders, turns>>

NoFee == [fastest |-> 0, halfHour |-> 0, hour |-> 0]
Ids == DOMAIN orders
InPhase(p) == {o \in Ids : orders[o].phase = p}

Init ==
  /\ fee = NoFee
  /\ utxos \in Pools
  /\ waiting = {}
  /\ open = {}
  /\ age = [w \in Withdrawals |-> -1]
  /\ orders = <<>>
  /\ turns = 0

-----------------------------------------------------------------------------
(* The batch of withdrawals *)

\* the group's fee: the fastest level that the withdrawal's price accepts
LevelOf(w) == IF w.price >= fee.fastest THEN "fastest"
              ELSE IF w.price >= fee.halfHour THEN "halfHour"
              ELSE IF w.price >= fee.hour THEN "hour" ELSE "none"

Group(level) == {w \in waiting : LevelOf(w) = level /\ w.amount > GetDustAmount(fee[level])}

\* applyGroup: the oldest, at most MaxVout of them
OldestOf(group) ==
  {w \in group : Cardinality({v \in group : v.id < w.id}) < MaxVout}

\* (bug) a small batch waits for company however old it is
ProcessIfFull(batch) == Cardinality(batch) >= ImmediateCount

\* the oldest of a batch is the one that waited longest
ShouldProcess(batch) ==
  \/ Cardinality(batch) >= ImmediateCount
  \/ (\E w \in batch : age[w] >= 1) /\ Cardinality(batch) >= ImmediateCount \div 3
  \/ \E w \in batch : age[w] = 2

Ready(level) == Group(level) # {} /\ ShouldProcess(OldestOf(Group(level)))

\* SelectWithdrawals: the first level that is ready; empty is the code's error
Batches ==
  LET level == IF Ready("fastest") THEN "fastest"
               ELSE IF Ready("halfHour") THEN "halfHour"
               ELSE IF Ready("hour") THEN "hour" ELSE "none"
  IN IF level = "none" THEN {}
     ELSE {[withdrawals |-> OldestOf(Group(level)), price |-> fee[level]]}

\* SelectSafeboxTasks: the earliest deadline
SelectedTask ==
  {k \in open : \A j \in open : \/ k.deadline < j.deadline
                              \/ (k.deadline = j.deadline /\ k.id <= j.id)}

-----------------------------------------------------------------------------
(* The plan of a tick: the parameters of CreateRawTransaction, as a set of *)
(* at most one; empty where initWithdrawSig returns before it.             *)

Plan(kind, sel, withdrawals, tasks, price) ==
  [kind |-> kind, ins |-> sel.ins, withdrawals |-> withdrawals, tasks |-> tasks,
   change |-> sel.change, est |-> sel.est, price |-> price]

Live == InPhase("aggregating") \cup InPhase("pending")
ConsolidationDue == Cardinality(utxos) >= ConsolidationTrigger /\ Live = {}

ConsolidationPlan ==
  {Plan("consolidation", sel, {}, {}, fee.halfHour) :
     sel \in ConsolidateUTXOsByCount(utxos, fee.halfHour, ConsolidationThreshold,
                                     ConsolidationMaxVin)}

SafeboxPlan ==
  UNION {{Plan("safebox", sel, {}, {k}, fee.halfHour) :
            sel \in SelectOptimalUTXOs(utxos, {k}, External, fee.halfHour)} :
         k \in SelectedTask}

WithdrawalPlan ==
  UNION {{Plan("withdrawal", sel, batch.withdrawals, {}, batch.price) :
            sel \in SelectOptimalUTXOs(utxos, batch.withdrawals, 0, batch.price)} :
         batch \in Batches}

\* a consolidation that is due, or an open task, goes first even when its plan fails
ThePlan ==
  IF utxos = {} THEN {}
  ELSE IF ConsolidationDue THEN ConsolidationPlan
  ELSE IF open # {} THEN SafeboxPlan
  ELSE WithdrawalPlan

-----------------------------------------------------------------------------
(* A tick *)

\* no signature in progress; the fee is known and bearable
CanBuild ==
  /\ fee.fastest # 0 /\ fee.fastest <= MaxNetworkFee
  /\ InPhase("aggregating") = {}
  /\ Len(orders) < MaxOrder

\* (bug) the withdrawals stay selectable
CreateSendOrderOnly(plan, tx) ==
  /\ orders' = Append(orders, [kind |-> plan.kind, ins |-> plan.ins,
                               withdrawals |-> plan.withdrawals, tasks |-> plan.tasks,
                               change |-> tx.change, fee |-> tx.fee,
                               price |-> plan.price, phase |-> "aggregating"])
  /\ utxos' = utxos \ plan.ins
  /\ UNCHANGED <<waiting, open>>

CreateSendOrder(plan, tx) ==
  /\ orders' = Append(orders, [kind |-> plan.kind, ins |-> plan.ins,
                               withdrawals |-> plan.withdrawals, tasks |-> plan.tasks,
                               change |-> tx.change, fee |-> tx.fee,
                               price |-> plan.price, phase |-> "aggregating"])
  /\ utxos' = utxos \ plan.ins
  /\ waiting' = waiting \ plan.withdrawals
  /\ open' = open \ plan.tasks

BuildOrder ==
  /\ CanBuild
  /\ \E plan \in ThePlan : \E tx \in {CreateRawTransaction(plan, plan.est)} :
       tx.error = "none" /\ CreateSendOrder(plan, tx)
  /\ UNCHANGED <<fee, age, turns>>

\* the loop of initWithdrawSig after ErrWithdrawDustAmount
ClosedAsDust(plan) == {w \in plan.withdrawals : w.amount <= GetDustAmount(plan.price)}

CloseDust ==
  /\ CanBuild
  /\ \E plan \in ThePlan :
       /\ CreateRawTransaction(plan, plan.est).error = "withdraw dust"
       /\ waiting' = waiting \ ClosedAsDust(plan)
  /\ UNCHANGED <<fee, utxos, open, age, orders, turns>>

-----------------------------------------------------------------------------
(* What happens around the ticks *)

\* updateNetworkFee: what the fee API or the node says, or a default
UpdateNetworkFee ==
  /\ fee' \in Fees \ {fee}
  /\ IF fee = NoFee THEN UNCHANGED turns ELSE turns < MaxTurn /\ turns' = turns + 1
  /\ UNCHANGED <<utxos, waiting, open, age, orders>>

Request(w) ==
  /\ age[w] = -1
  /\ \A v \in Withdrawals : v.id < w.id => age[v] >= 0
  /\ waiting' = waiting \cup {w}
  /\ age' = [age EXCEPT ![w] = 0]
  /\ UNCHANGED <<fee, utxos, open, orders, turns>>

Receive(k) ==
  /\ k \notin open /\ \A o \in Ids : k \notin orders[o].tasks
  /\ open' = open \cup {k}
  /\ UNCHANGED <<fee, utxos, waiting, age, orders, turns>>

\* w reaches its next waiting time; nobody who came before it is younger
PassTime(w) ==
  /\ w \in waiting /\ age[w] < 2
  /\ age' = [v \in Withdrawals |-> IF v.id <= w.id /\ age[v] <= age[w]
                                   THEN age[w] + 1 ELSE age[v]]
  /\ UNCHANGED <<fee, utxos, waiting, open, orders, turns>>

\* the round ends and layer 2 accepts the order
Sign(o) ==
  /\ orders[o].phase = "aggregating"
  /\ orders' = [orders EXCEPT ![o].phase = "pending"]
  /\ UNCHANGED <<fee, utxos, waiting, open, age, turns>>

\* the round fails: cleanWithdrawProcess rolls the order back
GiveUp(o) ==
  /\ orders[o].phase = "aggregating" /\ turns < MaxTurn
  /\ orders' = [orders EXCEPT ![o].phase = "closed"]
  /\ utxos' = utxos \cup orders[o].ins
  /\ waiting' = waiting \cup orders[o].withdrawals
  /\ open' = open \cup orders[o].tasks
  /\ turns' = turns + 1
  /\ UNCHANGED <<fee, age>>

\* the transaction is in a block: the change is a P2WPKH utxo of the relayers
Confirm(o) ==
  /\ orders[o].phase = "pending"
  /\ orders' = [orders EXCEPT ![o].phase = "confirmed"]
  /\ utxos' = IF orders[o].change > 0
              THEN utxos \cup {[id |-> o, amount |-> orders[o].change, type |-> "P2WPKH"]}
              ELSE utxos
  /\ UNCHANGED <<fee, waiting, open, age, turns>>

Next ==
  \/ BuildOrder \/ CloseDust \/ UpdateNetworkFee
  \/ \E w \in Withdrawals : Request(w) \/ PassTime(w)
  \/ \E k \in Tasks : Receive(k)
  \/ \E o \in Ids : Sign(o) \/ GiveUp(o) \/ Confirm(o)

Spec == Init /\ [][Next]_vars

-----------------------------------------------------------------------------
(* Properties *)

Standing == Ids \ InPhase("closed")

(* Whatever is built, given up and rebuilt, and whichever change comes     *)
(* back: two orders that stand spend no utxo twice, pay no withdrawal and  *)
(* open no task twice, and what an order took is not offered to the next.  *)
OrdersDisjoint ==
  /\ \A o, p \in Standing : o # p =>
       /\ orders[o].ins \cap orders[p].ins = {}
       /\ orders[o].withdrawals \cap orders[p].withdrawals = {}
       /\ orders[o].tasks \cap orders[p].tasks = {}
  /\ \A o \in Standing :
       /\ orders[o].ins \cap utxos = {}
       /\ orders[o].withdrawals \cap waiting = {}
       /\ orders[o].tasks \cap open = {}

Payees(o) == orders[o].withdrawals \cup orders[o].tasks
Weight(o) ==
  TransactionSizeEstimateV2(orders[o].ins, Payees(o),
    Cardinality(Payees(o)) + IF orders[o].change > 0 THEN 1 ELSE 0)

\* neither the rounding of the shares nor the dropped change leaves the fee
\* short; a safebox order whose external amount is below the estimate is the
\* exception: it has no change output left
FeeCovered ==
  \A o \in Ids : (orders[o].kind = "safebox" => orders[o].change > 0)
                 => 4 * orders[o].fee >= Weight(o) * orders[o].price

\* above the estimate at most twice a change too small for an output, once
\* dropped and once shared out as estimate, and one satoshi of rounding each
FeeBounded ==
  \A o \in Ids : 4 * orders[o].fee <=
    Weight(o) * orders[o].price
      + 4 * (2 * GetDustAmount(orders[o].price) + Cardinality(Payees(o)))

(* The miners get the price the order was built for, and not much more     *)
(* (SelectOptimalUTXOs, calculateFees, addTransactionOutputs).             *)
FeeExact == FeeCovered /\ FeeBounded

Required(plan) == Sum(plan.withdrawals \cup plan.tasks)
                    + IF plan.kind = "safebox" THEN External ELSE 0

\* at most one input more than any set of spendable utxos that covers the order
FewestInputs ==
  CanBuild => \A plan \in ThePlan : plan.kind # "consolidation" =>
    \A S \in SUBSET utxos :
      Sum(S) >= Required(plan) => Cardinality(plan.ins) <= Cardinality(S) + 1

Covered(required) ==
  \E S \in SUBSET utxos : Cardinality(S) <= VinLimit(required) /\ Sum(S) >= required

\* a cover within the limit of inputs is found whenever there is one
SelectionComplete ==
  CanBuild /\ utxos # {} =>
    /\ WithdrawalPlan = {} => \A batch \in Batches : ~ Covered(Sum(batch.withdrawals))
    /\ SafeboxPlan = {} => \A k \in SelectedTask : ~ Covered(k.amount + External)

(* SelectOptimalUTXOs tries single utxos, neighbouring pairs and then      *)
(* accumulates: together they miss no cover and no smaller one, and only   *)
(* the small extra input comes on top.  "not enough utxos" is never an     *)
(* artefact of the order of the search.                                    *)
SelectionBest == FewestInputs /\ SelectionComplete

-----------------------------------------------------------------------------
(* The loop ticks every ten seconds, time passes, orders are signed and    *)
(* mined; requests, tasks, fee changes and failures need not come.         *)

FairSpec ==
  /\ Spec
  /\ WF_vars(BuildOrder)
  /\ \A w \in Withdrawals : WF_vars(PassTime(w))
  /\ WF_vars(\E o \in Ids : Sign(o))
  /\ WF_vars(\E o \in Ids : Confirm(o))

\* what keeps a withdrawal that waited long enough from being served: the fee, its
\* own price or amount, or an order that is due and fails
Hindered(w) ==
  /\ w \in waiting /\ age[w] = 2 /\ Live = {}
  /\ \/ fee.fastest = 0 \/ fee.fastest > MaxNetworkFee
     \/ LevelOf(w) = "none" \/ w.amount <= GetDustAmount(fee[LevelOf(w)])
     \/ /\ ConsolidationDue \/ open # {} \/ Batches # {}
        /\ \A plan \in ThePlan : CreateRawTransaction(plan, plan.est).error # "none"

Served(w) == \E o \in InPhase("confirmed") : w \in orders[o].withdrawals

(* A withdrawal is paid in the end although consolidations, tasks, faster  *)
(* groups and older requests go first and rounds fail: unless it is        *)
(* hindered at some time, no batch waits for more company for ever.        *)
PaidEventually ==
  \A w \in Withdrawals : [](~ Hindered(w)) => [](w \in waiting => <>Served(w))
=============================================================================
