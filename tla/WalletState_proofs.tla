------------------------- MODULE WalletState_proofs -------------------------
(***************************************************************************)
(* Theorems about WalletState, for every set of transactions, utxos,       *)
(* withdrawals and tasks and every table size.                             *)
(***************************************************************************)
EXTENDS WalletState, WellFoundedInduction, TLAPS

(* The send order table has exactly the rows 1 .. lastOrder, and a row holds *)
(* a transaction.  This is what makes a fresh id fresh.                      *)
RowsInserted ==
  \A o \in OrderId :
    /\ order[o].status = "none" <=> lastOrder < o
    /\ order[o].txid = NoTx <=> lastOrder < o

USE NoTxAssumption, TxAssumption, MaxOrderAssumption

-----------------------------------------------------------------------------
(* Updates keep the shape of the tables they update. *)

LEMMA MarkOrders ==
  ASSUME TypeOK, NEW S, NEW s \in OrderStatus
  PROVE  Mark(order, S, s) \in
           [OrderId -> [txid : Tx \cup {NoTx}, status : OrderStatus \cup {"none"}]]
BY DEF TypeOK, Mark

LEMMA MarkWithdraws ==
  ASSUME TypeOK, NEW S, NEW s \in WithdrawStatus
  PROVE  Mark(withdraw, S, s) \in
           [Withdraw -> [status : WithdrawStatus \cup {"none"},
                         order : 0 .. MaxOrder, txid : Tx \cup {NoTx}]]
BY DEF TypeOK, Mark

LEMMA MarkTasks ==
  ASSUME TypeOK, NEW S, NEW s \in TaskStatus
  PROVE  Mark(task, S, s) \in
           [Task -> [status : TaskStatus \cup {"none"}, order : 0 .. MaxOrder,
                     txid : Tx \cup {NoTx}]]
BY DEF TypeOK, Mark

LEMMA AssignWithdraws ==
  ASSUME TypeOK, NEW S, NEW o \in 0 .. MaxOrder, NEW t \in Tx, NEW s \in WithdrawStatus
  PROVE  Assign(withdraw, S, o, t, s) \in
           [Withdraw -> [status : WithdrawStatus \cup {"none"},
                         order : 0 .. MaxOrder, txid : Tx \cup {NoTx}]]
BY DEF TypeOK, Assign

LEMMA AssignTasks ==
  ASSUME TypeOK, NEW S, NEW o \in 0 .. MaxOrder, NEW t \in Tx, NEW s \in TaskStatus
  PROVE  Assign(task, S, o, t, s) \in
           [Task -> [status : TaskStatus \cup {"none"}, order : 0 .. MaxOrder,
                     txid : Tx \cup {NoTx}]]
BY DEF TypeOK, Assign

\* what a safebox writer does to the other tables
LEMMA SafeboxCases ==
  ASSUME NEW k \in Task, SafeboxStep(k)
  PROVE  \/ UNCHANGED <<orderVars, utxo, depositResult, withdraw>>
         \/ \E t \in Tx : UpdateWithdrawFinalized(t)
         \/ \E t \in Tx : UpdateSafeboxTaskInitOK(k, t)
BY DEF SafeboxStep, SetTasks, CreateSafeboxTask, UpdateSafeboxTaskReceived,
       UpdateSafeboxTaskReceivedOK, UpdateSafeboxTaskProcessed,
       UpdateSafeboxTaskCompleted, UpdateSafeboxTaskCancelled

LEMMA SetTasksType ==
  ASSUME TypeOK, NEW S, NEW s \in TaskStatus, SetTasks(S, s)
  PROVE  TypeOK'
BY MarkTasks DEF TypeOK, SetTasks, orderVars

LEMMA MarkVinsType ==
  ASSUME TypeOK, NEW S, NEW f \in [OrderId -> OrderStatus]
  PROVE  /\ MarkVins(S, f) \in [OrderId -> [Utxo -> OrderStatus \cup {"none"}]]
         /\ MarkVouts(S, f) \in [OrderId -> OrderStatus \cup {"none"}]
<1>1. \A o \in OrderId : f[o] \in OrderStatus OBVIOUS
<1>2. MarkVouts(S, f) \in [OrderId -> OrderStatus \cup {"none"}]
  BY <1>1 DEF TypeOK, MarkVouts
<1>3. \A o \in OrderId, u \in Utxo : vin[o][u] \in OrderStatus \cup {"none"}
  BY DEF TypeOK
<1> QED BY <1>1, <1>2, <1>3 DEF MarkVins

LEMMA AllType ==
  ASSUME NEW s \in OrderStatus
  PROVE  All(s) \in [OrderId -> OrderStatus]
BY DEF All

LEMMA MarkVinsSpendingType ==
  ASSUME NEW vins \in [OrderId -> [Utxo -> OrderStatus \cup {"none"}]],
         NEW t, NEW s \in OrderStatus
  PROVE  MarkVinsSpending(vins, t, s) \in [OrderId -> [Utxo -> OrderStatus \cup {"none"}]]
BY DEF MarkVinsSpending

LEMMA InsertOrderType ==
  ASSUME TypeOK, NEW t \in Tx, NEW s \in OrderStatus, InsertOrder(t, s)
  PROVE  /\ lastOrder + 1 \in OrderId
         /\ lastOrder + 1 \in 0 .. MaxOrder
         /\ lastOrder' \in 0 .. MaxOrder
         /\ order' \in [OrderId -> [txid : Tx \cup {NoTx}, status : OrderStatus \cup {"none"}]]
         /\ vin' \in [OrderId -> [Utxo -> OrderStatus \cup {"none"}]]
         /\ vout' \in [OrderId -> OrderStatus \cup {"none"}]
<1>1. lastOrder + 1 \in OrderId \cap (0 .. MaxOrder) /\ lastOrder' \in 0 .. MaxOrder
  BY DEF TypeOK, InsertOrder, OrderId
<1>2. vout' \in [OrderId -> OrderStatus \cup {"none"}]
  BY DEF TypeOK, InsertOrder
<1>3. vin' \in [OrderId -> [Utxo -> OrderStatus \cup {"none"}]]
  BY DEF TypeOK, InsertOrder
<1>4. order' \in [OrderId -> [txid : Tx \cup {NoTx}, status : OrderStatus \cup {"none"}]]
  BY DEF TypeOK, InsertOrder
<1> QED BY <1>1, <1>2, <1>3, <1>4

-----------------------------------------------------------------------------
(* The type invariant, action by action. *)

LEMMA TypeStep == TypeOK /\ [Next]_vars => TypeOK'
<1> SUFFICES ASSUME TypeOK, [Next]_vars PROVE TypeOK'
  OBVIOUS
<1> USE AllType, MarkVinsType
<1>1. ASSUME NEW w \in Withdraw, CreateWithdrawal(w) PROVE TypeOK'
  BY <1>1, MarkWithdraws DEF TypeOK, CreateWithdrawal, orderVars, WithdrawStatus
<1>2. ASSUME NEW w \in Withdraw, UpdateWithdrawCanceling(w) PROVE TypeOK'
  BY <1>2, MarkWithdraws DEF TypeOK, UpdateWithdrawCanceling, orderVars, WithdrawStatus
<1>3. ASSUME NEW w \in Withdraw, UpdateWithdrawCanceled(w) PROVE TypeOK'
  BY <1>3, MarkWithdraws DEF TypeOK, UpdateWithdrawCanceled, orderVars, WithdrawStatus, OrderStatus
<1>4. ASSUME NEW t \in Tx, NEW isProposer \in BOOLEAN, CreateSendOrder(t, isProposer)
      PROVE  TypeOK'
  <2> "aggregating" \in OrderStatus BY DEF OrderStatus
  <2>1. InsertOrder(t, "aggregating") BY <1>4 DEF CreateSendOrder
  <2>2. /\ withdraw' = Assign(withdraw, Pays[t], lastOrder + 1, t, "aggregating")
        /\ task' = Assign(task, Secures[t], lastOrder + 1, t, "init")
        /\ utxo' = MarkUtxos(Ins[t], "pending")
        /\ depositResult' = depositResult
    BY <1>4 DEF CreateSendOrder
  <2>3. utxo' \in [Utxo -> UtxoStatus \cup {"none"}]
    BY <2>2 DEF TypeOK, MarkUtxos, UtxoStatus
  <2> QED
    BY <2>1, <2>2, <2>3, InsertOrderType, AssignWithdraws, AssignTasks
    DEF TypeOK, OrderStatus, WithdrawStatus, TaskStatus
<1>5. ASSUME NEW t \in Tx, RecoverSendOrder(t) PROVE TypeOK'
  <2>1. CASE UNCHANGED vars BY <2>1 DEF TypeOK, vars
  <2>2. CASE ~ UNCHANGED vars
    <3> "init" \in OrderStatus BY DEF OrderStatus
    <3>1. /\ InsertOrder(t, "init")
          /\ withdraw' = Assign(withdraw, Pays[t] \cap WithdrawsIn({"create", "aggregating"}),
                                lastOrder + 1, t, "init")
          /\ utxo' = MarkUtxos({u \in Ins[t] : utxo[u] \in Spendable}, "pending")
          /\ UNCHANGED <<depositResult, task>>
      BY <1>5, <2>2 DEF RecoverSendOrder
    <3>2. utxo' \in [Utxo -> UtxoStatus \cup {"none"}]
      BY <3>1 DEF TypeOK, MarkUtxos, UtxoStatus
    <3> QED
      BY <3>1, <3>2, InsertOrderType, AssignWithdraws
      DEF TypeOK, OrderStatus, WithdrawStatus
  <2> QED BY <2>1, <2>2
<1>6. ASSUME NEW t \in Tx, UpdateSendOrderInitlized(t) PROVE TypeOK'
  BY <1>6, MarkOrders DEF TypeOK, UpdateSendOrderInitlized, OrderStatus
<1>7. ASSUME NEW t \in Tx, NEW us \in SUBSET Ins[t], NEW ws \in SUBSET Pays[t],
             UpdateSendOrderPending(t, us, ws)
      PROVE  TypeOK'
  <2> "pending" \in OrderStatus /\ "pending" \in WithdrawStatus /\ "pending" \in TaskStatus
    BY DEF OrderStatus, WithdrawStatus, TaskStatus
  <2>1. CASE OrdersOf(t) # {}
    BY <1>7, <2>1, MarkOrders, MarkWithdraws, MarkTasks DEF TypeOK, UpdateSendOrderPending
  <2>2. CASE OrdersOf(t) = {}
    <3>1. /\ InsertOrder(t, "pending")
          /\ utxo' = MarkUtxos(us, "pending")
          /\ withdraw' = Assign(withdraw, ws, lastOrder + 1, t, "pending")
          /\ UNCHANGED <<depositResult, task>>
      BY <1>7, <2>2 DEF UpdateSendOrderPending
    <3>2. utxo' \in [Utxo -> UtxoStatus \cup {"none"}]
      BY <3>1 DEF TypeOK, MarkUtxos, UtxoStatus
    <3> QED
      BY <3>1, <3>2, InsertOrderType, AssignWithdraws DEF TypeOK
  <2> QED BY <2>1, <2>2
<1>8. ASSUME NEW t \in Tx, UpdateSendOrderConfirmed(t) PROVE TypeOK'
  <2> /\ "confirmed" \in OrderStatus \cap WithdrawStatus \cap TaskStatus
      /\ "processed" \in OrderStatus \cap WithdrawStatus \cap TaskStatus
    BY DEF OrderStatus, WithdrawStatus, TaskStatus
  <2>1. CASE UNCHANGED vars BY <2>1 DEF TypeOK, vars
  <2>2. ASSUME NEW o \in OrdersOf(t),
               /\ order' = Mark(order, {o}, "confirmed")
               /\ vin' = MarkVins({o}, All("confirmed"))
               /\ vout' = MarkVouts({o}, All("confirmed"))
               /\ withdraw' = Mark(withdraw, WithdrawsOf({o}), "confirmed")
               /\ task' = Mark(task, TasksOf({o}), "confirmed")
               /\ utxo' = MarkUtxos(Ins[t], "spent")
               /\ UNCHANGED <<lastOrder, depositResult>>
        PROVE  TypeOK'
    <3>1. utxo' \in [Utxo -> UtxoStatus \cup {"none"}]
      BY <2>2 DEF TypeOK, MarkUtxos, UtxoStatus
    <3> QED BY <2>2, <3>1, MarkOrders, MarkWithdraws, MarkTasks DEF TypeOK
  <2>3. ASSUME NEW W, NEW K, NEW s \in {"confirmed", "processed"},
               /\ withdraw' = Mark(withdraw, W, s)
               /\ task' = Mark(task, K, s)
               /\ vin' = MarkVinsSpending(vin, t, s)
               /\ UNCHANGED <<lastOrder, order, vout, utxo, depositResult>>
        PROVE  TypeOK'
    <3>1. vin' \in [OrderId -> [Utxo -> OrderStatus \cup {"none"}]]
      BY <2>3, MarkVinsSpendingType DEF TypeOK
    <3> QED BY <2>3, <3>1, MarkWithdraws, MarkTasks DEF TypeOK
  <2> QED BY <1>8, <2>1, <2>2, <2>3 DEF UpdateSendOrderConfirmed
<1>9. ASSUME NEW t \in Tx, UpdateWithdrawInitialized(t) PROVE TypeOK'
  <2> DEFINE S == {o \in OrdersOf(t) : order[o].status \in {"aggregating", "closed"}}
             reopened == {o \in S : IsLatest(o, t)}
             st == [o \in OrderId |-> IF o \in reopened THEN "init" ELSE "closed"]
  <2>1. st \in [OrderId -> OrderStatus] BY DEF OrderStatus
  <2>2. /\ order' = [o \in OrderId |->
              IF o \in S THEN [order[o] EXCEPT !.status = st[o]] ELSE order[o]]
        /\ vin' = MarkVins(S, st)
        /\ vout' = MarkVouts(S, st)
        /\ withdraw' = Mark(withdraw,
             WithdrawsOf(S) \cap WithdrawsIn({"create", "aggregating", "closed"}), "init")
        /\ utxo' = IF reopened = {} THEN utxo
                   ELSE MarkUtxos({u \in Ins[t] : utxo[u] \in Spendable}, "pending")
        /\ UNCHANGED <<lastOrder, depositResult, task>>
    BY <1>9 DEF UpdateWithdrawInitialized
  <2> HIDE DEF S, reopened, st
  <2>3. order' \in [OrderId -> [txid : Tx \cup {NoTx}, status : OrderStatus \cup {"none"}]]
    <3>1. ASSUME NEW o \in OrderId
          PROVE  order'[o] \in [txid : Tx \cup {NoTx}, status : OrderStatus \cup {"none"}]
      <4>1. st[o] \in OrderStatus BY <2>1
      <4>2. order'[o] = IF o \in S THEN [order[o] EXCEPT !.status = st[o]] ELSE order[o]
        BY <2>2
      <4> HIDE <2>2
      <4> QED BY <4>1, <4>2 DEF TypeOK
    <3> QED BY <2>2, <3>1
  <2>4. utxo' \in [Utxo -> UtxoStatus \cup {"none"}]
    BY <2>2 DEF TypeOK, MarkUtxos, UtxoStatus
  <2> QED
    BY <2>1, <2>2, <2>3, <2>4, MarkWithdraws DEF TypeOK, WithdrawStatus, OrderStatus
<1>10. ASSUME NEW t \in Tx, UpdateWithdrawFinalized(t) PROVE TypeOK'
  <2> "processed" \in OrderStatus \cap WithdrawStatus \cap TaskStatus
    BY DEF OrderStatus, WithdrawStatus, TaskStatus
  <2>1. CASE UNCHANGED vars BY <2>1 DEF TypeOK, vars
  <2>2. CASE ~ UNCHANGED vars
    <3> DEFINE S == {o \in OrdersOf(t) : order[o].status \in {"init", "pending", "confirmed"}}
               W == WithdrawsOf(OrdersOf(t)) \cup {w \in Withdraw : withdraw[w].txid = t}
    <3>1. /\ order' = Mark(order, S, "processed")
          /\ vin' = MarkVinsSpending(MarkVins(S, All("processed")), t, "processed")
          /\ vout' = MarkVouts(OrdersOf(t), All("processed"))
          /\ withdraw' = Mark(withdraw, W, "processed")
          /\ task' = Mark(task, {k \in Task : task[k].txid = t}, "processed")
          /\ utxo' = IF S = {} THEN utxo ELSE MarkUtxos(Ins[t], "spent")
          /\ UNCHANGED <<lastOrder, depositResult>>
      BY <1>10, <2>2 DEF UpdateWithdrawFinalized
    <3> HIDE DEF S, W
    <3>2. vin' \in [OrderId -> [Utxo -> OrderStatus \cup {"none"}]]
      BY <3>1, MarkVinsSpendingType
    <3>3. utxo' \in [Utxo -> UtxoStatus \cup {"none"}]
      BY <3>1 DEF TypeOK, MarkUtxos, UtxoStatus
    <3> QED BY <3>1, <3>2, <3>3, MarkOrders, MarkWithdraws, MarkTasks DEF TypeOK
  <2> QED BY <2>1, <2>2
<1>11. ASSUME NEW o \in OrderId, CloseAggregating(o) PROVE TypeOK'
  <2>1. utxo' \in [Utxo -> UtxoStatus \cup {"none"}]
    BY <1>11 DEF CloseAggregating, TypeOK, MarkUtxos, UtxoStatus
  <2> QED
    BY <1>11, <2>1, MarkOrders, MarkWithdraws, MarkTasks
    DEF TypeOK, CloseAggregating, OrderStatus, WithdrawStatus, TaskStatus
<1>12. ASSUME CleanProcessingWithdraw PROVE TypeOK'
  <2>1. CASE Aggregating # {}
    BY <1>11, <1>12, <2>1 DEF CleanProcessingWithdraw, Aggregating
  <2>2. CASE Aggregating = {}
    <3>1. /\ withdraw' = Mark(withdraw, WithdrawsIn({"aggregating"}), "create")
          /\ vin' = [o \in OrderId |-> [u \in Utxo |->
                      IF vin[o][u] = "aggregating" THEN "closed" ELSE vin[o][u]]]
          /\ vout' = [o \in OrderId |-> IF vout[o] = "aggregating" THEN "closed" ELSE vout[o]]
          /\ UNCHANGED <<lastOrder, order, utxo, depositResult, task>>
      BY <1>12, <2>2 DEF CleanProcessingWithdraw
    <3>2. vin' \in [OrderId -> [Utxo -> OrderStatus \cup {"none"}]]
      <4>1. \A o \in OrderId, u \in Utxo : vin[o][u] \in OrderStatus \cup {"none"}
        BY DEF TypeOK
      <4> QED BY <3>1, <4>1 DEF OrderStatus
    <3>3. vout' \in [OrderId -> OrderStatus \cup {"none"}]
      BY <3>1 DEF TypeOK, OrderStatus
    <3> QED BY <3>1, <3>2, <3>3, MarkWithdraws DEF TypeOK, WithdrawStatus
  <2> QED BY <2>1, <2>2
<1>13. ASSUME NEW u \in Utxo, NEW found \in Spendable, AddUtxo(u, found) PROVE TypeOK'
  BY <1>13 DEF TypeOK, AddUtxo, orderVars, MarkUtxos, Spendable, UtxoStatus
<1>14. ASSUME NEW u \in Utxo, AddDepositResult(u) PROVE TypeOK'
  BY <1>14 DEF TypeOK, AddDepositResult, orderVars, MarkUtxos, UtxoStatus
<1>15. ASSUME NEW u \in Utxo, UpdateUtxoStatusProcessed(u) PROVE TypeOK'
  BY <1>15 DEF TypeOK, UpdateUtxoStatusProcessed, orderVars, MarkUtxos, UtxoStatus
<1>16. ASSUME NEW t \in Tx, UpdateUtxoStatusSpentByVins(Ins[t]) PROVE TypeOK'
  BY <1>16 DEF TypeOK, UpdateUtxoStatusSpentByVins, orderVars, MarkUtxos, UtxoStatus
<1>17. ASSUME NEW k \in Task, NEW t \in Tx, UpdateSafeboxTaskInitOK(k, t) PROVE TypeOK'
  <2>1. task[k].order \in 0 .. MaxOrder BY DEF TypeOK
  <2>2. task' \in [Task -> [status : TaskStatus \cup {"none"}, order : 0 .. MaxOrder,
                           txid : Tx \cup {NoTx}]]
    BY <1>17, <2>1, AssignTasks DEF UpdateSafeboxTaskInitOK, TaskStatus
  <2> QED
    BY <1>17, <2>2, MarkOrders DEF TypeOK, UpdateSafeboxTaskInitOK, OrderStatus
<1>18. ASSUME NEW k \in Task, SafeboxStep(k) PROVE TypeOK'
  <2> {"create", "received", "received_ok", "processed", "completed", "closed"}
        \subseteq TaskStatus
    BY DEF TaskStatus
  <2>1. CASE \E t \in Tx : UpdateWithdrawFinalized(t) BY <1>10, <2>1
  <2>2. CASE \E t \in Tx : UpdateSafeboxTaskInitOK(k, t) BY <1>17, <2>2
  <2>3. CASE \E S, s : s \in TaskStatus /\ SetTasks(S, s) BY <2>3, SetTasksType
  <2> QED
    BY <1>18, <2>1, <2>2, <2>3
    DEF SafeboxStep, CreateSafeboxTask, UpdateSafeboxTaskReceived,
        UpdateSafeboxTaskReceivedOK, UpdateSafeboxTaskProcessed,
        UpdateSafeboxTaskCompleted, UpdateSafeboxTaskCancelled
<1>19. ASSUME NEW t \in Tx, RevertSafeboxTask(t) PROVE TypeOK'
  BY <1>19, SetTasksType DEF RevertSafeboxTask, TaskStatus
<1>20. CASE UNCHANGED vars
  BY <1>20 DEF TypeOK, vars
<1> QED
  BY <1>1, <1>2, <1>3, <1>4, <1>5, <1>6, <1>7, <1>8, <1>9, <1>10, <1>11, <1>12,
     <1>13, <1>14, <1>15, <1>16, <1>18, <1>19, <1>20
  DEF Next, CleanProcessingWithdrawByOrderId

-----------------------------------------------------------------------------
(* The send order table: a step inserts one row, or changes the status of  *)
(* rows that exist and keeps a settled order settled.                      *)

Restatus ==
  /\ lastOrder' = lastOrder
  /\ \A o \in OrderId :
       /\ order'[o].txid = order[o].txid
       /\ order'[o].status = "none" <=> order[o].status = "none"
       /\ order[o].status \in Settled => order'[o].status \in {order[o].status, "processed"}

Insertion == \E t \in Tx, s \in Live : InsertOrder(t, s)

LEMMA MarkRestatus ==
  ASSUME TypeOK, NEW S \in SUBSET OrderId, NEW s \in OrderStatus,
         \A o \in S : order[o].status # "none",
         \A o \in S : order[o].status \in Settled => s = "processed",
         order' = Mark(order, S, s), lastOrder' = lastOrder
  PROVE  Restatus
<1> SUFFICES ASSUME NEW o \in OrderId
             PROVE  /\ order'[o].txid = order[o].txid
                    /\ order'[o].status = "none" <=> order[o].status = "none"
                    /\ order[o].status \in Settled =>
                         order'[o].status \in {order[o].status, "processed"}
  BY DEF Restatus
<1>1. order'[o] = IF o \in S THEN [order[o] EXCEPT !.status = s] ELSE order[o]
  BY DEF Mark, TypeOK
<1>2. order[o] \in [txid : Tx \cup {NoTx}, status : OrderStatus \cup {"none"}]
  BY DEF TypeOK
<1>3. s # "none" BY DEF OrderStatus
<1> QED BY <1>1, <1>2, <1>3

LEMMA RowsExist ==
  ASSUME RowsInserted, NEW t \in Tx, NEW o \in OrdersOf(t)
  PROVE  o \in OrderId /\ order[o].txid = t /\ order[o].status # "none"
BY DEF RowsInserted, OrdersOf

LEMMA OrderTableStep ==
  TypeOK /\ RowsInserted /\ [Next]_vars => Restatus \/ Insertion
<1> SUFFICES ASSUME TypeOK, RowsInserted, [Next]_vars PROVE Restatus \/ Insertion
  OBVIOUS
<1>1. ASSUME lastOrder' = lastOrder, order' = order PROVE Restatus
  BY <1>1 DEF Restatus
<1>2. ASSUME NEW t \in Tx, NEW isProposer \in BOOLEAN, CreateSendOrder(t, isProposer)
      PROVE  Insertion
  BY <1>2 DEF CreateSendOrder, Insertion, Live
<1>3. ASSUME NEW t \in Tx, RecoverSendOrder(t) PROVE Restatus \/ Insertion
  BY <1>1, <1>3 DEF RecoverSendOrder, Insertion, Live, vars
<1>4. ASSUME NEW t \in Tx, UpdateSendOrderInitlized(t) PROVE Restatus
  <2> DEFINE S == {o \in OrdersOf(t) : IsLatest(o, t) /\ order[o].status \in Live}
  <2>1. /\ order' = Mark(order, S, "init")
        /\ lastOrder' = lastOrder
    BY <1>4 DEF UpdateSendOrderInitlized
  <2>2. /\ S \in SUBSET OrderId
        /\ \A o \in S : order[o].status # "none" /\ order[o].status \notin Settled
    BY DEF OrdersOf, Live, Settled
  <2> QED BY <2>1, <2>2, MarkRestatus DEF OrderStatus
<1>5. ASSUME NEW t \in Tx, NEW us \in SUBSET Ins[t], NEW ws \in SUBSET Pays[t],
             UpdateSendOrderPending(t, us, ws)
      PROVE  Restatus \/ Insertion
  <2> DEFINE S == {o \in OrdersOf(t) : IsLatest(o, t) /\ order[o].status \in Live}
  <2>1. \/ /\ order' = Mark(order, S, "pending")
           /\ lastOrder' = lastOrder
        \/ InsertOrder(t, "pending")
    BY <1>5 DEF UpdateSendOrderPending
  <2>2. /\ S \in SUBSET OrderId
        /\ \A o \in S : order[o].status # "none" /\ order[o].status \notin Settled
    BY DEF OrdersOf, Live, Settled
  <2> QED BY <2>1, <2>2, MarkRestatus DEF OrderStatus, Insertion, Live
<1>6. ASSUME NEW t \in Tx, UpdateSendOrderConfirmed(t) PROVE Restatus
  <2>1. ASSUME NEW o \in OrdersOf(t), order[o].status \in Live,
               order' = Mark(order, {o}, "confirmed"), lastOrder' = lastOrder
        PROVE  Restatus
    <3>1. order[o].status # "none" /\ order[o].status \notin Settled
      BY <2>1 DEF Live, Settled
    <3> QED BY <2>1, <3>1, RowsExist, MarkRestatus DEF OrderStatus
  <2> QED BY <1>1, <1>6, <2>1 DEF UpdateSendOrderConfirmed, vars
<1>7. ASSUME NEW t \in Tx, UpdateWithdrawInitialized(t) PROVE Restatus
  <2> DEFINE S == {o \in OrdersOf(t) : order[o].status \in {"aggregating", "closed"}}
             reopened == {o \in S : IsLatest(o, t)}
             st == [o \in OrderId |-> IF o \in reopened THEN "init" ELSE "closed"]
  <2>1. /\ order' = [o \in OrderId |->
              IF o \in S THEN [order[o] EXCEPT !.status = st[o]] ELSE order[o]]
        /\ lastOrder' = lastOrder
    BY <1>7 DEF UpdateWithdrawInitialized
  <2>2. \A o \in OrderId : st[o] \in {"init", "closed"} OBVIOUS
  <2>3. \A o \in S : order[o].status # "none" /\ order[o].status \notin Settled
    BY DEF Settled
  <2> HIDE DEF S, reopened, st
  <2> SUFFICES ASSUME NEW o \in OrderId
               PROVE  /\ order'[o].txid = order[o].txid
                      /\ order'[o].status = "none" <=> order[o].status = "none"
                      /\ order[o].status \in Settled =>
                           order'[o].status \in {order[o].status, "processed"}
    BY <2>1 DEF Restatus
  <2>4. order'[o] = IF o \in S THEN [order[o] EXCEPT !.status = st[o]] ELSE order[o]
    BY <2>1
  <2>5. order[o] \in [txid : Tx \cup {NoTx}, status : OrderStatus \cup {"none"}]
    BY DEF TypeOK
  <2> HIDE <2>1
  <2> QED BY <2>2, <2>3, <2>4, <2>5
<1>8. ASSUME NEW t \in Tx, UpdateWithdrawFinalized(t) PROVE Restatus
  <2> DEFINE S == {o \in OrdersOf(t) : order[o].status \in {"init", "pending", "confirmed"}}
  <2>1. CASE UNCHANGED vars BY <1>1, <2>1 DEF vars
  <2>2. CASE ~ UNCHANGED vars
    <3>1. /\ order' = Mark(order, S, "processed")
          /\ lastOrder' = lastOrder
      BY <1>8, <2>2 DEF UpdateWithdrawFinalized
    <3>2. S \in SUBSET OrderId /\ \A o \in S : order[o].status # "none"
      BY DEF OrdersOf
    <3> QED BY <3>1, <3>2, MarkRestatus DEF OrderStatus
  <2> QED BY <2>1, <2>2
<1>9. ASSUME NEW o \in OrderId, CloseAggregating(o) PROVE Restatus
  <2>1. order[o].status # "none" /\ order[o].status \notin Settled
    BY <1>9 DEF CloseAggregating, Settled
  <2> QED BY <1>9, <2>1, MarkRestatus DEF CloseAggregating, OrderStatus
<1>10. ASSUME CleanProcessingWithdraw PROVE Restatus
  BY <1>1, <1>9, <1>10 DEF CleanProcessingWithdraw, Aggregating
<1>11. ASSUME NEW k \in Task, NEW t \in Tx, UpdateSafeboxTaskInitOK(k, t) PROVE Restatus
  <2> DEFINE S == {o \in OrdersOf(t) : IsLatest(o, t) /\ order[o].status \in Live}
  <2>1. /\ order' = Mark(order, S, "init")
        /\ lastOrder' = lastOrder
    BY <1>11 DEF UpdateSafeboxTaskInitOK
  <2>2. /\ S \in SUBSET OrderId
        /\ \A o \in S : order[o].status # "none" /\ order[o].status \notin Settled
    BY DEF OrdersOf, Live, Settled
  <2> QED BY <2>1, <2>2, MarkRestatus DEF OrderStatus
<1>12. ASSUME NEW k \in Task, SafeboxStep(k) PROVE Restatus
  BY <1>1, <1>8, <1>11, <1>12, SafeboxCases DEF orderVars
<1> QED
  BY <1>1, <1>2, <1>3, <1>4, <1>5, <1>6, <1>7, <1>8, <1>9, <1>10, <1>12
  DEF Next, RevertSafeboxTask, SetTasks, vars, orderVars, CleanProcessingWithdrawByOrderId, CreateWithdrawal,
      UpdateWithdrawCanceling, UpdateWithdrawCanceled, AddUtxo, AddDepositResult,
      UpdateUtxoStatusProcessed, UpdateUtxoStatusSpentByVins

LEMMA RowsStep == TypeOK /\ RowsInserted /\ [Next]_vars => RowsInserted'
<1> SUFFICES ASSUME TypeOK, RowsInserted, [Next]_vars PROVE RowsInserted'
  OBVIOUS
<1>1. CASE Restatus
  BY <1>1 DEF Restatus, RowsInserted
<1>2. ASSUME NEW t \in Tx, NEW s \in Live, InsertOrder(t, s) PROVE RowsInserted'
  <2>1. lastOrder' = lastOrder + 1 /\ lastOrder + 1 \in OrderId
    BY <1>2 DEF InsertOrder, TypeOK, OrderId
  <2>2. ASSUME NEW o \in OrderId
        PROVE  order'[o] = IF o = lastOrder + 1 THEN [txid |-> t, status |-> s] ELSE order[o]
    BY <1>2 DEF InsertOrder, TypeOK
  <2>3. \A o \in OrderId : lastOrder + 1 < o <=> lastOrder < o /\ o # lastOrder + 1
    BY DEF TypeOK, OrderId
  <2>4. t # NoTx /\ s # "none" BY DEF Live
  <2>5. ~ (lastOrder + 1 < lastOrder + 1) BY <2>1 DEF OrderId
  <2> QED BY <2>1, <2>2, <2>3, <2>4, <2>5 DEF RowsInserted
<1> QED BY <1>1, <1>2, OrderTableStep DEF Insertion

-----------------------------------------------------------------------------
(* Spent utxos. *)

LEMMA SpentStep ==
  TypeOK /\ [Next]_vars => \A u \in Utxo : utxo[u] = "spent" => utxo'[u] = "spent"
<1> SUFFICES ASSUME TypeOK, [Next]_vars, NEW u \in Utxo, utxo[u] = "spent"
             PROVE  utxo'[u] = "spent"
  OBVIOUS
<1>1. CASE utxo' = utxo
  BY <1>1
<1>2. ASSUME NEW S, NEW s, utxo' = MarkUtxos(S, s), u \in S => s = "spent"
      PROVE  utxo'[u] = "spent"
  BY <1>2 DEF MarkUtxos
<1>3. ASSUME NEW t \in Tx, NEW isProposer \in BOOLEAN, CreateSendOrder(t, isProposer)
      PROVE  utxo'[u] = "spent"
  BY <1>2, <1>3 DEF CreateSendOrder, Spendable
<1>4. ASSUME NEW t \in Tx, RecoverSendOrder(t) PROVE utxo'[u] = "spent"
  BY <1>2, <1>4 DEF RecoverSendOrder, vars, Spendable
<1>5. ASSUME NEW t \in Tx, NEW us \in SUBSET Ins[t], NEW ws \in SUBSET Pays[t],
             UpdateSendOrderPending(t, us, ws)
      PROVE  utxo'[u] = "spent"
  BY <1>2, <1>5 DEF UpdateSendOrderPending, Spendable
<1>6. ASSUME NEW t \in Tx, UpdateSendOrderConfirmed(t) PROVE utxo'[u] = "spent"
  BY <1>2, <1>6 DEF UpdateSendOrderConfirmed, vars
<1>7. ASSUME NEW t \in Tx, UpdateWithdrawInitialized(t) PROVE utxo'[u] = "spent"
  <2>1. \/ utxo' = utxo
        \/ utxo' = MarkUtxos({v \in Ins[t] : utxo[v] \in Spendable}, "pending")
    BY <1>7 DEF UpdateWithdrawInitialized
  <2> QED BY <1>2, <2>1 DEF Spendable
<1>8. ASSUME NEW t \in Tx, UpdateWithdrawFinalized(t) PROVE utxo'[u] = "spent"
  <2>1. utxo' = utxo \/ utxo' = MarkUtxos(Ins[t], "spent")
    BY <1>8 DEF UpdateWithdrawFinalized, vars
  <2> QED BY <1>2, <2>1
<1>9. ASSUME NEW o \in OrderId, CloseAggregating(o) PROVE utxo'[u] = "spent"
  BY <1>2, <1>9 DEF CloseAggregating
<1>10. ASSUME CleanProcessingWithdraw PROVE utxo'[u] = "spent"
  BY <1>9, <1>10 DEF CleanProcessingWithdraw, Aggregating
<1>11. ASSUME NEW v \in Utxo, NEW found \in Spendable, AddUtxo(v, found)
       PROVE  utxo'[u] = "spent"
  BY <1>11 DEF AddUtxo, MarkUtxos
<1>12. ASSUME NEW v \in Utxo, AddDepositResult(v) PROVE utxo'[u] = "spent"
  BY <1>2, <1>12 DEF AddDepositResult
<1>13. ASSUME NEW v \in Utxo, UpdateUtxoStatusProcessed(v) PROVE utxo'[u] = "spent"
  BY <1>2, <1>13 DEF UpdateUtxoStatusProcessed, Spendable
<1>14. ASSUME NEW t \in Tx, UpdateUtxoStatusSpentByVins(Ins[t]) PROVE utxo'[u] = "spent"
  BY <1>2, <1>14 DEF UpdateUtxoStatusSpentByVins
<1>15. ASSUME NEW k \in Task, SafeboxStep(k) PROVE utxo'[u] = "spent"
  BY <1>1, <1>8, <1>15, SafeboxCases DEF UpdateSafeboxTaskInitOK
<1> QED
  BY <1>1, <1>3, <1>4, <1>5, <1>6, <1>7, <1>8, <1>9, <1>10, <1>11, <1>12, <1>13, <1>14,
     <1>15
  DEF Next, RevertSafeboxTask, SetTasks, vars, CleanProcessingWithdrawByOrderId, CreateWithdrawal,
      UpdateWithdrawCanceling, UpdateWithdrawCanceled, UpdateSendOrderInitlized

(* An order that becomes settled in a step spends its inputs in that step. *)
Settling(o) == order[o].status \notin Settled /\ order'[o].status \in Settled

LEMMA MarkSettles ==
  ASSUME TypeOK, NEW S, NEW s, order' = Mark(order, S, s),
         NEW o \in OrderId, Settling(o)
  PROVE  o \in S /\ s \in Settled
BY DEF TypeOK, Mark, Settling

LEMMA SettlingStep ==
  TypeOK /\ [Next]_vars =>
    \A o \in OrderId : Settling(o) => \A u \in Ins[order[o].txid] : utxo'[u] = "spent"
<1> SUFFICES ASSUME TypeOK, [Next]_vars, NEW o \in OrderId, Settling(o),
                    NEW u \in Ins[order[o].txid]
             PROVE  utxo'[u] = "spent"
  OBVIOUS
<1>1. order' # order
  BY DEF Settling
<1>2. ASSUME NEW t \in Tx, NEW s \in Live, InsertOrder(t, s) PROVE FALSE
  <2>1. order'[o] = IF o = lastOrder + 1 THEN [txid |-> t, status |-> s] ELSE order[o]
    BY <1>2 DEF InsertOrder, TypeOK
  <2> QED BY <2>1 DEF Settling, Live, Settled
<1>3. ASSUME NEW S, NEW s, order' = Mark(order, S, s) PROVE o \in S /\ s \in Settled
  BY <1>3, MarkSettles
<1>4. ASSUME NEW t \in Tx, u \in Ins[t] PROVE u \in Utxo
  BY <1>4
<1>5. ASSUME NEW t \in Tx, NEW isProposer \in BOOLEAN, CreateSendOrder(t, isProposer)
      PROVE  FALSE
  BY <1>2, <1>5 DEF CreateSendOrder, Live
<1>6. ASSUME NEW t \in Tx, RecoverSendOrder(t) PROVE FALSE
  BY <1>1, <1>2, <1>6 DEF RecoverSendOrder, vars, Live
<1>7. ASSUME NEW t \in Tx, UpdateSendOrderInitlized(t) PROVE FALSE
  BY <1>3, <1>7 DEF UpdateSendOrderInitlized, Settled
<1>8. ASSUME NEW t \in Tx, NEW us \in SUBSET Ins[t], NEW ws \in SUBSET Pays[t],
             UpdateSendOrderPending(t, us, ws)
      PROVE  FALSE
  BY <1>2, <1>3, <1>8 DEF UpdateSendOrderPending, Settled, Live
<1>9. ASSUME NEW t \in Tx, UpdateSendOrderConfirmed(t) PROVE utxo'[u] = "spent"
  <2>1. PICK p \in OrdersOf(t) :
          order' = Mark(order, {p}, "confirmed") /\ utxo' = MarkUtxos(Ins[t], "spent")
    BY <1>1, <1>9 DEF UpdateSendOrderConfirmed, vars
  <2>2. order[o].txid = t BY <1>3, <2>1 DEF OrdersOf
  <2> QED BY <1>4, <2>1, <2>2 DEF MarkUtxos
<1>10. ASSUME NEW t \in Tx, UpdateWithdrawInitialized(t) PROVE FALSE
  <2> DEFINE S == {p \in OrdersOf(t) : order[p].status \in {"aggregating", "closed"}}
             reopened == {p \in S : IsLatest(p, t)}
             st == [p \in OrderId |-> IF p \in reopened THEN "init" ELSE "closed"]
  <2>1. order' = [p \in OrderId |->
                   IF p \in S THEN [order[p] EXCEPT !.status = st[p]] ELSE order[p]]
    BY <1>10 DEF UpdateWithdrawInitialized
  <2>2. st[o] \in {"init", "closed"} OBVIOUS
  <2> HIDE DEF S, reopened, st
  <2>3. order'[o] = IF o \in S THEN [order[o] EXCEPT !.status = st[o]] ELSE order[o]
    BY <2>1
  <2>4. order[o] \in [txid : Tx \cup {NoTx}, status : OrderStatus \cup {"none"}]
    BY DEF TypeOK
  <2> HIDE <2>1
  <2> QED BY <2>2, <2>3, <2>4 DEF Settling, Settled
<1>11. ASSUME NEW t \in Tx, UpdateWithdrawFinalized(t) PROVE utxo'[u] = "spent"
  <2> DEFINE S == {p \in OrdersOf(t) : order[p].status \in {"init", "pending", "confirmed"}}
  <2>1. /\ order' = Mark(order, S, "processed")
        /\ utxo' = IF S = {} THEN utxo ELSE MarkUtxos(Ins[t], "spent")
    BY <1>1, <1>11 DEF UpdateWithdrawFinalized, vars
  <2>2. o \in S BY <1>3, <2>1
  <2>3. order[o].txid = t BY <2>2 DEF OrdersOf
  <2> QED BY <1>4, <2>1, <2>2, <2>3 DEF MarkUtxos
<1>12. ASSUME NEW p \in OrderId, CloseAggregating(p) PROVE FALSE
  BY <1>3, <1>12 DEF CloseAggregating, Settled
<1>13. ASSUME CleanProcessingWithdraw PROVE FALSE
  BY <1>1, <1>12, <1>13 DEF CleanProcessingWithdraw, Aggregating
<1>14. ASSUME NEW k \in Task, SafeboxStep(k) PROVE utxo'[u] = "spent"
  <2>1. ASSUME NEW t \in Tx, UpdateSafeboxTaskInitOK(k, t) PROVE FALSE
    BY <1>3, <2>1 DEF UpdateSafeboxTaskInitOK, Settled
  <2> QED BY <1>1, <1>11, <1>14, <2>1, SafeboxCases DEF orderVars
<1> QED
  BY <1>1, <1>5, <1>6, <1>7, <1>8, <1>9, <1>10, <1>11, <1>12, <1>13, <1>14
  DEF Next, RevertSafeboxTask, SetTasks, vars, orderVars, CleanProcessingWithdrawByOrderId, CreateWithdrawal,
      UpdateWithdrawCanceling, UpdateWithdrawCanceled, AddUtxo, AddDepositResult,
      UpdateUtxoStatusProcessed, UpdateUtxoStatusSpentByVins

LEMMA SettledStep ==
  TypeOK /\ RowsInserted /\ SettledInputsSpent /\ [Next]_vars => SettledInputsSpent'
<1> SUFFICES ASSUME TypeOK, RowsInserted, SettledInputsSpent, [Next]_vars,
                    NEW o \in OrderId, order'[o].status \in Settled,
                    NEW u \in Ins[order'[o].txid]
             PROVE  utxo'[u] = "spent"
  BY DEF SettledInputsSpent
<1>1. order'[o].txid = order[o].txid
  <2>1. ASSUME NEW t \in Tx, NEW s \in Live, InsertOrder(t, s)
        PROVE  order'[o].txid = order[o].txid
    <3>1. order'[o] = IF o = lastOrder + 1 THEN [txid |-> t, status |-> s] ELSE order[o]
      BY <2>1 DEF InsertOrder, TypeOK
    <3> QED BY <3>1 DEF Live, Settled
  <2> QED BY <2>1, OrderTableStep DEF Restatus, Insertion
<1>2. CASE Settling(o)
  BY <1>1, <1>2, SettlingStep
<1>3. CASE order[o].status \in Settled
  <2>1. order[o].txid \in Tx
    <3>1. order[o].status # "none" BY <1>3 DEF Settled
    <3> QED BY <3>1 DEF TypeOK, RowsInserted
  <2>2. u \in Utxo BY <1>1, <2>1
  <2> QED BY <1>1, <1>3, <2>2, SpentStep DEF SettledInputsSpent
<1> QED BY <1>2, <1>3 DEF Settling

-----------------------------------------------------------------------------
(* Reserved utxos. *)

(* Some order that can still be closed, broadcast or confirmed spends u. *)
Reserver(o, u) == order[o].status \in Live /\ u \in Ins[order[o].txid]

LEMMA ReservationKept ==
  ASSUME NoLeakedReservation, utxo' = utxo,
         \A o \in OrderId : order[o].status \in Live =>
           order'[o].status \in Live /\ order'[o].txid = order[o].txid
  PROVE  NoLeakedReservation'
BY DEF NoLeakedReservation

\* an inserted live order covers the utxos that the step reserves
LEMMA ReservationInserted ==
  ASSUME TypeOK, RowsInserted, NoLeakedReservation,
         NEW t \in Tx, NEW s \in Live, InsertOrder(t, s),
         NEW us \in SUBSET Ins[t], utxo' = MarkUtxos(us, "pending")
  PROVE  NoLeakedReservation'
<1> SUFFICES ASSUME NEW u \in Utxo, utxo'[u] = "pending"
             PROVE  \E o \in OrderId : order'[o].status \in Live /\ u \in Ins[order'[o].txid]
  BY DEF NoLeakedReservation
<1> DEFINE n == lastOrder + 1
<1>1. n \in OrderId /\ order[n].status = "none"
  BY InsertOrderType DEF TypeOK, RowsInserted, OrderStatus, Live, InsertOrder, OrderId
<1>2. \A o \in OrderId :
        order'[o] = IF o = n THEN [txid |-> t, status |-> s] ELSE order[o]
  BY DEF InsertOrder, TypeOK
<1>3. CASE u \in us
  BY <1>1, <1>2, <1>3
<1>4. CASE u \notin us
  <2>1. PICK o \in OrderId : order[o].status \in Live /\ u \in Ins[order[o].txid]
    BY <1>4 DEF MarkUtxos, NoLeakedReservation
  <2>2. o # n BY <1>1, <2>1 DEF Live
  <2>3. order'[o] = order[o] BY <1>2, <2>2
  <2> QED BY <2>1, <2>3
<1> QED BY <1>3, <1>4

\* the rows of a transaction are finitely many, so one of them is the latest
LEMMA LatestExists ==
  ASSUME NEW t, OrdersOf(t) # {}
  PROVE  \E p \in OrdersOf(t) : IsLatest(p, t)
<1> DEFINE R == OpToRel(<, Nat)
           D == {m \in Nat : \E p \in OrdersOf(t) : m = MaxOrder - p}
<1>1. \A p \in OrdersOf(t) : p \in Int /\ MaxOrder - p \in D
  BY DEF OrdersOf, OrderId
<1>2. D # {} /\ D \subseteq Nat
  BY <1>1
<1>3. PICK m \in D : \A k \in D : ~ (<<k, m>> \in R)
  <2> HIDE DEF R, D
  <2>1. IsWellFoundedOn(R, Nat) BY NatLessThanWellFounded DEF R
  <2> QED BY <1>2, <2>1, WFMin
<1>4. \A k \in D : ~ (k < m)
  <2> HIDE DEF D
  <2> QED BY <1>2, <1>3 DEF OpToRel
<1>5. PICK p \in OrdersOf(t) : m = MaxOrder - p
  OBVIOUS
<1>6. \A q \in OrdersOf(t) : q <= p
  BY <1>1, <1>4, <1>5
<1> QED BY <1>6 DEF IsLatest

LEMMA ReservationStep ==
  TypeOK /\ RowsInserted /\ SettledInputsSpent /\ NoLeakedReservation /\ [Next]_vars
    => NoLeakedReservation'
<1> SUFFICES ASSUME TypeOK, RowsInserted, SettledInputsSpent, NoLeakedReservation,
                    [Next]_vars
             PROVE  NoLeakedReservation'
  OBVIOUS
<1>1. ASSUME order' = order, \A u \in Utxo : utxo'[u] = "pending" => utxo[u] = "pending"
      PROVE  NoLeakedReservation'
  BY <1>1 DEF NoLeakedReservation
<1>2. ASSUME NEW S, NEW s \in Live, order' = Mark(order, S, s), utxo' = utxo
      PROVE  NoLeakedReservation'
  <2>1. ASSUME NEW o \in OrderId, order[o].status \in Live
        PROVE  order'[o].status \in Live /\ order'[o].txid = order[o].txid
    BY <1>2, <2>1 DEF Mark, TypeOK
  <2> QED BY <1>2, <2>1, ReservationKept
\* orders of S leave Live, and the step takes their inputs out of pending
<1>3. ASSUME NEW S, NEW s, NEW us, NEW r, r # "pending",
             order' = Mark(order, S, s), utxo' = MarkUtxos(us, r),
             \A o \in S \cap OrderId : \A u \in Ins[order[o].txid] :
               utxo[u] = "pending" => u \in us
      PROVE  NoLeakedReservation'
  <2> SUFFICES ASSUME NEW u \in Utxo, utxo'[u] = "pending"
               PROVE  \E o \in OrderId : order'[o].status \in Live /\ u \in Ins[order'[o].txid]
    BY DEF NoLeakedReservation
  <2>1. u \notin us /\ utxo[u] = "pending" BY <1>3 DEF MarkUtxos
  <2>2. PICK o \in OrderId : order[o].status \in Live /\ u \in Ins[order[o].txid]
    BY <2>1 DEF NoLeakedReservation
  <2>3. o \notin S BY <1>3, <2>1, <2>2
  <2>4. order'[o] = order[o] BY <1>3, <2>3 DEF Mark, TypeOK
  <2> QED BY <2>2, <2>4
<1>4. ASSUME NEW t \in Tx, NEW isProposer \in BOOLEAN, CreateSendOrder(t, isProposer)
      PROVE  NoLeakedReservation'
  BY <1>4, ReservationInserted DEF CreateSendOrder, Live
<1>5. ASSUME NEW t \in Tx, RecoverSendOrder(t) PROVE NoLeakedReservation'
  <2> DEFINE us == {u \in Ins[t] : utxo[u] \in Spendable}
  <2>1. UNCHANGED vars \/ (InsertOrder(t, "init") /\ utxo' = MarkUtxos(us, "pending"))
    BY <1>5 DEF RecoverSendOrder
  <2> us \in SUBSET Ins[t] OBVIOUS
  <2> HIDE DEF us
  <2> QED BY <1>1, <2>1, ReservationInserted DEF vars, Live
<1>6. ASSUME NEW t \in Tx, UpdateSendOrderInitlized(t) PROVE NoLeakedReservation'
  BY <1>2, <1>6 DEF UpdateSendOrderInitlized, Live
<1>7. ASSUME NEW t \in Tx, NEW us \in SUBSET Ins[t], NEW ws \in SUBSET Pays[t],
             UpdateSendOrderPending(t, us, ws)
      PROVE  NoLeakedReservation'
  BY <1>2, <1>7, ReservationInserted DEF UpdateSendOrderPending, Live
<1>8. ASSUME NEW t \in Tx, UpdateSendOrderConfirmed(t) PROVE NoLeakedReservation'
  <2>1. ASSUME NEW o \in OrdersOf(t), order' = Mark(order, {o}, "confirmed"),
               utxo' = MarkUtxos(Ins[t], "spent")
        PROVE  NoLeakedReservation'
    BY <1>3, <2>1 DEF OrdersOf
  <2>2. CASE order' = order /\ utxo' = utxo BY <1>1, <2>2
  <2> QED BY <1>8, <2>1, <2>2 DEF UpdateSendOrderConfirmed, vars
<1>9. ASSUME NEW t \in Tx, UpdateWithdrawInitialized(t) PROVE NoLeakedReservation'
  <2> DEFINE S == {o \in OrdersOf(t) : order[o].status \in {"aggregating", "closed"}}
             reopened == {o \in S : IsLatest(o, t)}
             st == [o \in OrderId |-> IF o \in reopened THEN "init" ELSE "closed"]
             us == {u \in Ins[t] : utxo[u] \in Spendable}
  <2>1. /\ order' = [o \in OrderId |->
              IF o \in S THEN [order[o] EXCEPT !.status = st[o]] ELSE order[o]]
        /\ utxo' = IF reopened = {} THEN utxo ELSE MarkUtxos(us, "pending")
    BY <1>9 DEF UpdateWithdrawInitialized
  <2>2. ASSUME NEW o \in OrderId
        PROVE  /\ o \notin S => order'[o] = order[o]
               /\ o \in reopened => order'[o] = [txid |-> t, status |-> "init"]
    <3>1. order'[o] = IF o \in S THEN [order[o] EXCEPT !.status = st[o]] ELSE order[o]
      BY <2>1
    <3>2. order[o] \in [txid : Tx \cup {NoTx}, status : OrderStatus \cup {"none"}]
      BY DEF TypeOK
    <3>3. o \in S => order[o].txid = t BY DEF OrdersOf
    <3>4. o \in reopened => o \in S /\ st[o] = "init" OBVIOUS
    <3> HIDE <2>1 DEF S, reopened, st
    <3> QED BY <3>1, <3>2, <3>3, <3>4
  <2> SUFFICES ASSUME NEW u \in Utxo, utxo'[u] = "pending"
               PROVE  \E o \in OrderId : order'[o].status \in Live /\ u \in Ins[order'[o].txid]
    BY DEF NoLeakedReservation
  <2>3. CASE u \in Ins[t] /\ reopened # {}
    <3>1. PICK o \in reopened : TRUE BY <2>3
    <3>2. o \in OrderId BY DEF OrdersOf
    <3> QED BY <2>2, <2>3, <3>2 DEF Live
  <2>4. CASE ~ (u \in Ins[t] /\ reopened # {})
    <3>1. utxo[u] = "pending" BY <2>1, <2>4 DEF MarkUtxos
    <3>2. PICK o \in OrderId : order[o].status \in Live /\ u \in Ins[order[o].txid]
      BY <3>1 DEF NoLeakedReservation
    <3>3. CASE o \notin S
      BY <2>2, <3>2, <3>3
    <3>4. CASE o \in S
      \* another order of t is the latest one: it is live, for its inputs are not spent
      <4>1. o \in OrdersOf(t) /\ order[o].txid = t /\ reopened = {}
        BY <2>4, <3>2, <3>4 DEF OrdersOf
      <4>2. PICK p \in OrdersOf(t) : IsLatest(p, t)
        BY <4>1, LatestExists
      <4>3. p \in OrderId /\ order[p].txid = t /\ order[p].status # "none"
        BY <4>2, RowsExist
      <4>4. p \notin S BY <4>1, <4>2
      <4>5. order[p].status \notin Settled
        BY <3>1, <3>2, <4>1, <4>3 DEF SettledInputsSpent
      <4>6. order[p].status \in OrderStatus \cup {"none"} BY <4>3 DEF TypeOK
      <4>7. order[p].status \in Live
        BY <4>2, <4>3, <4>4, <4>5, <4>6 DEF OrderStatus, Live, Settled
      <4> QED BY <2>2, <3>2, <4>1, <4>3, <4>4, <4>7
    <3> QED BY <3>3, <3>4
  <2> QED BY <2>3, <2>4
<1>10. ASSUME NEW t \in Tx, UpdateWithdrawFinalized(t) PROVE NoLeakedReservation'
  <2> DEFINE S == {o \in OrdersOf(t) : order[o].status \in {"init", "pending", "confirmed"}}
  <2>1. CASE UNCHANGED vars BY <1>1, <2>1 DEF vars
  <2>2. CASE ~ UNCHANGED vars
    <3>1. /\ order' = Mark(order, S, "processed")
          /\ utxo' = IF S = {} THEN utxo ELSE MarkUtxos(Ins[t], "spent")
      BY <1>10, <2>2 DEF UpdateWithdrawFinalized
    <3>2. \A o \in S : order[o].txid = t BY DEF OrdersOf
    <3> HIDE DEF S
    <3>3. CASE S = {}
      <4>1. order' = order BY <3>1, <3>3 DEF Mark, TypeOK
      <4> QED BY <1>1, <3>1, <3>3, <4>1
    <3>4. CASE S # {} BY <1>3, <3>1, <3>2, <3>4
    <3> QED BY <3>3, <3>4
  <2> QED BY <2>1, <2>2
<1>11. ASSUME NEW o \in OrderId, CloseAggregating(o) PROVE NoLeakedReservation'
  <2> DEFINE us == {u \in Ins[order[o].txid] : utxo[u] = "pending"}
  <2>1. order' = Mark(order, {o}, "closed") /\ utxo' = MarkUtxos(us, "processed")
    BY <1>11 DEF CloseAggregating
  <2> QED BY <1>3, <2>1
<1>12. ASSUME CleanProcessingWithdraw PROVE NoLeakedReservation'
  BY <1>1, <1>11, <1>12 DEF CleanProcessingWithdraw, Aggregating
<1>13. ASSUME NEW u \in Utxo, NEW found \in Spendable, AddUtxo(u, found)
       PROVE  NoLeakedReservation'
  BY <1>1, <1>13 DEF AddUtxo, orderVars, MarkUtxos, Spendable
<1>14. ASSUME NEW u \in Utxo, AddDepositResult(u) PROVE NoLeakedReservation'
  BY <1>1, <1>14 DEF AddDepositResult, orderVars, MarkUtxos
<1>15. ASSUME NEW u \in Utxo, UpdateUtxoStatusProcessed(u) PROVE NoLeakedReservation'
  BY <1>1, <1>15 DEF UpdateUtxoStatusProcessed, orderVars, MarkUtxos
<1>16. ASSUME NEW t \in Tx, UpdateUtxoStatusSpentByVins(Ins[t]) PROVE NoLeakedReservation'
  BY <1>1, <1>16 DEF UpdateUtxoStatusSpentByVins, orderVars, MarkUtxos
<1>17. CASE order' = order /\ utxo' = utxo
  BY <1>1, <1>17
<1>18. ASSUME NEW k \in Task, SafeboxStep(k) PROVE NoLeakedReservation'
  <2>1. ASSUME NEW t \in Tx, UpdateSafeboxTaskInitOK(k, t) PROVE NoLeakedReservation'
    BY <1>2, <2>1 DEF UpdateSafeboxTaskInitOK, Live
  <2> QED BY <1>10, <1>17, <1>18, <2>1, SafeboxCases DEF orderVars
<1> QED
  BY <1>4, <1>5, <1>6, <1>7, <1>8, <1>9, <1>10, <1>11, <1>12, <1>13, <1>14, <1>15,
     <1>16, <1>17, <1>18
  DEF Next, RevertSafeboxTask, SetTasks, vars, orderVars, CleanProcessingWithdrawByOrderId, CreateWithdrawal,
      UpdateWithdrawCanceling, UpdateWithdrawCanceled

-----------------------------------------------------------------------------
(* Withdrawal rows: a step keeps the order id and txid of a row, or points *)
(* it at the order that the step inserts, whose transaction pays it.       *)

SameOrder(w) ==
  withdraw'[w].order = withdraw[w].order /\ withdraw'[w].txid = withdraw[w].txid

Assigned(w) ==
  \E t \in Tx, s \in Live :
    /\ InsertOrder(t, s)
    /\ w \in Pays[t]
    /\ withdraw'[w].order = lastOrder + 1
    /\ withdraw'[w].txid = t

LEMMA WithdrawTableStep ==
  TypeOK /\ [Next]_vars => \A w \in Withdraw : SameOrder(w) \/ Assigned(w)
<1> SUFFICES ASSUME TypeOK, [Next]_vars, NEW w \in Withdraw
             PROVE  SameOrder(w) \/ Assigned(w)
  OBVIOUS
<1>1. ASSUME withdraw' = withdraw PROVE SameOrder(w)
  BY <1>1 DEF SameOrder
<1>2. ASSUME NEW S, NEW s, withdraw' = Mark(withdraw, S, s) PROVE SameOrder(w)
  BY <1>2 DEF SameOrder, Mark, TypeOK
<1>3. ASSUME NEW t \in Tx, NEW s \in Live, NEW ws \in SUBSET Pays[t], InsertOrder(t, s),
             withdraw' = Assign(withdraw, ws, lastOrder + 1, t, s)
      PROVE  SameOrder(w) \/ Assigned(w)
  <2>1. withdraw'[w] = IF w \in ws THEN [status |-> s, order |-> lastOrder + 1, txid |-> t]
                                   ELSE withdraw[w]
    BY <1>3 DEF Assign, TypeOK
  <2> QED BY <1>3, <2>1 DEF SameOrder, Assigned
<1>4. ASSUME NEW x \in Withdraw,
             CreateWithdrawal(x) \/ UpdateWithdrawCanceling(x) \/ UpdateWithdrawCanceled(x)
      PROVE  SameOrder(w)
  BY <1>1, <1>2, <1>4 DEF CreateWithdrawal, UpdateWithdrawCanceling, UpdateWithdrawCanceled
<1>5. ASSUME NEW t \in Tx, NEW isProposer \in BOOLEAN, CreateSendOrder(t, isProposer)
      PROVE  SameOrder(w) \/ Assigned(w)
  BY <1>3, <1>5 DEF CreateSendOrder, Live
<1>6. ASSUME NEW t \in Tx, RecoverSendOrder(t) PROVE SameOrder(w) \/ Assigned(w)
  <2> DEFINE ws == Pays[t] \cap WithdrawsIn({"create", "aggregating"})
  <2>1. \/ withdraw' = withdraw
        \/ InsertOrder(t, "init") /\ withdraw' = Assign(withdraw, ws, lastOrder + 1, t, "init")
    BY <1>6 DEF RecoverSendOrder, vars
  <2> ws \in SUBSET Pays[t] OBVIOUS
  <2> HIDE DEF ws
  <2> QED BY <1>1, <1>3, <2>1 DEF Live
<1>7. ASSUME NEW t \in Tx, NEW us \in SUBSET Ins[t], NEW ws \in SUBSET Pays[t],
             UpdateSendOrderPending(t, us, ws)
      PROVE  SameOrder(w) \/ Assigned(w)
  BY <1>2, <1>3, <1>7 DEF UpdateSendOrderPending, Live
<1>8. ASSUME NEW t \in Tx, UpdateSendOrderConfirmed(t) PROVE SameOrder(w)
  BY <1>1, <1>2, <1>8 DEF UpdateSendOrderConfirmed, vars
<1>9. ASSUME NEW t \in Tx, UpdateWithdrawInitialized(t) PROVE SameOrder(w)
  BY <1>2, <1>9 DEF UpdateWithdrawInitialized
<1>10. ASSUME NEW t \in Tx, UpdateWithdrawFinalized(t) PROVE SameOrder(w)
  BY <1>1, <1>2, <1>10 DEF UpdateWithdrawFinalized, vars
<1>11. ASSUME NEW o \in OrderId, CloseAggregating(o) PROVE SameOrder(w)
  BY <1>2, <1>11 DEF CloseAggregating
<1>12. ASSUME CleanProcessingWithdraw PROVE SameOrder(w)
  BY <1>2, <1>11, <1>12 DEF CleanProcessingWithdraw, Aggregating
<1>13. ASSUME NEW k \in Task, SafeboxStep(k) PROVE SameOrder(w)
  BY <1>1, <1>10, <1>13, SafeboxCases DEF UpdateSafeboxTaskInitOK
<1> QED
  BY <1>1, <1>4, <1>5, <1>6, <1>7, <1>8, <1>9, <1>10, <1>11, <1>12, <1>13
  DEF Next, RevertSafeboxTask, SetTasks, vars, orderVars, CleanProcessingWithdrawByOrderId, UpdateSendOrderInitlized,
      AddUtxo, AddDepositResult, UpdateUtxoStatusProcessed, UpdateUtxoStatusSpentByVins

LEMMA WithdrawStep ==
  TypeOK /\ RowsInserted /\ WithdrawNamesItsOrder /\ [Next]_vars => WithdrawNamesItsOrder'
<1> SUFFICES ASSUME TypeOK, RowsInserted, WithdrawNamesItsOrder, [Next]_vars,
                    NEW w \in Withdraw, withdraw'[w].order # 0
             PROVE  /\ withdraw'[w].order \in OrderId
                    /\ order'[withdraw'[w].order].txid = withdraw'[w].txid
                    /\ withdraw'[w].txid \in Tx
                    /\ w \in Pays[withdraw'[w].txid]
  BY DEF WithdrawNamesItsOrder
<1>1. ASSUME NEW t \in Tx, NEW s \in Live, InsertOrder(t, s)
      PROVE  /\ lastOrder + 1 \in OrderId
             /\ \A o \in OrderId :
                  order'[o] = IF o = lastOrder + 1 THEN [txid |-> t, status |-> s]
                                                   ELSE order[o]
  BY <1>1 DEF InsertOrder, TypeOK, OrderId
<1>2. CASE SameOrder(w)
  <2> DEFINE o == withdraw[w].order
  <2>1. /\ withdraw'[w].order = o /\ withdraw'[w].txid = withdraw[w].txid
        /\ o \in OrderId
        /\ order[o].txid = withdraw[w].txid /\ order[o].txid \in Tx
        /\ w \in Pays[withdraw[w].txid]
    BY <1>2 DEF SameOrder, WithdrawNamesItsOrder
  <2>2. order'[o].txid = order[o].txid
    <3>1. CASE Restatus BY <2>1, <3>1 DEF Restatus
    <3>2. CASE Insertion
      <4>1. PICK t \in Tx, s \in Live : InsertOrder(t, s) BY <3>2 DEF Insertion
      <4>2. o # lastOrder + 1
        <5>1. lastOrder < lastOrder + 1 BY DEF TypeOK
        <5> QED BY <1>1, <2>1, <4>1, <5>1 DEF RowsInserted
      <4> QED BY <1>1, <2>1, <4>1, <4>2
    <3> QED BY <3>1, <3>2, OrderTableStep
  <2> QED BY <2>1, <2>2
<1>3. CASE Assigned(w)
  <2>1. PICK t \in Tx, s \in Live :
          /\ InsertOrder(t, s)
          /\ w \in Pays[t]
          /\ withdraw'[w].order = lastOrder + 1
          /\ withdraw'[w].txid = t
    BY <1>3 DEF Assigned
  <2>2. order'[lastOrder + 1] = [txid |-> t, status |-> s] BY <1>1, <2>1
  <2> QED BY <1>1, <2>1, <2>2
<1> QED BY <1>2, <1>3, WithdrawTableStep

-----------------------------------------------------------------------------
(* Safebox tasks: a task that is being signed names the latest order of its *)
(* transaction, so nothing but the clean-up can close that order.           *)

Follows(k) ==
  LET o == task[k].order  t == task[k].txid IN
  /\ o # 0 => o \in OrderId /\ order[o].status # "none"
  /\ task[k].status = "init" =>
       /\ o # 0 /\ t \in Tx /\ k \in Secures[t]
       /\ IsLatest(o, t)
       /\ order[o].status \in {"aggregating", "init"}
  /\ task[k].status = "pending" /\ o # 0 /\ order[o].txid = t =>
       order[o].status \in {"init", "pending"}
  /\ task[k].status = "confirmed" /\ o # 0 /\ order[o].txid = t =>
       order[o].status \in Settled

TasksFollow == \A k \in Task : Follows(k)

LEMMA FollowsImplies == TasksFollow => TaskFollowsOrder
<1> SUFFICES ASSUME TasksFollow, NEW k \in Task, NEW o \in OrderId,
                    task[k].order = o, task[k].txid = order[o].txid
             PROVE  /\ task[k].status = "init" => order[o].status \in Live
                    /\ task[k].status = "pending" => order[o].status \in {"init", "pending"}
                    /\ task[k].status = "confirmed" => order[o].status \in Settled
  BY DEF TaskFollowsOrder
<1>1. o # 0 BY DEF OrderId
<1> QED BY <1>1 DEF TasksFollow, Follows, Live

\* a step that inserts no row only changes statuses
LEMMA SameTableRestatus ==
  ASSUME TypeOK, RowsInserted, [Next]_vars, lastOrder' = lastOrder
  PROVE  Restatus
<1>1. ~ Insertion
  <2> SUFFICES ASSUME NEW t \in Tx, NEW s \in Live, InsertOrder(t, s) PROVE FALSE
    BY DEF Insertion
  <2>1. lastOrder' = lastOrder + 1 BY DEF InsertOrder
  <2> QED BY <2>1 DEF TypeOK
<1> QED BY <1>1, OrderTableStep

LEMMA SameLatest ==
  ASSUME NEW o, NEW t, Restatus, IsLatest(o, t) PROVE IsLatest(o, t)'
BY DEF Restatus, IsLatest, OrdersOf

\* the row of k stays and its order keeps a status that suits it
LEMMA FollowsRestatus ==
  ASSUME NEW k \in Task, Follows(k), Restatus,
         task'[k] = task[k],
         task[k].status = "init" =>
           order'[task[k].order].status \in {"aggregating", "init"},
         task[k].status = "pending" /\ task[k].order # 0
             /\ order[task[k].order].txid = task[k].txid =>
           order'[task[k].order].status \in {"init", "pending"}
  PROVE  Follows(k)'
<1> DEFINE o == task[k].order
<1>1. o # 0 => /\ o \in OrderId
               /\ order'[o].txid = order[o].txid
               /\ order'[o].status # "none"
               /\ order[o].status \in Settled => order'[o].status \in Settled
  BY DEF Follows, Restatus, Settled
<1>2. task[k].status = "init" => IsLatest(o, task[k].txid)'
  BY SameLatest DEF Follows
<1> QED BY <1>1, <1>2 DEF Follows

\* the row of k takes a status that asks nothing of its order
LEMMA FollowsIdle ==
  ASSUME NEW k \in Task, Follows(k), Restatus,
         task'[k].order = task[k].order,
         task'[k].status \notin {"init", "pending", "confirmed"}
  PROVE  Follows(k)'
BY DEF Follows, Restatus

\* a row is inserted and the row of k stays
LEMMA FollowsInsert ==
  ASSUME TypeOK, RowsInserted, NEW k \in Task, Follows(k),
         NEW t \in Tx, NEW s \in Live, InsertOrder(t, s), task'[k] = task[k],
         ~ (task[k].status = "init" /\ task[k].txid = t)
  PROVE  Follows(k)'
<1> DEFINE o == task[k].order
<1>1. \A p \in OrderId :
        order'[p] = IF p = lastOrder + 1 THEN [txid |-> t, status |-> s] ELSE order[p]
  BY DEF InsertOrder, TypeOK
<1>2. o # 0 => o # lastOrder + 1
  BY DEF Follows, RowsInserted, TypeOK, OrderId
<1>3. o # 0 => o \in OrderId /\ order'[o] = order[o]
  BY <1>1, <1>2 DEF Follows
<1>4. ASSUME task[k].status = "init" PROVE IsLatest(o, task[k].txid)'
  <2>1. OrdersOf(task[k].txid)' = OrdersOf(task[k].txid)
    <3>1. order[lastOrder + 1].txid # task[k].txid \/ lastOrder + 1 \notin OrderId
      BY <1>4 DEF Follows, RowsInserted, TypeOK, OrderId
    <3> QED BY <1>1, <1>4, <3>1 DEF OrdersOf
  <2> QED BY <1>4, <2>1 DEF Follows, IsLatest
<1> QED BY <1>3, <1>4 DEF Follows

LEMMA TaskStep ==
  TypeOK /\ RowsInserted /\ TasksFollow /\ [Next]_vars => TasksFollow'
<1> SUFFICES ASSUME TypeOK, RowsInserted, TasksFollow, [Next]_vars, NEW k \in Task
             PROVE  Follows(k)'
  BY DEF TasksFollow
<1> DEFINE o == task[k].order
<1>0. Follows(k) /\ task[k].order \in {0} \cup OrderId
  BY DEF TasksFollow, Follows
<1>1. lastOrder' = lastOrder => Restatus
  BY SameTableRestatus
<1>2. ASSUME order' = order, lastOrder' = lastOrder, task'[k] = task[k] PROVE Follows(k)'
  BY <1>0, <1>2 DEF Follows, IsLatest, OrdersOf
<1>3. ASSUME NEW S, NEW s, task' = Mark(task, S, s)
      PROVE  /\ k \notin S => task'[k] = task[k]
             /\ k \in S => task'[k] = [task[k] EXCEPT !.status = s]
             /\ task'[k].order = task[k].order /\ task'[k].txid = task[k].txid
             /\ k \in S => task'[k].status = s
  BY <1>3 DEF Mark, TypeOK
\* a task-only writer that gives a row of S a status asking nothing of its order
<1>6. ASSUME NEW S, NEW s, SetTasks(S, s), s \notin {"init", "pending", "confirmed"}
      PROVE  Follows(k)'
  <2>1. order' = order /\ lastOrder' = lastOrder /\ task' = Mark(task, S, s)
    BY <1>6 DEF SetTasks, orderVars
  <2>2. CASE k \in S
    <3>1. Restatus BY <2>1 DEF Restatus
    <3> QED BY <1>0, <1>3, <1>6, <2>1, <2>2, <3>1, FollowsIdle
  <2>3. CASE k \notin S BY <1>2, <1>3, <2>1, <2>3
  <2> QED BY <2>2, <2>3
\* live orders of t are marked "init", tasks stay
<1>7. ASSUME NEW t \in Tx, task'[k] = task[k], lastOrder' = lastOrder,
             order' = Mark(order,
               {p \in OrdersOf(t) : IsLatest(p, t) /\ order[p].status \in Live}, "init")
      PROVE  Follows(k)'
  <2>1. Restatus BY <1>1, <1>7
  <2>2. o \in OrderId =>
          order'[o].status = order[o].status \/ order'[o].status = "init"
    BY <1>7 DEF Mark, TypeOK
  <2> QED BY <1>0, <1>7, <2>1, <2>2, FollowsRestatus DEF Follows
<1>8. ASSUME NEW t \in Tx, NEW isProposer \in BOOLEAN, CreateSendOrder(t, isProposer)
      PROVE  Follows(k)'
  <2>1. InsertOrder(t, "aggregating") /\ "aggregating" \in Live
        /\ task' = Assign(task, Secures[t], lastOrder + 1, t, "init")
    BY <1>8 DEF CreateSendOrder, Live
  <2>2. CASE k \in Secures[t]
    <3>1. PICK n : n = lastOrder + 1
      OBVIOUS
    <3>2. task'[k] = [status |-> "init", order |-> n, txid |-> t]
      BY <2>1, <2>2, <3>1 DEF Assign, TypeOK
    <3>3. \A p \in OrderId : order'[p] =
            IF p = n THEN [txid |-> t, status |-> "aggregating"] ELSE order[p]
      BY <2>1, <3>1 DEF InsertOrder, TypeOK
    <3>4. n \in OrderId /\ n # 0
      BY <2>1, <3>1 DEF InsertOrder, TypeOK, OrderId
    <3>5. \A p \in OrderId : order[p].txid = t => p <= n
      BY <3>1 DEF RowsInserted, TypeOK, OrderId
    <3>6. \A p \in OrderId : order'[p].txid = t => p <= n
      BY <3>3, <3>4, <3>5 DEF OrderId
    <3>7. order'[n].txid = t /\ order'[n].status = "aggregating"
      BY <3>3, <3>4
    <3>8. task'[k].order = n /\ task'[k].txid = t /\ task'[k].status = "init"
      BY <3>2
    <3>9. IsLatest(task[k].order, task[k].txid)'
      BY <3>4, <3>6, <3>7, <3>8 DEF IsLatest, OrdersOf
    <3> QED BY <2>2, <3>4, <3>7, <3>8, <3>9 DEF Follows
  <2>3. CASE k \notin Secures[t]
    <3>1. task'[k] = task[k] BY <2>1, <2>3 DEF Assign, TypeOK
    <3>2. ~ (task[k].status = "init" /\ task[k].txid = t) BY <1>0, <2>3 DEF Follows
    <3> QED BY <1>0, <2>1, <3>1, <3>2, FollowsInsert
  <2> QED BY <2>2, <2>3
<1>9. ASSUME NEW t \in Tx, RecoverSendOrder(t) PROVE Follows(k)'
  <2>1. CASE UNCHANGED vars BY <1>2, <2>1 DEF vars
  <2>2. CASE ~ UNCHANGED vars
    <3>1. /\ InsertOrder(t, "init") /\ "init" \in Live
          /\ task' = task
          /\ \A p \in OrdersOf(t) : order[p].status \notin {"init", "aggregating"}
      BY <1>9, <2>2 DEF RecoverSendOrder, Live
    <3>2. ~ (task[k].status = "init" /\ task[k].txid = t)
      BY <1>0, <3>1 DEF Follows, IsLatest
    <3> QED BY <1>0, <3>1, <3>2, FollowsInsert
  <2> QED BY <2>1, <2>2
<1>10. ASSUME NEW t \in Tx, NEW us \in SUBSET Ins[t], NEW ws \in SUBSET Pays[t],
              UpdateSendOrderPending(t, us, ws)
       PROVE  Follows(k)'
  <2> DEFINE S == {p \in OrdersOf(t) : IsLatest(p, t) /\ order[p].status \in Live}
  <2>1. CASE OrdersOf(t) # {}
    <3>1. /\ order' = Mark(order, S, "pending")
          /\ task' = Mark(task, TasksOf(S), "pending")
          /\ lastOrder' = lastOrder
      BY <1>10, <2>1 DEF UpdateSendOrderPending
    <3>2. Restatus BY <1>1, <3>1
    <3>3. S \subseteq OrderId BY DEF OrdersOf
    <3> HIDE DEF S
    <3>4. CASE k \in TasksOf(S)
      <4>1. o \in S BY <3>4 DEF TasksOf
      <4>4. o \in OrderId BY <3>3, <4>1
      <4>5. o # 0 BY <4>4 DEF OrderId
      <4>2. order'[o].status = "pending" BY <3>1, <4>1, <4>4 DEF Mark, TypeOK
      <4>3. task'[k].status = "pending" /\ task'[k].order = o
        BY <3>1, <3>4 DEF Mark, TypeOK
      <4> QED BY <4>2, <4>3, <4>4, <4>5 DEF Follows
    <3>5. CASE k \notin TasksOf(S)
      <4>1. o \notin S BY <3>5 DEF TasksOf
      <4>2. o \in OrderId => order'[o] = order[o] BY <3>1, <4>1 DEF Mark, TypeOK
      <4>3. task'[k] = task[k] BY <3>1, <3>5 DEF Mark, TypeOK
      <4> QED BY <1>0, <3>2, <4>2, <4>3, FollowsRestatus DEF Follows
    <3> QED BY <3>4, <3>5
  <2>2. CASE OrdersOf(t) = {}
    <3>1. InsertOrder(t, "pending") /\ "pending" \in Live /\ task' = task
      BY <1>10, <2>2 DEF UpdateSendOrderPending, Live
    <3>2. ~ (task[k].status = "init" /\ task[k].txid = t)
      BY <1>0, <2>2 DEF Follows, IsLatest
    <3> QED BY <1>0, <3>1, <3>2, FollowsInsert
  <2> QED BY <2>1, <2>2
<1>11. ASSUME NEW t \in Tx, UpdateSendOrderConfirmed(t) PROVE Follows(k)'
  <2>1. CASE UNCHANGED vars BY <1>2, <2>1 DEF vars
  <2>2. ASSUME NEW p \in OrdersOf(t), order' = Mark(order, {p}, "confirmed"),
               task' = Mark(task, TasksOf({p}), "confirmed"), lastOrder' = lastOrder
        PROVE  Follows(k)'
    <3>1. Restatus BY <1>1, <2>2
    <3>2. p \in OrderId /\ p # 0 BY DEF OrdersOf, OrderId
    <3>3. CASE o = p
      <4>1. order'[o].status = "confirmed" BY <2>2, <3>2, <3>3 DEF Mark, TypeOK
      <4>2. k \in TasksOf({p}) BY <3>3 DEF TasksOf
      <4>3. task'[k].status = "confirmed" /\ task'[k].order = o
        BY <2>2, <4>2 DEF Mark, TypeOK
      <4> QED BY <3>2, <3>3, <4>1, <4>3 DEF Follows, Settled
    <3>4. CASE o # p
      <4>1. k \notin TasksOf({p}) BY <3>4 DEF TasksOf
      <4>2. task'[k] = task[k] BY <2>2, <4>1 DEF Mark, TypeOK
      <4>3. o \in OrderId => order'[o] = order[o] BY <2>2, <3>4 DEF Mark, TypeOK
      <4> QED BY <1>0, <3>1, <4>2, <4>3, FollowsRestatus DEF Follows
    <3> QED BY <3>3, <3>4
  <2>3. ASSUME NEW s, OrdersOf(t) = {}, order' = order, lastOrder' = lastOrder,
               task' = Mark(task, {j \in Task : task[j].txid = t}, s),
               s \in {"confirmed", "processed"}
        PROVE  Follows(k)'
    <3>1. CASE task[k].txid = t
      <4>1. task'[k].order = o /\ task'[k].txid = t /\ task'[k].status = s
        BY <2>3, <3>1 DEF Mark, TypeOK
      <4>2. o # 0 => order[o].txid # t BY <1>0, <2>3 DEF OrdersOf
      <4> QED BY <1>0, <2>3, <4>1, <4>2 DEF Follows
    <3>2. CASE task[k].txid # t
      <4>1. task'[k] = task[k] BY <2>3, <3>2 DEF Mark, TypeOK
      <4> QED BY <1>2, <2>3, <4>1
    <3> QED BY <3>1, <3>2
  <2> QED BY <1>11, <2>1, <2>2, <2>3 DEF UpdateSendOrderConfirmed
<1>12. ASSUME NEW t \in Tx, UpdateWithdrawInitialized(t) PROVE Follows(k)'
  <2> DEFINE S == {p \in OrdersOf(t) : order[p].status \in {"aggregating", "closed"}}
             reopened == {p \in S : IsLatest(p, t)}
             st == [p \in OrderId |-> IF p \in reopened THEN "init" ELSE "closed"]
  <2>1. /\ order' = [p \in OrderId |->
              IF p \in S THEN [order[p] EXCEPT !.status = st[p]] ELSE order[p]]
        /\ lastOrder' = lastOrder /\ task' = task
    BY <1>12 DEF UpdateWithdrawInitialized
  <2>2. Restatus BY <1>1, <2>1
  <2>3. ASSUME o \in OrderId, o \notin S PROVE order'[o] = order[o]
    BY <2>1, <2>3
  <2>4. ASSUME o \in OrderId, o \in reopened PROVE order'[o].status = "init"
    <3>1. o \in S /\ st[o] = "init" BY <2>4
    <3>2. order'[o] = [order[o] EXCEPT !.status = st[o]] BY <2>1, <2>4, <3>1
    <3>3. order[o] \in [txid : Tx \cup {NoTx}, status : OrderStatus \cup {"none"}]
      BY <2>4 DEF TypeOK
    <3> HIDE <2>1 DEF S, reopened, st
    <3> QED BY <3>1, <3>2, <3>3
  <2>5. ASSUME task[k].status = "init" PROVE o \notin S \/ o \in reopened
    <3>1. IsLatest(o, task[k].txid) BY <1>0, <2>5 DEF Follows
    <3>2. o \in OrdersOf(t) => task[k].txid = t BY <3>1 DEF IsLatest, OrdersOf
    <3> QED BY <3>1, <3>2
  <2>6. order[o].status \in {"init", "pending"} => o \notin S
    OBVIOUS
  <2> HIDE DEF S, reopened
  <2>7. ASSUME task[k].status = "init"
        PROVE  order'[o].status \in {"aggregating", "init"}
    <3>1. o \in OrderId /\ order[o].status \in {"aggregating", "init"}
      BY <1>0, <2>7 DEF Follows
    <3> QED BY <2>3, <2>4, <2>5, <2>7, <3>1
  <2>8. ASSUME task[k].status = "pending", o # 0, order[o].txid = task[k].txid
        PROVE  order'[o].status \in {"init", "pending"}
    <3>1. o \in OrderId /\ order[o].status \in {"init", "pending"}
      BY <1>0, <2>8 DEF Follows
    <3> QED BY <2>3, <2>6, <3>1
  <2> QED BY <1>0, <2>1, <2>2, <2>7, <2>8, FollowsRestatus
<1>13. ASSUME NEW t \in Tx, UpdateWithdrawFinalized(t) PROVE Follows(k)'
  <2> DEFINE S == {p \in OrdersOf(t) : order[p].status \in {"init", "pending", "confirmed"}}
  <2>1. CASE UNCHANGED vars BY <1>2, <2>1 DEF vars
  <2>2. CASE ~ UNCHANGED vars
    <3>1. /\ order' = Mark(order, S, "processed")
          /\ task' = Mark(task, {j \in Task : task[j].txid = t}, "processed")
          /\ lastOrder' = lastOrder
      BY <1>13, <2>2 DEF UpdateWithdrawFinalized
    <3>2. Restatus BY <1>1, <3>1
    <3>3. CASE task[k].txid = t
      <4>1. task'[k].order = o /\ task'[k].status = "processed"
        BY <3>1, <3>3 DEF Mark, TypeOK
      <4> QED BY <1>0, <3>2, <4>1, FollowsIdle
    <3>4. CASE task[k].txid # t
      <4>1. task'[k] = task[k] BY <3>1, <3>4 DEF Mark, TypeOK
      <4>2. o \in OrderId /\ order[o].txid = task[k].txid => order'[o] = order[o]
        <5>1. order[o].txid = task[k].txid => o \notin S BY <3>4 DEF OrdersOf
        <5> HIDE DEF S
        <5> QED BY <3>1, <5>1 DEF Mark, TypeOK
      <4>3. task[k].status = "init" => o \in OrderId /\ order[o].txid = task[k].txid
        BY <1>0 DEF Follows, IsLatest, OrdersOf
      <4> QED BY <1>0, <3>2, <4>1, <4>2, <4>3, FollowsRestatus DEF Follows
    <3> QED BY <3>3, <3>4
  <2> QED BY <2>1, <2>2
<1>14. ASSUME NEW p \in OrderId, CloseAggregating(p) PROVE Follows(k)'
  <2>1. /\ order[p].status = "aggregating"
        /\ order' = Mark(order, {p}, "closed")
        /\ task' = Mark(task, TasksOf({p}) \cap TasksIn({"init"}), "received_ok")
        /\ lastOrder' = lastOrder
    BY <1>14 DEF CloseAggregating
  <2>2. Restatus BY <1>1, <2>1
  <2>3. CASE o = p /\ task[k].status = "init"
    <3>1. k \in TasksOf({p}) \cap TasksIn({"init"}) BY <2>3 DEF TasksOf, TasksIn
    <3>2. task'[k].order = o /\ task'[k].status = "received_ok" BY <2>1, <3>1 DEF Mark, TypeOK
    <3> QED BY <1>0, <2>2, <3>2, FollowsIdle
  <2>4. CASE ~ (o = p /\ task[k].status = "init")
    <3>1. task'[k] = task[k]
      <4>1. k \notin TasksOf({p}) \cap TasksIn({"init"}) BY <2>4 DEF TasksOf, TasksIn
      <4> QED BY <2>1, <4>1 DEF Mark, TypeOK
    <3>2. o \in OrderId /\ o # p => order'[o] = order[o] BY <2>1 DEF Mark, TypeOK
    <3> QED BY <1>0, <2>1, <2>2, <2>4, <3>1, <3>2, FollowsRestatus DEF Follows
  <2> QED BY <2>3, <2>4
<1>15. ASSUME CleanProcessingWithdraw PROVE Follows(k)'
  BY <1>2, <1>14, <1>15 DEF CleanProcessingWithdraw, Aggregating
<1>16. ASSUME NEW j \in Task, NEW t \in Tx, UpdateSafeboxTaskInitOK(j, t) PROVE Follows(k)'
  <2> DEFINE S == {p \in OrdersOf(t) : IsLatest(p, t) /\ order[p].status \in Live}
  <2>1. /\ order' = Mark(order, S, "init")
        /\ task' = Assign(task, {j}, task[j].order, t, "init_ok")
        /\ lastOrder' = lastOrder
    BY <1>16 DEF UpdateSafeboxTaskInitOK
  <2>2. CASE k = j
    <3>1. Restatus BY <1>1, <2>1
    <3>2. task'[k] = [status |-> "init_ok", order |-> o, txid |-> t]
      BY <2>1, <2>2 DEF Assign, TypeOK
    <3> QED BY <1>0, <3>1, <3>2, FollowsIdle
  <2>3. CASE k # j
    <3>1. task'[k] = task[k] BY <2>1, <2>3 DEF Assign, TypeOK
    <3> QED BY <1>7, <2>1, <3>1
  <2> QED BY <2>2, <2>3
<1>17. ASSUME NEW j \in Task, SafeboxStep(j) PROVE Follows(k)'
  <2>1. CASE \E t \in Tx : UpdateWithdrawFinalized(t) BY <1>13, <2>1
  <2>2. CASE \E t \in Tx : UpdateSafeboxTaskInitOK(j, t) BY <1>16, <2>2
  <2>3. CASE \E S, s : SetTasks(S, s) /\ s \notin {"init", "pending", "confirmed"}
    BY <1>6, <2>3
  <2> QED
    BY <1>17, <2>1, <2>2, <2>3
    DEF SafeboxStep, CreateSafeboxTask, UpdateSafeboxTaskReceived,
        UpdateSafeboxTaskReceivedOK, UpdateSafeboxTaskProcessed,
        UpdateSafeboxTaskCompleted, UpdateSafeboxTaskCancelled
<1>18. ASSUME NEW t \in Tx, RevertSafeboxTask(t) PROVE Follows(k)'
  BY <1>6, <1>18 DEF RevertSafeboxTask
<1>19. ASSUME NEW t \in Tx, UpdateSendOrderInitlized(t) PROVE Follows(k)'
  BY <1>7, <1>19 DEF UpdateSendOrderInitlized
<1> QED
  BY <1>2, <1>8, <1>9, <1>10, <1>11, <1>12, <1>13, <1>14, <1>15, <1>17, <1>18, <1>19
  DEF Next, vars, orderVars, CleanProcessingWithdrawByOrderId, CreateWithdrawal,
      UpdateWithdrawCanceling, UpdateWithdrawCanceled, AddUtxo, AddDepositResult,
      UpdateUtxoStatusProcessed, UpdateUtxoStatusSpentByVins

-----------------------------------------------------------------------------
(* The inductive invariant: each property needs the typing and the insertion *)
(* order of rows; reservations also need spent inputs.                       *)
IInv ==
  /\ TypeOK
  /\ RowsInserted
  /\ SettledInputsSpent
  /\ NoLeakedReservation
  /\ WithdrawNamesItsOrder
  /\ TasksFollow

LEMMA InitIInv == Init => IInv
<1> SUFFICES ASSUME Init PROVE IInv
  OBVIOUS
<1>1. TypeOK
  <2>0. 0 \in 0 .. MaxOrder OBVIOUS
  <2>1. withdraw \in [Withdraw -> [status : WithdrawStatus \cup {"none"},
                                   order : 0 .. MaxOrder, txid : Tx \cup {NoTx}]]
    BY <2>0 DEF Init, NoRow
  <2>2. task \in [Task -> [status : TaskStatus \cup {"none"}, order : 0 .. MaxOrder,
                           txid : Tx \cup {NoTx}]]
    BY <2>0 DEF Init, NoRow
  <2>3. /\ lastOrder \in 0 .. MaxOrder
        /\ order \in [OrderId -> [txid : Tx \cup {NoTx}, status : OrderStatus \cup {"none"}]]
        /\ vin \in [OrderId -> [Utxo -> OrderStatus \cup {"none"}]]
        /\ vout \in [OrderId -> OrderStatus \cup {"none"}]
    BY <2>0 DEF Init
  <2>4. utxo \in [Utxo -> UtxoStatus \cup {"none"}] /\ depositResult \in SUBSET Utxo
    BY DEF Init
  <2> QED BY <2>1, <2>2, <2>3, <2>4 DEF TypeOK
<1>2. RowsInserted BY DEF Init, RowsInserted, OrderId
<1>3. SettledInputsSpent BY DEF Init, SettledInputsSpent, Settled
<1>4. NoLeakedReservation BY DEF Init, NoLeakedReservation
<1>5. WithdrawNamesItsOrder BY DEF Init, WithdrawNamesItsOrder, NoRow
<1>6. TasksFollow BY DEF Init, TasksFollow, Follows, NoRow
<1> QED BY <1>1, <1>2, <1>3, <1>4, <1>5, <1>6 DEF IInv

LEMMA NextIInv == IInv /\ [Next]_vars => IInv'
BY TypeStep, RowsStep, SettledStep, ReservationStep, WithdrawStep, TaskStep DEF IInv

LEMMA Invariant == Spec => []IInv
BY InitIInv, NextIInv, PTL DEF Spec

(* The tables keep their types, whatever the sets of transactions and rows.  *)
THEOREM TypeCorrect == Spec => []TypeOK
BY Invariant, PTL DEF IInv

(* A confirmed or processed order has spent its inputs: UpdateSendOrder-      *)
(* Confirmed and UpdateWithdrawFinalized consume them in the transaction that *)
(* settles the order, and nothing un-spends a utxo.                           *)
THEOREM SettledSpends == Spec => []SettledInputsSpent
BY Invariant, PTL DEF IInv

(* A reserved utxo belongs to an order that is still live: the clean-up of    *)
(* aggregating orders and the closing of superseded ones leak no utxo.        *)
THEOREM ReservationsAreOwned == Spec => []NoLeakedReservation
BY Invariant, PTL DEF IInv

(* A withdrawal row with an order id names an order of its own transaction,   *)
(* which pays it.                                                             *)
THEOREM WithdrawalsNameTheirOrder == Spec => []WithdrawNamesItsOrder
BY Invariant, PTL DEF IInv

(* A safebox task is never left waiting for an order that is closed.          *)
THEOREM TasksFollowOrders == Spec => []TaskFollowsOrder
BY Invariant, FollowsImplies, PTL DEF IInv

(* A spent utxo never becomes selectable again.                               *)
THEOREM SpentForever == Spec => SpentIsFinal
<1>1. IInv /\ [Next]_vars => [\A u \in Utxo : utxo[u] = "spent" => utxo'[u] = "spent"]_vars
  BY SpentStep DEF IInv
<1> QED BY <1>1, Invariant, PTL DEF Spec, SpentIsFinal

(* A settled order keeps its transaction and only moves to processed.         *)
THEOREM SettledForever == Spec => SettledIsFinal
<1> DEFINE A == \A o \in OrderId : order[o].status \in Settled =>
                  /\ order'[o].txid = order[o].txid
                  /\ order'[o].status \in {order[o].status, "processed"}
<1>1. IInv /\ [Next]_vars => [A]_vars
  <2> SUFFICES ASSUME TypeOK, RowsInserted, [Next]_vars,
                      NEW o \in OrderId, order[o].status \in Settled
               PROVE  /\ order'[o].txid = order[o].txid
                      /\ order'[o].status \in {order[o].status, "processed"}
    BY DEF IInv
  <2>1. CASE Restatus BY <2>1 DEF Restatus
  <2>2. CASE Insertion
    <3>1. PICK t \in Tx, s \in Live : InsertOrder(t, s) BY <2>2 DEF Insertion
    <3>2. lastOrder < lastOrder + 1 /\ lastOrder + 1 \in OrderId
      BY <3>1 DEF InsertOrder, TypeOK, OrderId
    <3>3. o # lastOrder + 1 BY <3>2 DEF RowsInserted, Settled
    <3>4. order'[o] = order[o] BY <3>1, <3>3 DEF InsertOrder, TypeOK
    <3> QED BY <3>4
  <2> QED BY <2>1, <2>2, OrderTableStep
<1> QED BY <1>1, Invariant, PTL DEF Spec, SettledIsFinal

=============================================================================
