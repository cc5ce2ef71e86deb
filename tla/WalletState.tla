----------------------------- MODULE WalletState -----------------------------
(***************************************************************************)
(* The wallet database of one relayer: send orders with their vins and     *)
(* vouts, utxos, withdrawals and safebox tasks (internal/state:            *)
(* withdraw.go, wallet.go, safebox.go, the safebox part of deposit.go).    *)
(*                                                                         *)
(* Every exported writer of State holds walletMu and runs one database     *)
(* transaction, so each is one action.  A writer that returns nil without  *)
(* writing is an UNCHANGED disjunct; a writer that returns an error rolls  *)
(* back, so it has no step at all.  The callers (layer 2 listener, bitcoin *)
(* block processor, wallet loop, broadcaster, p2p messages) run in         *)
(* goroutines of their own, so Next lets the writers interleave freely.    *)
(*                                                                         *)
(* A bitcoin transaction is static: Ins gives the utxos it spends, Outs    *)
(* the utxos it creates for the relayers, Pays the withdrawals it pays,    *)
(* Secures the safebox tasks it opens.  Amounts, prices, scripts, proposal *)
(* ids and block heights are left out: no transition depends on them.      *)
(***************************************************************************)
EXTENDS Integers, FiniteSets

CONSTANTS
  Tx, NoTx,      \* bitcoin transactions built by relayers; "no transaction"
  Utxo,          \* outputs the relayers own or will own
  Withdraw,      \* withdrawal request ids
  Task,          \* safebox task ids
  Ins, Outs,     \* [Tx -> SUBSET Utxo]
  Pays,          \* [Tx -> SUBSET Withdraw]
  Secures,       \* [Tx -> SUBSET Task]
  MaxOrder       \* bound: rows of the send order table

ASSUME NoTxAssumption == NoTx \notin Tx
ASSUME TxAssumption ==
  /\ Ins \in [Tx -> SUBSET Utxo]
  /\ Outs \in [Tx -> SUBSET Utxo]
  /\ Pays \in [Tx -> SUBSET Withdraw]
  /\ Secures \in [Tx -> SUBSET Task]
ASSUME MaxOrderAssumption == MaxOrder \in Nat

OrderId == 1 .. MaxOrder    \* primary keys of send_order, in insertion order

OrderStatus == {"aggregating", "init", "pending", "confirmed", "processed", "closed"}
UtxoStatus == {"confirmed", "processed", "pending", "spent"}
WithdrawStatus == OrderStatus \cup {"create", "canceling"}
TaskStatus == {"create", "received", "received_ok", "init", "init_ok", "pending",
               "confirmed", "processed", "completed", "closed"}

VARIABLES
  lastOrder,   \* id of the last inserted send order, 0 when there is none
  order,       \* [OrderId -> txid and status]; status "none": no such row
  vin,         \* [OrderId -> [Utxo -> status of that order's vin row]]
  vout,        \* [OrderId -> status of that order's vout rows, always equal]
  utxo,        \* [Utxo -> status]; "none": no row yet
  depositResult, \* utxos with a deposit_result row (minted on layer 2)
  withdraw,    \* [Withdraw -> status, order id and txid]
  task         \* [Task -> status, order id and timelock txid]

vars == <<lastOrder, order, vin, vout, utxo, depositResult, withdraw, task>>
orderVars == <<lastOrder, order, vin, vout>>

-----------------------------------------------------------------------------
(* Queries *)

\* (bug) every order but a closed one counts as live
LiveUnlessClosed == {"aggregating", "init", "pending", "confirmed", "processed"}

Live == {"aggregating", "init", "pending"}
Settled == {"confirmed", "processed"}
Spendable == {"confirmed", "processed"}     \* utxo status, GetUtxoCanSpend

OrdersOf(t) == {o \in OrderId : order[o].txid = t}

\* getOrderByTxid: ORDER BY id DESC, first row
IsLatest(o, t) == o \in OrdersOf(t) /\ \A p \in OrdersOf(t) : p <= o

InputsStored(t) == \A u \in Ins[t] : utxo[u] # "none"

WithdrawsOf(S) == {w \in Withdraw : withdraw[w].order \in S}
WithdrawsIn(statuses) == {w \in Withdraw : withdraw[w].status \in statuses}
TasksOf(S) == {k \in Task : task[k].order \in S}
TasksIn(statuses) == {k \in Task : task[k].status \in statuses}

(* Updates: UPDATE table SET status = s WHERE the row is in S *)

Mark(rows, S, s) ==
  [r \in DOMAIN rows |-> IF r \in S THEN [rows[r] EXCEPT !.status = s] ELSE rows[r]]

\* (bug) the row keeps its old txid
AssignOrderOnly(rows, S, o, t, s) ==
  [r \in DOMAIN rows |-> IF r \in S THEN [rows[r] EXCEPT !.status = s, !.order = o]
                                    ELSE rows[r]]

Assign(rows, S, o, t, s) ==
  [r \in DOMAIN rows |-> IF r \in S THEN [status |-> s, order |-> o, txid |-> t]
                                    ELSE rows[r]]

MarkUtxos(S, s) == [u \in Utxo |-> IF u \in S THEN s ELSE utxo[u]]

\* the vin and vout rows of the orders in S take the status f[o]
MarkVins(S, f) ==
  [o \in OrderId |-> [u \in Utxo |->
     IF o \in S /\ vin[o][u] # "none" THEN f[o] ELSE vin[o][u]]]
MarkVouts(S, f) == [o \in OrderId |-> IF o \in S THEN f[o] ELSE vout[o]]
All(s) == [o \in OrderId |-> s]

\* vin rows are matched by the txid they spend from, not by the order's txid
MarkVinsSpending(vins, t, s) ==
  [o \in OrderId |-> [u \in Utxo |->
     IF u \in Outs[t] /\ vins[o][u] # "none" THEN s ELSE vins[o][u]]]

\* INSERT a send order with its vins and vouts
InsertOrder(t, s) ==
  LET o == lastOrder + 1 IN
  /\ lastOrder < MaxOrder
  /\ lastOrder' = o
  /\ order' = [order EXCEPT ![o] = [txid |-> t, status |-> s]]
  /\ vin' = [vin EXCEPT ![o] = [u \in Utxo |-> IF u \in Ins[t] THEN s ELSE "none"]]
  /\ vout' = [vout EXCEPT ![o] = s]

-----------------------------------------------------------------------------
NoRow == [status |-> "none", order |-> 0, txid |-> NoTx]

Init ==
  /\ lastOrder = 0
  /\ order = [o \in OrderId |-> [txid |-> NoTx, status |-> "none"]]
  /\ vin = [o \in OrderId |-> [u \in Utxo |-> "none"]]
  /\ vout = [o \in OrderId |-> "none"]
  /\ utxo = [u \in Utxo |-> "none"]
  /\ depositResult = {}
  /\ withdraw = [w \in Withdraw |-> NoRow]
  /\ task = [k \in Task |-> NoRow]

-----------------------------------------------------------------------------
(* Withdrawal requests, from layer 2 events *)

CreateWithdrawal(w) ==
  /\ withdraw' = IF withdraw[w].status = "none"
                 THEN Mark(withdraw, {w}, "create") ELSE withdraw
  /\ UNCHANGED <<orderVars, utxo, depositResult, task>>

UpdateWithdrawCanceling(w) ==
  /\ withdraw[w].status # "none"
  /\ withdraw' = Mark(withdraw, {w} \cap WithdrawsIn({"create", "aggregating"}), "canceling")
  /\ UNCHANGED <<orderVars, utxo, depositResult, task>>

\* also CloseWithdrawByRequestId (dust limit): any stored row is closed
UpdateWithdrawCanceled(w) ==
  /\ withdraw' = Mark(withdraw, {w} \ WithdrawsIn({"none"}), "closed")
  /\ UNCHANGED <<orderVars, utxo, depositResult, task>>

-----------------------------------------------------------------------------
(* Building a send order: the proposer, or a voter that received it *)

MayJoin(isProposer, fresh, taken) == IF isProposer THEN {fresh} ELSE {fresh, taken}

CreateSendOrder(t, isProposer) ==
  /\ \A u \in Ins[t] : utxo[u] \in Spendable
  /\ \A w \in Pays[t] : withdraw[w].status \in MayJoin(isProposer, "create", "aggregating")
  /\ \A k \in Secures[t] : task[k].status \in MayJoin(isProposer, "received_ok", "init")
  /\ InsertOrder(t, "aggregating")
  /\ utxo' = MarkUtxos(Ins[t], "pending")
  /\ withdraw' = Assign(withdraw, Pays[t], lastOrder + 1, t, "aggregating")
  /\ task' = Assign(task, Secures[t], lastOrder + 1, t, "init")
  /\ UNCHANGED depositResult

\* layer 2 accepted MsgProcessWithdrawalV2 for t
RecoverSendOrder(t) ==
  \/ /\ \E o \in OrdersOf(t) : order[o].status \in {"init", "aggregating"}
     /\ UNCHANGED vars
  \/ /\ \A o \in OrdersOf(t) : order[o].status \notin {"init", "aggregating"}
     /\ InsertOrder(t, "init")
     /\ withdraw' = Assign(withdraw, Pays[t] \cap WithdrawsIn({"create", "aggregating"}),
                           lastOrder + 1, t, "init")
     /\ utxo' = MarkUtxos({u \in Ins[t] : utxo[u] \in Spendable}, "pending")
     /\ UNCHANGED <<depositResult, task>>

-----------------------------------------------------------------------------
(* Progress of an order *)

\* the transaction was not found on bitcoin: broadcast it again
UpdateSendOrderInitlized(t) ==
  LET S == {o \in OrdersOf(t) : IsLatest(o, t) /\ order[o].status \in Live} IN
  /\ order' = Mark(order, S, "init")
  /\ vin' = MarkVins(S, All("init"))
  /\ vout' = MarkVouts(S, All("init"))
  /\ UNCHANGED <<lastOrder, utxo, depositResult, withdraw, task>>

\* broadcast by this relayer (us = ws = {}), or told so by the proposer's
\* message, which carries the utxos and withdrawals of the order
UpdateSendOrderPending(t, us, ws) ==
  \/ LET S == {o \in OrdersOf(t) : IsLatest(o, t) /\ order[o].status \in Live} IN
     /\ OrdersOf(t) # {}
     /\ order' = Mark(order, S, "pending")
     /\ vin' = MarkVins(S, All("pending"))
     /\ vout' = MarkVouts(S, All("pending"))
     /\ withdraw' = Mark(withdraw, WithdrawsOf(S), "pending")
     /\ task' = Mark(task, TasksOf(S), "pending")
     /\ UNCHANGED <<lastOrder, utxo, depositResult>>
  \/ /\ OrdersOf(t) = {}
     /\ us # {}
     /\ \A u \in us : utxo[u] \in Spendable
     /\ \A w \in ws : withdraw[w].status \in {"create", "aggregating"}
     /\ InsertOrder(t, "pending")
     /\ utxo' = MarkUtxos(us, "pending")
     /\ withdraw' = Assign(withdraw, ws, lastOrder + 1, t, "pending")
     /\ UNCHANGED <<depositResult, task>>

\* enough confirmations, or the transaction is in a confirmed bitcoin block
UpdateSendOrderConfirmed(t) ==
  \/ \E o \in OrdersOf(t) :
       /\ IsLatest(o, t)
       /\ order[o].status \in Live
       /\ InputsStored(t)
       /\ order' = Mark(order, {o}, "confirmed")
       /\ vin' = MarkVins({o}, All("confirmed"))
       /\ vout' = MarkVouts({o}, All("confirmed"))
       /\ withdraw' = Mark(withdraw, WithdrawsOf({o}), "confirmed")
       /\ task' = Mark(task, TasksOf({o}), "confirmed")
       /\ utxo' = MarkUtxos(Ins[t], "spent")
       /\ UNCHANGED <<lastOrder, depositResult>>
  \/ /\ \E o \in OrdersOf(t) : IsLatest(o, t) /\ order[o].status \notin Live
     /\ UNCHANGED vars
  \/ LET W == {w \in Withdraw : withdraw[w].txid = t}
         s == IF \E w \in W : withdraw[w].status = "processed"
              THEN "processed" ELSE "confirmed" IN
     /\ OrdersOf(t) = {}
     /\ withdraw' = Mark(withdraw, W, s)
     /\ task' = Mark(task, {k \in Task : task[k].txid = t}, s)
     /\ vin' = MarkVinsSpending(vin, t, s)
     /\ UNCHANGED <<lastOrder, order, vout, utxo, depositResult>>

\* (bug) reserves inputs although no order was reopened
InitializedReservesAnyway(t) ==
  /\ utxo' = MarkUtxos({u \in Ins[t] : utxo[u] \in Spendable}, "pending")
  /\ UNCHANGED <<orderVars, depositResult, withdraw, task>>

\* layer 2 event: the relayer group's order for t was accepted
UpdateWithdrawInitialized(t) ==
  LET S == {o \in OrdersOf(t) : order[o].status \in {"aggregating", "closed"}}
      reopened == {o \in S : IsLatest(o, t)}
      st == [o \in OrderId |-> IF o \in reopened THEN "init" ELSE "closed"] IN
  /\ reopened # {} => InputsStored(t)
  /\ order' = [o \in OrderId |->
       IF o \in S THEN [order[o] EXCEPT !.status = st[o]] ELSE order[o]]
  /\ vin' = MarkVins(S, st)
  /\ vout' = MarkVouts(S, st)
  /\ withdraw' = Mark(withdraw,
       WithdrawsOf(S) \cap WithdrawsIn({"create", "aggregating", "closed"}), "init")
  /\ utxo' = IF reopened = {} THEN utxo
             ELSE MarkUtxos({u \in Ins[t] : utxo[u] \in Spendable}, "pending")
  /\ UNCHANGED <<lastOrder, depositResult, task>>

\* (bug) skips inputs without a row instead of waiting for them
FinalizedSkipsMissing(t) ==
  LET S == {o \in OrdersOf(t) : order[o].status \in {"init", "pending", "confirmed"}} IN
  /\ order' = Mark(order, S, "processed")
  /\ withdraw' = Mark(withdraw, WithdrawsOf(S), "processed")
  /\ utxo' = MarkUtxos({u \in Ins[t] : S # {} /\ utxo[u] # "none"}, "spent")
  /\ UNCHANGED <<lastOrder, vin, vout, depositResult, task>>

\* layer 2 event: the payment t is final
UpdateWithdrawFinalized(t) ==
  LET S == {o \in OrdersOf(t) : order[o].status \in {"init", "pending", "confirmed"}} IN
  \/ OrdersOf(t) = {} /\ UNCHANGED vars
  \/ /\ OrdersOf(t) # {}
     /\ S # {} => InputsStored(t)
     /\ order' = Mark(order, S, "processed")
     /\ vin' = MarkVinsSpending(MarkVins(S, All("processed")), t, "processed")
     /\ vout' = MarkVouts(OrdersOf(t), All("processed"))
     /\ withdraw' = Mark(withdraw,
          WithdrawsOf(OrdersOf(t)) \cup {w \in Withdraw : withdraw[w].txid = t}, "processed")
     /\ task' = Mark(task, {k \in Task : task[k].txid = t}, "processed")
     /\ utxo' = IF S = {} THEN utxo ELSE MarkUtxos(Ins[t], "spent")
     /\ UNCHANGED <<lastOrder, depositResult>>

-----------------------------------------------------------------------------
(* Giving up on orders that are still aggregating *)

\* (bug) closes the order and forgets what it holds
CloseOrderOnly(o) ==
  /\ order[o].status = "aggregating"
  /\ order' = Mark(order, {o}, "closed")
  /\ UNCHANGED <<lastOrder, vin, vout, utxo, depositResult, withdraw, task>>

CloseAggregating(o) ==
  /\ order[o].status = "aggregating"
  /\ order' = Mark(order, {o}, "closed")
  /\ vin' = MarkVins({o}, All("closed"))
  /\ vout' = MarkVouts({o}, All("closed"))
  /\ utxo' = MarkUtxos({u \in Ins[order[o].txid] : utxo[u] = "pending"}, "processed")
  /\ withdraw' = Mark(withdraw, WithdrawsOf({o}) \cap WithdrawsIn({"aggregating"}), "create")
  /\ task' = Mark(task, TasksOf({o}) \cap TasksIn({"init"}), "received_ok")
  /\ UNCHANGED <<lastOrder, depositResult>>

\* exported but not called yet: the wallet loop cleans all at once
CleanProcessingWithdrawByOrderId(o) == CloseAggregating(o)

Aggregating == {o \in OrderId : order[o].status = "aggregating"}

\* (bug) takes accepted withdrawals back as well
CleanTakesInit ==
  /\ Aggregating = {}
  /\ withdraw' = Mark(withdraw, WithdrawsIn({"aggregating", "init"}), "create")
  /\ UNCHANGED <<orderVars, utxo, depositResult, task>>

\* the loop over the aggregating orders returns in its first iteration
CleanProcessingWithdraw ==
  \/ \E o \in Aggregating :
       /\ \A p \in Aggregating : o <= p
       /\ CloseAggregating(o)
  \/ /\ Aggregating = {}
     /\ withdraw' = Mark(withdraw, WithdrawsIn({"aggregating"}), "create")
     /\ vin' = [o \in OrderId |-> [u \in Utxo |->
                  IF vin[o][u] = "aggregating" THEN "closed" ELSE vin[o][u]]]
     /\ vout' = [o \in OrderId |-> IF vout[o] = "aggregating" THEN "closed" ELSE vout[o]]
     /\ UNCHANGED <<lastOrder, order, utxo, depositResult, task>>

-----------------------------------------------------------------------------
(* Utxos: found in bitcoin blocks, or fetched for a layer 2 deposit *)

\* (bug) a status the other queries do not know
AddUtxoUnconfirmed(u, found) ==
  /\ utxo' = MarkUtxos({u}, IF utxo[u] = "none" THEN "unconfirm" ELSE utxo[u])
  /\ UNCHANGED <<orderVars, depositResult, withdraw, task>>

\* (bug) a rescan overwrites the row
AddUtxoOverwrites(u, found) ==
  /\ utxo' = MarkUtxos({u}, found)
  /\ UNCHANGED <<orderVars, depositResult, withdraw, task>>

AddUtxo(u, found) ==
  LET s == IF utxo[u] = "none" THEN found ELSE utxo[u] IN
  /\ utxo' = MarkUtxos({u}, IF s = "confirmed" /\ u \in depositResult
                            THEN "processed" ELSE s)
  /\ UNCHANGED <<orderVars, depositResult, withdraw, task>>

AddDepositResult(u) ==
  /\ utxo' = MarkUtxos({u} \cap {v \in Utxo : utxo[v] = "confirmed"}, "processed")
  /\ depositResult' = depositResult \cup {u}
  /\ UNCHANGED <<orderVars, withdraw, task>>

\* (bug) no check of the status found
ProcessedUnchecked(u) ==
  /\ utxo[u] # "none"
  /\ utxo' = MarkUtxos({u}, "processed")
  /\ UNCHANGED <<orderVars, depositResult, withdraw, task>>

UpdateUtxoStatusProcessed(u) ==
  /\ utxo[u] \in Spendable
  /\ utxo' = MarkUtxos({u}, "processed")
  /\ UNCHANGED <<orderVars, depositResult, withdraw, task>>

\* UpdateUtxoStatusSpent, for each vin that has a utxo row
UpdateUtxoStatusSpentByVins(us) ==
  /\ utxo' = MarkUtxos({u \in us : utxo[u] # "none"}, "spent")
  /\ UNCHANGED <<orderVars, depositResult, withdraw, task>>

-----------------------------------------------------------------------------
(* Safebox tasks: contract events, and the end of a signature round *)

SetTasks(S, s) ==
  /\ task' = Mark(task, S, s)
  /\ UNCHANGED <<orderVars, utxo, depositResult, withdraw>>

\* task ids and deposit addresses are not used twice
CreateSafeboxTask(k) == task[k].status = "none" /\ SetTasks({k}, "create")

\* a deposit: of another amount, in time, or after the deadline
UpdateSafeboxTaskReceived(k) ==
  \E s \in {"create", "received", "closed"} : SetTasks({k} \cap TasksIn({"create"}), s)

UpdateSafeboxTaskReceivedOK(k) ==
  task[k].status \in {"create", "received"} /\ SetTasks({k}, "received_ok")

\* the contract names t as the timelock transaction; the task keeps its order
UpdateSafeboxTaskInitOK(k, t) ==
  LET S == {o \in OrdersOf(t) : IsLatest(o, t) /\ order[o].status \in Live} IN
  /\ task[k].status \in {"create", "received", "received_ok", "init"}
  /\ task' = Assign(task, {k}, task[k].order, t, "init_ok")
  /\ order' = Mark(order, S, "init")
  /\ vin' = MarkVins(S, All("init"))
  /\ vout' = MarkVouts(S, All("init"))
  /\ UNCHANGED <<lastOrder, utxo, depositResult, withdraw>>

\* the timelock transaction is final: as for a withdrawal
UpdateSafeboxTaskProcessed(k) ==
  \E t \in Tx :
    /\ task[k].txid = t
    /\ task[k].status \in {"confirmed", "init_ok"}
    /\ \/ OrdersOf(t) = {} /\ SetTasks({k}, "processed")
       \/ OrdersOf(t) # {} /\ UpdateWithdrawFinalized(t)

UpdateSafeboxTaskCompleted(k) ==
  task[k].status = "processed" /\ SetTasks({k}, "completed")

UpdateSafeboxTaskCancelled(k) ==
  SetTasks({k} \ TasksIn({"none", "processed", "completed", "closed"}), "closed")

\* signing the order of t failed
RevertSafeboxTask(t) ==
  \E k \in TasksIn({"init"}) : task[k].txid = t /\ SetTasks({k}, "received_ok")

SafeboxStep(k) ==
  \/ CreateSafeboxTask(k) \/ UpdateSafeboxTaskReceived(k)
  \/ UpdateSafeboxTaskReceivedOK(k) \/ UpdateSafeboxTaskProcessed(k)
  \/ UpdateSafeboxTaskCompleted(k) \/ UpdateSafeboxTaskCancelled(k)
  \/ \E t \in Tx : k \in Secures[t] /\ UpdateSafeboxTaskInitOK(k, t)

-----------------------------------------------------------------------------
Next ==
  \/ \E w \in Withdraw :
       CreateWithdrawal(w) \/ UpdateWithdrawCanceling(w) \/ UpdateWithdrawCanceled(w)
  \/ \E t \in Tx, isProposer \in BOOLEAN : CreateSendOrder(t, isProposer)
  \/ \E t \in Tx :
       \/ RecoverSendOrder(t) \/ UpdateSendOrderInitlized(t)
       \/ UpdateSendOrderConfirmed(t)
       \/ UpdateWithdrawInitialized(t) \/ UpdateWithdrawFinalized(t)
       \/ UpdateUtxoStatusSpentByVins(Ins[t]) \/ RevertSafeboxTask(t)
  \/ \E t \in Tx : \E us \in SUBSET Ins[t], ws \in SUBSET Pays[t] :
       UpdateSendOrderPending(t, us, ws)
  \/ \E o \in OrderId : CleanProcessingWithdrawByOrderId(o)
  \/ CleanProcessingWithdraw
  \/ \E u \in Utxo, found \in Spendable : AddUtxo(u, found)
  \/ \E u \in Utxo : AddDepositResult(u) \/ UpdateUtxoStatusProcessed(u)
  \/ \E k \in Task : SafeboxStep(k)

Spec == Init /\ [][Next]_vars

-----------------------------------------------------------------------------
(* Type invariant of the tables. *)
TypeOK ==
  /\ lastOrder \in 0 .. MaxOrder
  /\ order \in [OrderId -> [txid : Tx \cup {NoTx}, status : OrderStatus \cup {"none"}]]
  /\ vin \in [OrderId -> [Utxo -> OrderStatus \cup {"none"}]]
  /\ vout \in [OrderId -> OrderStatus \cup {"none"}]
  /\ utxo \in [Utxo -> UtxoStatus \cup {"none"}]
  /\ depositResult \in SUBSET Utxo
  /\ withdraw \in [Withdraw -> [status : WithdrawStatus \cup {"none"},
                                order : 0 .. MaxOrder, txid : Tx \cup {NoTx}]]
  /\ task \in [Task -> [status : TaskStatus \cup {"none"}, order : 0 .. MaxOrder,
                        txid : Tx \cup {NoTx}]]

(* An order that is confirmed or processed has consumed its inputs: none of  *)
(* them can be selected for another order, whatever order the bitcoin block  *)
(* processor, the pending check and the layer 2 listener reported it in.     *)
SettledInputsSpent ==
  \A o \in OrderId : order[o].status \in Settled =>
    \A u \in Ins[order[o].txid] : utxo[u] = "spent"

(* No utxo is stuck: one that is reserved (pending) is an input of an order  *)
(* that can still be closed, broadcast or confirmed.  Closing an order gives *)
(* back exactly what would otherwise be lost.                                *)
NoLeakedReservation ==
  \A u \in Utxo : utxo[u] = "pending" =>
    \E o \in OrderId : order[o].status \in Live /\ u \in Ins[order[o].txid]

(* A withdrawal row points at an order row that carries the same transaction *)
(* and pays it: updates by order id and updates by txid reach the same rows. *)
WithdrawNamesItsOrder ==
  \A w \in Withdraw : withdraw[w].order # 0 =>
    /\ withdraw[w].order \in OrderId
    /\ order[withdraw[w].order].txid = withdraw[w].txid
    /\ withdraw[w].txid \in Tx
    /\ w \in Pays[withdraw[w].txid]

(* A safebox task never waits for an order that is dead: while the timelock  *)
(* transaction of its order is being signed or sent the order can still      *)
(* deliver it, and once the task is confirmed that order is.                 *)
TaskFollowsOrder ==
  \A k \in Task, o \in OrderId :
    task[k].order = o /\ task[k].txid = order[o].txid =>
      /\ task[k].status = "init" => order[o].status \in Live
      /\ task[k].status = "pending" => order[o].status \in {"init", "pending"}
      /\ task[k].status = "confirmed" => order[o].status \in Settled

(* A spent utxo stays spent: no late event, replayed block or clean-up makes *)
(* it selectable again.                                                      *)
SpentIsFinal ==
  [][\A u \in Utxo : utxo[u] = "spent" => utxo'[u] = "spent"]_vars

(* A confirmed order only becomes processed, a processed order stays so, and *)
(* neither ever turns into another transaction.                              *)
SettledIsFinal ==
  [][\A o \in OrderId : order[o].status \in Settled =>
       /\ order'[o].txid = order[o].txid
       /\ order'[o].status \in {order[o].status, "processed"}]_vars
=============================================================================
