------------------------- MODULE SafeboxFlow_proofs -------------------------
(***************************************************************************)
(* RecordedBeforeSent, RowsFollowContract and RecordedForward for every    *)
(* group of relayers, every set of tasks and transactions, and any number  *)
(* of calls, orders and faults.                                            *)
(*                                                                         *)
(* A relayer sends a timelock transaction whose order is in status init.   *)
(* That status follows from the contract's event (LogRecorded) or from a   *)
(* transaction that is on bitcoin already (NoticesSent), so every order    *)
(* past it is recorded (OrdersRecorded).  The contract keeps what it       *)
(* recorded because it names a transaction only once it is initialized     *)
(* (NamedLate) and the calls it executes are about tasks (CallsKnown).     *)
(*                                                                         *)
(* The second half is about the rows: RowInv, and RowMove, the few things  *)
(* a step may do to a row.                                                 *)
(***************************************************************************)
EXTENDS SafeboxFlow, TLAPS

RecordedTxs == {contract[k].tx : k \in Task}

NamedLate ==
  /\ contract = [k \in Task |-> contract[k]]
  /\ \A k \in Task :
       contract[k].status \in {"none", "created", "deposited", "received", "cancelled"} =>
         contract[k].tx = NoTx

LogRecorded ==
  /\ \E S : log \in Seq(S)
  /\ \A i \in DOMAIN log :
       log[i].event = "TimelockInitialized" /\ log[i].tx \in Timelock => log[i].tx \in RecordedTxs

Reading == cursor \in [Relayer -> Nat]

OrdersBuilt ==
  /\ \E S : built \in Seq(S)
  /\ Len(built) <= MaxOrder
  /\ \A o \in DOMAIN built : built[o].task \in Task /\ built[o].tx \in Timelock

Sessions == [on : BOOLEAN, call : Call \cup {NoCall}, hasTx : BOOLEAN, signed : BOOLEAN,
             expired : BOOLEAN]
Places == [at : {"idle", "query", "start", "apply"}, call : Call \cup {NoCall}]
Submissions == [order : Nat, call : Call \cup {NoCall}, hasTx : BOOLEAN, sent : BOOLEAN]

CallsKnown ==
  /\ pool \subseteq Call
  /\ \A m \in net : m.order \in Nat /\ m.call \in Call
  /\ tss \in [Relayer -> Sessions]
  /\ pc \in [Relayer -> Places]
  /\ loop \in [Relayer -> Submissions]
  /\ \A r \in Relayer : loop[r].order # 0 => loop[r].call \in Call
  /\ asked \in [Relayer -> Nat]
  /\ \A r \in Relayer : asked[r] # 0 => asked[r] \in DOMAIN built

Past == {"init", "pending", "confirmed", "processed"}
Statuses == Past \cup {"none", "aggregating", "closed"}

OrdersRecorded ==
  /\ order \in [Relayer -> [OrderId -> Statuses]]
  /\ \A r \in Relayer : \A o \in OrderId :
       order[r][o] \in Past => o \in DOMAIN built /\ built[o].tx \in RecordedTxs

NoticesSent == \A n \in notices : n[2] \in DOMAIN built /\ built[n[2]].tx \in sent

SentInv == sent \subseteq Timelock /\ RecordedBeforeSent

IInv ==
  /\ NamedLate /\ LogRecorded /\ Reading /\ OrdersBuilt /\ CallsKnown
  /\ OrdersRecorded /\ NoticesSent /\ SentInv

-----------------------------------------------------------------------------
LEMMA Appended ==
  ASSUME NEW S, NEW s \in Seq(S), NEW e
  PROVE  /\ Append(s, e) \in Seq(S \cup {e})
         /\ DOMAIN s = 1 .. Len(s) /\ Len(s) \in Nat
         /\ Len(Append(s, e)) = Len(s) + 1
         /\ DOMAIN Append(s, e) = 1 .. (Len(s) + 1)
         /\ \A i \in 1 .. Len(s) : Append(s, e)[i] = s[i]
         /\ Append(s, e)[Len(s) + 1] = e
<1> DEFINE T == S \cup {e}
<1>1. s \in Seq(T) /\ e \in T
  OBVIOUS
<1> HIDE DEF T
<1>2. /\ Append(s, e) \in Seq(T) /\ Len(Append(s, e)) = Len(s) + 1
      /\ \A i \in 1 .. Len(s) : Append(s, e)[i] = s[i]
      /\ Append(s, e)[Len(s) + 1] = e
  BY <1>1
<1>3. DOMAIN s = 1 .. Len(s) /\ Len(s) \in Nat
  BY <1>1
<1>4. DOMAIN Append(s, e) = 1 .. (Len(s) + 1)
  BY <1>2
<1> QED BY <1>2, <1>3, <1>4 DEF T

LEMMA InitInv == Init => IInv
<1> SUFFICES ASSUME Init PROVE IInv
  OBVIOUS
<1>1. NamedLate
  BY DEF Init, NamedLate
<1>2. LogRecorded /\ Reading /\ OrdersBuilt
  <2>1. <<>> \in Seq({}) /\ Len(<<>>) = 0 /\ DOMAIN <<>> = {}
    OBVIOUS
  <2> QED BY <2>1, SafeboxAssumption DEF Init, LogRecorded, Reading, OrdersBuilt
<1>3. CallsKnown
  <2>1. NoSession \in Sessions /\ NoLoop \in Submissions /\ NoLoop.order = 0
    BY DEF NoSession, Sessions, NoLoop, Submissions
  <2>2. Idle \in Places
    BY DEF Idle, Places
  <2>3. /\ tss = [r \in Relayer |-> NoSession] /\ loop = [r \in Relayer |-> NoLoop]
        /\ pc = [r \in Relayer |-> Idle] /\ asked = [r \in Relayer |-> 0]
        /\ pool = {} /\ net = {}
    BY DEF Init
  <2> QED BY <2>1, <2>2, <2>3 DEF CallsKnown
<1>4. OrdersRecorded
  <2>1. order = [r \in Relayer |-> [o \in OrderId |-> "none"]]
    BY DEF Init
  <2> QED BY <2>1 DEF OrdersRecorded, Past, Statuses
<1>5. NoticesSent /\ SentInv
  <2>1. notices = {} /\ sent = {}
    BY DEF Init
  <2> QED BY <2>1 DEF NoticesSent, SentInv, RecordedBeforeSent
<1> QED BY <1>1, <1>2, <1>3, <1>4, <1>5 DEF IInv

-----------------------------------------------------------------------------
(* The contract *)

\* what the contract does in one step
Sets(k, s, t, e) ==
  /\ SetContract(k, s, t, e)
  /\ \/ contract[k].tx = t
     \/ contract[k].status = "received" /\ e = "TimelockInitialized"
  /\ s \in {"none", "created", "deposited", "received", "cancelled"} => t = NoTx

ContractSet == \E k \in Task : \E s, t, e : Sets(k, s, t, e)

LEMMA ContractCases ==
  ASSUME IInv, [Next]_vars
  PROVE  UNCHANGED <<contract, log>> \/ ContractSet
<1>1. ASSUME NEW k \in Task, CreateTask(k) \/ Deposit(k) \/ CancelTask(k) \/ Burn(k)
      PROVE  ContractSet
  <2>1. CASE CreateTask(k)
    <3>1. Sets(k, "created", NoTx, "TaskCreated")
      BY <2>1 DEF CreateTask, Sets, IInv, NamedLate
    <3> QED BY <3>1 DEF ContractSet
  <2>2. CASE Deposit(k)
    <3>1. Sets(k, "deposited", NoTx, "NewDeposit")
      BY <2>2 DEF Deposit, Sets, IInv, NamedLate
    <3> QED BY <3>1 DEF ContractSet
  <2>3. CASE CancelTask(k)
    <3>1. Sets(k, "cancelled", NoTx, "TaskCancelled")
      BY <2>3 DEF CancelTask, Sets, IInv, NamedLate
    <3> QED BY <3>1 DEF ContractSet
  <2>4. CASE Burn(k)
    <3>1. Sets(k, "burned", contract[k].tx, "Burned")
      BY <2>4 DEF Burn, Sets, IInv, NamedLate
    <3> QED BY <3>1 DEF ContractSet
  <2> QED BY <1>1, <2>1, <2>2, <2>3, <2>4
<1>2. ASSUME NEW c \in pool, Execute(c) PROVE UNCHANGED <<contract, log>> \/ ContractSet
  <2>1. c \in Call /\ c.task \in Task
    BY DEF IInv, CallsKnown, Call
  <2>2. CASE ~ Callable(c)
    BY <1>2, <2>2 DEF Execute
  <2>3. CASE Callable(c) /\ c.call = "receiveFunds"
    <3>1. SetContract(c.task, "received", NoTx, "FundsReceived")
      BY <1>2, <2>3 DEF Execute
    <3>2. contract[c.task].tx = NoTx
      BY <2>1, <2>3 DEF Callable, IInv, NamedLate
    <3>3. Sets(c.task, "received", NoTx, "FundsReceived")
      BY <3>1, <3>2 DEF Sets
    <3> QED BY <2>1, <3>3 DEF ContractSet
  <2>4. CASE Callable(c) /\ c.call = "initTimelockTx"
    <3>1. SetContract(c.task, "initialized", built[c.order].tx, "TimelockInitialized")
      BY <1>2, <2>4 DEF Execute
    <3>2. contract[c.task].status = "received"
      BY <2>4 DEF Callable
    <3>3. Sets(c.task, "initialized", built[c.order].tx, "TimelockInitialized")
      BY <3>1, <3>2 DEF Sets
    <3> QED BY <2>1, <3>3 DEF ContractSet
  <2>5. CASE Callable(c) /\ c.call = "processTimelockTx"
    <3>1. SetContract(c.task, "processed", contract[c.task].tx, "TimelockProcessed")
      BY <1>2, <2>5 DEF Execute
    <3>2. Sets(c.task, "processed", contract[c.task].tx, "TimelockProcessed")
      BY <3>1 DEF Sets
    <3> QED BY <2>1, <3>2 DEF ContractSet
  <2> QED BY <2>1, <2>2, <2>3, <2>4, <2>5 DEF Call, Function
<1>3. ASSUME NEW r \in Relayer, Rotate(r) \/ Crash(r) \/ Expire(r)
      PROVE  UNCHANGED <<contract, log>>
  BY <1>3 DEF Rotate, Crash, Restart, Expire, chain
<1>4. ASSUME NEW r \in Relayer, Safebox(r) PROVE UNCHANGED <<contract, log>>
  BY <1>4 DEF Safebox, QueryTick, OpenSession, Announce, Query, GiveUp, ApplySignature,
              HandleTssSign, TickStep, Panic, Restart, chain
<1>5. ASSUME NEW r \in Relayer, Sending(r) PROVE UNCHANGED <<contract, log>>
  BY <1>5 DEF Sending, InitWithdrawSig, LoseRole, StartRound, SubmitSend, SubmitEnd,
              ReceiveOrder, SubmitBegin, SigTimeout, WalletStep, SignerStep, chain
<1>6. ASSUME NEW r \in Relayer, Handle(r) \/ Bitcoin(r) PROVE UNCHANGED <<contract, log>>
  BY <1>6 DEF Handle, ListenerStep, Bitcoin, Broadcast, RevertPending, ReceiveNotice,
              ConfirmTimelock,
              BitcoinStep, chain
<1>7. CASE UNCHANGED vars
  BY <1>7 DEF vars, chain
<1> QED BY <1>1, <1>2, <1>3, <1>4, <1>5, <1>6, <1>7 DEF Next, External

\* what is recorded stays recorded
LEMMA ContractKeeps ==
  ASSUME IInv, [Next]_vars
  PROVE  /\ NamedLate' /\ LogRecorded'
         /\ \A t \in Timelock : t \in RecordedTxs => t \in RecordedTxs'
<1>1. CASE UNCHANGED <<contract, log>>
  BY <1>1 DEF IInv, NamedLate, LogRecorded, RecordedTxs
<1>2. CASE ContractSet
  <2>1. PICK k \in Task : \E s, t, e : Sets(k, s, t, e)
    BY <1>2 DEF ContractSet
  <2>2. PICK s, t, e : Sets(k, s, t, e)
    BY <2>1
  <2>3. /\ contract' = [contract EXCEPT ![k] = [status |-> s, tx |-> t]]
        /\ log' = Append(log, [event |-> e, task |-> k, tx |-> t])
    BY <2>2 DEF Sets, SetContract, Emit
  <2>4. /\ contract[k].tx = t
           \/ (contract[k].tx = NoTx /\ e = "TimelockInitialized")
        /\ s \in {"none", "created", "deposited", "received", "cancelled"} => t = NoTx
    BY <2>2 DEF Sets, IInv, NamedLate
  <2>5. /\ contract' = [j \in Task |-> contract'[j]]
        /\ contract'[k] = [status |-> s, tx |-> t]
        /\ \A j \in Task \ {k} : contract'[j] = contract[j]
    BY <2>3 DEF IInv, NamedLate
  <2>6. NamedLate'
    BY <2>4, <2>5 DEF IInv, NamedLate
  <2>7. ASSUME NEW x, x # NoTx, x \in RecordedTxs PROVE x \in RecordedTxs'
    <3>1. PICK j \in Task : contract[j].tx = x
      BY <2>7 DEF RecordedTxs
    <3>2. contract'[j].tx = x
      BY <2>4, <2>5, <2>7, <3>1
    <3> QED BY <3>2 DEF RecordedTxs
  <2>8. LogRecorded'
    <3> DEFINE new == [event |-> e, task |-> k, tx |-> t]
    <3>1. PICK S : log \in Seq(S)
      BY DEF IInv, LogRecorded
    <3>2. /\ Append(log, new) \in Seq(S \cup {new})
          /\ DOMAIN log = 1 .. Len(log) /\ Len(log) \in Nat
          /\ DOMAIN Append(log, new) = 1 .. (Len(log) + 1)
          /\ \A i \in 1 .. Len(log) : Append(log, new)[i] = log[i]
          /\ Append(log, new)[Len(log) + 1] = new
      <4> HIDE DEF new
      <4> QED BY <3>1, Appended
    <3>3. t \in RecordedTxs'
      BY <2>5 DEF RecordedTxs
    <3>4. ASSUME NEW i \in 1 .. (Len(log) + 1),
                 log'[i].event = "TimelockInitialized" /\ log'[i].tx \in Timelock
          PROVE  log'[i].tx \in RecordedTxs'
      <4>1. CASE i = Len(log) + 1
        <5>1. log'[i].tx = t
          BY <2>3, <3>2, <4>1
        <5> QED BY <3>3, <5>1
      <4>2. CASE i \in DOMAIN log
        <5>1. log'[i] = log[i]
          BY <2>3, <3>2, <4>2
        <5>2. log[i].tx \in RecordedTxs
          BY <3>4, <4>2, <5>1 DEF IInv, LogRecorded
        <5>3. log[i].tx # NoTx
          BY <3>4, <5>1, SafeboxAssumption
        <5>4. log[i].tx \in RecordedTxs'
          BY <2>7, <5>2, <5>3
        <5> QED BY <5>1, <5>4
      <4> QED BY <3>2, <4>1, <4>2
    <3>5. \E T : log' \in Seq(T)
      BY <2>3, <3>2
    <3>6. DOMAIN log' = 1 .. (Len(log) + 1)
      BY <2>3, <3>2
    <3> QED BY <3>4, <3>5, <3>6 DEF LogRecorded
  <2>9. NoTx \notin Timelock
    BY SafeboxAssumption
  <2> QED BY <2>6, <2>7, <2>8, <2>9
<1> QED BY <1>1, <1>2, ContractCases

-----------------------------------------------------------------------------
(* The orders *)

Builds(r, k, t) ==
  /\ Len(built) + 1 <= MaxOrder
  /\ built' = Append(built, [task |-> k, tx |-> t, old |-> task[r][k].tx, by |-> r,
                             epoch |-> epoch])

LEMMA BuiltCases ==
  ASSUME [Next]_vars
  PROVE  \/ built' = built
         \/ \E r \in Relayer, k \in Task, t \in Timelock : Builds(r, k, t)
<1>1. ASSUME NEW r \in Relayer, InitWithdrawSig(r)
      PROVE  \/ built' = built
             \/ \E k \in Task, t \in Timelock : Builds(r, k, t)
  BY <1>1 DEF InitWithdrawSig, Builds
<1>2. CASE External
  BY <1>2 DEF External, CreateTask, Deposit, CancelTask, Burn, ExternalStep, Execute, Rotate
<1>3. ASSUME NEW r \in Relayer, Crash(r) \/ Expire(r) \/ Safebox(r)
      PROVE  built' = built
  BY <1>3 DEF Crash, Restart, Expire, Safebox, QueryTick, OpenSession, Announce, Query, GiveUp,
              ApplySignature, HandleTssSign, TickStep, Panic
<1>4. ASSUME NEW r \in Relayer, Sending(r), ~ InitWithdrawSig(r) PROVE built' = built
  BY <1>4 DEF Sending, LoseRole, StartRound, SubmitSend, SubmitEnd, ReceiveOrder, SubmitBegin,
              SigTimeout, SignerStep
<1>5. ASSUME NEW r \in Relayer, Handle(r) \/ Bitcoin(r) PROVE built' = built
  BY <1>5 DEF Handle, ListenerStep, Bitcoin, Broadcast, RevertPending, ReceiveNotice,
              ConfirmTimelock,
              BitcoinStep
<1>6. CASE UNCHANGED vars
  BY <1>6 DEF vars
<1> QED BY <1>1, <1>2, <1>3, <1>4, <1>5, <1>6 DEF Next

LEMMA BuiltKeeps ==
  ASSUME OrdersBuilt, [Next]_vars
  PROVE  /\ OrdersBuilt'
         /\ DOMAIN built \subseteq DOMAIN built'
         /\ \A o \in DOMAIN built : built'[o] = built[o]
<1>1. CASE built' = built
  BY <1>1 DEF OrdersBuilt
<1>2. ASSUME NEW r \in Relayer, NEW k \in Task, NEW t \in Timelock, Builds(r, k, t)
      PROVE  /\ OrdersBuilt'
             /\ DOMAIN built \subseteq DOMAIN built'
             /\ \A o \in DOMAIN built : built'[o] = built[o]
  <2> DEFINE b == [task |-> k, tx |-> t, old |-> task[r][k].tx, by |-> r, epoch |-> epoch]
  <2>1. PICK S : built \in Seq(S)
    BY DEF OrdersBuilt
  <2>2. built' = Append(built, b) /\ Len(built) + 1 <= MaxOrder
    BY <1>2 DEF Builds
  <2>3. b.task = k /\ b.tx = t
    OBVIOUS
  <2> HIDE DEF b
  <2>4. /\ built' \in Seq(S \cup {b})
        /\ DOMAIN built = 1 .. Len(built) /\ Len(built) \in Nat
        /\ Len(built') = Len(built) + 1
        /\ DOMAIN built' = 1 .. (Len(built) + 1)
        /\ \A o \in 1 .. Len(built) : built'[o] = built[o]
        /\ built'[Len(built) + 1] = b
    BY <2>1, <2>2, Appended
  <2>5. \A o \in DOMAIN built' : built'[o].task \in Task /\ built'[o].tx \in Timelock
    BY <2>3, <2>4 DEF OrdersBuilt
  <2>6. \E T : built' \in Seq(T)
    BY <2>4
  <2>7. OrdersBuilt'
    BY <2>2, <2>4, <2>5, <2>6 DEF OrdersBuilt
  <2> QED BY <2>4, <2>7
<1> QED BY <1>1, <1>2, BuiltCases

\* an order moves to a status past the record only when it is recorded
Advances ==
  /\ order' \in [Relayer -> [OrderId -> Statuses]]
  /\ \A r \in Relayer : \A o \in OrderId :
       order'[r][o] \in Past =>
         \/ order[r][o] \in Past
         \/ o \in DOMAIN built /\ built[o].tx \in RecordedTxs

LEMMA OrdersKeep ==
  ASSUME IInv, [Next]_vars, Advances PROVE OrdersRecorded'
<1> SUFFICES ASSUME NEW r \in Relayer, NEW o \in OrderId, order'[r][o] \in Past
             PROVE  o \in DOMAIN built' /\ built'[o].tx \in RecordedTxs'
  BY DEF Advances, OrdersRecorded
<1>1. o \in DOMAIN built /\ built[o].tx \in RecordedTxs
  BY DEF Advances, IInv, OrdersRecorded
<1>2. built[o].tx \in Timelock /\ o \in DOMAIN built' /\ built'[o] = built[o]
  BY <1>1, BuiltKeeps DEF IInv, OrdersBuilt
<1> QED BY <1>1, <1>2, ContractKeeps

LEMMA MovesAdvance ==
  ASSUME OrdersRecorded, NEW r \in Relayer, NEW S, NEW s \in Statuses,
         order' = MoveOrders(r, S, s),
         s \in Past => \A o \in S \cap OrderId :
           order[r][o] \in Past \/ (o \in DOMAIN built /\ built[o].tx \in RecordedTxs)
  PROVE  Advances
<1>1. order' = [order EXCEPT ![r] = [o \in OrderId |-> IF o \in S THEN s ELSE order[r][o]]]
  BY DEF MoveOrders
<1>2. /\ order'[r] = [o \in OrderId |-> IF o \in S THEN s ELSE order[r][o]]
      /\ \A q \in Relayer \ {r} : order'[q] = order[q]
      /\ order' \in [Relayer -> [OrderId -> Statuses]]
  BY <1>1 DEF OrdersRecorded
<1> QED BY <1>2 DEF Advances

LEMMA CleanAdvances ==
  ASSUME OrdersRecorded, NEW r \in Relayer, order' = CleanOrders(r) PROVE Advances
BY MovesAdvance DEF CleanOrders, Statuses, Past

LEMMA SameAdvances ==
  ASSUME OrdersRecorded, order' = order PROVE Advances
BY DEF Advances, OrdersRecorded

\* UpdateSendOrderPending and UpdateSendOrderConfirmed of a recorded transaction
LEMMA AdvanceAdvances ==
  ASSUME OrdersRecorded, NEW r \in Relayer, NEW t \in RecordedTxs, NEW s \in Past,
         Advance(r, t, s)
  PROVE  Advances
<1> DEFINE S == {o \in Latest(r, t) : order[r][o] \in LiveOrder}
<1>1. order' = MoveOrders(r, S, s)
  BY DEF Advance
<1>2. \A o \in S : o \in DOMAIN built /\ built[o].tx \in RecordedTxs
  BY DEF Latest, OrdersWith
<1> HIDE DEF S
<1> QED BY <1>1, <1>2, MovesAdvance DEF Statuses

LEMMA HandleAdvances ==
  ASSUME IInv, NEW r \in Relayer, Handle(r) PROVE Advances
<1> DEFINE e == log[cursor[r] + 1]
<1>1. cursor[r] + 1 \in DOMAIN log
  <2>1. PICK S : log \in Seq(S)
    BY DEF IInv, LogRecorded
  <2> QED BY <2>1 DEF Handle, IInv, Reading
<1>2. \/ order' = order
      \/ e.event = "TimelockInitialized" /\ InitOK(r, e.task, e.tx)
      \/ TimelockProcessed(r, e.task)
  BY DEF Handle, TaskCreated, NewDeposit, ReceivedOK, Completed, Cancelled, rows
<1>3. CASE e.event = "TimelockInitialized" /\ InitOK(r, e.task, e.tx)
  <2> DEFINE S == {o \in Latest(r, e.tx) : order[r][o] \in LiveOrder}
  <2>1. order' = MoveOrders(r, S, "init")
    BY <1>3 DEF InitOK
  <2>2. ASSUME NEW o \in S PROVE o \in DOMAIN built /\ built[o].tx \in RecordedTxs
    <3>1. o \in DOMAIN built /\ built[o].tx = e.tx
      BY DEF Latest, OrdersWith
    <3>2. e.tx \in Timelock
      BY <3>1 DEF IInv, OrdersBuilt
    <3> QED BY <1>1, <1>3, <3>1, <3>2 DEF IInv, LogRecorded
  <2> HIDE DEF S, e
  <2> QED BY <2>1, <2>2, MovesAdvance DEF Statuses, Past, IInv
<1>4. CASE TimelockProcessed(r, e.task)
  <2> DEFINE S == {o \in OrdersWith(r, task[r][e.task].tx) :
                     order[r][o] \in {"init", "pending", "confirmed"}}
  <2>1. order' = MoveOrders(r, S, "processed")
    BY <1>4 DEF TimelockProcessed
  <2>2. \A o \in S : order[r][o] \in Past
    BY DEF Past
  <2> HIDE DEF S, e
  <2> QED BY <2>1, <2>2, MovesAdvance DEF Statuses, Past, IInv
<1> QED BY <1>2, <1>3, <1>4, SameAdvances DEF IInv

LEMMA BitcoinAdvances ==
  ASSUME IInv, NEW r \in Relayer, Bitcoin(r) PROVE Advances
<1>1. \A t \in sent : t \in RecordedTxs
  BY DEF IInv, SentInv, RecordedBeforeSent, RecordedTxs
<1>2. ASSUME NEW o \in DOMAIN built, Broadcast(r, o) PROVE Advances
  <2>1. o \in OrderId
    <3>1. PICK S : built \in Seq(S)
      BY DEF IInv, OrdersBuilt
    <3> QED BY <3>1, SafeboxAssumption DEF IInv, OrdersBuilt, OrderId
  <2>2. built[o].tx \in RecordedTxs
    BY <1>2, <2>1 DEF Broadcast, IInv, OrdersRecorded, Past
  <2> QED BY <1>2, <2>2, AdvanceAdvances, SameAdvances DEF Broadcast, rows, IInv, Past
<1>3. ASSUME NEW o \in DOMAIN built, ReceiveNotice(r, o) PROVE Advances
  <2>1. built[o].tx \in RecordedTxs
    <3>1. <<r, o>>[2] = o
      OBVIOUS
    <3>2. built[o].tx \in sent
      BY <1>3, <3>1 DEF ReceiveNotice, IInv, NoticesSent
    <3> QED BY <1>1, <3>2
  <2>2. CASE Advance(r, built[o].tx, "pending")
    BY <2>1, <2>2, AdvanceAdvances DEF IInv, Past
  <2>3. CASE order' = [order EXCEPT ![r][o] = "pending"]
    BY <2>1, <2>3 DEF Advances, IInv, OrdersRecorded, Statuses, Past
  <2> QED BY <1>3, <2>2, <2>3 DEF ReceiveNotice
<1>4. ASSUME NEW t \in Timelock, ConfirmTimelock(r, t) PROVE Advances
  BY <1>1, <1>4, AdvanceAdvances DEF ConfirmTimelock, IInv, Past
<1>5. ASSUME NEW o \in DOMAIN built, RevertPending(r, o) PROVE Advances
  <2> DEFINE S == {p \in Latest(r, built[o].tx) : order[r][p] \in LiveOrder}
  <2>1. order' = MoveOrders(r, S, "init")
    BY <1>5 DEF RevertPending
  <2>2. o \in OrderId /\ order[r][o] \in Past
    <3>1. PICK T : built \in Seq(T)
      BY DEF IInv, OrdersBuilt
    <3> QED BY <1>5, <3>1, SafeboxAssumption DEF RevertPending, IInv, OrdersBuilt, OrderId, Past
  <2>3. built[o].tx \in RecordedTxs
    BY <2>2 DEF IInv, OrdersRecorded
  <2>4. \A p \in S : p \in DOMAIN built /\ built[p].tx \in RecordedTxs
    BY <2>3 DEF Latest, OrdersWith
  <2> HIDE DEF S
  <2> QED BY <2>1, <2>4, MovesAdvance DEF Statuses, Past, IInv
<1> QED BY <1>2, <1>3, <1>4, <1>5 DEF Bitcoin

LEMMA SendingAdvances ==
  ASSUME IInv, NEW r \in Relayer, Sending(r) PROVE Advances
<1>1. CASE InitWithdrawSig(r)
  <2>1. CASE order' = CleanOrders(r)
    BY <2>1, CleanAdvances DEF IInv
  <2>2. ASSUME NEW o, order' = [CleanOrders(r) EXCEPT ![r][o] = "aggregating"]
        PROVE  Advances
    <3>1. /\ CleanOrders(r) \in [Relayer -> [OrderId -> Statuses]]
          /\ \A q \in Relayer : \A p \in OrderId :
               CleanOrders(r)[q][p] \in Past => order[q][p] \in Past
      BY DEF CleanOrders, MoveOrders, IInv, OrdersRecorded, Statuses, Past
    <3> QED BY <2>2, <3>1 DEF Advances, Statuses, Past
  <2> QED BY <1>1, <2>1, <2>2 DEF InitWithdrawSig
<1>2. CASE LoseRole(r)
  BY <1>2, CleanAdvances DEF LoseRole, IInv
<1>3. ASSUME NEW m \in net, ReceiveOrder(r, m) PROVE Advances
  <2>1. CASE order' = order
    BY <2>1, SameAdvances DEF IInv
  <2>2. CASE order' = [order EXCEPT ![r][m.order] = "aggregating"]
    BY <2>2 DEF Advances, IInv, OrdersRecorded, Statuses, Past
  <2> QED BY <1>3, <2>1, <2>2 DEF ReceiveOrder
<1>4. CASE \/ StartRound(r) \/ SubmitSend(r) \/ SubmitEnd(r)
           \/ \E m \in net : SubmitBegin(r, m)
           \/ \E o \in DOMAIN built : SigTimeout(r, o)
  <2>1. order' = order
    BY <1>4 DEF StartRound, SubmitSend, SubmitEnd, SubmitBegin, SigTimeout
  <2> QED BY <2>1, SameAdvances DEF IInv
<1> QED BY <1>1, <1>2, <1>3, <1>4 DEF Sending

LEMMA NextAdvances ==
  ASSUME IInv, [Next]_vars PROVE Advances
<1>1. ASSUME External \/ UNCHANGED vars PROVE Advances
  <2>1. order' = order
    BY <1>1 DEF External, CreateTask, Deposit, CancelTask, Burn, ExternalStep, Execute, Rotate,
                rows, vars
  <2> QED BY <2>1, SameAdvances DEF IInv
<1>2. ASSUME NEW r \in Relayer, Restart(r) PROVE Advances
  BY <1>2, CleanAdvances DEF Restart, IInv
<1>3. ASSUME NEW r \in Relayer, Expire(r) PROVE Advances
  <2>1. order' = order
    BY <1>3 DEF Expire, rows
  <2> QED BY <2>1, SameAdvances DEF IInv
<1>4. ASSUME NEW r \in Relayer, Safebox(r), ~ Panic(r) PROVE Advances
  <2>1. order' = order
    BY <1>4 DEF Safebox, QueryTick, OpenSession, Announce, Query, GiveUp, ApplySignature,
                HandleTssSign, TickStep, rows
  <2> QED BY <2>1, SameAdvances DEF IInv
<1> QED BY <1>1, <1>2, <1>3, <1>4, SendingAdvances, HandleAdvances, BitcoinAdvances
     DEF Next, Crash, Panic

-----------------------------------------------------------------------------
(* What reaches bitcoin, and who is told *)

LEMMA SentKeeps ==
  ASSUME IInv, [Next]_vars PROVE NoticesSent' /\ SentInv' /\ Reading'
<1>1. ASSUME NEW r \in Relayer, NEW o \in DOMAIN built, Broadcast(r, o)
      PROVE  NoticesSent' /\ SentInv'
  <2>1. order[r][o] = "init" /\ o \in OrderId
    <3>1. PICK S : built \in Seq(S)
      BY DEF IInv, OrdersBuilt
    <3> QED BY <1>1, <3>1, SafeboxAssumption DEF Broadcast, IInv, OrdersBuilt, OrderId
  <2>2. built[o].tx \in RecordedTxs /\ built[o].tx \in Timelock
    BY <2>1 DEF IInv, OrdersRecorded, OrdersBuilt, Past
  <2>3. /\ sent' = sent \cup {built[o].tx} /\ UNCHANGED <<contract, built>>
        /\ notices' \subseteq notices \cup {<<q, o>> : q \in Relayer \ {r}}
    BY <1>1 DEF Broadcast, BitcoinStep, chain
  <2>4. SentInv'
    BY <2>2, <2>3 DEF IInv, SentInv, RecordedBeforeSent, RecordedTxs
  <2>5. NoticesSent'
    BY <2>3 DEF IInv, NoticesSent
  <2> QED BY <2>4, <2>5
<1>2. ASSUME notices' \subseteq notices, sent' = sent PROVE NoticesSent' /\ SentInv'
  <2>1. SentInv'
    BY <1>2, ContractKeeps DEF IInv, SentInv, RecordedBeforeSent, RecordedTxs
  <2>2. NoticesSent'
    BY <1>2, BuiltKeeps DEF IInv, NoticesSent
  <2> QED BY <2>1, <2>2
<1>3. ASSUME External \/ UNCHANGED vars PROVE NoticesSent' /\ SentInv'
  <2>1. notices' = notices /\ sent' = sent
    BY <1>3 DEF External, CreateTask, Deposit, CancelTask, Burn, ExternalStep, Execute, Rotate,
                vars
  <2> QED BY <1>2, <2>1
<1>4. ASSUME NEW r \in Relayer, Crash(r) \/ Expire(r) \/ Safebox(r)
      PROVE  notices' = notices /\ sent' = sent
  BY <1>4 DEF Crash, Restart, Expire, Safebox, QueryTick, OpenSession, Announce, Query, GiveUp,
              ApplySignature, HandleTssSign, TickStep, Panic
<1>5. ASSUME NEW r \in Relayer, Sending(r) PROVE notices' = notices /\ sent' = sent
  BY <1>5 DEF Sending, InitWithdrawSig, LoseRole, StartRound, SubmitSend, SubmitEnd,
              ReceiveOrder, SubmitBegin, SigTimeout, WalletStep, SignerStep
<1>6. ASSUME NEW r \in Relayer, Handle(r) PROVE notices' = notices /\ sent' = sent
  BY <1>6 DEF Handle, ListenerStep
<1>7. ASSUME NEW r \in Relayer, Bitcoin(r)
      PROVE  NoticesSent' /\ SentInv'
  <2>1. ASSUME NEW o \in DOMAIN built, ReceiveNotice(r, o) PROVE NoticesSent' /\ SentInv'
    BY <1>2, <2>1 DEF ReceiveNotice
  <2>2. ASSUME NEW t \in Timelock, ConfirmTimelock(r, t) PROVE NoticesSent' /\ SentInv'
    BY <1>2, <2>2 DEF ConfirmTimelock
  <2>3. ASSUME NEW o \in DOMAIN built, RevertPending(r, o) PROVE NoticesSent' /\ SentInv'
    BY <1>2, <2>3 DEF RevertPending
  <2> QED BY <1>1, <1>7, <2>1, <2>2, <2>3 DEF Bitcoin
<1>8. Reading'
  <2>1. ASSUME NEW r \in Relayer, Handle(r) PROVE Reading'
    BY <2>1 DEF Handle, IInv, Reading
  <2>2. CASE cursor' = cursor
    BY <2>2 DEF IInv, Reading
  <2>3. CASE External \/ UNCHANGED vars
    BY <2>2, <2>3 DEF External, CreateTask, Deposit, CancelTask, Burn, ExternalStep, Execute,
                      Rotate, vars
  <2>4. ASSUME NEW r \in Relayer, Crash(r) \/ Expire(r) \/ Safebox(r) PROVE cursor' = cursor
    BY <2>4 DEF Crash, Restart, Expire, Safebox, QueryTick, OpenSession, Announce, Query,
                GiveUp, ApplySignature, HandleTssSign, TickStep, Panic
  <2>5. ASSUME NEW r \in Relayer, Sending(r) PROVE cursor' = cursor
    BY <2>5 DEF Sending, InitWithdrawSig, LoseRole, StartRound, SubmitSend, SubmitEnd,
                ReceiveOrder, SubmitBegin, SigTimeout, WalletStep, SignerStep
  <2>6. ASSUME NEW r \in Relayer, Bitcoin(r) PROVE cursor' = cursor
    BY <2>6 DEF Bitcoin, Broadcast, RevertPending, ReceiveNotice, ConfirmTimelock, BitcoinStep
  <2> QED BY <2>1, <2>2, <2>3, <2>4, <2>5, <2>6 DEF Next
<1>9. \/ External \/ UNCHANGED vars
      \/ \E r \in Relayer : Bitcoin(r)
      \/ notices' = notices /\ sent' = sent
  BY <1>4, <1>5, <1>6 DEF Next
<1>10. NoticesSent' /\ SentInv'
  BY <1>2, <1>3, <1>7, <1>9
<1> QED BY <1>8, <1>10

-----------------------------------------------------------------------------
(* Calls: whatever is signed, asked for or sent is about a task *)

LEMMA OpenKnown ==
  ASSUME NEW r \in Relayer, NEW i \in NewId, NEW c \in Built(r, i) PROVE c \in Call
<1>1. PICK k \in Newest(r), n \in {n \in 0 .. MaxNonce : Pending(n)} : c = CallFor(r, k, n, i)
  BY DEF Built
<1>2. k \in Task
  BY DEF Newest, Due
<1>3. i \in 0 .. MaxAttempt
  BY SafeboxAssumption DEF NewId
<1> QED BY <1>1, <1>2, <1>3, SafeboxAssumption DEF CallFor, Call, Function

LEMMA OrderKnown ==
  ASSUME OrdersBuilt, NEW r \in Relayer, NEW o \in DOMAIN built, NEW n \in 0 .. MaxNonce
  PROVE  OrderCall(r, o, n) \in Call /\ o \in Nat
<1>1. PICK S : built \in Seq(S)
  BY DEF OrdersBuilt
<1>2. o \in 0 .. MaxOrder /\ o \in Nat
  BY <1>1, SafeboxAssumption DEF OrdersBuilt
<1>3. built[o].task \in Task
  BY DEF OrdersBuilt
<1>4. 0 \in 0 .. MaxAttempt
  BY SafeboxAssumption
<1> QED BY <1>2, <1>3, <1>4 DEF OrderCall, Call, Function

LEMMA SessionKnown ==
  ASSUME CallsKnown, NEW r \in Relayer, NEW c \in Call, NEW tx \in BOOLEAN
  PROVE  /\ SetSession(r, c, tx) => tss' \in [Relayer -> Sessions]
         /\ ResetSession(r) => tss' \in [Relayer -> Sessions]
<1> DEFINE s == [on |-> TRUE, call |-> c, hasTx |-> tx, signed |-> FALSE, expired |-> FALSE]
<1>1. s \in Sessions /\ NoSession \in Sessions
  BY DEF Sessions, NoSession
<1>2. tss \in [Relayer -> Sessions]
  BY DEF CallsKnown
<1>3. SetSession(r, c, tx) => tss' = [tss EXCEPT ![r] = s]
  BY DEF SetSession
<1>4. ResetSession(r) => tss' = [tss EXCEPT ![r] = NoSession]
  BY DEF ResetSession
<1> HIDE DEF s
<1> QED BY <1>1, <1>2, <1>3, <1>4

LEMMA CheckedKnown ==
  ASSUME CallsKnown, NEW r \in Relayer PROVE Checked(tss[r]) \in Sessions
BY DEF CallsKnown, Checked, Sessions, NoSession

\* nothing but the pool and the messages may lose calls
LEMMA SameCalls ==
  ASSUME CallsKnown, pool' \subseteq pool, net' \subseteq net,
         UNCHANGED <<tss, pc, loop, asked>>, DOMAIN built \subseteq DOMAIN built'
  PROVE  CallsKnown'
BY DEF CallsKnown

LEMMA TickCalls ==
  ASSUME IInv, NEW r \in Relayer, Safebox(r), ~ Panic(r) PROVE CallsKnown'
<1> USE DEF IInv
<1>1. UNCHANGED <<asked, open, loop, built>>
  BY DEF Safebox, QueryTick, OpenSession, Announce, Query, GiveUp, ApplySignature,
         HandleTssSign, TickStep, bls
<1>2. CASE QueryTick(r)
  BY <1>1, <1>2 DEF QueryTick, CallsKnown, Places
<1>3. CASE OpenSession(r)
  <2>1. UNCHANGED <<pool, net>>
    BY <1>3 DEF OpenSession
  <2>2. ASSUME NEW i \in NewId, NEW c \in Built(r, i), SetSession(r, c, TRUE),
               pc' = [pc EXCEPT ![r] = [at |-> "start", call |-> c]]
        PROVE  tss' \in [Relayer -> Sessions] /\ pc' \in [Relayer -> Places]
    BY <2>2, OpenKnown, SessionKnown DEF CallsKnown, Places
  <2>3. ASSUME tss' = [tss EXCEPT ![r] = Checked(tss[r])], UNCHANGED pc
        PROVE  tss' \in [Relayer -> Sessions] /\ pc' \in [Relayer -> Places]
    BY <2>3, CheckedKnown DEF CallsKnown
  <2>4. tss' \in [Relayer -> Sessions] /\ pc' \in [Relayer -> Places]
    BY <1>3, <2>2, <2>3 DEF OpenSession
  <2> QED BY <1>1, <2>1, <2>4 DEF CallsKnown
<1>4. CASE Announce(r)
  <2>1. tss[r].call \in Call
    BY <1>4 DEF Announce, CallsKnown, Sessions
  <2>2. pc' \in [Relayer -> Places] /\ pool' = pool
    BY <1>4 DEF Announce, CallsKnown, Places, Idle
  <2>3. tss' \in [Relayer -> Sessions]
    BY <1>4, <2>1, SessionKnown DEF Announce, CallsKnown
  <2>4. \A m \in net' : m.order \in Nat /\ m.call \in Call
    BY <1>4, <2>1 DEF Announce, Publish, CallsKnown
  <2> QED BY <1>1, <2>2, <2>3, <2>4 DEF CallsKnown
<1>5. CASE Query(r)
  <2>1. tss[r].call \in Call
    BY <1>5 DEF Query, CallsKnown, Sessions
  <2> QED BY <1>1, <1>5, <2>1 DEF Query, CallsKnown, Places
<1>6. CASE GiveUp(r)
  <2>1. tss' \in [Relayer -> Sessions]
    BY <1>6 DEF GiveUp, ResetSession, NoSession, CallsKnown, Sessions
  <2> QED BY <1>1, <1>6, <2>1 DEF GiveUp, CallsKnown, Places, Idle
<1>7. CASE ApplySignature(r)
  <2>1. tss[r].call \in Call
    BY <1>7 DEF ApplySignature, CallsKnown, Sessions
  <2>2. tss' \in [Relayer -> Sessions]
    BY SMTT(30), <1>7 DEF ApplySignature, CallsKnown, Sessions
  <2>3. pool' \subseteq Call
    BY <1>7, <2>1 DEF ApplySignature, CallsKnown
  <2>4. pc' \in [Relayer -> Places] /\ net' = net
    BY <1>7 DEF ApplySignature, CallsKnown, Places, Idle
  <2> QED BY <1>1, <2>2, <2>3, <2>4 DEF CallsKnown
<1>8. ASSUME NEW m \in net, HandleTssSign(r, m) PROVE CallsKnown'
  <2>1. m.call \in Call
    BY DEF CallsKnown
  <2>2. tss' \in [Relayer -> Sessions]
    <3> DEFINE s == [NoSession EXCEPT !.on = tss[r].on, !.call = m.call, !.hasTx = TRUE]
    <3>1. tss \in [Relayer -> Sessions] /\ tss[r].on \in BOOLEAN
      BY DEF CallsKnown, Sessions
    <3>2. s \in Sessions
      BY <2>1, <3>1 DEF Sessions, NoSession
    <3>3. tss' = tss \/ tss' = [tss EXCEPT ![r] = s]
      BY <1>8 DEF HandleTssSign
    <3> HIDE DEF s
    <3> QED BY <3>1, <3>2, <3>3
  <2>3. UNCHANGED <<pool, pc>> /\ net' \subseteq net
    BY <1>8 DEF HandleTssSign
  <2> QED BY <1>1, <2>2, <2>3 DEF CallsKnown
<1> QED BY <1>2, <1>3, <1>4, <1>5, <1>6, <1>7, <1>8 DEF Safebox

LEMMA RestartCalls ==
  ASSUME IInv, NEW r \in Relayer, Restart(r) PROVE CallsKnown'
<1>1. NoSession \in Sessions /\ NoLoop \in Submissions /\ NoLoop.order = 0 /\ Idle \in Places
  BY DEF NoSession, Sessions, NoLoop, Submissions, Idle, Places
<1>2. /\ tss' \in [Relayer -> Sessions] /\ pc' \in [Relayer -> Places]
      /\ loop' \in [Relayer -> Submissions] /\ asked' \in [Relayer -> Nat]
  BY <1>1 DEF Restart, IInv, CallsKnown
<1>3. /\ \A q \in Relayer : loop'[q].order # 0 => loop'[q].call \in Call
      /\ \A q \in Relayer : asked'[q] # 0 => asked'[q] \in DOMAIN built
  BY <1>1 DEF Restart, IInv, CallsKnown
<1> QED BY <1>2, <1>3 DEF Restart, IInv, CallsKnown

LEMMA SendingCalls ==
  ASSUME IInv, [Next]_vars, NEW r \in Relayer, Sending(r) PROVE CallsKnown'
<1>1. OrdersBuilt /\ DOMAIN built \subseteq DOMAIN built' /\ CallsKnown
  BY BuiltKeeps DEF IInv
<1>2. /\ \A q \in Relayer : asked[q] # 0 => asked[q] \in DOMAIN built'
      /\ asked \in [Relayer -> Nat]
  BY <1>1 DEF CallsKnown
<1>3. pc' = pc
  BY DEF Sending, InitWithdrawSig, LoseRole, StartRound, SubmitSend, SubmitEnd,
         ReceiveOrder, SubmitBegin, SigTimeout, WalletStep, SignerStep
<1>4. CASE InitWithdrawSig(r)
  <2>1. UNCHANGED <<tss, pool, net, loop>>
    BY <1>4 DEF InitWithdrawSig, WalletStep
  <2>2. ASSUME NEW o, o = Len(built) + 1, asked' = [asked EXCEPT ![r] = o],
               \E b : built' = Append(built, b)
        PROVE  asked' \in [Relayer -> Nat] /\ \A q \in Relayer : asked'[q] # 0 =>
                 asked'[q] \in DOMAIN built'
    <3>1. PICK b : built' = Append(built, b)
      BY <2>2
    <3>2. PICK S : built \in Seq(S)
      BY <1>1 DEF OrdersBuilt
    <3>3. o \in Nat /\ o \in DOMAIN built'
      BY <2>2, <3>1, <3>2, Appended
    <3> QED BY <1>2, <2>2, <3>3
  <2>3. asked' \in [Relayer -> Nat] /\ \A q \in Relayer : asked'[q] # 0 =>
          asked'[q] \in DOMAIN built'
    BY <1>2, <1>4, <2>2 DEF InitWithdrawSig
  <2> QED BY <1>1, <1>3, <2>1, <2>3 DEF CallsKnown
<1>5. CASE LoseRole(r) \/ \E o \in DOMAIN built : SigTimeout(r, o)
  <2>1. UNCHANGED <<tss, pool, net, loop, asked>>
    BY <1>5 DEF LoseRole, SigTimeout, WalletStep
  <2> QED BY <1>1, <1>3, <2>1, SameCalls
<1>6. CASE StartRound(r)
  <2>1. asked' = [asked EXCEPT ![r] = 0] /\ UNCHANGED <<pool, loop>> /\ asked[r] # 0
    BY <1>6 DEF StartRound
  <2>2. asked' \in [Relayer -> Nat] /\ \A q \in Relayer : asked'[q] # 0 =>
          asked'[q] \in DOMAIN built'
    BY <1>2, <2>1
  <2> DEFINE o == asked[r]
  <2>3. o \in DOMAIN built
    BY <1>1, <2>1 DEF CallsKnown
  <2>4. ASSUME NEW n \in 0 .. MaxNonce, NEW c, c = OrderCall(r, o, n),
               SetSession(r, c, TRUE), Publish(r, "order", o, c)
        PROVE  /\ tss' \in [Relayer -> Sessions]
               /\ \A m \in net' : m.order \in Nat /\ m.call \in Call
    <3>1. c \in Call /\ o \in Nat
      BY <1>1, <2>3, <2>4, OrderKnown
    <3>2. tss' \in [Relayer -> Sessions]
      BY <1>1, <2>4, <3>1, SessionKnown
    <3>3. \A m \in net' : m.order \in Nat /\ m.call \in Call
      BY <1>1, <2>4, <3>1 DEF Publish, CallsKnown
    <3> QED BY <3>2, <3>3
  <2>5. ASSUME ResetSession(r), net' = net
        PROVE  /\ tss' \in [Relayer -> Sessions]
               /\ \A m \in net' : m.order \in Nat /\ m.call \in Call
    <3>1. NoSession \in Sessions /\ tss \in [Relayer -> Sessions]
      BY <1>1 DEF NoSession, Sessions, CallsKnown
    <3> QED BY <1>1, <2>5, <3>1 DEF ResetSession, CallsKnown
  <2>6. /\ tss' \in [Relayer -> Sessions]
        /\ \A m \in net' : m.order \in Nat /\ m.call \in Call
    BY <1>1, <1>6, <2>4, <2>5 DEF StartRound, CallsKnown
  <2> QED BY <1>1, <1>3, <2>1, <2>2, <2>6 DEF CallsKnown
<1>7. ASSUME NEW m \in net, ReceiveOrder(r, m) PROVE CallsKnown'
  <2>1. m.call \in Call /\ m.order \in Nat
    BY <1>1 DEF CallsKnown
  <2>2. UNCHANGED <<pool, asked, loop>>
    BY <1>7 DEF ReceiveOrder
  <2>3. \/ net' \subseteq net /\ tss' = tss
        \/ /\ SetSession(r, m.call, FALSE)
           /\ net' = (net \ {m}) \cup
                {[kind |-> "vote", to |-> q, order |-> m.order, call |-> m.call] :
                   q \in Relayer \ {r}}
    BY <1>7 DEF ReceiveOrder
  <2>4. tss' \in [Relayer -> Sessions]
    BY <1>1, <2>1, <2>3, SessionKnown DEF CallsKnown
  <2>5. ASSUME NEW x \in net' PROVE x.order \in Nat /\ x.call \in Call
    <3>1. \/ x \in net
          \/ \E q \in Relayer : x = [kind |-> "vote", to |-> q, order |-> m.order,
                                    call |-> m.call]
      BY <2>3
    <3>2. x \in net \/ (x.order = m.order /\ x.call = m.call)
      BY <3>1
    <3> QED BY <1>1, <2>1, <3>2 DEF CallsKnown
  <2> QED BY <1>1, <1>2, <1>3, <2>2, <2>4, <2>5 DEF CallsKnown
<1>8. ASSUME NEW m \in net, SubmitBegin(r, m) PROVE CallsKnown'
  <2>1. m.order \in Nat /\ tss[r] \in Sessions
    BY <1>1 DEF CallsKnown
  <2>2. UNCHANGED <<pool, asked>> /\ net' \subseteq net
    BY <1>8 DEF SubmitBegin
  <2>3. \/ /\ Ready(r) /\ tss' = tss
           /\ loop' = [loop EXCEPT ![r] = [order |-> m.order, call |-> tss[r].call,
                                           hasTx |-> tss[r].hasTx, sent |-> FALSE]]
        \/ tss' = [tss EXCEPT ![r] = Checked(tss[r])] /\ loop' = loop
    BY <1>8 DEF SubmitBegin
  <2>4. tss' \in [Relayer -> Sessions]
    BY <1>1, <2>3, CheckedKnown DEF CallsKnown
  <2>5. /\ loop' \in [Relayer -> Submissions]
        /\ \A q \in Relayer : loop'[q].order # 0 => loop'[q].call \in Call
    <3> DEFINE s == [order |-> m.order, call |-> tss[r].call, hasTx |-> tss[r].hasTx,
                     sent |-> FALSE]
    <3>1. Ready(r) => s \in Submissions /\ s.call \in Call
      BY <2>1 DEF Ready, Sessions, Submissions
    <3>2. (Ready(r) /\ loop' = [loop EXCEPT ![r] = s]) \/ loop' = loop
      BY <2>3
    <3> HIDE DEF s
    <3> QED BY <1>1, <3>1, <3>2 DEF CallsKnown
  <2> QED BY <1>1, <1>2, <1>3, <2>2, <2>4, <2>5 DEF CallsKnown
<1>9. CASE SubmitSend(r)
  <2>1. loop[r].call \in Call /\ loop[r] \in Submissions
    BY <1>1, <1>9 DEF SubmitSend, CallsKnown
  <2>2. UNCHANGED <<net, asked>>
    BY <1>9 DEF SubmitSend
  <2>3. pool' \subseteq Call
    BY <1>1, <1>9, <2>1 DEF SubmitSend, CallsKnown
  <2>4. tss' \in [Relayer -> Sessions]
    <3> DEFINE b == tss[r].signed \/ tss[r].call = loop[r].call
               s == [tss[r] EXCEPT !.signed = b]
    <3>1. tss \in [Relayer -> Sessions] /\ tss[r].signed \in BOOLEAN
      BY <1>1 DEF CallsKnown, Sessions
    <3>2. b \in BOOLEAN
      BY <3>1
    <3>3. tss' = [tss EXCEPT ![r] = s]
      BY <1>9, <3>1 DEF SubmitSend
    <3> HIDE DEF b
    <3>4. s \in Sessions
      BY <3>1, <3>2 DEF Sessions
    <3> HIDE DEF s
    <3> QED BY <3>1, <3>3, <3>4
  <2>5. /\ loop' \in [Relayer -> Submissions]
        /\ \A q \in Relayer : loop'[q].order # 0 => loop'[q].call \in Call
    <3>1. loop' = [loop EXCEPT ![r].sent = TRUE] \/ loop' = [loop EXCEPT ![r] = NoLoop]
      BY <1>9 DEF SubmitSend, EndSubmit
    <3>2. NoLoop \in Submissions /\ NoLoop.order = 0
      BY DEF NoLoop, Submissions
    <3>3. /\ [loop[r] EXCEPT !.sent = TRUE] \in Submissions
          /\ [loop[r] EXCEPT !.sent = TRUE].call = loop[r].call
      BY <2>1 DEF Submissions
    <3> QED BY <1>1, <2>1, <3>1, <3>2, <3>3 DEF CallsKnown
  <2> QED BY <1>1, <1>2, <1>3, <2>2, <2>3, <2>4, <2>5 DEF CallsKnown
<1>10. CASE SubmitEnd(r)
  <2>1. UNCHANGED <<pool, net, asked, tss>> /\ loop' = [loop EXCEPT ![r] = NoLoop]
    BY <1>10 DEF SubmitEnd, EndSubmit
  <2>2. NoLoop \in Submissions /\ NoLoop.order = 0
    BY DEF NoLoop, Submissions
  <2> QED BY <1>1, <1>2, <1>3, <2>1, <2>2 DEF CallsKnown
<1> QED BY <1>4, <1>5, <1>6, <1>7, <1>8, <1>9, <1>10 DEF Sending

LEMMA NextCalls ==
  ASSUME IInv, [Next]_vars PROVE CallsKnown'
<1>1. DOMAIN built \subseteq DOMAIN built' /\ CallsKnown
  BY BuiltKeeps DEF IInv
<1>2. ASSUME External \/ UNCHANGED vars PROVE CallsKnown'
  <2>1. pool' \subseteq pool /\ UNCHANGED <<net, tss, pc, loop, asked>>
    BY <1>2 DEF External, CreateTask, Deposit, CancelTask, Burn, ExternalStep, Execute,
                Rotate, bls, vars
  <2> QED BY <1>1, <2>1, SameCalls
<1>3. ASSUME NEW r \in Relayer, Handle(r) \/ Bitcoin(r) PROVE CallsKnown'
  <2>1. UNCHANGED <<pool, net, tss, pc, loop, asked>>
    BY <1>3 DEF Handle, ListenerStep, Bitcoin, Broadcast, RevertPending, ReceiveNotice,
                ConfirmTimelock,
                BitcoinStep, bls
  <2> QED BY <1>1, <2>1, SameCalls
<1>4. ASSUME NEW r \in Relayer, Expire(r) PROVE CallsKnown'
  <2>1. UNCHANGED <<pool, net, pc, loop, asked, built>>
    BY <1>4 DEF Expire, bls
  <2>2. tss' \in [Relayer -> Sessions]
    BY ZenonT(60), <1>1, <1>4 DEF Expire, CallsKnown, Sessions
  <2> QED BY <1>1, <2>1, <2>2 DEF CallsKnown
<1>5. ASSUME NEW r \in Relayer, Restart(r) PROVE CallsKnown'
  BY <1>5, RestartCalls
<1> QED BY <1>2, <1>3, <1>4, <1>5, TickCalls, SendingCalls DEF Next, Crash, Panic

-----------------------------------------------------------------------------
LEMMA StepInv == IInv /\ [Next]_vars => IInv'
<1> SUFFICES ASSUME IInv, [Next]_vars PROVE IInv'
  OBVIOUS
<1>1. NamedLate' /\ LogRecorded'
  BY ContractKeeps
<1>2. OrdersBuilt'
  BY BuiltKeeps DEF IInv
<1>3. OrdersRecorded'
  BY NextAdvances, OrdersKeep
<1>4. NoticesSent' /\ SentInv' /\ Reading'
  BY SentKeeps
<1>5. CallsKnown'
  BY NextCalls
<1> QED BY <1>1, <1>2, <1>3, <1>4, <1>5 DEF IInv

(* Money leaves for a timelock address only after the contract recorded the *)
(* transaction, whatever the two goroutines do with the one session, and    *)
(* however rounds fail, relayers crash and proposers change.                *)
THEOREM OnlyRecordedSent == Spec => []RecordedBeforeSent
<1>1. IInv => RecordedBeforeSent
  BY DEF IInv, SentInv
<1> QED BY InitInv, StepInv, <1>1, PTL DEF Spec
-----------------------------------------------------------------------------

-----------------------------------------------------------------------------
(* The rows of the tasks.  What the contract names was built for its task    *)
(* (OrdersOwned), the log tells the truth about the contract (LogTrue), and  *)
(* a row moves past the record by an event of the contract or with the order *)
(* it names (Named).  Orders move for the transaction and rows for the order *)
(* they name, so a row past the record must not name an order that is behind *)
(* it (Ahead).                                                               *)

RowStatus == {"none", "create", "received", "received_ok", "init", "closed"} \cup Recorded
Row == [status : RowStatus, funded : BOOLEAN, order : Nat, tx : Timelock \cup {NoTx}]

\* a call to initTimelockTx is about the task of its order
OwnCall(orders, c) ==
  c # NoCall /\ c.call = "initTimelockTx" =>
    c.order \in DOMAIN orders /\ orders[c.order].task = c.task

CallsOwned ==
  /\ \A c \in pool : OwnCall(built, c)
  /\ \A m \in net :
       /\ OwnCall(built, m.call)
       /\ m.kind \in {"order", "vote"} => m.order \in DOMAIN built
  /\ \A r \in Relayer :
       /\ OwnCall(built, tss[r].call) /\ OwnCall(built, pc[r].call)
       /\ OwnCall(built, loop[r].call)

\* a timelock transaction is built for one task
OrdersOwned ==
  /\ \A o, p \in DOMAIN built : built[o].tx = built[p].tx => built[o].task = built[p].task
  /\ \A k \in Task : contract[k].tx \in Timelock =>
       \E o \in DOMAIN built : built[o].tx = contract[k].tx /\ built[o].task = k
  /\ \A r \in Relayer : \A o \in OrderId : order[r][o] # "none" => o \in DOMAIN built

\* what an event says is still true of the contract
Tells(tasks, e) ==
  /\ e.task \in Task
  /\ e.event = "TaskCreated" => tasks[e.task].status # "none"
  /\ e.event = "TaskCancelled" => tasks[e.task].status = "cancelled"
  /\ e.event = "TimelockInitialized" => e.tx \in Timelock /\ tasks[e.task].tx = e.tx
  /\ e.event = "TimelockProcessed" => tasks[e.task].status \in {"processed", "burned"}

LogTrue ==
  /\ \A i \in DOMAIN log : Tells(contract, log[i])
  /\ \A i, j \in DOMAIN log :
       log[i].event = "TaskCreated" /\ log[j].event = "TaskCreated" /\ log[i].task = log[j].task
         => i = j

\* the row of a task exists when its creation was read
Unread ==
  /\ \A r \in Relayer : \A k \in Task :
       contract[k].status = "none" => task[r][k].status = "none"
  /\ \A r \in Relayer : \A i \in DOMAIN log :
       log[i].event = "TaskCreated" /\ cursor[r] < i => task[r][log[i].task].status = "none"

Named(r, k) ==
  LET row == task[r][k] IN
  row.order # 0 =>
    /\ row.order \in DOMAIN built /\ built[row.order].task = k
    /\ order[r][row.order] # "none" /\ row.status # "none"
    /\ row.status \notin Recorded => row.tx = built[row.order].tx

Agrees(r, k) ==
  LET row == task[r][k] IN
  /\ row.status \in Recorded => row.tx = contract[k].tx /\ row.tx \in Timelock
  /\ row.status = "confirmed" => row.tx \in sent
  /\ row.status \in {"processed", "completed"} => contract[k].status \in {"processed", "burned"}

\* the newest order of the recorded transaction is as far as the row
Ahead(r, k) ==
  LET row == task[r][k] IN
  row.order \in Latest(r, row.tx) =>
    /\ row.status \in Recorded => order[r][row.order] # "aggregating"
    /\ row.status \in {"confirmed", "processed", "completed"} =>
         order[r][row.order] \notin LiveOrder

RowsFollow ==
  /\ task \in [Relayer -> [Task -> Row]]
  /\ \A r \in Relayer : \A k \in Task : Named(r, k) /\ Agrees(r, k) /\ Ahead(r, k)

RowInv == IInv /\ CallsOwned /\ OrdersOwned /\ LogTrue /\ Unread /\ RowsFollow

LEMMA BuiltIds ==
  ASSUME OrdersBuilt
  PROVE  /\ Len(built) \in Nat /\ DOMAIN built = 1 .. Len(built)
         /\ DOMAIN built \subseteq OrderId /\ 0 \notin DOMAIN built
<1>1. PICK S : built \in Seq(S)
  BY DEF OrdersBuilt
<1>2. Len(built) \in Nat /\ DOMAIN built = 1 .. Len(built) /\ Len(built) <= MaxOrder
  BY <1>1 DEF OrdersBuilt
<1> QED BY <1>2, SafeboxAssumption DEF OrderId

LEMMA LogIds ==
  ASSUME LogRecorded
  PROVE  Len(log) \in Nat /\ DOMAIN log = 1 .. Len(log)
<1>1. PICK S : log \in Seq(S)
  BY DEF LogRecorded
<1> QED BY <1>1

-----------------------------------------------------------------------------
(* The calls *)

LEMMA OwnCallKeeps ==
  ASSUME OrdersBuilt, [Next]_vars, NEW c, OwnCall(built, c)
  PROVE  OwnCall(built', c)
BY BuiltKeeps DEF OwnCall

LEMMA OwnNothing ==
  ASSUME NEW orders PROVE OwnCall(orders, NoCall)
BY DEF OwnCall

\* what the task loop asks for is not about an order
LEMMA OwnBuilt ==
  ASSUME NEW r \in Relayer, NEW i, NEW c \in Built(r, i), NEW orders
  PROVE  OwnCall(orders, c)
<1>1. PICK k \in Newest(r), n \in {n \in 0 .. MaxNonce : Pending(n)} : c = CallFor(r, k, n, i)
  BY DEF Built
<1>2. c.call # "initTimelockTx"
  BY <1>1 DEF CallFor
<1> QED BY <1>2 DEF OwnCall

LEMMA OwnOrder ==
  ASSUME NEW r \in Relayer, NEW o \in DOMAIN built, NEW n, NEW c, c = OrderCall(r, o, n)
  PROVE  OwnCall(built, c)
BY DEF OwnCall, OrderCall

\* calls of the session, the tick and the submission that a step leaves or resets
SessionsKept ==
  \A q \in Relayer : tss'[q].call = tss[q].call \/ tss'[q].call = NoCall
TicksKept ==
  \A q \in Relayer : pc'[q].call = pc[q].call \/ pc'[q].call = NoCall
LoopsKept ==
  \A q \in Relayer : loop'[q].call = loop[q].call \/ loop'[q].call = NoCall

LEMMA OwnKept ==
  ASSUME OrdersBuilt, CallsOwned, [Next]_vars
  PROVE  /\ SessionsKept => \A q \in Relayer : OwnCall(built', tss'[q].call)
         /\ TicksKept => \A q \in Relayer : OwnCall(built', pc'[q].call)
         /\ LoopsKept => \A q \in Relayer : OwnCall(built', loop'[q].call)
         /\ pool' \subseteq pool => \A c \in pool' : OwnCall(built', c)
         /\ net' \subseteq net => \A m \in net' :
              /\ OwnCall(built', m.call)
              /\ m.kind \in {"order", "vote"} => m.order \in DOMAIN built'
<1>1. \A c : OwnCall(built, c) => OwnCall(built', c)
  BY OwnCallKeeps
<1>2. OwnCall(built', NoCall)
  BY OwnNothing
<1>3. DOMAIN built \subseteq DOMAIN built'
  BY BuiltKeeps
<1> QED BY <1>1, <1>2, <1>3 DEF CallsOwned, SessionsKept, TicksKept, LoopsKept

LEMMA OwnStep ==
  ASSUME IInv, CallsOwned, [Next]_vars
  PROVE  CallsOwned'
<1> DEFINE Net == \A m \in net' : /\ OwnCall(built', m.call)
                                  /\ m.kind \in {"order", "vote"} => m.order \in DOMAIN built'
           Tss == \A q \in Relayer : OwnCall(built', tss'[q].call)
           Pc == \A q \in Relayer : OwnCall(built', pc'[q].call)
           Loop == \A q \in Relayer : OwnCall(built', loop'[q].call)
           Pool == \A c \in pool' : OwnCall(built', c)
<1> SUFFICES Net /\ Tss /\ Pc /\ Loop /\ Pool
  BY DEF CallsOwned
<1>1. /\ SessionsKept => Tss
      /\ TicksKept => Pc
      /\ LoopsKept => Loop
      /\ pool' \subseteq pool => Pool
      /\ net' \subseteq net => Net
  BY OwnKept DEF IInv
<1>2. /\ tss' = tss => SessionsKept
      /\ pc' = pc => TicksKept
      /\ loop' = loop => LoopsKept
  BY DEF SessionsKept, TicksKept, LoopsKept
<1>3. \A c : OwnCall(built, c) => OwnCall(built', c)
  BY OwnCallKeeps DEF IInv
<1>4. /\ tss \in [Relayer -> Sessions] /\ pc \in [Relayer -> Places]
      /\ loop \in [Relayer -> Submissions]
  BY DEF IInv, CallsKnown
<1>5. DOMAIN built \subseteq DOMAIN built'
  BY BuiltKeeps DEF IInv
<1> HIDE DEF Net, Tss, Pc, Loop, Pool
<1>6. CASE External \/ UNCHANGED vars
  <2>1. pool' \subseteq pool /\ UNCHANGED <<net, tss, pc, loop>>
    BY <1>6 DEF External, CreateTask, Deposit, CancelTask, Burn, ExternalStep, Execute,
                Rotate, bls, vars
  <2> QED BY <1>1, <1>2, <2>1
<1>7. ASSUME NEW r \in Relayer, Restart(r) PROVE Net /\ Tss /\ Pc /\ Loop /\ Pool
  <2>1. SessionsKept /\ TicksKept /\ LoopsKept
    BY <1>4, <1>7 DEF Restart, SessionsKept, TicksKept, LoopsKept, NoSession, Idle, NoLoop
  <2> QED BY <1>1, <1>7, <2>1 DEF Restart
<1>8. ASSUME NEW r \in Relayer, Expire(r) PROVE Net /\ Tss /\ Pc /\ Loop /\ Pool
  <2>1. SessionsKept
    BY <1>4, <1>8 DEF Expire, SessionsKept, Sessions
  <2> QED BY <1>1, <1>2, <1>8, <2>1 DEF Expire, bls
<1>9. ASSUME NEW r \in Relayer, Handle(r) \/ Bitcoin(r)
      PROVE  Net /\ Tss /\ Pc /\ Loop /\ Pool
  <2>1. UNCHANGED <<pool, net, tss, pc, loop>>
    BY <1>9 DEF Handle, ListenerStep, Bitcoin, Broadcast, RevertPending, ReceiveNotice,
                ConfirmTimelock,
                BitcoinStep, bls
  <2> QED BY <1>1, <1>2, <2>1
<1>10. ASSUME NEW r \in Relayer, Safebox(r), ~ Panic(r) PROVE Net /\ Tss /\ Pc /\ Loop /\ Pool
  <2>1. loop' = loop
    BY <1>10 DEF Safebox, QueryTick, OpenSession, Announce, Query, GiveUp, ApplySignature,
                 HandleTssSign, TickStep, bls
  <2>2. CASE QueryTick(r)
    <3>1. TicksKept
      BY <1>4, <2>2 DEF QueryTick, TicksKept, Places
    <3> QED BY <1>1, <1>2, <2>1, <2>2, <3>1 DEF QueryTick
  <2>3. CASE OpenSession(r)
    <3>1. UNCHANGED <<pool, net>>
      BY <2>3 DEF OpenSession
    <3>2. ASSUME NEW i \in NewId, NEW c \in Built(r, i), SetSession(r, c, TRUE),
                 pc' = [pc EXCEPT ![r] = [at |-> "start", call |-> c]]
          PROVE  Tss /\ Pc
      <4>1. OwnCall(built', c)
        BY OwnBuilt
      <4>2. \A q \in Relayer : /\ tss'[q].call = c \/ tss'[q].call = tss[q].call
                               /\ pc'[q].call = c \/ pc'[q].call = pc[q].call
        BY <1>4, <3>2 DEF SetSession
      <4> QED BY <1>3, <4>1, <4>2 DEF CallsOwned, Tss, Pc
    <3>3. ASSUME tss' = [tss EXCEPT ![r] = Checked(tss[r])], UNCHANGED pc
          PROVE  Tss /\ Pc
      <4>1. SessionsKept
        BY <1>4, <3>3 DEF Checked, NoSession, SessionsKept
      <4> QED BY <1>1, <1>2, <3>3, <4>1
    <3> QED BY <1>1, <1>2, <2>1, <2>3, <3>1, <3>2, <3>3 DEF OpenSession
  <2>4. CASE Announce(r)
    <3>1. TicksKept /\ SessionsKept /\ pool' = pool
      BY <1>4, <2>4 DEF Announce, TicksKept, SessionsKept, Idle, ResetSession, NoSession
    <3>2. net' = net \/ Publish(r, "task", 0, tss[r].call)
      BY <2>4 DEF Announce
    <3>3. ASSUME Publish(r, "task", 0, tss[r].call) PROVE Net
      <4>1. \A m \in net' : m \in net \/ (m.kind = "task" /\ m.call = tss[r].call)
        BY <3>3 DEF Publish
      <4> QED BY <1>3, <1>5, <4>1 DEF CallsOwned, Net
    <3> QED BY <1>1, <1>2, <2>1, <3>1, <3>2, <3>3
  <2>5. CASE Query(r)
    <3>1. \A q \in Relayer : pc'[q].call = tss[r].call \/ pc'[q].call = pc[q].call
      BY <1>4, <2>5 DEF Query
    <3>2. Pc
      BY <1>3, <3>1 DEF CallsOwned, Pc
    <3> QED BY <1>1, <1>2, <2>1, <2>5, <3>2 DEF Query
  <2>6. CASE GiveUp(r)
    <3>1. TicksKept /\ SessionsKept
      BY <1>4, <2>6 DEF GiveUp, ResetSession, NoSession, Idle, TicksKept, SessionsKept
    <3> QED BY <1>1, <1>2, <2>1, <2>6, <3>1 DEF GiveUp
  <2>7. CASE ApplySignature(r)
    <3>1. TicksKept /\ SessionsKept /\ net' = net
      BY <1>4, <2>7 DEF ApplySignature, Idle, TicksKept, SessionsKept, Sessions
    <3>2. pool' \subseteq pool \cup {pc[r].call}
      BY <2>7 DEF ApplySignature
    <3>3. Pool
      BY <1>3, <3>2 DEF CallsOwned, Pool
    <3> QED BY <1>1, <1>2, <2>1, <3>1, <3>3
  <2>8. ASSUME NEW m \in net, HandleTssSign(r, m) PROVE Net /\ Tss /\ Pc /\ Loop /\ Pool
    <3>1. \A q \in Relayer : tss'[q].call = m.call \/ tss'[q].call = tss[q].call
      <4> DEFINE s == [NoSession EXCEPT !.on = tss[r].on, !.call = m.call, !.hasTx = TRUE]
      <4>1. s.call = m.call
        BY DEF NoSession
      <4>2. tss' = tss \/ tss' = [tss EXCEPT ![r] = s]
        BY <2>8 DEF HandleTssSign
      <4> HIDE DEF s
      <4> QED BY <1>4, <4>1, <4>2
    <3>2. Tss
      BY <1>3, <3>1 DEF CallsOwned, Tss
    <3>3. net' \subseteq net /\ UNCHANGED <<pool, pc>>
      BY <2>8 DEF HandleTssSign
    <3> QED BY <1>1, <1>2, <2>1, <3>2, <3>3
  <2> QED BY <1>10, <2>2, <2>3, <2>4, <2>5, <2>6, <2>7, <2>8 DEF Safebox
<1>11. ASSUME NEW r \in Relayer, Sending(r) PROVE Net /\ Tss /\ Pc /\ Loop /\ Pool
  <2>1. pc' = pc
    BY <1>11 DEF Sending, InitWithdrawSig, LoseRole, StartRound, SubmitSend, SubmitEnd,
                 ReceiveOrder, SubmitBegin, SigTimeout, WalletStep, SignerStep
  <2>2. CASE InitWithdrawSig(r) \/ LoseRole(r) \/ \E o \in DOMAIN built : SigTimeout(r, o)
    <3>1. UNCHANGED <<pool, net, tss, loop>>
      BY <2>2 DEF InitWithdrawSig, LoseRole, SigTimeout, WalletStep
    <3> QED BY <1>1, <1>2, <2>1, <3>1
  <2>3. CASE StartRound(r)
    <3> DEFINE o == asked[r]
    <3>1. o \in DOMAIN built
      BY <2>3 DEF StartRound, IInv, CallsKnown
    <3>2. UNCHANGED <<pool, loop>>
      BY <2>3 DEF StartRound
    <3>3. ASSUME NEW n \in 0 .. MaxNonce, NEW c, c = OrderCall(r, o, n),
                 SetSession(r, c, TRUE), Publish(r, "order", o, c)
          PROVE  Net /\ Tss
      <4>1. OwnCall(built, c)
        BY <3>1, <3>3, OwnOrder
      <4>2. \A q \in Relayer : tss'[q].call = c \/ tss'[q].call = tss[q].call
        BY <1>4, <3>3 DEF SetSession
      <4>3. \A m \in net' : m \in net \/ (m.order = o /\ m.call = c)
        BY <3>3 DEF Publish
      <4> HIDE DEF o
      <4> QED BY <1>3, <1>5, <3>1, <4>1, <4>2, <4>3 DEF CallsOwned, Net, Tss
    <3>4. ASSUME ResetSession(r), net' = net PROVE Net /\ Tss
      <4>1. SessionsKept
        BY <1>4, <3>4 DEF ResetSession, NoSession, SessionsKept
      <4> QED BY <1>1, <3>4, <4>1
    <3>5. \/ \E n \in 0 .. MaxNonce : \E c : /\ c = OrderCall(r, o, n)
                                             /\ SetSession(r, c, TRUE) /\ Publish(r, "order", o, c)
          \/ ResetSession(r) /\ net' = net
          \/ tss' = tss /\ net' = net
      BY <2>3 DEF StartRound
    <3> QED BY <1>1, <1>2, <2>1, <3>2, <3>3, <3>4, <3>5
  <2>4. ASSUME NEW m \in net, ReceiveOrder(r, m) PROVE Net /\ Tss /\ Pc /\ Loop /\ Pool
    <3>1. UNCHANGED <<pool, loop>>
      BY <2>4 DEF ReceiveOrder
    <3>2. \/ net' \subseteq net /\ tss' = tss
          \/ /\ SetSession(r, m.call, FALSE)
             /\ net' = (net \ {m}) \cup
                  {[kind |-> "vote", to |-> q, order |-> m.order, call |-> m.call] :
                     q \in Relayer \ {r}}
      BY <2>4 DEF ReceiveOrder
    <3>3. m.order \in DOMAIN built /\ OwnCall(built, m.call)
      BY <2>4 DEF ReceiveOrder, CallsOwned
    <3>4. ASSUME NEW x \in net' PROVE x \in net \/ (x.order = m.order /\ x.call = m.call)
      <4>1. \/ x \in net
            \/ \E q \in Relayer : x = [kind |-> "vote", to |-> q, order |-> m.order,
                                      call |-> m.call]
        BY <3>2
      <4> QED BY <4>1
    <3>5. \A q \in Relayer : tss'[q].call = m.call \/ tss'[q].call = tss[q].call
      BY <1>4, <3>2 DEF SetSession
    <3>6. Net /\ Tss
      BY <1>3, <1>5, <3>3, <3>4, <3>5 DEF CallsOwned, Net, Tss
    <3> QED BY <1>1, <1>2, <2>1, <3>1, <3>6
  <2>5. ASSUME NEW m \in net, SubmitBegin(r, m) PROVE Net /\ Tss /\ Pc /\ Loop /\ Pool
    <3>1. pool' = pool /\ net' \subseteq net
      BY <2>5 DEF SubmitBegin
    <3>2. SessionsKept
      BY <1>4, <2>5 DEF SubmitBegin, Checked, NoSession, SessionsKept
    <3>3. \A q \in Relayer : loop'[q].call = tss[r].call \/ loop'[q].call = loop[q].call
      BY <1>4, <2>5 DEF SubmitBegin
    <3>4. Loop
      BY <1>3, <3>3 DEF CallsOwned, Loop
    <3> QED BY <1>1, <1>2, <2>1, <3>1, <3>2, <3>4
  <2>6. CASE SubmitSend(r)
    <3>1. net' = net /\ pool' \subseteq pool \cup {loop[r].call}
      BY <2>6 DEF SubmitSend
    <3>2. LoopsKept
      BY <1>4, <2>6 DEF SubmitSend, EndSubmit, NoLoop, LoopsKept, Submissions
    <3>3. SessionsKept
      BY <1>4, <2>6 DEF SubmitSend, SessionsKept, Sessions
    <3>4. Pool
      BY <1>3, <3>1 DEF CallsOwned, Pool
    <3> QED BY <1>1, <1>2, <2>1, <3>1, <3>2, <3>3, <3>4
  <2>7. CASE SubmitEnd(r)
    <3>1. UNCHANGED <<pool, net, tss>> /\ LoopsKept
      BY <1>4, <2>7 DEF SubmitEnd, EndSubmit, NoLoop, LoopsKept
    <3> QED BY <1>1, <1>2, <2>1, <3>1
  <2> QED BY <1>11, <2>2, <2>3, <2>4, <2>5, <2>6, <2>7 DEF Sending
<1> QED BY <1>6, <1>7, <1>8, <1>9, <1>10, <1>11 DEF Next, Crash, Panic

-----------------------------------------------------------------------------
(* The contract and its events *)

Early == {"none", "created", "deposited", "received", "cancelled"}

\* the steps of the contract for one task, with the event
Turns(k, s, t, e) ==
  LET old == contract[k] IN
  /\ SetContract(k, s, t, e)
  /\ \/ e = "TaskCreated" /\ old.status = "none" /\ s = "created"
     \/ e \in {"NewDeposit", "FundsReceived"} /\ old.status \in {"created", "deposited"}
          /\ s \in {"deposited", "received"}
     \/ e = "TaskCancelled" /\ old.status \in {"created", "deposited"} /\ s = "cancelled"
     \/ e = "TimelockInitialized" /\ old.status = "received" /\ s = "initialized"
          /\ \E o \in DOMAIN built : built[o].tx = t /\ built[o].task = k
     \/ e = "TimelockProcessed" /\ old.status = "initialized" /\ s = "processed" /\ t = old.tx
     \/ e = "Burned" /\ old.status = "processed" /\ s = "burned" /\ t = old.tx

Turn == \E k \in Task : \E s, t, e : Turns(k, s, t, e)

LEMMA TurnCases ==
  ASSUME IInv, CallsOwned, [Next]_vars
  PROVE  \/ UNCHANGED <<contract, log>>
         \/ Turn /\ UNCHANGED <<built, sent, cursor, task, order>>
<1>1. ASSUME NEW k \in Task, CreateTask(k) \/ Deposit(k) \/ CancelTask(k) \/ Burn(k)
      PROVE  Turn /\ UNCHANGED <<built, sent, cursor, task, order>>
  <2>1. UNCHANGED <<built, sent, cursor, task, order>>
    BY <1>1 DEF CreateTask, Deposit, CancelTask, Burn, ExternalStep, rows
  <2>2. \/ Turns(k, "created", NoTx, "TaskCreated")
        \/ Turns(k, "deposited", NoTx, "NewDeposit")
        \/ Turns(k, "cancelled", NoTx, "TaskCancelled")
        \/ Turns(k, "burned", contract[k].tx, "Burned")
    BY <1>1 DEF CreateTask, Deposit, CancelTask, Burn, Turns
  <2> QED BY <2>1, <2>2 DEF Turn
<1>2. ASSUME NEW c \in pool, Execute(c)
      PROVE  \/ UNCHANGED <<contract, log>>
             \/ Turn /\ UNCHANGED <<built, sent, cursor, task, order>>
  <2>1. c \in Call /\ c.task \in Task /\ c.call \in Function /\ c # NoCall
    BY NoCallAssumption DEF IInv, CallsKnown, Call
  <2>2. UNCHANGED <<built, sent, cursor, task, order>>
    BY <1>2 DEF Execute, rows
  <2>3. CASE ~ Callable(c)
    BY <1>2, <2>3 DEF Execute
  <2>4. CASE Callable(c) /\ c.call = "receiveFunds"
    <3>1. SetContract(c.task, "received", NoTx, "FundsReceived")
      BY <1>2, <2>4 DEF Execute
    <3>2. Turns(c.task, "received", NoTx, "FundsReceived")
      BY <2>4, <3>1 DEF Turns, Callable
    <3> QED BY <2>1, <2>2, <3>2 DEF Turn
  <2>5. CASE Callable(c) /\ c.call = "initTimelockTx"
    <3>1. SetContract(c.task, "initialized", built[c.order].tx, "TimelockInitialized")
      BY <1>2, <2>5 DEF Execute
    <3>2. c.order \in DOMAIN built /\ built[c.order].task = c.task
      BY <2>1, <2>5 DEF CallsOwned, OwnCall
    <3>3. Turns(c.task, "initialized", built[c.order].tx, "TimelockInitialized")
      BY <2>5, <3>1, <3>2 DEF Turns, Callable
    <3> QED BY <2>1, <2>2, <3>3 DEF Turn
  <2>6. CASE Callable(c) /\ c.call = "processTimelockTx"
    <3>1. SetContract(c.task, "processed", contract[c.task].tx, "TimelockProcessed")
      BY <1>2, <2>6 DEF Execute
    <3>2. Turns(c.task, "processed", contract[c.task].tx, "TimelockProcessed")
      BY <2>6, <3>1 DEF Turns, Callable
    <3> QED BY <2>1, <2>2, <3>2 DEF Turn
  <2> QED BY <2>1, <2>3, <2>4, <2>5, <2>6 DEF Function
<1>3. ASSUME NEW r \in Relayer, Rotate(r) \/ Crash(r) \/ Expire(r)
      PROVE  UNCHANGED <<contract, log>>
  BY <1>3 DEF Rotate, Crash, Restart, Expire, chain
<1>4. ASSUME NEW r \in Relayer, Safebox(r) PROVE UNCHANGED <<contract, log>>
  BY <1>4 DEF Safebox, QueryTick, OpenSession, Announce, Query, GiveUp, ApplySignature,
              HandleTssSign, TickStep, Panic, Restart, chain
<1>5. ASSUME NEW r \in Relayer, Sending(r) PROVE UNCHANGED <<contract, log>>
  BY <1>5 DEF Sending, InitWithdrawSig, LoseRole, StartRound, SubmitSend, SubmitEnd,
              ReceiveOrder, SubmitBegin, SigTimeout, WalletStep, SignerStep, chain
<1>6. ASSUME NEW r \in Relayer, Handle(r) \/ Bitcoin(r) PROVE UNCHANGED <<contract, log>>
  BY <1>6 DEF Handle, ListenerStep, Bitcoin, Broadcast, RevertPending, ReceiveNotice,
              ConfirmTimelock,
              BitcoinStep, chain
<1>7. CASE UNCHANGED vars
  BY <1>7 DEF vars, chain
<1> QED BY <1>1, <1>2, <1>3, <1>4, <1>5, <1>6, <1>7 DEF Next, External

\* what a step leaves of the contract
Lasts ==
  \A k \in Task :
    /\ contract'[k].status = "none" => contract[k].status = "none"
    /\ contract[k].tx \in Timelock => contract'[k].tx = contract[k].tx
    /\ contract[k].status = "cancelled" => contract'[k].status = "cancelled"
    /\ contract[k].status \in {"processed", "burned"} =>
         contract'[k].status \in {"processed", "burned"}

LEMMA TurnKeeps ==
  ASSUME RowInv, [Next]_vars
  PROVE  /\ Lasts /\ LogTrue'
         /\ \A i \in DOMAIN log : i \in DOMAIN log' /\ log'[i] = log[i]
         /\ \A i \in DOMAIN log' \ DOMAIN log :
              log'[i].event = "TaskCreated" =>
                /\ \A r \in Relayer : task[r][log'[i].task].status = "none"
                /\ UNCHANGED task
<1>1. CASE UNCHANGED <<contract, log>>
  BY <1>1 DEF Lasts, RowInv, LogTrue, Tells
<1>2. CASE Turn /\ UNCHANGED task
  <2>1. PICK k \in Task : \E s, t, e : Turns(k, s, t, e)
    BY <1>2 DEF Turn
  <2>2. PICK s, t, e : Turns(k, s, t, e)
    BY <2>1
  <2> DEFINE new == [event |-> e, task |-> k, tx |-> t]
  <2>3. /\ contract' = [contract EXCEPT ![k] = [status |-> s, tx |-> t]]
        /\ log' = Append(log, new)
        /\ new.event = e /\ new.task = k /\ new.tx = t
    BY <2>2 DEF Turns, SetContract, Emit
  <2>4. /\ contract'[k].status = s /\ contract'[k].tx = t
        /\ \A j \in Task \ {k} : contract'[j] = contract[j]
    BY <2>3 DEF RowInv, IInv, NamedLate
  <2>5. contract[k].tx \in Timelock => contract[k].status \notin Early
    BY SafeboxAssumption DEF RowInv, IInv, NamedLate, Early
  <2>6. Lasts
    BY <2>2, <2>4, <2>5 DEF Lasts, Turns, Early
  <2>7. /\ DOMAIN log = 1 .. Len(log) /\ Len(log) \in Nat
        /\ DOMAIN log' = 1 .. (Len(log) + 1)
        /\ \A i \in 1 .. Len(log) : log'[i] = log[i]
        /\ log'[Len(log) + 1] = new
    <3>1. PICK S : log \in Seq(S)
      BY DEF RowInv, IInv, LogRecorded
    <3> HIDE DEF new
    <3> QED BY <2>3, <3>1, Appended
  <2> HIDE DEF new
  <2>8. ASSUME NEW i \in DOMAIN log PROVE Tells(contract', log[i])
    <3>1. Tells(contract, log[i])
      BY DEF RowInv, LogTrue
    <3> QED BY <2>6, <3>1 DEF Tells, Lasts
  <2>9. Tells(contract', new)
    <3>1. CASE e = "TimelockInitialized"
      <4>1. t \in Timelock
        BY <2>2, <3>1 DEF Turns, RowInv, IInv, OrdersBuilt
      <4> QED BY <2>3, <2>4, <3>1, <4>1 DEF Tells
    <3>2. CASE e # "TimelockInitialized"
      BY <2>2, <2>3, <2>4, <3>2 DEF Tells, Turns
    <3> QED BY <3>1, <3>2
  <2>10. ASSUME NEW i \in DOMAIN log, log[i].event = "TaskCreated", e = "TaskCreated"
         PROVE  log[i].task # k
    <3>1. contract[k].status = "none"
      BY <2>2, <2>10 DEF Turns
    <3>2. Tells(contract, log[i])
      BY DEF RowInv, LogTrue
    <3> QED BY <2>10, <3>1, <3>2 DEF Tells
  <2>11. \A i, j \in DOMAIN log :
           log[i].event = "TaskCreated" /\ log[j].event = "TaskCreated" /\ log[i].task = log[j].task
             => i = j
    BY DEF RowInv, LogTrue
  <2>12. /\ \A i \in DOMAIN log' : i \in DOMAIN log \/ i = Len(log) + 1
         /\ \A i \in DOMAIN log : log'[i] = log[i] /\ i \in DOMAIN log'
    BY <2>7
  <2>13. \A i \in DOMAIN log' : Tells(contract', log'[i])
    BY <2>7, <2>8, <2>9, <2>12
  <2>14. ASSUME NEW i \in DOMAIN log', NEW j \in DOMAIN log',
                log'[i].event = "TaskCreated", log'[j].event = "TaskCreated",
                log'[i].task = log'[j].task
         PROVE  i = j
    <3>1. CASE i \in DOMAIN log /\ j \in DOMAIN log
      BY <2>11, <2>12, <2>14, <3>1
    <3>2. CASE i \in DOMAIN log /\ j = Len(log) + 1
      BY <2>3, <2>7, <2>10, <2>12, <2>14, <3>2
    <3>3. CASE i = Len(log) + 1 /\ j \in DOMAIN log
      BY <2>3, <2>7, <2>10, <2>12, <2>14, <3>3
    <3> QED BY <2>12, <3>1, <3>2, <3>3
  <2>15. LogTrue'
    BY <2>13, <2>14 DEF LogTrue
  <2>16. ASSUME e = "TaskCreated" PROVE \A r \in Relayer : task[r][k].status = "none"
    BY <2>2, <2>16 DEF Turns, RowInv, Unread
  <2>17. \A i \in DOMAIN log' \ DOMAIN log : log'[i] = new
    BY <2>7, <2>12
  <2> QED BY <1>2, <2>3, <2>6, <2>12, <2>15, <2>16, <2>17
<1> QED BY <1>1, <1>2, TurnCases DEF RowInv

\* what the contract names was built for its task
LEMMA OwnedStep ==
  ASSUME RowInv, [Next]_vars, \A r \in Relayer : \A o \in OrderId :
           order'[r][o] # "none" => order[r][o] # "none" \/ o \in DOMAIN built'
  PROVE  OrdersOwned'
<1> DEFINE Single(b) == \A o, p \in DOMAIN b : b[o].tx = b[p].tx => b[o].task = b[p].task
<1>1. Single(built) /\ OrdersBuilt
  BY DEF RowInv, IInv, OrdersOwned
<1>2. /\ DOMAIN built \subseteq DOMAIN built'
      /\ \A o \in DOMAIN built : built'[o] = built[o]
  BY <1>1, BuiltKeeps
<1>3. Single(built')
  <2>1. CASE built' = built
    BY <1>1, <2>1
  <2>2. ASSUME NEW r \in Relayer, InitWithdrawSig(r), built' # built PROVE Single(built')
    <3>1. PICK k \in Task, t \in Timelock :
            /\ built' = Append(built, [task |-> k, tx |-> t, old |-> task[r][k].tx, by |-> r,
                                       epoch |-> epoch])
            /\ \A p \in DOMAIN built : built[p].tx = t => built[p].task = k
      BY ZenonT(60), <2>2 DEF InitWithdrawSig
    <3> DEFINE b == [task |-> k, tx |-> t, old |-> task[r][k].tx, by |-> r, epoch |-> epoch]
    <3>2. b.task = k /\ b.tx = t /\ built' = Append(built, b)
      BY <3>1
    <3>3. PICK S : built \in Seq(S)
      BY <1>1 DEF OrdersBuilt
    <3> HIDE DEF b
    <3>4. \A o \in DOMAIN built' : (o \in DOMAIN built /\ built'[o] = built[o]) \/ built'[o] = b
      BY <3>2, <3>3, Appended
    <3> QED BY <1>1, <3>1, <3>2, <3>4
  <2>3. built' = built \/ \E r \in Relayer : InitWithdrawSig(r)
    <3>1. CASE External \/ UNCHANGED vars
      BY <3>1 DEF External, CreateTask, Deposit, CancelTask, Burn, ExternalStep, Execute, Rotate,
                  vars
    <3>2. ASSUME NEW r \in Relayer, Crash(r) \/ Expire(r) \/ Safebox(r)
          PROVE  built' = built
      BY <3>2 DEF Crash, Restart, Expire, Safebox, QueryTick, OpenSession, Announce, Query, GiveUp,
                  ApplySignature, HandleTssSign, TickStep, Panic
    <3>3. ASSUME NEW r \in Relayer, Sending(r), ~ InitWithdrawSig(r) PROVE built' = built
      BY <3>3 DEF Sending, LoseRole, StartRound, SubmitSend, SubmitEnd, ReceiveOrder, SubmitBegin,
                  SigTimeout, SignerStep, WalletStep
    <3>4. ASSUME NEW r \in Relayer, Handle(r) \/ Bitcoin(r) PROVE built' = built
      BY <3>4 DEF Handle, ListenerStep, Bitcoin, Broadcast, RevertPending, ReceiveNotice,
                  ConfirmTimelock,
                  BitcoinStep
    <3> QED BY <3>1, <3>2, <3>3, <3>4 DEF Next
  <2> HIDE DEF Single
  <2> QED BY <2>1, <2>2, <2>3
<1>4. ASSUME NEW k \in Task, contract'[k].tx \in Timelock
      PROVE  \E o \in DOMAIN built : built[o].tx = contract'[k].tx /\ built[o].task = k
  <2>1. CASE contract' = contract
    BY <1>4, <2>1 DEF RowInv, OrdersOwned
  <2>2. CASE Turn
    <3>1. PICK j \in Task : \E s, t, e : Turns(j, s, t, e)
      BY <2>2 DEF Turn
    <3>2. PICK s, t, e : Turns(j, s, t, e)
      BY <3>1
    <3>3. /\ contract'[j].status = s /\ contract'[j].tx = t
          /\ \A i \in Task \ {j} : contract'[i] = contract[i]
      BY <3>2 DEF Turns, SetContract, RowInv, IInv, NamedLate
    <3>4. NamedLate'
      BY ContractKeeps DEF RowInv
    <3>5. CASE k = j
      <4>1. s \notin Early
        BY <1>4, <3>3, <3>4, <3>5, SafeboxAssumption DEF NamedLate, Early
      <4>2. \/ \E o \in DOMAIN built : built[o].tx = t /\ built[o].task = k
            \/ t = contract[k].tx
        BY <3>2, <3>5, <4>1 DEF Turns, Early
      <4> QED BY <1>4, <3>3, <3>5, <4>2 DEF RowInv, OrdersOwned
    <3>6. CASE k # j
      BY <1>4, <3>3, <3>6 DEF RowInv, OrdersOwned
    <3> QED BY <3>5, <3>6
  <2> QED BY <2>1, <2>2, TurnCases DEF RowInv
<1> QED BY <1>2, <1>3, <1>4 DEF OrdersOwned, RowInv

-----------------------------------------------------------------------------
(* What a step may do to one row and to the orders of one relayer *)

\* the event that relayer q reads in a step
Reads(q) == cursor[q] + 1
ReadsCreation(q, k) ==
  /\ Reads(q) \in DOMAIN log /\ cursor'[q] = Reads(q)
  /\ log[Reads(q)].event = "TaskCreated" /\ log[Reads(q)].task = k

SameOrder(q, k) ==
  task'[q][k].order = task[q][k].order /\ task'[q][k].tx = task[q][k].tx

\* before the record: events, failed rounds and clean-ups
EarlyMove(q, k) ==
  LET old == task[q][k].status  new == task'[q][k].status IN
  /\ SameOrder(q, k)
  /\ old \notin Recorded /\ new \notin Recorded
  /\ new = "none" => old = "none"
  /\ old = "none" => new = "none" \/ ReadsCreation(q, k)

\* a task gets an order, at the proposer or at a voter
OrderMove(q, k) ==
  LET old == task[q][k]  new == task'[q][k] IN
  /\ old.status \in {"received_ok", "init"} /\ new.status = "init"
  /\ new.order \in DOMAIN built'
  /\ built'[new.order].task = k /\ built'[new.order].tx = new.tx
  /\ order'[q][new.order] = "aggregating"

\* the contract recorded the transaction
RecordMove(q, k) ==
  LET old == task[q][k]  new == task'[q][k] IN
  /\ old.status \notin Recorded \cup {"none"} /\ new.status = "init_ok"
  /\ new.order = old.order /\ new.tx \in Timelock /\ new.tx = contract[k].tx
  /\ \A o \in Latest(q, new.tx) : order'[q][o] # "aggregating"

ProcessedMove(q, k) ==
  LET old == task[q][k]  new == task'[q][k] IN
  /\ old.status \in {"confirmed", "init_ok"} /\ new.status = "processed"
  /\ SameOrder(q, k) /\ contract[k].status \in {"processed", "burned"}
  /\ \A o \in Latest(q, old.tx) :
       order[q][o] # "aggregating" => order'[q][o] \notin LiveOrder

CompletedMove(q, k) ==
  /\ task[q][k].status = "processed" /\ task'[q][k].status = "completed"
  /\ SameOrder(q, k) /\ order'[q] = order[q]

\* the row follows its order, and the order its transaction
AdvanceMove(q, k) ==
  LET old == task[q][k]  new == task'[q][k]  t == built[old.order].tx IN
  /\ new.status \in {"pending", "confirmed"} /\ SameOrder(q, k)
  /\ old.order \in Latest(q, t) /\ t \in RecordedTxs
  /\ order[q][old.order] \in LiveOrder /\ order'[q][old.order] = new.status
  /\ new.status = "confirmed" => t \in sent'

RowMove(q, k) ==
  \/ task'[q][k] = task[q][k]
  \/ EarlyMove(q, k) \/ OrderMove(q, k) \/ RecordMove(q, k)
  \/ ProcessedMove(q, k) \/ CompletedMove(q, k) \/ AdvanceMove(q, k)

\* an order starts to be signed with the row of its task
Starts(q, o) ==
  o \in DOMAIN built' /\ built'[o].task \in Task /\ task'[q][built'[o].task].status = "init"

OrdersMove(q) ==
  \A o \in OrderId :
    /\ order[q][o] # "none" => order'[q][o] # "none"
    /\ order'[q][o] # "none" => order[q][o] # "none" \/ o \in DOMAIN built'
    /\ order'[q][o] = "aggregating" => order[q][o] = "aggregating" \/ Starts(q, o)
    /\ order'[q][o] \in LiveOrder =>
         order[q][o] \in LiveOrder \cup {"none"} \/ Starts(q, o)

Moves(q) == OrdersMove(q) /\ \A k \in Task : RowMove(q, k)

RowTypes ==
  task' \in [Relayer -> [Task -> Row]] /\ \A q \in Relayer : Moves(q)

LEMMA StayMoves ==
  ASSUME RowInv, task' = task, order' = order PROVE RowTypes
BY DEF RowTypes, Moves, OrdersMove, RowMove, RowInv, RowsFollow, OrdersOwned

\* a step of r that leaves the rows and orders of the others
LEMMA OneMoves ==
  ASSUME RowInv, NEW r \in Relayer, NEW R \in [Task -> Row], NEW O,
         task' = [task EXCEPT ![r] = R], order' = [order EXCEPT ![r] = O],
         Moves(r), DOMAIN built \subseteq DOMAIN built'
  PROVE  RowTypes
<1>1. task \in [Relayer -> [Task -> Row]] /\ order \in [Relayer -> [OrderId -> Statuses]]
  BY DEF RowInv, RowsFollow, IInv, OrdersRecorded
<1>2. task' \in [Relayer -> [Task -> Row]]
  BY <1>1
<1>3. ASSUME NEW q \in Relayer, q # r PROVE Moves(q)
  <2>1. task'[q] = task[q] /\ order'[q] = order[q]
    BY <1>1, <1>3
  <2>2. \A o \in OrderId : order[q][o] # "none" => o \in DOMAIN built'
    BY DEF RowInv, OrdersOwned
  <2> QED BY <2>1, <2>2 DEF Moves, OrdersMove, RowMove
<1> QED BY <1>2, <1>3 DEF RowTypes

LEMMA StatusRow ==
  ASSUME NEW row \in Row, NEW s \in RowStatus
  PROVE  LET new == [row EXCEPT !.status = s] IN
         new \in Row /\ new.status = s /\ new.order = row.order /\ new.tx = row.tx
BY DEF Row

\* cleanWithdrawProcess
LEMMA CleanedRow ==
  ASSUME RowInv, NEW r \in Relayer
  PROVE  /\ CleanTasks(r) = [task EXCEPT ![r] = CleanTasks(r)[r]]
         /\ CleanOrders(r) = [order EXCEPT ![r] = CleanOrders(r)[r]]
         /\ CleanTasks(r)[r] \in [Task -> Row]
         /\ \A k \in Task :
              LET old == task[r][k]  new == CleanTasks(r)[r][k] IN
              \/ new = old
              \/ /\ old.status = "init" /\ new = [old EXCEPT !.status = "received_ok"]
         /\ \A o \in OrderId :
              \/ CleanOrders(r)[r][o] = order[r][o]
              \/ order[r][o] = "aggregating" /\ CleanOrders(r)[r][o] = "closed"
<1>1. task \in [Relayer -> [Task -> Row]] /\ order \in [Relayer -> [OrderId -> Statuses]]
  BY DEF RowInv, RowsFollow, IInv, OrdersRecorded
<1> DEFINE R == [k \in Task |->
     IF task[r][k].order \in Cleaned(r) /\ task[r][k].status = "init"
     THEN [task[r][k] EXCEPT !.status = "received_ok"] ELSE task[r][k]]
           O == [o \in OrderId |-> IF o \in Cleaned(r) THEN "closed" ELSE order[r][o]]
<1>2. CleanTasks(r) = [task EXCEPT ![r] = R] /\ CleanOrders(r) = [order EXCEPT ![r] = O]
  BY DEF CleanTasks, CleanOrders, MoveOrders
<1>3. CleanTasks(r)[r] = R /\ CleanOrders(r)[r] = O
  BY <1>1, <1>2
<1>4. ASSUME NEW k \in Task PROVE [task[r][k] EXCEPT !.status = "received_ok"] \in Row
  <2>1. task[r][k] \in Row
    BY <1>1
  <2>2. "received_ok" \in RowStatus
    BY DEF RowStatus
  <2> HIDE DEF R, O
  <2> QED BY <2>1, <2>2, StatusRow
<1>5. R \in [Task -> Row]
  BY <1>1, <1>4
<1>6. \A o \in Cleaned(r) : order[r][o] = "aggregating"
  BY DEF Cleaned
<1> QED BY <1>2, <1>3, <1>5, <1>6

LEMMA CleanMoves ==
  ASSUME RowInv, NEW r \in Relayer, task' = CleanTasks(r), order' = CleanOrders(r),
         DOMAIN built \subseteq DOMAIN built'
  PROVE  RowTypes
<1>1. task \in [Relayer -> [Task -> Row]] /\ order \in [Relayer -> [OrderId -> Statuses]]
  BY DEF RowInv, RowsFollow, IInv, OrdersRecorded
<1> DEFINE R == CleanTasks(r)[r]  O == CleanOrders(r)[r]
<1>2. /\ task' = [task EXCEPT ![r] = R] /\ order' = [order EXCEPT ![r] = O]
      /\ R \in [Task -> Row]
  BY CleanedRow
<1>3. task'[r] = R /\ order'[r] = O
  BY <1>1, <1>2
<1>4. ASSUME NEW k \in Task PROVE RowMove(r, k)
  <2>1. CASE R[k] = task[r][k]
    BY <1>3, <2>1 DEF RowMove
  <2>2. CASE task[r][k].status = "init" /\ R[k] = [task[r][k] EXCEPT !.status = "received_ok"]
    <3>1. /\ R[k].status = "received_ok" /\ R[k].order = task[r][k].order
          /\ R[k].tx = task[r][k].tx
      BY <1>1, <2>2, StatusRow DEF RowStatus
    <3> QED BY <1>3, <2>2, <3>1 DEF RowMove, EarlyMove, SameOrder, Recorded
  <2> QED BY <2>1, <2>2, CleanedRow
<1>5. OrdersMove(r)
  <2>1. \A o \in OrderId : O[o] = order[r][o] \/ (order[r][o] = "aggregating" /\ O[o] = "closed")
    BY CleanedRow
  <2>2. \A o \in OrderId : order[r][o] # "none" => o \in DOMAIN built'
    BY DEF RowInv, OrdersOwned
  <2> HIDE DEF O
  <2> QED BY <1>3, <2>1, <2>2 DEF OrdersMove, LiveOrder
<1> HIDE DEF R, O
<1> QED BY <1>2, <1>4, <1>5, OneMoves DEF Moves

\* a round that failed or timed out
LEMMA FailMoves ==
  ASSUME RowInv, NEW r \in Relayer, NEW o, FailRound(r, o), order' = order
  PROVE  RowTypes
<1>1. task \in [Relayer -> [Task -> Row]] /\ order \in [Relayer -> [OrderId -> Statuses]]
  BY DEF RowInv, RowsFollow, IInv, OrdersRecorded
<1> DEFINE S == {k \in Task : task[r][k].tx = built[o].tx /\ task[r][k].status = "init"}
           R == [k \in Task |->
             IF k \in S THEN [task[r][k] EXCEPT !.status = "received_ok"] ELSE task[r][k]]
<1>2. task' = [task EXCEPT ![r] = R] /\ \A k \in S : task[r][k].status = "init"
  BY DEF FailRound
<1> HIDE DEF S
<1>3. ASSUME NEW k \in Task
      PROVE  /\ R[k] \in Row
             /\ R[k] = task[r][k] \/ EarlyMove(r, k)
  <2>1. CASE k \notin S
    BY <1>1, <2>1
  <2>2. CASE k \in S
    <3>1. R[k] = [task[r][k] EXCEPT !.status = "received_ok"]
      BY <2>2
    <3>2. /\ R[k] \in Row /\ R[k].status = "received_ok" /\ R[k].order = task[r][k].order
          /\ R[k].tx = task[r][k].tx
      <4>1. task[r][k] \in Row /\ "received_ok" \in RowStatus
        BY <1>1 DEF RowStatus
      <4> HIDE DEF R
      <4> QED BY <3>1, <4>1, StatusRow
    <3>3. task'[r][k] = R[k]
      BY <1>1, <1>2
    <3> QED BY <1>2, <2>2, <3>2, <3>3 DEF EarlyMove, SameOrder, Recorded
  <2> QED BY <2>1, <2>2
<1>4. R \in [Task -> Row]
  BY <1>3
<1> HIDE DEF R
<1>5. task' \in [Relayer -> [Task -> Row]] /\ task'[r] = R
      /\ \A q \in Relayer \ {r} : task'[q] = task[q]
  BY <1>1, <1>2, <1>4
<1>6. \A q \in Relayer : \A k \in Task : RowMove(q, k)
  BY <1>3, <1>5 DEF RowMove
<1>7. \A q \in Relayer : OrdersMove(q)
  BY DEF OrdersMove, RowInv, OrdersOwned
<1> QED BY <1>5, <1>6, <1>7 DEF RowTypes, Moves

LEMMA BuildMoves ==
  ASSUME RowInv, OrdersBuilt', NEW r \in Relayer, NEW k \in Task, NEW t \in Timelock,
         Builds(r, k, t), CleanTasks(r)[r][k].status = "received_ok",
         order' = [CleanOrders(r) EXCEPT ![r][Len(built) + 1] = "aggregating"],
         task' = [CleanTasks(r) EXCEPT ![r][k] =
           [task[r][k] EXCEPT !.status = "init", !.order = Len(built) + 1, !.tx = t]]
  PROVE  RowTypes
<1> DEFINE n == Len(built) + 1
           C == CleanTasks(r)[r]
           new == [task[r][k] EXCEPT !.status = "init", !.order = n, !.tx = t]
           R == [C EXCEPT ![k] = new]
           O == [CleanOrders(r)[r] EXCEPT ![n] = "aggregating"]
<1>1. task \in [Relayer -> [Task -> Row]] /\ order \in [Relayer -> [OrderId -> Statuses]]
  BY DEF RowInv, RowsFollow, IInv, OrdersRecorded
<1>2. /\ CleanTasks(r) = [task EXCEPT ![r] = C] /\ C \in [Task -> Row]
      /\ CleanOrders(r) = [order EXCEPT ![r] = CleanOrders(r)[r]]
  BY CleanedRow
<1>3. /\ n \in Nat /\ n \in OrderId /\ n \in DOMAIN built' /\ DOMAIN built \subseteq DOMAIN built'
      /\ built'[n].task = k /\ built'[n].tx = t
  <2> DEFINE b == [task |-> k, tx |-> t, old |-> task[r][k].tx, by |-> r, epoch |-> epoch]
  <2>1. built' = Append(built, b) /\ b.task = k /\ b.tx = t /\ n <= MaxOrder
    BY DEF Builds
  <2>2. PICK S : built \in Seq(S)
    BY DEF RowInv, IInv, OrdersBuilt
  <2> HIDE DEF b
  <2>3. /\ Len(built) \in Nat /\ DOMAIN built = 1 .. Len(built)
        /\ DOMAIN built' = 1 .. (Len(built) + 1) /\ built'[n] = b
    BY <2>1, <2>2, Appended
  <2> QED BY <2>1, <2>3, SafeboxAssumption DEF OrderId
<1>4. /\ task' = [task EXCEPT ![r] = R] /\ order' = [order EXCEPT ![r] = O]
  <2>1. CleanTasks(r) \in [Relayer -> [Task -> Row]]
    BY <1>1, <1>2
  <2>2. task' = [CleanTasks(r) EXCEPT ![r] = R]
    BY <2>1
  <2>3. CleanOrders(r)[r] = [o \in OrderId |-> CleanOrders(r)[r][o]]
    BY <1>1 DEF CleanOrders, MoveOrders
  <2>4. order' = [CleanOrders(r) EXCEPT ![r] = O]
    OBVIOUS
  <2> HIDE DEF R, O
  <2> QED BY <1>1, <1>2, <2>2, <2>4
<1>5. CleanOrders(r)[r] = [o \in OrderId |-> CleanOrders(r)[r][o]]
  BY <1>1 DEF CleanOrders, MoveOrders
<1>6. /\ new \in Row /\ new.status = "init" /\ new.order = n /\ new.tx = t
  <2>1. task[r][k] \in Row
    BY <1>1
  <2> DEFINE row == task[r][k]
  <2>2. row \in Row /\ n \in Nat /\ t \in Timelock
    BY <1>3, <2>1
  <2> HIDE DEF n, row
  <2>3. LET x == [row EXCEPT !.status = "init", !.order = n, !.tx = t] IN
        x \in Row /\ x.status = "init" /\ x.order = n /\ x.tx = t
    BY <2>2 DEF Row, RowStatus
  <2> QED BY <2>3 DEF row
<1> HIDE DEF n, new
<1>7. R \in [Task -> Row] /\ task'[r] = R /\ order'[r] = O
  BY <1>1, <1>2, <1>4, <1>6
<1>8. /\ O[n] = "aggregating"
      /\ \A o \in OrderId \ {n} : O[o] = CleanOrders(r)[r][o]
  BY <1>3, <1>5
<1>9. /\ R[k] = new /\ \A j \in Task \ {k} : R[j] = C[j]
  BY <1>2
<1> HIDE DEF R, O, C
<1>10. ASSUME NEW j \in Task PROVE RowMove(r, j)
  <2>1. CASE j = k
    <3>1. task[r][k].status \in {"received_ok", "init"}
      BY CleanedRow DEF C
    <3> QED BY ZenonT(60), <1>3, <1>6, <1>7, <1>8, <1>9, <2>1, <3>1 DEF RowMove, OrderMove
  <2>2. CASE j # k
    <3>1. task'[r][j] = C[j]
      BY <1>7, <1>9, <2>2
    <3>2. CASE task[r][j].status = "init" /\ C[j] = [task[r][j] EXCEPT !.status = "received_ok"]
      <4>1. /\ C[j].status = "received_ok" /\ C[j].order = task[r][j].order
            /\ C[j].tx = task[r][j].tx
        BY <1>1, <3>2, StatusRow DEF RowStatus
      <4> QED BY <3>1, <3>2, <4>1 DEF RowMove, EarlyMove, SameOrder, Recorded
    <3>3. CASE C[j] = task[r][j]
      BY <3>1, <3>3 DEF RowMove
    <3> QED BY <3>2, <3>3, CleanedRow DEF C
  <2> QED BY <2>1, <2>2
<1>11. OrdersMove(r)
  <2>1. Starts(r, n)
    BY <1>3, <1>6, <1>7, <1>9 DEF Starts
  <2>2. \A o \in OrderId : order[r][o] # "none" => o \in DOMAIN built'
    BY <1>3 DEF RowInv, OrdersOwned
  <2>3. ASSUME NEW o \in OrderId, o # n
        PROVE  O[o] = order[r][o] \/ (order[r][o] = "aggregating" /\ O[o] = "closed")
    BY <1>8, <2>3, CleanedRow
  <2> QED BY <1>3, <1>7, <1>8, <2>1, <2>2, <2>3 DEF OrdersMove, LiveOrder
<1> QED BY <1>3, <1>4, <1>7, <1>10, <1>11, OneMoves DEF Moves

\* a voter stores the order
LEMMA StoreMoves ==
  ASSUME RowInv, NEW r \in Relayer, NEW o \in DOMAIN built, built' = built,
         task[r][built[o].task].status \in {"received_ok", "init"},
         order' = [order EXCEPT ![r][o] = "aggregating"],
         task' = [task EXCEPT ![r][built[o].task] =
           [task[r][built[o].task] EXCEPT !.status = "init", !.order = o, !.tx = built[o].tx]]
  PROVE  RowTypes
<1> DEFINE k == built[o].task
           new == [task[r][k] EXCEPT !.status = "init", !.order = o, !.tx = built[o].tx]
           R == [task[r] EXCEPT ![k] = new]
           O == [order[r] EXCEPT ![o] = "aggregating"]
<1>1. task \in [Relayer -> [Task -> Row]] /\ order \in [Relayer -> [OrderId -> Statuses]]
  BY DEF RowInv, RowsFollow, IInv, OrdersRecorded
<1>2. k \in Task /\ built[o].tx \in Timelock /\ o \in OrderId /\ o \in Nat
  BY BuiltIds DEF RowInv, IInv, OrdersBuilt
<1>3. task' = [task EXCEPT ![r] = R] /\ order' = [order EXCEPT ![r] = O]
  BY <1>1
<1>4. new \in Row /\ new.status = "init" /\ new.order = o /\ new.tx = built[o].tx
  <2>1. task[r][k] \in Row
    BY <1>1, <1>2
  <2> DEFINE row == task[r][k]  t == built[o].tx
  <2>2. row \in Row /\ o \in Nat /\ t \in Timelock
    BY <1>2, <2>1
  <2> HIDE DEF row, t
  <2>3. LET x == [row EXCEPT !.status = "init", !.order = o, !.tx = t] IN
        x \in Row /\ x.status = "init" /\ x.order = o /\ x.tx = t
    BY <2>2 DEF Row, RowStatus
  <2> QED BY <2>3 DEF row, t
<1> HIDE DEF new
<1>5. /\ R \in [Task -> Row] /\ R[k] = new /\ \A j \in Task \ {k} : R[j] = task[r][j]
      /\ O[o] = "aggregating" /\ \A p \in OrderId \ {o} : O[p] = order[r][p]
  BY <1>1, <1>2, <1>4
<1>6. task'[r] = R /\ order'[r] = O
  BY <1>1, <1>3
<1> HIDE DEF R, O
<1>7. ASSUME NEW j \in Task PROVE RowMove(r, j)
  <2>1. CASE j = k
    BY <1>4, <1>5, <1>6, <2>1 DEF RowMove, OrderMove
  <2>2. CASE j # k
    BY <1>5, <1>6, <2>2 DEF RowMove
  <2> QED BY <2>1, <2>2
<1>8. OrdersMove(r)
  <2>1. Starts(r, o)
    BY <1>2, <1>4, <1>5, <1>6 DEF Starts
  <2>2. \A p \in OrderId : order[r][p] # "none" => p \in DOMAIN built'
    BY DEF RowInv, OrdersOwned
  <2> QED BY <1>5, <1>6, <2>1, <2>2 DEF OrdersMove, LiveOrder
<1> QED BY <1>3, <1>5, <1>7, <1>8, OneMoves DEF Moves

\* a notice of an order that the relayer never stored
LEMMA NoticeMoves ==
  ASSUME RowInv, NEW r \in Relayer, NEW o \in DOMAIN built, built' = built,
         OrdersWith(r, built[o].tx) = {},
         order' = [order EXCEPT ![r][o] = "pending"], task' = task
  PROVE  RowTypes
<1>1. task \in [Relayer -> [Task -> Row]] /\ order \in [Relayer -> [OrderId -> Statuses]]
  BY DEF RowInv, RowsFollow, IInv, OrdersRecorded
<1>2. o \in OrderId /\ order[r][o] = "none"
  BY BuiltIds DEF RowInv, IInv, OrdersWith
<1>3. /\ order'[r][o] = "pending" /\ \A p \in OrderId \ {o} : order'[r][p] = order[r][p]
      /\ \A q \in Relayer \ {r} : order'[q] = order[q]
  BY <1>1, <1>2
<1>4. \A q \in Relayer : \A p \in OrderId : order[q][p] # "none" => p \in DOMAIN built'
  BY DEF RowInv, OrdersOwned
<1>5. ASSUME NEW q \in Relayer PROVE OrdersMove(q)
  <2>1. CASE q = r
    BY <1>2, <1>3, <1>4, <2>1 DEF OrdersMove
  <2>2. CASE q # r
    BY <1>3, <1>4, <2>2 DEF OrdersMove
  <2> QED BY <2>1, <2>2
<1> QED BY <1>1, <1>5 DEF RowTypes, Moves, RowMove

\* UpdateSendOrderPending and UpdateSendOrderConfirmed
LEMMA AdvanceMoves ==
  ASSUME RowInv, NEW r \in Relayer, NEW t \in RecordedTxs, NEW s \in {"pending", "confirmed"},
         Advance(r, t, s), built' = built, s = "confirmed" => t \in sent'
  PROVE  RowTypes
<1> DEFINE S == {o \in Latest(r, t) : order[r][o] \in LiveOrder}
           R == [k \in Task |-> IF task[r][k].order \in S
                                THEN [task[r][k] EXCEPT !.status = s] ELSE task[r][k]]
           O == [o \in OrderId |-> IF o \in S THEN s ELSE order[r][o]]
<1>1. task \in [Relayer -> [Task -> Row]] /\ order \in [Relayer -> [OrderId -> Statuses]]
  BY DEF RowInv, RowsFollow, IInv, OrdersRecorded
<1>2. order' = [order EXCEPT ![r] = O] /\ task' = [task EXCEPT ![r] = R]
  BY DEF Advance, MoveOrders, MoveTasks
<1>3. \A o \in S : /\ o \in Latest(r, t) /\ order[r][o] \in LiveOrder
                   /\ o \in DOMAIN built /\ o \in OrderId /\ built[o].tx = t
  BY BuiltIds DEF Latest, OrdersWith, RowInv, IInv
<1> HIDE DEF S
<1>4. task'[r] = R /\ order'[r] = O
  BY <1>1, <1>2
<1>5. ASSUME NEW k \in Task PROVE R[k] \in Row /\ RowMove(r, k)
  <2>1. CASE task[r][k].order \notin S
    BY <1>1, <1>4, <2>1 DEF RowMove
  <2>2. CASE task[r][k].order \in S
    <3>1. R[k] = [task[r][k] EXCEPT !.status = s] /\ O[task[r][k].order] = s
      BY <1>3, <2>2
    <3>2. task'[r][k] = R[k] /\ order'[r][task[r][k].order] = O[task[r][k].order]
      BY <1>4
    <3>3. task[r][k] \in Row /\ s \in RowStatus
      BY <1>1 DEF RowStatus, Recorded
    <3> HIDE DEF R, O
    <3>4. R[k] \in Row /\ R[k].status = s /\ R[k].order = task[r][k].order
          /\ R[k].tx = task[r][k].tx
      BY <3>1, <3>3, StatusRow
    <3>5. AdvanceMove(r, k)
      BY <1>3, <2>2, <3>1, <3>2, <3>4 DEF AdvanceMove, SameOrder
    <3> QED BY <3>4, <3>5 DEF RowMove
  <2> QED BY <2>1, <2>2
<1>6. OrdersMove(r)
  <2>1. \A o \in OrderId : order[r][o] # "none" => o \in DOMAIN built'
    BY DEF RowInv, OrdersOwned
  <2>2. \A o \in OrderId : O[o] = order[r][o] \/ (order[r][o] \in LiveOrder /\ O[o] = s)
    BY <1>3
  <2> HIDE DEF O
  <2> QED BY <1>4, <2>1, <2>2 DEF OrdersMove, LiveOrder
<1>7. R \in [Task -> Row]
  BY <1>5
<1> HIDE DEF R, O
<1> QED BY <1>2, <1>5, <1>6, <1>7, OneMoves DEF Moves

\* UpdateSendOrderInitlized of a pending order
LEMMA RevertMoves ==
  ASSUME RowInv, NEW r \in Relayer, NEW S, \A o \in S : order[r][o] \in LiveOrder,
         order' = MoveOrders(r, S, "init"), task' = task, built' = built
  PROVE  RowTypes
<1> DEFINE R == task[r]
           O == [o \in OrderId |-> IF o \in S THEN "init" ELSE order[r][o]]
<1>1. task \in [Relayer -> [Task -> Row]] /\ order \in [Relayer -> [OrderId -> Statuses]]
  BY DEF RowInv, RowsFollow, IInv, OrdersRecorded
<1>2. /\ order' = [order EXCEPT ![r] = O] /\ task' = [task EXCEPT ![r] = R]
      /\ R \in [Task -> Row]
  BY <1>1 DEF MoveOrders
<1>3. order'[r] = O
  BY <1>1, <1>2
<1>4. OrdersMove(r)
  <2>1. \A o \in OrderId : O[o] = order[r][o] \/ (order[r][o] \in LiveOrder /\ O[o] = "init")
    OBVIOUS
  <2>2. \A o \in OrderId : order[r][o] # "none" => o \in DOMAIN built'
    BY DEF RowInv, OrdersOwned
  <2> HIDE DEF O
  <2> QED BY <1>3, <2>1, <2>2 DEF OrdersMove, LiveOrder
<1>5. \A k \in Task : RowMove(r, k)
  BY DEF RowMove
<1> HIDE DEF R, O
<1> QED BY <1>2, <1>4, <1>5, OneMoves DEF Moves

\* the layer 2 listener
LEMMA HandleMoves ==
  ASSUME RowInv, NEW r \in Relayer, Handle(r)
  PROVE  RowTypes
<1> DEFINE e == log[cursor[r] + 1]  k == e.task  old == task[r][k]
<1>1. task \in [Relayer -> [Task -> Row]] /\ order \in [Relayer -> [OrderId -> Statuses]]
  BY DEF RowInv, RowsFollow, IInv, OrdersRecorded
<1>2. /\ cursor[r] + 1 \in DOMAIN log /\ cursor'[r] = cursor[r] + 1
      /\ Tells(contract, e) /\ k \in Task /\ built' = built
  <2>1. cursor[r] + 1 \in DOMAIN log
    BY LogIds DEF Handle, RowInv, IInv, Reading
  <2>2. cursor'[r] = cursor[r] + 1
    BY DEF Handle, RowInv, IInv, Reading
  <2>3. Tells(contract, e)
    BY <2>1 DEF RowInv, LogTrue
  <2> QED BY <2>1, <2>2, <2>3 DEF Handle, ListenerStep, Tells
<1>3. old \in Row
  BY <1>1, <1>2
<1>4. \A q \in Relayer : \A o \in OrderId : order[q][o] # "none" => o \in DOMAIN built'
  BY <1>2 DEF RowInv, OrdersOwned
\* a new row for the task of the event, and the orders as they were
<1>5. ASSUME NEW new \in Row, task' = [task EXCEPT ![r][k] = new], order' = order,
             task'[r][k] = new => RowMove(r, k)
      PROVE  RowTypes
  <2> DEFINE R == [task[r] EXCEPT ![k] = new]
  <2> HIDE DEF k
  <2>1. task' = [task EXCEPT ![r] = R] /\ R \in [Task -> Row]
    BY <1>1, <1>5
  <2>2. /\ task' \in [Relayer -> [Task -> Row]] /\ task'[r][k] = new
        /\ \A q \in Relayer : \A j \in Task : q # r \/ j # k => task'[q][j] = task[q][j]
    BY <1>1, <1>2, <1>5, <2>1
  <2>3. ASSUME NEW q \in Relayer, NEW j \in Task PROVE RowMove(q, j)
    <3>1. CASE q # r \/ j # k
      <4>1. task'[q][j] = task[q][j]
        BY <2>2, <3>1
      <4> QED BY <4>1 DEF RowMove
    <3>2. CASE q = r /\ j = k
      BY <1>5, <2>2, <3>2
    <3> QED BY <3>1, <3>2
  <2>4. \A q \in Relayer : OrdersMove(q)
    BY <1>4, <1>5 DEF OrdersMove
  <2> QED BY <2>2, <2>3, <2>4 DEF RowTypes, Moves
\* the same when orders of relayer r move from live to a status past the record
<1>6. ASSUME NEW new \in Row, NEW S, NEW s \in {"init", "processed"},
             task' = [task EXCEPT ![r][k] = new], order' = MoveOrders(r, S, s),
             \A o \in S : o \in OrderId =>
               order[r][o] # "none" /\ (s = "init" => order[r][o] \in LiveOrder),
             task'[r][k] = new => RowMove(r, k)
      PROVE  RowTypes
  <2> DEFINE R == [task[r] EXCEPT ![k] = new]
             O == [o \in OrderId |-> IF o \in S THEN s ELSE order[r][o]]
  <2> HIDE DEF k
  <2>1. /\ task' = [task EXCEPT ![r] = R] /\ R \in [Task -> Row]
        /\ order' = [order EXCEPT ![r] = O]
    BY <1>1, <1>6 DEF MoveOrders
  <2>2. task'[r] = R /\ order'[r] = O /\ R[k] = new /\ \A j \in Task \ {k} : R[j] = task[r][j]
    BY <1>1, <1>2, <2>1
  <2>3. OrdersMove(r)
    <3>1. \A o \in OrderId : O[o] = order[r][o] \/ (o \in S /\ O[o] = s)
      OBVIOUS
    <3>2. \A o \in OrderId : order[r][o] # "none" => o \in DOMAIN built'
      BY <1>4
    <3> HIDE DEF O
    <3> QED BY <1>6, <2>2, <3>1, <3>2 DEF OrdersMove, LiveOrder
  <2> HIDE DEF R, O
  <2>4. ASSUME NEW j \in Task PROVE RowMove(r, j)
    <3>1. CASE j # k
      BY <2>2, <3>1 DEF RowMove
    <3>2. CASE j = k
      BY <1>6, <2>2, <3>2
    <3> QED BY <3>1, <3>2
  <2> QED BY <1>2, <2>1, <2>3, <2>4, OneMoves DEF Moves
<1>7. \A q \in Relayer : Reads(q) = cursor[q] + 1
  BY DEF Reads
\* events before the record change the status only
<1>8. ASSUME NEW s \in RowStatus \ (Recorded \cup {"none"}), NEW funded \in BOOLEAN,
             task' = [task EXCEPT ![r][k] = [old EXCEPT !.status = s, !.funded = funded]],
             order' = order, old.status \notin Recorded,
             old.status = "none" => e.event = "TaskCreated"
      PROVE  RowTypes
  <2> DEFINE new == [old EXCEPT !.status = s, !.funded = funded]
  <2>1. /\ new \in Row /\ new.status = s /\ new.order = old.order /\ new.tx = old.tx
    <3> HIDE DEF old
    <3> QED BY <1>3, <1>8 DEF Row
  <2>2. ASSUME task'[r][k] = new PROVE RowMove(r, k)
    <3>1. old.status = "none" => ReadsCreation(r, k)
      BY <1>2, <1>8 DEF ReadsCreation, Reads
    <3> HIDE DEF new
    <3>2. task'[r][k].status = s /\ SameOrder(r, k)
      BY <2>1, <2>2 DEF SameOrder
    <3> QED BY <1>8, <3>1, <3>2 DEF RowMove, EarlyMove
  <2> HIDE DEF new, k
  <2> QED BY <1>5, <1>8, <2>1, <2>2 DEF new
<1>9. CASE e.event = "TaskCreated" /\ TaskCreated(r, k)
  <2>1. cursor[r] \in Nat
    BY DEF RowInv, IInv, Reading
  <2>2. old.status = "none"
    BY <1>2, <1>9, <2>1 DEF RowInv, Unread
  <2>3. old.funded \in BOOLEAN /\ task' = [task EXCEPT ![r][k].status = "create"]
        /\ order' = order
    BY <1>3, <1>9 DEF TaskCreated, Put, Row
  <2> DEFINE new == [old EXCEPT !.status = "create", !.funded = old.funded]
  <2>4. task' = [task EXCEPT ![r][k] = new]
    BY <1>1, <1>3, <2>3 DEF Row
  <2> HIDE DEF k, old
  <2> QED BY <1>8, <1>9, <2>2, <2>3, <2>4 DEF RowStatus, Recorded
<1>10. CASE NewDeposit(r, k)
  <2>1. CASE UNCHANGED <<task, order>>
    BY <2>1, StayMoves
  <2>2. CASE /\ old.status = "create" /\ order' = order
             /\ task' = [task EXCEPT ![r][k].status = "received", ![r][k].funded = TRUE]
    <3>1. task' = [task EXCEPT ![r][k] = [old EXCEPT !.status = "received", !.funded = TRUE]]
      BY ZenonT(60), <1>1, <1>3, <2>2 DEF Row
    <3> HIDE DEF k, old
    <3> QED BY <1>8, <2>2, <3>1 DEF RowStatus, Recorded
  <2>3. CASE old.status = "create" /\ order' = order /\ Put(r, k, "closed")
    <3>1. old.funded \in BOOLEAN
      BY <1>3 DEF Row
    <3>2. task' = [task EXCEPT ![r][k] = [old EXCEPT !.status = "closed", !.funded = old.funded]]
      BY <1>1, <1>3, <2>3 DEF Put, Row
    <3> HIDE DEF k, old
    <3> QED BY <1>8, <2>3, <3>1, <3>2 DEF RowStatus, Recorded
  <2> QED BY <1>10, <2>1, <2>2, <2>3 DEF NewDeposit, rows
<1>11. CASE ReceivedOK(r, k)
  <2>1. /\ old.status \in {"create", "received"} /\ order' = order
        /\ task' = [task EXCEPT ![r][k].status = "received_ok", ![r][k].funded = TRUE]
    BY <1>11 DEF ReceivedOK
  <2>2. task' = [task EXCEPT ![r][k] = [old EXCEPT !.status = "received_ok", !.funded = TRUE]]
    BY ZenonT(60), <1>1, <1>3, <2>1 DEF Row
  <2> HIDE DEF k, old
  <2> QED BY <1>8, <2>1, <2>2 DEF RowStatus, Recorded
<1>12. CASE e.event = "TimelockInitialized" /\ InitOK(r, k, e.tx)
  <2> DEFINE t == e.tx
             S == {o \in Latest(r, t) : order[r][o] \in LiveOrder}
             new == [old EXCEPT !.status = "init_ok", !.tx = t]
  <2>1. /\ old.status \in {"create", "received", "received_ok", "init"}
        /\ task' = [task EXCEPT ![r][k].status = "init_ok", ![r][k].tx = t]
        /\ order' = MoveOrders(r, S, "init")
    BY <1>12 DEF InitOK
  <2>2. t \in Timelock /\ t = contract[k].tx
    BY <1>2, <1>12 DEF Tells
  <2>3. task' = [task EXCEPT ![r][k] = new]
    BY <1>1, <1>3, <2>1 DEF Row
  <2>4. /\ new \in Row /\ new.status = "init_ok" /\ new.order = old.order /\ new.tx = t
    <3> HIDE DEF old, t
    <3> QED BY <1>3, <2>2 DEF Row, RowStatus, Recorded
  <2>5. \A o \in S : order[r][o] \in LiveOrder /\ order[r][o] # "none"
    BY DEF LiveOrder
  <2>6. ASSUME task'[r][k] = new PROVE RowMove(r, k)
    <3>1. ASSUME NEW o \in Latest(r, t) PROVE order'[r][o] # "aggregating"
      <4>1. o \in OrderId
        BY BuiltIds DEF Latest, OrdersWith, RowInv, IInv
      <4>2. order'[r] = [p \in OrderId |-> IF p \in S THEN "init" ELSE order[r][p]]
        BY <1>1, <2>1 DEF MoveOrders
      <4>3. order'[r][o] = IF o \in S THEN "init" ELSE order[r][o]
        BY <4>1, <4>2
      <4> QED BY <3>1, <4>3 DEF LiveOrder
    <3> HIDE DEF new, t
    <3> QED BY <2>1, <2>2, <2>4, <2>6, <3>1 DEF RowMove, RecordMove, Recorded
  <2> HIDE DEF new, S, k, old
  <2> QED BY ZenonT(60), <1>6, <2>1, <2>3, <2>4, <2>5, <2>6
<1>13. CASE e.event = "TimelockProcessed" /\ TimelockProcessed(r, k)
  <2> DEFINE S == {o \in OrdersWith(r, old.tx) : order[r][o] \in {"init", "pending", "confirmed"}}
             new == [old EXCEPT !.status = "processed"]
  <2>1. /\ old.status \in {"confirmed", "init_ok"}
        /\ task' = [task EXCEPT ![r][k].status = "processed"]
        /\ order' = MoveOrders(r, S, "processed")
    BY <1>13 DEF TimelockProcessed, Put
  <2>2. contract[k].status \in {"processed", "burned"}
    BY <1>2, <1>13 DEF Tells
  <2>3. task' = [task EXCEPT ![r][k] = new]
    BY <1>1, <1>3, <2>1 DEF Row
  <2>4. /\ new \in Row /\ new.status = "processed" /\ new.order = old.order /\ new.tx = old.tx
    <3> HIDE DEF old
    <3> QED BY <1>3 DEF Row, RowStatus, Recorded
  <2>5. \A o \in S : order[r][o] # "none"
    OBVIOUS
  <2>6. ASSUME task'[r][k] = new PROVE RowMove(r, k)
    <3>1. ASSUME NEW o \in Latest(r, old.tx), order[r][o] # "aggregating"
          PROVE  order'[r][o] \notin LiveOrder
      <4>1. o \in OrderId /\ o \in OrdersWith(r, old.tx)
        BY BuiltIds DEF Latest, OrdersWith, RowInv, IInv
      <4>2. order'[r] = [p \in OrderId |-> IF p \in S THEN "processed" ELSE order[r][p]]
        BY <1>1, <2>1 DEF MoveOrders
      <4>3. order'[r][o] = IF o \in S THEN "processed" ELSE order[r][o]
        BY <4>1, <4>2
      <4> QED BY <3>1, <4>1, <4>3 DEF LiveOrder
    <3> HIDE DEF new
    <3> QED BY <2>1, <2>2, <2>4, <2>6, <3>1 DEF RowMove, ProcessedMove, SameOrder
  <2> HIDE DEF new, S, k, old
  <2> QED BY ZenonT(60), <1>6, <2>1, <2>3, <2>4, <2>5, <2>6
<1>14. CASE Completed(r, k)
  <2> DEFINE new == [old EXCEPT !.status = "completed"]
  <2>1. /\ old.status = "processed" /\ order' = order
        /\ task' = [task EXCEPT ![r][k].status = "completed"]
    BY <1>14 DEF Completed, Put
  <2>2. task' = [task EXCEPT ![r][k] = new]
    BY <1>1, <1>3, <2>1 DEF Row
  <2>3. /\ new \in Row /\ new.status = "completed" /\ new.order = old.order /\ new.tx = old.tx
    <3> HIDE DEF old
    <3> QED BY <1>3 DEF Row, RowStatus, Recorded
  <2>4. ASSUME task'[r][k] = new PROVE RowMove(r, k)
    <3> HIDE DEF new
    <3> QED BY <2>1, <2>3, <2>4 DEF RowMove, CompletedMove, SameOrder
  <2> HIDE DEF new, k
  <2> QED BY <1>5, <2>1, <2>2, <2>3, <2>4
<1>15. CASE e.event = "TaskCancelled" /\ Cancelled(r, k)
  <2>1. CASE UNCHANGED <<task, order>>
    BY <2>1, StayMoves
  <2>2. CASE Processing(old.status) /\ Put(r, k, "closed") /\ order' = order
    <3>1. contract[k].status = "cancelled"
      BY <1>2, <1>15 DEF Tells
    <3>2. contract[k].tx \notin Timelock
      BY <1>2, <3>1, SafeboxAssumption DEF RowInv, IInv, NamedLate
    <3>3. old.status \notin Recorded
      BY <1>2, <3>2 DEF RowInv, RowsFollow, Agrees
    <3>4. old.funded \in BOOLEAN /\ old.status # "none"
      BY <1>3, <2>2 DEF Row, Processing
    <3>5. task' = [task EXCEPT ![r][k] = [old EXCEPT !.status = "closed", !.funded = old.funded]]
      BY <1>1, <1>3, <2>2 DEF Put, Row
    <3> HIDE DEF k, old
    <3> QED BY <1>8, <2>2, <3>3, <3>4, <3>5 DEF RowStatus, Recorded
  <2> QED BY <1>15, <2>1, <2>2 DEF Cancelled
<1> QED BY <1>9, <1>10, <1>11, <1>12, <1>13, <1>14, <1>15 DEF Handle

LEMMA SendingMoves ==
  ASSUME RowInv, [Next]_vars, NEW r \in Relayer, Sending(r) PROVE RowTypes
<1>1. DOMAIN built \subseteq DOMAIN built' /\ OrdersBuilt'
  BY BuiltKeeps DEF RowInv, IInv
<1>2. CASE InitWithdrawSig(r)
  <2>1. ASSUME NEW k \in Task, NEW t \in Timelock, Builds(r, k, t),
               CleanTasks(r)[r][k].status = "received_ok",
               order' = [CleanOrders(r) EXCEPT ![r][Len(built) + 1] = "aggregating"],
               task' = [CleanTasks(r) EXCEPT ![r][k] =
                 [task[r][k] EXCEPT !.status = "init", !.order = Len(built) + 1, !.tx = t]]
        PROVE  RowTypes
    BY <1>1, <2>1, BuildMoves
  <2>2. CASE order' = CleanOrders(r) /\ task' = CleanTasks(r)
    BY <1>1, <2>2, CleanMoves
  <2> QED BY <1>2, <2>1, <2>2 DEF InitWithdrawSig, Builds
<1>3. CASE LoseRole(r)
  BY <1>1, <1>3, CleanMoves DEF LoseRole
<1>4. ASSUME NEW m \in net, ReceiveOrder(r, m) PROVE RowTypes
  <2>1. CASE FailRound(r, m.order) /\ order' = order
    BY <2>1, FailMoves
  <2>2. CASE /\ task[r][built[m.order].task].status \in {"received_ok", "init"}
             /\ order' = [order EXCEPT ![r][m.order] = "aggregating"]
             /\ task' = [task EXCEPT ![r][built[m.order].task] =
                  [task[r][built[m.order].task] EXCEPT !.status = "init", !.order = m.order,
                                                       !.tx = built[m.order].tx]]
    <3>1. m.order \in DOMAIN built
      BY <1>4 DEF ReceiveOrder, RowInv, CallsOwned
    <3>2. built' = built
      BY <1>4 DEF ReceiveOrder, SignerStep
    <3> QED BY <2>2, <3>1, <3>2, StoreMoves
  <2> QED BY <1>4, <2>1, <2>2 DEF ReceiveOrder
<1>5. ASSUME NEW o, FailRound(r, o) \/ task' = task, order' = order PROVE RowTypes
  BY <1>5, FailMoves, StayMoves
<1>6. CASE StartRound(r)
  <2>1. (FailRound(r, asked[r]) \/ task' = task) /\ order' = order
    BY <1>6 DEF StartRound
  <2> QED BY <1>5, <2>1
<1>7. CASE SubmitSend(r)
  <2>1. (FailRound(r, loop[r].order) \/ task' = task) /\ order' = order
    BY <1>7 DEF SubmitSend
  <2> QED BY <1>5, <2>1
<1>8. CASE SubmitEnd(r)
  <2>1. (FailRound(r, loop[r].order) \/ task' = task) /\ order' = order
    BY <1>8 DEF SubmitEnd
  <2> QED BY <1>5, <2>1
<1>9. ASSUME NEW m \in net, SubmitBegin(r, m) PROVE RowTypes
  <2>1. (FailRound(r, m.order) \/ task' = task) /\ order' = order
    BY <1>9 DEF SubmitBegin
  <2> QED BY <1>5, <2>1
<1>10. ASSUME NEW o \in DOMAIN built, SigTimeout(r, o) PROVE RowTypes
  <2>1. FailRound(r, o) /\ order' = order
    BY <1>10 DEF SigTimeout
  <2> QED BY <1>5, <2>1
<1> QED BY <1>2, <1>3, <1>4, <1>6, <1>7, <1>8, <1>9, <1>10 DEF Sending

LEMMA BitcoinMoves ==
  ASSUME RowInv, NEW r \in Relayer, Bitcoin(r) PROVE RowTypes
<1>1. built' = built /\ sent \subseteq sent'
  BY DEF Bitcoin, Broadcast, RevertPending, ReceiveNotice, ConfirmTimelock, BitcoinStep
<1>2. \A t \in sent : t \in RecordedTxs
  BY DEF RowInv, IInv, SentInv, RecordedBeforeSent, RecordedTxs
<1>3. ASSUME NEW o \in DOMAIN built, Broadcast(r, o) PROVE RowTypes
  <2>1. o \in OrderId
    BY BuiltIds DEF RowInv, IInv
  <2>2. built[o].tx \in RecordedTxs
    BY <1>3, <2>1 DEF Broadcast, RowInv, IInv, OrdersRecorded, Past
  <2> QED BY <1>1, <1>3, <2>2, AdvanceMoves, StayMoves DEF Broadcast, rows
<1>4. ASSUME NEW o \in DOMAIN built, ReceiveNotice(r, o) PROVE RowTypes
  <2>1. <<r, o>>[2] = o
    OBVIOUS
  <2>2. built[o].tx \in RecordedTxs
    BY <1>2, <1>4, <2>1 DEF ReceiveNotice, RowInv, IInv, NoticesSent
  <2>3. CASE Advance(r, built[o].tx, "pending")
    BY <1>1, <2>2, <2>3, AdvanceMoves
  <2>4. CASE /\ OrdersWith(r, built[o].tx) = {}
             /\ order' = [order EXCEPT ![r][o] = "pending"] /\ task' = task
    BY <1>1, <2>4, NoticeMoves
  <2> QED BY <1>4, <2>3, <2>4 DEF ReceiveNotice
<1>5. ASSUME NEW t \in Timelock, ConfirmTimelock(r, t) PROVE RowTypes
  <2>1. t \in RecordedTxs /\ t \in sent'
    BY <1>1, <1>2, <1>5 DEF ConfirmTimelock
  <2> QED BY <1>1, <1>5, <2>1, AdvanceMoves DEF ConfirmTimelock
<1>6. ASSUME NEW o \in DOMAIN built, RevertPending(r, o) PROVE RowTypes
  <2> DEFINE S == {p \in Latest(r, built[o].tx) : order[r][p] \in LiveOrder}
  <2>1. order' = MoveOrders(r, S, "init") /\ task' = task
    BY <1>6 DEF RevertPending
  <2>2. \A p \in S : order[r][p] \in LiveOrder
    OBVIOUS
  <2> HIDE DEF S
  <2> QED BY <1>1, <2>1, <2>2, RevertMoves
<1> QED BY <1>3, <1>4, <1>5, <1>6 DEF Bitcoin

LEMMA NextMoves ==
  ASSUME RowInv, [Next]_vars PROVE RowTypes
<1>1. DOMAIN built \subseteq DOMAIN built'
  BY BuiltKeeps DEF RowInv, IInv
<1>2. CASE External \/ UNCHANGED vars
  <2>1. task' = task /\ order' = order
    BY <1>2 DEF External, CreateTask, Deposit, CancelTask, Burn, ExternalStep, Execute, Rotate,
                vars, rows
  <2> QED BY <2>1, StayMoves
<1>3. ASSUME NEW r \in Relayer, Restart(r) PROVE RowTypes
  BY <1>1, <1>3, CleanMoves DEF Restart
<1>4. ASSUME NEW r \in Relayer, Expire(r) \/ (Safebox(r) /\ ~ Panic(r)) PROVE RowTypes
  <2>1. task' = task /\ order' = order
    BY <1>4 DEF Expire, Safebox, QueryTick, OpenSession, Announce, Query, GiveUp,
                ApplySignature, HandleTssSign, TickStep, rows
  <2> QED BY <2>1, StayMoves
<1> QED BY <1>2, <1>3, <1>4, SendingMoves, HandleMoves, BitcoinMoves DEF Next, Crash, Panic

-----------------------------------------------------------------------------
(* The rows *)

LEMMA OnlyGrows ==
  ASSUME IInv, [Next]_vars
  PROVE  sent \subseteq sent' /\ \A q \in Relayer : cursor[q] <= cursor'[q]
<1>1. cursor \in [Relayer -> Nat]
  BY DEF IInv, Reading
<1>2. ASSUME UNCHANGED <<sent, cursor>>
      PROVE  sent \subseteq sent' /\ \A q \in Relayer : cursor[q] <= cursor'[q]
  BY <1>1, <1>2
<1>3. CASE External \/ UNCHANGED vars
  <2>1. UNCHANGED <<sent, cursor>>
    BY <1>3 DEF External, CreateTask, Deposit, CancelTask, Burn, ExternalStep, Execute, Rotate,
                vars
  <2> QED BY <1>2, <2>1
<1>4. ASSUME NEW r \in Relayer, Crash(r) \/ Expire(r) \/ Safebox(r)
      PROVE  UNCHANGED <<sent, cursor>>
  BY <1>4 DEF Crash, Restart, Expire, Safebox, QueryTick, OpenSession, Announce, Query, GiveUp,
              ApplySignature, HandleTssSign, TickStep, Panic
<1>5. ASSUME NEW r \in Relayer, Sending(r) PROVE UNCHANGED <<sent, cursor>>
  BY <1>5 DEF Sending, InitWithdrawSig, LoseRole, StartRound, SubmitSend, SubmitEnd,
              ReceiveOrder, SubmitBegin, SigTimeout, SignerStep, WalletStep
<1>6. ASSUME NEW r \in Relayer, Bitcoin(r)
      PROVE  sent \subseteq sent' /\ \A q \in Relayer : cursor[q] <= cursor'[q]
  <2>1. cursor' = cursor /\ sent \subseteq sent'
    BY <1>6 DEF Bitcoin, Broadcast, RevertPending, ReceiveNotice, ConfirmTimelock, BitcoinStep
  <2> QED BY <1>1, <2>1
<1>7. ASSUME NEW r \in Relayer, Handle(r)
      PROVE  sent \subseteq sent' /\ \A q \in Relayer : cursor[q] <= cursor'[q]
  <2>1. sent' = sent /\ cursor' = [cursor EXCEPT ![r] = @ + 1]
    BY <1>7 DEF Handle, ListenerStep
  <2> QED BY <1>1, <2>1
<1> QED BY <1>2, <1>3, <1>4, <1>5, <1>6, <1>7 DEF Next

\* o is in Latest(q, t) after the step
NewestAfter(q, t, o) ==
  /\ o \in DOMAIN built' /\ built'[o].tx = t /\ order'[q][o] # "none"
  /\ \A p \in DOMAIN built' : built'[p].tx = t /\ order'[q][p] # "none" => p <= o

\* an order the relayer had is the newest of its transaction only if it was
LEMMA LatestWas ==
  ASSUME RowInv, [Next]_vars, RowTypes, NEW q \in Relayer, NEW t, NEW o \in DOMAIN built,
         order[q][o] # "none", NewestAfter(q, t, o)
  PROVE  o \in Latest(q, t)
<1>1. /\ DOMAIN built \subseteq DOMAIN built'
      /\ \A p \in DOMAIN built : built'[p] = built[p]
  BY BuiltKeeps DEF RowInv, IInv
<1>2. \A p \in DOMAIN built : order[q][p] # "none" => order'[q][p] # "none"
  BY BuiltIds DEF RowTypes, Moves, OrdersMove, RowInv, IInv
<1>3. \A p \in OrdersWith(q, t) : p <= o
  BY <1>1, <1>2 DEF OrdersWith, NewestAfter
<1>4. o \in OrdersWith(q, t)
  BY <1>1 DEF OrdersWith, NewestAfter
<1> QED BY <1>3, <1>4 DEF Latest

\* a row with an order that follows a recorded transaction names it
LEMMA RowNames ==
  ASSUME RowInv, NEW q \in Relayer, NEW k \in Task, NEW o, o = task[q][k].order,
         o \in DOMAIN built, built[o].tx \in RecordedTxs
  PROVE  /\ built[o].tx = contract[k].tx /\ task[q][k].tx = built[o].tx
         /\ built[o].tx \in Timelock
<1>1. /\ o # 0 /\ built[o].tx \in Timelock
  BY BuiltIds DEF RowInv, IInv, OrdersBuilt
<1>2. built[o].task = k /\ (task[q][k].status \notin Recorded => task[q][k].tx = built[o].tx)
  BY <1>1 DEF RowInv, RowsFollow, Named
<1>3. PICK j \in Task : built[o].tx = contract[j].tx
  BY DEF RecordedTxs
<1>4. j = k
  BY <1>1, <1>2, <1>3 DEF RowInv, OrdersOwned
<1>5. task[q][k].status \in Recorded => task[q][k].tx = contract[k].tx
  BY DEF RowInv, RowsFollow, Agrees
<1> QED BY <1>1, <1>2, <1>3, <1>4, <1>5

LEMMA NamedStep ==
  ASSUME RowInv, [Next]_vars, NEW q \in Relayer, NEW k \in Task, OrdersMove(q), RowMove(q, k)
  PROVE  Named(q, k)'
<1> DEFINE old == task[q][k]  new == task'[q][k]
<1>1. /\ DOMAIN built \subseteq DOMAIN built'
      /\ \A o \in DOMAIN built : built'[o] = built[o]
      /\ DOMAIN built \subseteq OrderId
  BY BuiltKeeps, BuiltIds DEF RowInv, IInv
<1>2. old.order # 0 =>
        /\ old.order \in DOMAIN built /\ built[old.order].task = k
        /\ order[q][old.order] # "none" /\ old.status # "none"
        /\ old.status \notin Recorded => old.tx = built[old.order].tx
  BY DEF RowInv, RowsFollow, Named
<1>3. CASE OrderMove(q, k)
  BY <1>3 DEF OrderMove, Named
<1>4. ASSUME new.order = old.order,
             old.order # 0 => new.status # "none"
               /\ (new.status \notin Recorded => old.status \notin Recorded /\ new.tx = old.tx)
      PROVE  Named(q, k)'
  <2>1. old.order # 0 => order'[q][old.order] # "none"
    BY <1>1, <1>2 DEF OrdersMove
  <2> QED BY <1>1, <1>2, <1>4, <2>1 DEF Named
<1>5. CASE new = old
  BY <1>2, <1>4, <1>5
<1>6. CASE EarlyMove(q, k)
  BY <1>2, <1>4, <1>6 DEF EarlyMove, SameOrder
<1>7. CASE RecordMove(q, k)
  BY <1>4, <1>7 DEF RecordMove, Recorded
<1>8. CASE ProcessedMove(q, k) \/ CompletedMove(q, k) \/ AdvanceMove(q, k)
  BY <1>4, <1>8 DEF ProcessedMove, CompletedMove, AdvanceMove, SameOrder, Recorded
<1> QED BY <1>3, <1>5, <1>6, <1>7, <1>8 DEF RowMove

LEMMA AgreesStep ==
  ASSUME RowInv, [Next]_vars, Lasts, NEW q \in Relayer, NEW k \in Task, RowMove(q, k)
  PROVE  Agrees(q, k)'
<1> DEFINE old == task[q][k]  new == task'[q][k]
<1>1. sent \subseteq sent'
  BY OnlyGrows DEF RowInv
<1>2. /\ old.status \in Recorded => old.tx = contract[k].tx /\ old.tx \in Timelock
      /\ old.status = "confirmed" => old.tx \in sent
      /\ old.status \in {"processed", "completed"} => contract[k].status \in {"processed", "burned"}
  BY DEF RowInv, RowsFollow, Agrees
\* enough to show for the contract of before the step
<1>3. ASSUME new.status \in Recorded => new.tx = contract[k].tx /\ new.tx \in Timelock,
             new.status = "confirmed" => new.tx \in sent',
             new.status \in {"processed", "completed"} =>
               contract[k].status \in {"processed", "burned"}
      PROVE  Agrees(q, k)'
  BY <1>3 DEF Agrees, Lasts
<1>4. CASE new = old
  BY <1>1, <1>2, <1>3, <1>4
<1>5. CASE EarlyMove(q, k) \/ OrderMove(q, k)
  BY <1>3, <1>5 DEF EarlyMove, OrderMove, Recorded
<1>6. CASE RecordMove(q, k)
  BY <1>3, <1>6 DEF RecordMove
<1>7. CASE ProcessedMove(q, k) \/ CompletedMove(q, k)
  BY <1>2, <1>3, <1>7 DEF ProcessedMove, CompletedMove, SameOrder, Recorded
<1>8. CASE AdvanceMove(q, k)
  <2> DEFINE o == old.order
  <2>1. o \in DOMAIN built /\ built[o].tx \in RecordedTxs
    BY <1>8 DEF AdvanceMove, Latest, OrdersWith
  <2>2. built[o].tx = contract[k].tx /\ old.tx = built[o].tx /\ built[o].tx \in Timelock
    BY <2>1, RowNames
  <2> QED BY <1>3, <1>8, <2>2 DEF AdvanceMove, SameOrder
<1> QED BY <1>4, <1>5, <1>6, <1>7, <1>8 DEF RowMove

LEMMA AheadStep ==
  ASSUME RowInv, [Next]_vars, RowTypes, NEW q \in Relayer, NEW k \in Task
  PROVE  Ahead(q, k)'
<1> DEFINE old == task[q][k]  new == task'[q][k]
<1>1. OrdersMove(q) /\ RowMove(q, k)
  BY DEF RowTypes, Moves
<1>2. SUFFICES ASSUME NewestAfter(q, new.tx, new.order), new.status \in Recorded
               PROVE  /\ order'[q][new.order] # "aggregating"
                      /\ new.status \in {"confirmed", "processed", "completed"} =>
                           order'[q][new.order] \notin LiveOrder
  BY DEF Ahead, Latest, OrdersWith, NewestAfter, Recorded
<1>3. CASE OrderMove(q, k) \/ EarlyMove(q, k)
  BY <1>2, <1>3 DEF OrderMove, EarlyMove, Recorded
<1>4. CASE AdvanceMove(q, k)
  BY <1>4 DEF AdvanceMove, SameOrder, LiveOrder
<1> DEFINE o == old.order
\* the other steps leave the order of the row
<1>5. ASSUME new.order = o
      PROVE  /\ o \in DOMAIN built /\ o \in OrderId /\ built'[o].task = k
             /\ order[q][o] # "none" /\ o \in Latest(q, new.tx)
  <2>1. o # 0
    <3>1. PICK S : built' \in Seq(S)
      BY BuiltKeeps DEF RowInv, IInv, OrdersBuilt
    <3>2. 0 \notin DOMAIN built'
      BY <3>1
    <3> QED BY <1>2, <1>5, <3>2 DEF NewestAfter
  <2>2. o \in DOMAIN built /\ built[o].task = k /\ order[q][o] # "none"
    BY <2>1 DEF RowInv, RowsFollow, Named
  <2>3. o \in Latest(q, new.tx)
    BY <1>2, <1>5, <2>2, LatestWas
  <2> QED BY <2>2, <2>3, BuiltIds, BuiltKeeps DEF RowInv, IInv
<1>6. o \in Latest(q, old.tx) =>
        /\ old.status \in Recorded => order[q][o] # "aggregating"
        /\ old.status \in {"confirmed", "processed", "completed"} => order[q][o] \notin LiveOrder
  BY DEF RowInv, RowsFollow, Ahead
<1>7. CASE new = old
  <2>1. ~ Starts(q, o)
    BY <1>2, <1>5, <1>7 DEF Starts, Recorded
  <2> QED BY <1>1, <1>2, <1>5, <1>6, <1>7, <2>1 DEF OrdersMove
<1>8. CASE RecordMove(q, k)
  BY <1>5, <1>8 DEF RecordMove
<1>9. CASE ProcessedMove(q, k)
  BY <1>5, <1>6, <1>9 DEF ProcessedMove, SameOrder, Recorded, LiveOrder
<1>10. CASE CompletedMove(q, k)
  BY <1>5, <1>6, <1>10 DEF CompletedMove, SameOrder, Recorded, LiveOrder
<1> QED BY <1>1, <1>3, <1>4, <1>7, <1>8, <1>9, <1>10 DEF RowMove

\* a row is made by the creation of its task
LEMMA NoneStays ==
  ASSUME RowInv, NEW q \in Relayer, NEW k \in Task, RowMove(q, k),
         task[q][k].status = "none"
  PROVE  task'[q][k].status = "none" \/ ReadsCreation(q, k)
<1>1. ~ AdvanceMove(q, k)
  <2>1. task[q][k].order # 0 => task[q][k].status # "none"
    BY DEF RowInv, RowsFollow, Named
  <2>2. 0 \notin DOMAIN built
    BY BuiltIds DEF RowInv, IInv
  <2> QED BY <2>1, <2>2 DEF AdvanceMove, Latest, OrdersWith
<1> QED BY <1>1 DEF RowMove, EarlyMove, OrderMove, RecordMove, ProcessedMove, CompletedMove

LEMMA UnreadStep ==
  ASSUME RowInv, [Next]_vars, RowTypes PROVE Unread'
<1>1. /\ Lasts
      /\ \A i \in DOMAIN log : i \in DOMAIN log' /\ log'[i] = log[i]
      /\ \A i \in DOMAIN log' \ DOMAIN log :
           log'[i].event = "TaskCreated" =>
             /\ \A r \in Relayer : task[r][log'[i].task].status = "none"
             /\ UNCHANGED task
  BY TurnKeeps
<1>2. \A q \in Relayer : \A k \in Task :
        task[q][k].status = "none" => task'[q][k].status = "none" \/ ReadsCreation(q, k)
  BY NoneStays DEF RowTypes, Moves
<1>3. ASSUME NEW q \in Relayer, NEW k \in Task, contract'[k].status = "none"
      PROVE  task'[q][k].status = "none"
  <2>1. contract[k].status = "none" /\ task[q][k].status = "none"
    BY <1>1, <1>3 DEF Lasts, RowInv, Unread
  <2>2. ~ ReadsCreation(q, k)
    BY <2>1 DEF ReadsCreation, RowInv, LogTrue, Tells
  <2> QED BY <1>2, <2>1, <2>2
<1>4. ASSUME NEW q \in Relayer, NEW i \in DOMAIN log', log'[i].event = "TaskCreated",
             cursor'[q] < i
      PROVE  task'[q][log'[i].task].status = "none"
  <2>1. CASE i \in DOMAIN log
    <3> DEFINE k == log[i].task
    <3>1. log'[i] = log[i] /\ k \in Task
      BY <1>1, <2>1 DEF RowInv, LogTrue, Tells
    <3>2. cursor[q] < i
      <4>1. i \in Nat /\ cursor[q] \in Nat /\ cursor'[q] \in Nat
        BY <2>1, LogIds, StepInv DEF RowInv, IInv, Reading
      <4>2. cursor[q] <= cursor'[q]
        BY OnlyGrows DEF RowInv
      <4> QED BY <1>4, <4>1, <4>2
    <3>3. task[q][k].status = "none"
      BY <1>4, <2>1, <3>1, <3>2 DEF RowInv, Unread
    <3>4. ~ ReadsCreation(q, k)
      <4>1. ReadsCreation(q, k) => Reads(q) = i
        BY <1>4, <2>1, <3>1 DEF ReadsCreation, RowInv, LogTrue
      <4>2. i \in Nat
        BY <2>1, LogIds DEF RowInv, IInv
      <4> QED BY <1>4, <4>1, <4>2 DEF ReadsCreation
    <3> QED BY <1>2, <3>1, <3>3, <3>4
  <2>2. CASE i \notin DOMAIN log
    BY <1>1, <1>4, <2>2
  <2> QED BY <2>1, <2>2
<1> QED BY <1>3, <1>4 DEF Unread

LEMMA RowStep == RowInv /\ [Next]_vars => RowInv'
<1> SUFFICES ASSUME RowInv, [Next]_vars PROVE RowInv'
  OBVIOUS
<1>1. RowTypes
  BY NextMoves
<1>2. IInv' /\ CallsOwned'
  BY StepInv, OwnStep DEF RowInv
<1>3. OrdersOwned'
  BY <1>1, OwnedStep DEF RowTypes, Moves, OrdersMove
<1>4. Lasts /\ LogTrue'
  BY TurnKeeps
<1>5. Unread'
  BY <1>1, UnreadStep
<1>6. task' \in [Relayer -> [Task -> Row]]
  BY <1>1 DEF RowTypes
<1>7. ASSUME NEW q \in Relayer, NEW k \in Task
      PROVE  Named(q, k)' /\ Agrees(q, k)' /\ Ahead(q, k)'
  BY <1>1, <1>4, NamedStep, AgreesStep, AheadStep DEF RowTypes, Moves
<1>8. RowsFollow'
  BY <1>6, <1>7 DEF RowsFollow
<1> QED BY <1>2, <1>3, <1>4, <1>5, <1>8 DEF RowInv

LEMMA RowStart == Init => RowInv
<1> SUFFICES ASSUME Init PROVE RowInv
  OBVIOUS
<1>1. IInv
  BY InitInv
<1>2. CallsOwned
  BY DEF Init, CallsOwned, OwnCall, NoSession, Idle, NoLoop
<1>3. OrdersOwned /\ LogTrue
  BY SafeboxAssumption DEF Init, OrdersOwned, LogTrue, OrderId
<1>4. Unread
  BY DEF Init, Unread, NewRow
<1>5. NewRow \in Row /\ ReceivedRow \in Row
      /\ NewRow.order = 0 /\ ReceivedRow.order = 0
      /\ NewRow.status = "none" /\ ReceivedRow.status = "received_ok"
  BY DEF NewRow, ReceivedRow, Row, RowStatus
<1>6. /\ task \in [Relayer -> [Task -> Row]]
      /\ \A r \in Relayer : \A k \in Task :
           task[r][k].order = 0 /\ task[r][k].status \in {"none", "received_ok"}
  BY <1>5 DEF Init
<1>7. RowsFollow
  BY <1>6 DEF RowsFollow, Named, Agrees, Ahead, Recorded
<1> QED BY <1>1, <1>2, <1>3, <1>4, <1>7 DEF RowInv

(* On every relayer a row past the record names the transaction that the    *)
(* contract recorded, whatever rounds failed, clean-ups and elections came  *)
(* between; it is confirmed and processed only after the chains were.       *)
THEOREM RowsNameTheRecord == Spec => []RowsFollowContract
<1>1. RowInv => RowsFollowContract
  BY DEF RowInv, RowsFollow, Agrees, RowsFollowContract
<1> QED BY RowStart, RowStep, <1>1, PTL DEF Spec

LEMMA RowForward ==
  ASSUME RowInv, [Next]_vars, NEW r \in Relayer, NEW k \in Task,
         Stage(task[r][k].status) > 0
  PROVE  Stage(task'[r][k].status) >= Stage(task[r][k].status)
<1> DEFINE old == task[r][k].status  new == task'[r][k].status
<1>1. RowMove(r, k)
  BY NextMoves DEF RowTypes, Moves
<1>2. old \in Recorded
  BY DEF Stage, Recorded
<1>3. CASE task'[r][k] = task[r][k]
  BY <1>3 DEF Stage
<1>4. CASE ProcessedMove(r, k) \/ CompletedMove(r, k)
  BY <1>4 DEF ProcessedMove, CompletedMove, Stage
<1>5. CASE AdvanceMove(r, k)
  <2> DEFINE o == task[r][k].order  t == built[o].tx
  <2>1. o \in Latest(r, t) /\ t \in RecordedTxs /\ order[r][o] \in LiveOrder
        /\ o \in DOMAIN built /\ new \in {"pending", "confirmed"}
    BY <1>5 DEF AdvanceMove, Latest, OrdersWith
  <2>2. task[r][k].tx = t
    BY <2>1, RowNames
  <2>3. old \notin {"confirmed", "processed", "completed"}
    BY <2>1, <2>2 DEF RowInv, RowsFollow, Ahead
  <2> QED BY <1>2, <2>1, <2>3 DEF Stage, Recorded
<1>6. ~ EarlyMove(r, k) /\ ~ OrderMove(r, k) /\ ~ RecordMove(r, k)
  BY <1>2 DEF EarlyMove, OrderMove, RecordMove, Recorded
<1> QED BY <1>1, <1>3, <1>4, <1>5, <1>6 DEF RowMove

(* A recorded row never goes back: a round that fails late, a clean-up, a   *)
(* late notice or block finds the row or its order past them.               *)
THEOREM RecordIsForward == Spec => RecordedForward
<1>1. RowInv /\ [Next]_vars =>
        [\A r \in Relayer, k \in Task :
           Stage(task[r][k].status) > 0 =>
             Stage(task'[r][k].status) >= Stage(task[r][k].status)]_vars
  BY RowForward
<1> QED BY RowStart, RowStep, <1>1, PTL DEF Spec, RecordedForward
=============================================================================
