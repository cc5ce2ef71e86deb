------------------------------ MODULE SafeboxFlow ------------------------------
(***************************************************************************)
(* Safebox tasks across the relayers (internal/safebox, internal/tss, the  *)
(* TSS part of bls/handle_wallet.go, layer2/task_manager_events.go).       *)
(*                                                                         *)
(* A task lives in the task manager contract; each relayer follows it with *)
(* the contract's events.  Only the TSS address of the group may call the  *)
(* contract: receiveFunds and processTimelockTx are driven by the tick of  *)
(* the safebox processor, initTimelockTx by the signature round of the     *)
(* send order that pays the timelock address.  Both go through the one     *)
(* session variable of the relayer, from two goroutines.                   *)
(*                                                                         *)
(* Relevant goroutines of a relayer: safebox task loop (pc), bls signer    *)
(* (asked, open, loop), wallet loop (busy), layer 2 listener (cursor),     *)
(* broadcaster and block processor.  The contract, the pool of the layer 2 *)
(* chain and the TSS service are external: they do what src/ relies on.    *)
(* Amounts, scripts and addresses agree on all relayers; timelock          *)
(* transactions of different ids spend different utxos.                    *)
(***************************************************************************)
EXTENDS Naturals, FiniteSets, Sequences

CONSTANTS
  Relayer,
  Task,                \* task ids, in the order of creation
  Timelock, NoTx,      \* bitcoin transactions that fund a timelock address
  NoCall,
  Funded,              \* tasks whose funds the contract has, all relayers know it, at the start
  Quorum,              \* signers the TSS group needs
  MaxOrder,            \* bound: send orders built for tasks
  MaxNonce,            \* bound: contract calls of the TSS address
  MaxAttempt,          \* bound: request ids of the task loop in use at a time
  MaxFault             \* bound: crashes, changes of the proposer, expired sessions and
                       \* failing requests

ASSUME SafeboxAssumption ==
  /\ Task \subseteq Nat /\ IsFiniteSet(Relayer)
  /\ NoTx \notin Timelock
  /\ Funded \subseteq Task
  /\ Quorum \in 1 .. Cardinality(Relayer)
  /\ MaxOrder \in Nat /\ MaxNonce \in Nat /\ MaxAttempt \in Nat /\ MaxFault \in Nat

OrderId == 1 .. MaxOrder
Function == {"receiveFunds", "initTimelockTx", "processTimelockTx"}

\* a TSS request: a contract call at a nonce, asked for by a relayer; the task
\* loop gives every attempt an id of its own, the request of an order has the order
Call == [call : Function, task : Task, order : 0 .. MaxOrder, nonce : 0 .. MaxNonce,
         by : Relayer, id : 0 .. MaxAttempt]
ASSUME NoCallAssumption == NoCall \notin Call

VARIABLES
  contract,   \* [Task -> status and timelock transaction of the task]
  log,        \* events of the contract and deposits, in chain order
  nonce,      \* executed calls of the TSS address
  pool,       \* signed calls the chain has not executed
  signing,    \* pairs <<relayer, call>> started at the TSS service
  net,        \* messages on the way: kind, to, call
  notices,    \* pairs <<relayer, order>>: "order broadcast" messages on the way
  sent,       \* timelock transactions on bitcoin
  proposer, epoch, faults,
  built,      \* orders in the order they were built: task, tx, epoch and the
              \* timelock txid the task had in the proposer's copy
  cursor,     \* [Relayer -> events handled]
  task,       \* [Relayer -> [Task -> row of safebox_task]]
  order,      \* [Relayer -> [OrderId -> status of the send order]]
  tss,        \* [Relayer -> tssStatus and tssSession]
  pc,         \* [Relayer -> where the safebox tick is]
  busy,       \* [Relayer -> sigStatus of the wallet loop]
  asked,      \* [Relayer -> order in the SigStart channel, 0 when none]
  open,       \* [Relayer -> orders with a round in sigMap]
  loop        \* [Relayer -> the submission in progress]

chain == <<contract, log, nonce>>
env == <<proposer, epoch>>
rows == <<task, order>>
bls == <<asked, open, loop>>
vars == <<chain, pool, signing, net, notices, sent, env, faults, built, cursor, rows,
          tss, pc, busy, bls>>

NoSession == [on |-> FALSE, call |-> NoCall, hasTx |-> FALSE, signed |-> FALSE,
              expired |-> FALSE]
Idle == [at |-> "idle", call |-> NoCall]
NoLoop == [order |-> 0, call |-> NoCall, hasTx |-> FALSE, sent |-> FALSE]
NewRow == [status |-> "none", funded |-> FALSE, order |-> 0, tx |-> NoTx]

ReceivedRow == [NewRow EXCEPT !.status = "received_ok", !.funded = TRUE]

Init ==
  /\ contract = [k \in Task |-> [status |-> IF k \in Funded THEN "received" ELSE "none",
                                 tx |-> NoTx]]
  /\ log = <<>> /\ nonce = 0 /\ pool = {} /\ signing = {} /\ net = {} /\ notices = {}
  /\ sent = {} /\ epoch = 0 /\ faults = 0 /\ built = <<>>
  /\ proposer \in Relayer
  /\ cursor = [r \in Relayer |-> 0]
  /\ task = [r \in Relayer |-> [k \in Task |-> IF k \in Funded THEN ReceivedRow ELSE NewRow]]
  /\ order = [r \in Relayer |-> [o \in OrderId |-> "none"]]
  /\ tss = [r \in Relayer |-> NoSession]
  /\ pc = [r \in Relayer |-> Idle]
  /\ busy = [r \in Relayer |-> FALSE]
  /\ asked = [r \in Relayer |-> 0]
  /\ open = [r \in Relayer |-> {}]
  /\ loop = [r \in Relayer |-> NoLoop]

Fault == faults < MaxFault /\ faults' = faults + 1

-----------------------------------------------------------------------------
(* Layer 2: the contract, the pool, the deposit of a task *)

Callable(c) ==
  LET s == contract[c.task].status IN
  \/ c.call = "receiveFunds" /\ s = "deposited"
  \/ c.call = "initTimelockTx" /\ s = "received"
  \/ c.call = "processTimelockTx" /\ s = "initialized" /\ contract[c.task].tx \in sent

Emit(event, k, t) == log' = Append(log, [event |-> event, task |-> k, tx |-> t])

SetContract(k, s, t, event) ==
  /\ contract' = [contract EXCEPT ![k] = [status |-> s, tx |-> t]]
  /\ Emit(event, k, t)

ExternalStep == UNCHANGED <<pool, signing, net, notices, sent, env, faults, built, cursor,
                            rows, tss, pc, busy, bls>>

CreateTask(k) ==
  /\ contract[k].status = "none"
  /\ \A j \in Task : j < k => contract[j].status # "none"
  /\ SetContract(k, "created", NoTx, "TaskCreated")
  /\ UNCHANGED nonce /\ ExternalStep

Deposit(k) ==
  /\ contract[k].status = "created"
  /\ SetContract(k, "deposited", NoTx, "NewDeposit")
  /\ UNCHANGED nonce /\ ExternalStep

CancelTask(k) ==
  /\ contract[k].status \in {"created", "deposited"}
  /\ SetContract(k, "cancelled", NoTx, "TaskCancelled")
  /\ UNCHANGED nonce /\ ExternalStep

Burn(k) ==
  /\ contract[k].status = "processed"
  /\ SetContract(k, "burned", contract[k].tx, "Burned")
  /\ UNCHANGED nonce /\ ExternalStep

\* the chain executes the next call of the TSS address; it may revert
Execute(c) ==
  /\ c \in pool /\ c.nonce = nonce
  /\ pool' = pool \ {c}
  /\ nonce' = nonce + 1
  /\ CASE ~ Callable(c) -> UNCHANGED <<contract, log>>
       [] Callable(c) /\ c.call = "receiveFunds" ->
            SetContract(c.task, "received", NoTx, "FundsReceived")
       [] Callable(c) /\ c.call = "initTimelockTx" ->
            SetContract(c.task, "initialized", built[c.order].tx, "TimelockInitialized")
       [] Callable(c) /\ c.call = "processTimelockTx" ->
            SetContract(c.task, "processed", contract[c.task].tx, "TimelockProcessed")
  /\ UNCHANGED <<signing, net, notices, sent, env, faults, built, cursor, rows, tss, pc,
                 busy, bls>>

\* PendingNonceAt
Pending(n) ==
  /\ nonce <= n /\ n < MaxNonce
  /\ \A c \in pool : c.nonce # n
  /\ \A m \in nonce .. (n - 1) : \E c \in pool : c.nonce = m

\* SendRawTx: the gas estimate succeeds and the pool accepts the nonce
Sendable(c) == Callable(c) /\ nonce <= c.nonce /\ \A d \in pool : d.nonce # c.nonce

Signed(c) == Cardinality({r \in Relayer : <<r, c>> \in signing}) >= Quorum

-----------------------------------------------------------------------------
(* Rows of one relayer *)

Processing(s) == s \notin {"none", "processed", "completed", "closed"}
LiveOrder == {"aggregating", "init", "pending"}

Put(r, k, s) == task' = [task EXCEPT ![r][k].status = s]
OrdersWith(r, t) == {o \in DOMAIN built : built[o].tx = t /\ order[r][o] # "none"}
Latest(r, t) == {o \in OrdersWith(r, t) : \A p \in OrdersWith(r, t) : p <= o}
Free(rows_, r, t) == \A o \in OrdersWith(r, t) : rows_[o] = "closed"

\* tasks move with the order id in their row
MoveTasks(r, S, s) ==
  [task EXCEPT ![r] = [k \in Task |-> IF task[r][k].order \in S
                                      THEN [task[r][k] EXCEPT !.status = s] ELSE task[r][k]]]
MoveOrders(r, S, s) ==
  [order EXCEPT ![r] = [o \in OrderId |-> IF o \in S THEN s ELSE order[r][o]]]

\* cleanWithdrawProcess: one aggregating order is closed (see WalletState)
Cleaned(r) ==
  {o \in OrderId : /\ order[r][o] = "aggregating"
                   /\ \A p \in 1 .. (o - 1) : order[r][p] # "aggregating"}
CleanOrders(r) == MoveOrders(r, Cleaned(r), "closed")
CleanTasks(r) ==
  [task EXCEPT ![r] = [k \in Task |->
     IF task[r][k].order \in Cleaned(r) /\ task[r][k].status = "init"
     THEN [task[r][k] EXCEPT !.status = "received_ok"] ELSE task[r][k]]]

-----------------------------------------------------------------------------
(* The one TSS session of a relayer *)

SetSession(r, c, tx) ==
  tss' = [tss EXCEPT ![r] = [on |-> TRUE, call |-> c, hasTx |-> tx, signed |-> FALSE,
                             expired |-> FALSE]]
ResetSession(r) == tss' = [tss EXCEPT ![r] = NoSession]

\* (bug) a session with a signed transaction is still worth a query
ReadyWhenSigned(r) == tss[r].on /\ tss[r].call # NoCall /\ ~ tss[r].expired

\* CheckTssStatus returns nil
Ready(r) == tss[r].on /\ tss[r].call # NoCall /\ ~ tss[r].signed /\ ~ tss[r].expired

\* what CheckTssStatus does to the session when it returns an error
Checked(s) == IF s.on /\ s.call # NoCall /\ ~ s.signed /\ s.expired THEN NoSession ELSE s

StartSign(r, c) == signing' = signing \cup {<<r, c>>}

Publish(r, kind, o, c) ==
  net' = net \cup {[kind |-> kind, to |-> q, order |-> o, call |-> c] : q \in Relayer \ {r}}

\* memory is lost, a new wallet loop cleans
Restart(r) ==
  /\ tss' = [tss EXCEPT ![r] = NoSession]
  /\ pc' = [pc EXCEPT ![r] = Idle]
  /\ busy' = [busy EXCEPT ![r] = FALSE]
  /\ asked' = [asked EXCEPT ![r] = 0]
  /\ open' = [open EXCEPT ![r] = {}]
  /\ loop' = [loop EXCEPT ![r] = NoLoop]
  /\ order' = CleanOrders(r)
  /\ task' = CleanTasks(r)
  /\ UNCHANGED <<chain, pool, signing, net, notices, sent, env, built, cursor>>

Crash(r) == Fault /\ Restart(r)

\* the safebox goroutine calls a method of the nil session
Panic(r) == pc[r].at # "idle" /\ tss[r].call = NoCall /\ Restart(r) /\ UNCHANGED faults

Expire(r) ==
  /\ Fault
  /\ tss[r].call # NoCall /\ ~ tss[r].expired
  /\ tss' = [tss EXCEPT ![r].expired = TRUE]
  /\ UNCHANGED <<chain, pool, signing, net, notices, sent, env, built, cursor, rows, pc,
                 busy, bls>>

Rotate(r) ==
  /\ Fault
  /\ r # proposer
  /\ proposer' = r /\ epoch' = epoch + 1
  /\ UNCHANGED <<chain, pool, signing, net, notices, sent, built, cursor, rows, tss, pc,
                 busy, bls>>

-----------------------------------------------------------------------------
(* Safebox tick: process() *)

TickStep == UNCHANGED <<chain, notices, sent, env, built, cursor, rows, busy, bls>>

QueryTick(r) ==
  /\ pc[r].at = "idle" /\ proposer = r /\ Ready(r)
  /\ pc' = [pc EXCEPT ![r].at = "query"]
  /\ UNCHANGED <<pool, signing, net, faults, tss>> /\ TickStep

\* (bug) the tick looks for received_ok
DueAfterReceipt(r) == {k \in Task : task[r][k].status \in {"received_ok", "confirmed"}}

\* GetSafeboxTaskByStatus(1, received, confirmed): ORDER BY id DESC
Due(r) == {k \in Task : task[r][k].status \in {"received", "confirmed"}}
Newest(r) == {k \in Due(r) : \A j \in Due(r) : j <= k}

\* uuid.New: an id that nobody holds, and whose old signatures count for nothing
InUse == {m.call : m \in net} \cup {tss[r].call : r \in Relayer} \cup
        {pc[r].call : r \in Relayer} \cup {loop[r].call : r \in Relayer}
Fresh(i) == i > 0 /\ \A c \in InUse : c # NoCall => c.id # i
NewId == {i \in 1 .. MaxAttempt : Fresh(i) /\ \A j \in 1 .. (i - 1) : ~ Fresh(j)}

CallFor(r, k, n, i) ==
  [call |-> IF task[r][k].status = "received" THEN "receiveFunds" ELSE "processTimelockTx",
   task |-> k, order |-> 0, nonce |-> n, by |-> r, id |-> i]

Built(r, i) ==
  {c \in {CallFor(r, k, n, i) : k \in Newest(r), n \in {n \in 0 .. MaxNonce : Pending(n)}} :
     Callable(c)}

OpenSession(r) ==
  /\ pc[r].at = "idle" /\ proposer = r /\ ~ Ready(r)
  /\ \E i \in NewId :
       \/ \E c \in Built(r, i) :
            /\ SetSession(r, c, TRUE)
            /\ pc' = [pc EXCEPT ![r] = [at |-> "start", call |-> c]]
            /\ signing' = {s \in signing : s[2].id # i}
       \/ /\ Built(r, i) = {}
          /\ tss' = [tss EXCEPT ![r] = Checked(tss[r])]
          /\ UNCHANGED <<pc, signing>>
  /\ UNCHANGED <<pool, net, faults>> /\ TickStep

\* what is published is the session of the moment; so is the id StartSign takes
Announce(r) ==
  /\ pc[r].at = "start" /\ tss[r].call # NoCall
  /\ pc' = [pc EXCEPT ![r] = Idle]
  /\ \/ /\ Publish(r, "task", 0, tss[r].call)
        /\ \/ tss[r].call = pc[r].call /\ StartSign(r, pc[r].call)
           \/ tss[r].call # pc[r].call /\ UNCHANGED signing
        /\ UNCHANGED <<faults, tss>>
     \/ Fault /\ ResetSession(r) /\ UNCHANGED <<signing, net>>
  /\ UNCHANGED pool /\ TickStep

\* QuerySignResult, repeated L2SubmitRetry times
Query(r) ==
  /\ pc[r].at = "query" /\ tss[r].call # NoCall
  /\ Signed(tss[r].call)
  /\ pc' = [pc EXCEPT ![r] = [at |-> "apply", call |-> tss[r].call]]
  /\ UNCHANGED <<pool, signing, net, faults, tss>> /\ TickStep

\* no signature after the retries, or requests that failed
NoAnswer(c) == Fault \/ (~ Signed(c) /\ UNCHANGED faults)

GiveUp(r) ==
  /\ pc[r].at = "query" /\ tss[r].call # NoCall
  /\ NoAnswer(tss[r].call)
  /\ pc' = [pc EXCEPT ![r] = Idle]
  /\ ResetSession(r)
  /\ UNCHANGED <<pool, signing, net>> /\ TickStep

\* the answer meets the session of the moment; a signature of another call
\* gives a transaction from another address, which the chain refuses
ApplySignature(r) ==
  /\ pc[r].at = "apply" /\ tss[r].call # NoCall
  /\ pc' = [pc EXCEPT ![r] = Idle]
  /\ tss' = [tss EXCEPT ![r].signed = tss[r].signed \/ tss[r].hasTx]
  /\ IF tss[r].hasTx /\ tss[r].call = pc[r].call /\ Sendable(pc[r].call)
     THEN \/ pool' = pool \cup {pc[r].call} /\ UNCHANGED faults
          \/ Fault /\ UNCHANGED pool
     ELSE UNCHANGED <<pool, faults>>
  /\ UNCHANGED <<signing, net>> /\ TickStep

\* handleTssSign: a voter follows the proposer; tssStatus stays as it is.
\* The comment "check timelock tx is confirmed" has no code behind it.
HandleTssSign(r, m) ==
  /\ m \in net /\ m.kind = "task" /\ m.to = r /\ pc[r].at = "idle"
  /\ net' = net \ {m}
  /\ LET row == task[r][m.call.task] IN
     \/ row.status = "none" /\ UNCHANGED <<signing, tss>>
     \/ /\ row.status # "none"
        /\ tss' = [tss EXCEPT ![r] = [NoSession EXCEPT !.on = tss[r].on, !.call = m.call,
                                                       !.hasTx = TRUE]]
        /\ IF m.call.call = "processTimelockTx" \/ (m.call.call = "receiveFunds" /\ row.funded)
           THEN StartSign(r, m.call) ELSE UNCHANGED signing
  /\ UNCHANGED <<pool, faults, pc>> /\ TickStep

-----------------------------------------------------------------------------
(* Send orders for tasks: wallet loop and bls signer *)

WalletStep == UNCHANGED <<chain, pool, signing, net, notices, sent, env, faults, cursor,
                          tss, pc, open, loop>>

\* (bug) the task goes back whatever its status
FailRoundAny(r, o) ==
  LET S == {k \in Task : task[r][k].tx = built[o].tx} IN
  /\ task' = [task EXCEPT ![r] = [k \in Task |->
       IF k \in S THEN [task[r][k] EXCEPT !.status = "received_ok"] ELSE task[r][k]]]
  /\ busy' = [busy EXCEPT ![r] = busy[r] /\ S = {}]

\* the wallet loop receives SigFailed or SigTimeout: it returns early when no
\* task of the order is in status init, and the flow stays busy
FailRound(r, o) ==
  LET S == {k \in Task : task[r][k].tx = built[o].tx /\ task[r][k].status = "init"} IN
  /\ task' = [task EXCEPT ![r] = [k \in Task |->
       IF k \in S THEN [task[r][k] EXCEPT !.status = "received_ok"] ELSE task[r][k]]]
  /\ busy' = [busy EXCEPT ![r] = busy[r] /\ S = {}]

InitWithdrawSig(r) ==
  /\ proposer = r /\ ~ busy[r] /\ asked[r] = 0
  /\ \/ \E k \in Task, t \in Timelock :
          LET o == Len(built) + 1 IN
          /\ o <= MaxOrder
          /\ CleanTasks(r)[r][k].status = "received_ok"
          /\ \A p \in DOMAIN built : built[p].tx = t => built[p].task = k
          /\ Free(CleanOrders(r)[r], r, t)
          /\ built' = Append(built, [task |-> k, tx |-> t, old |-> task[r][k].tx, by |-> r,
                                     epoch |-> epoch])
          /\ order' = [CleanOrders(r) EXCEPT ![r][o] = "aggregating"]
          /\ task' = [CleanTasks(r) EXCEPT ![r][k] =
               [task[r][k] EXCEPT !.status = "init", !.order = o, !.tx = t]]
          /\ busy' = [busy EXCEPT ![r] = TRUE]
          /\ asked' = [asked EXCEPT ![r] = o]
     \/ \* nothing can be built
        /\ Cleaned(r) # {}
        /\ order' = CleanOrders(r) /\ task' = CleanTasks(r)
        /\ UNCHANGED <<built, busy, asked>>
  /\ WalletStep

LoseRole(r) ==
  /\ proposer # r /\ busy[r]
  /\ busy' = [busy EXCEPT ![r] = FALSE]
  /\ order' = CleanOrders(r) /\ task' = CleanTasks(r)
  /\ UNCHANGED <<built, asked>> /\ WalletStep

SignerStep == UNCHANGED <<chain, notices, sent, env, built, cursor, pc>>

OrderCall(r, o, n) ==
  [call |-> "initTimelockTx", task |-> built[o].task, order |-> o, nonce |-> n, by |-> r,
   id |-> 0]

\* handleSigStartSendOrder
StartRound(r) ==
  /\ asked[r] # 0 /\ loop[r].order = 0
  /\ asked' = [asked EXCEPT ![r] = 0]
  /\ LET o == asked[r]
         calls == {c \in {OrderCall(r, o, n) : n \in {n \in 0 .. MaxNonce : Pending(n)}} :
                     Callable(c)} IN
     \/ \E c \in calls :
          /\ proposer = r
          /\ SetSession(r, c, TRUE) /\ StartSign(r, c)
          /\ Publish(r, "order", o, c)
          /\ open' = [open EXCEPT ![r] = @ \cup {o}]
          /\ UNCHANGED <<faults, task, busy>>
     \/ /\ proposer = r /\ calls # {} /\ Fault      \* StartSign fails
        /\ ResetSession(r) /\ FailRound(r, o)
        /\ UNCHANGED <<signing, net, open>>
     \/ /\ proposer # r \/ calls = {}
        /\ FailRound(r, o)
        /\ UNCHANGED <<faults, tss, signing, net, open>>
  /\ UNCHANGED <<pool, order, loop>> /\ SignerStep

\* a voter stores the order and starts to sign; the task in the message has
\* the timelock txid of before the order
ReceiveOrder(r, m) ==
  /\ m \in net /\ m.kind = "order" /\ m.to = r /\ proposer # r /\ loop[r].order = 0
  /\ LET o == m.order
         k == built[o].task
         t == built[o].tx
         fits == /\ built[o].epoch = epoch
                 /\ task[r][k].status \in {"received_ok", "init"}
                 /\ Free(order[r], r, t) IN
     \/ /\ ~ fits
        /\ net' = net \ {m}
        /\ FailRound(r, o)
        /\ UNCHANGED <<order, tss, signing, faults>>
     \/ /\ fits
        /\ order' = [order EXCEPT ![r][o] = "aggregating"]
        /\ task' = [task EXCEPT ![r][k] =
             [task[r][k] EXCEPT !.status = "init", !.order = o, !.tx = t]]
        /\ IF built[o].old = t
           THEN /\ SetSession(r, m.call, FALSE) /\ StartSign(r, m.call)
                /\ net' = (net \ {m}) \cup
                     {[kind |-> "vote", to |-> q, order |-> o, call |-> m.call] :
                        q \in Relayer \ {r}}
           ELSE net' = net \ {m} /\ UNCHANGED <<tss, signing>>
        /\ UNCHANGED <<busy, faults>>
  /\ UNCHANGED <<pool, asked, open, loop>> /\ SignerStep

\* the proposer submits the session of the moment, whatever the message is about
SubmitBegin(r, m) ==
  /\ m \in net /\ m.kind \in {"order", "vote"} /\ m.to = r /\ proposer = r
  /\ loop[r].order = 0
  /\ net' = net \ {m}
  /\ \/ /\ Ready(r)
        /\ loop' = [loop EXCEPT ![r] = [order |-> m.order, call |-> tss[r].call,
                                        hasTx |-> tss[r].hasTx, sent |-> FALSE]]
        /\ UNCHANGED <<tss, open, task, busy>>
     \/ /\ ~ Ready(r)
        /\ tss' = [tss EXCEPT ![r] = Checked(tss[r])]
        /\ open' = [open EXCEPT ![r] = @ \ {m.order}]
        /\ FailRound(r, m.order)
        /\ UNCHANGED loop
  /\ UNCHANGED <<pool, order, asked, faults, signing>> /\ SignerStep

EndSubmit(r) ==
  /\ loop' = [loop EXCEPT ![r] = NoLoop]
  /\ open' = [open EXCEPT ![r] = @ \ {loop[r].order}]

\* the signature is there: send, and go on with the loop
SubmitSend(r) ==
  /\ loop[r].order # 0 /\ loop[r].hasTx /\ ~ loop[r].sent
  /\ Signed(loop[r].call)
  /\ tss' = [tss EXCEPT ![r].signed = @ \/ tss[r].call = loop[r].call]
  /\ \/ /\ Sendable(loop[r].call)
        /\ pool' = pool \cup {loop[r].call}
        /\ loop' = [loop EXCEPT ![r].sent = TRUE]
        /\ UNCHANGED <<open, task, busy, faults>>
     \/ /\ Fault \/ (~ Sendable(loop[r].call) /\ UNCHANGED faults)
        /\ EndSubmit(r) /\ FailRound(r, loop[r].order)
        /\ UNCHANGED pool
  /\ UNCHANGED <<net, order, asked, signing>> /\ SignerStep

\* no answer, no transaction, or the next turn of the loop sends again and
\* fails; the result is a success only when the sending turn was the last
SubmitEnd(r) ==
  /\ loop[r].order # 0
  /\ EndSubmit(r)
  /\ \/ /\ loop[r].sent \/ ~ loop[r].hasTx
        /\ FailRound(r, loop[r].order) /\ UNCHANGED faults
     \/ /\ ~ loop[r].sent /\ loop[r].hasTx
        /\ NoAnswer(loop[r].call) /\ FailRound(r, loop[r].order)
     \/ /\ loop[r].sent
        /\ busy' = [busy EXCEPT ![r] = FALSE]
        /\ UNCHANGED <<task, faults>>
  /\ UNCHANGED <<pool, net, order, asked, tss, signing>> /\ SignerStep

\* the timeout checker, a goroutine of its own
SigTimeout(r, o) ==
  /\ o \in open[r]
  /\ open' = [open EXCEPT ![r] = @ \ {o}]
  /\ FailRound(r, o)
  /\ UNCHANGED <<pool, net, order, asked, loop, tss, signing, faults>> /\ SignerStep

-----------------------------------------------------------------------------
(* Layer 2 listener: the events in order; an event whose handler fails is   *)
(* read again, so it has no step until the row allows it                    *)

ListenerStep == UNCHANGED <<chain, pool, signing, net, notices, sent, env, built, tss, pc,
                            busy, bls>>

TaskCreated(r, k) ==
  /\ ~ Processing(task[r][k].status)
  /\ Put(r, k, "create") /\ UNCHANGED <<order, faults>>

\* UpdateSafeboxTaskReceived; a relayer that reads the deposit late closes the task
NewDeposit(r, k) ==
  \/ /\ task[r][k].status # "create"
     /\ UNCHANGED <<rows, faults>>
  \/ /\ task[r][k].status = "create"
     /\ task' = [task EXCEPT ![r][k].status = "received", ![r][k].funded = TRUE]
     /\ UNCHANGED <<order, faults>>
  \/ /\ task[r][k].status = "create"
     /\ Put(r, k, "closed") /\ UNCHANGED <<order, faults>>

ReceivedOK(r, k) ==
  /\ task[r][k].status \in {"create", "received"}
  /\ task' = [task EXCEPT ![r][k].status = "received_ok", ![r][k].funded = TRUE]
  /\ UNCHANGED <<order, faults>>

\* (bug) the order is looked up by the task
InitOKByTask(r, k, t) ==
  /\ task[r][k].status \in {"create", "received", "received_ok", "init"}
  /\ task' = [task EXCEPT ![r][k].status = "init_ok", ![r][k].tx = t]
  /\ order' = MoveOrders(r, {o \in OrderId : o = task[r][k].order /\ order[r][o] \in LiveOrder},
                         "init")
  /\ UNCHANGED faults

\* (bug) the event's transaction is not stored
InitOKKeepsTx(r, k, t) ==
  /\ task[r][k].status \in {"create", "received", "received_ok", "init"}
  /\ task' = [task EXCEPT ![r][k].status = "init_ok"]
  /\ order' = MoveOrders(r, {o \in Latest(r, t) : order[r][o] \in LiveOrder}, "init")
  /\ UNCHANGED faults

\* UpdateSafeboxTaskInitOK: a closed order stays closed
InitOK(r, k, t) ==
  /\ task[r][k].status \in {"create", "received", "received_ok", "init"}
  /\ task' = [task EXCEPT ![r][k].status = "init_ok", ![r][k].tx = t]
  /\ order' = MoveOrders(r, {o \in Latest(r, t) : order[r][o] \in LiveOrder}, "init")
  /\ UNCHANGED faults

TimelockProcessed(r, k) ==
  /\ task[r][k].status \in {"confirmed", "init_ok"}
  /\ Put(r, k, "processed")
  /\ order' = MoveOrders(r, {o \in OrdersWith(r, task[r][k].tx) :
                               order[r][o] \in {"init", "pending", "confirmed"}}, "processed")
  /\ UNCHANGED faults

Completed(r, k) ==
  /\ task[r][k].status = "processed"
  /\ Put(r, k, "completed") /\ UNCHANGED <<order, faults>>

Cancelled(r, k) ==
  /\ IF Processing(task[r][k].status) THEN Put(r, k, "closed") ELSE UNCHANGED task
  /\ UNCHANGED <<order, faults>>

Handle(r) ==
  /\ cursor[r] < Len(log)
  /\ cursor' = [cursor EXCEPT ![r] = @ + 1]
  /\ LET e == log[cursor[r] + 1] IN
     \/ e.event = "TaskCreated" /\ TaskCreated(r, e.task)
     \/ e.event = "NewDeposit" /\ NewDeposit(r, e.task)
     \/ e.event = "FundsReceived" /\ ReceivedOK(r, e.task)
     \/ e.event = "TimelockInitialized" /\ InitOK(r, e.task, e.tx)
     \/ e.event = "TimelockProcessed" /\ TimelockProcessed(r, e.task)
     \/ e.event = "Burned" /\ Completed(r, e.task)
     \/ e.event = "TaskCancelled" /\ Cancelled(r, e.task)
  /\ ListenerStep

-----------------------------------------------------------------------------
(* Bitcoin: the broadcaster of the proposer, its notices, the blocks *)

BitcoinStep == UNCHANGED <<chain, pool, signing, net, env, built, cursor, tss, pc, busy, bls>>

\* UpdateSendOrderPending and UpdateSendOrderConfirmed
Advance(r, t, s) ==
  LET S == {o \in Latest(r, t) : order[r][o] \in LiveOrder} IN
  /\ order' = MoveOrders(r, S, s)
  /\ task' = MoveTasks(r, S, s)

\* the transaction first, then the row, which may fail to be saved
Broadcast(r, o) ==
  /\ proposer = r /\ order[r][o] = "init"
  /\ sent' = sent \cup {built[o].tx}
  /\ \/ /\ Advance(r, built[o].tx, "pending")
        /\ notices' = notices \cup {<<q, o>> : q \in Relayer \ {r}}
        /\ UNCHANGED faults
     \/ Fault /\ UNCHANGED <<rows, notices>>
  /\ BitcoinStep

\* the node lost a pending transaction: UpdateSendOrderInitlized, tasks aside
RevertPending(r, o) ==
  /\ order[r][o] = "pending"
  /\ order' = MoveOrders(r, {p \in Latest(r, built[o].tx) : order[r][p] \in LiveOrder}, "init")
  /\ UNCHANGED <<task, sent, notices, faults>> /\ BitcoinStep

\* a relayer without the order inserts it when its inputs are free
ReceiveNotice(r, o) ==
  /\ <<r, o>> \in notices
  /\ notices' = notices \ {<<r, o>>}
  /\ IF OrdersWith(r, built[o].tx) # {}
     THEN Advance(r, built[o].tx, "pending")
     ELSE order' = [order EXCEPT ![r][o] = "pending"] /\ UNCHANGED task
  /\ UNCHANGED <<sent, faults>> /\ BitcoinStep

\* the scanner knows the transaction by its send order
ConfirmTimelock(r, t) ==
  /\ t \in sent /\ OrdersWith(r, t) # {}
  /\ Advance(r, t, "confirmed")
  /\ UNCHANGED <<sent, notices, faults>> /\ BitcoinStep

-----------------------------------------------------------------------------
External ==
  \/ \E k \in Task : CreateTask(k) \/ Deposit(k) \/ CancelTask(k) \/ Burn(k)
  \/ \E c \in pool : Execute(c)
  \/ \E r \in Relayer : Rotate(r)

Safebox(r) ==
  \/ QueryTick(r) \/ OpenSession(r) \/ Announce(r) \/ Query(r) \/ GiveUp(r)
  \/ ApplySignature(r) \/ Panic(r)
  \/ \E m \in net : HandleTssSign(r, m)

Sending(r) ==
  \/ InitWithdrawSig(r) \/ LoseRole(r) \/ StartRound(r) \/ SubmitSend(r) \/ SubmitEnd(r)
  \/ \E m \in net : ReceiveOrder(r, m) \/ SubmitBegin(r, m)
  \/ \E o \in DOMAIN built : SigTimeout(r, o)

Bitcoin(r) ==
  \/ \E o \in DOMAIN built : Broadcast(r, o) \/ RevertPending(r, o) \/ ReceiveNotice(r, o)
  \/ \E t \in Timelock : ConfirmTimelock(r, t)

Next ==
  \/ External
  \/ \E r \in Relayer : Crash(r) \/ Expire(r)
  \/ \E r \in Relayer : Safebox(r) \/ Sending(r) \/ Handle(r) \/ Bitcoin(r)

Spec == Init /\ [][Next]_vars

\* The task loop and the listener keep running and the chain executes what is
\* in its pool.  Nothing makes users, elections, the wallet or bitcoin move.
Fairness ==
  /\ \A r \in Relayer : WF_vars(Safebox(r)) /\ WF_vars(Handle(r))
  /\ WF_vars(\E c \in pool : Execute(c))

FairSpec == Spec /\ Fairness

-----------------------------------------------------------------------------
(* Money leaves for a timelock address only after the contract recorded the *)
(* transaction: a submission that "failed", its order given up and a second *)
(* order built meanwhile do not put the second transaction on bitcoin too.  *)
RecordedBeforeSent == \A t \in sent : \E k \in Task : contract[k].tx = t

Recorded == {"init_ok", "pending", "confirmed", "processed", "completed"}

(* A row past the contract's record names the transaction the contract      *)
(* recorded, whatever orders were built, given up and built again on the    *)
(* way; it is confirmed only when that transaction is on bitcoin, processed *)
(* only when the contract processed it.                                     *)
RowsFollowContract ==
  \A r \in Relayer, k \in Task :
    LET row == task[r][k] IN
    /\ row.status \in Recorded => row.tx = contract[k].tx
    /\ row.status = "confirmed" => row.tx \in sent
    /\ row.status \in {"processed", "completed"} => contract[k].status \in {"processed", "burned"}

Stage(s) ==
  CASE s = "init_ok" -> 1 [] s = "pending" -> 2 [] s = "confirmed" -> 3
    [] s = "processed" -> 4 [] s = "completed" -> 5 [] OTHER -> 0

(* A recorded task never goes back: not by a failed or timed out round of   *)
(* its order that is reported late, a clean-up, a late notice or block.     *)
RecordedForward ==
  [][\A r \in Relayer, k \in Task :
       Stage(task[r][k].status) > 0 =>
         Stage(task'[r][k].status) >= Stage(task[r][k].status)]_vars

NoNonce == \A n \in 0 .. MaxNonce : ~ Pending(n)    \* the bound on calls is reached

(* A deposited task is received by the contract: a session taken over by    *)
(* the bls signer or by another task, and a transaction the chain refuses,  *)
(* only delay the task loop of a relayer whose signature is enough.         *)
FundsEventuallyReceived ==
  \A k \in Task :
    contract[k].status = "deposited" ~>
      \/ contract[k].status # "deposited" \/ NoNonce
      \/ \E r \in Relayer : task[r][k].status = "closed"

(* The same for the second call of the loop, after the signature round of   *)
(* the order left its own session behind.                                   *)
ConfirmedEventuallyProcessed ==
  \A k \in Task :
    task[proposer][k].status = "confirmed" ~>
      contract[k].status \in {"processed", "burned"} \/ NoNonce
      \/ task[proposer][k].status # "confirmed"

(* Every voter signs: a voter that stored the order of the proposer has     *)
(* asked its TSS signer for it.                                             *)
EveryVoterSigns ==
  \A r \in Relayer, o \in DOMAIN built :
    order[r][o] = "aggregating" /\ built[o].by # r =>
      \E s \in signing : s[1] = r /\ s[2].order = o
=============================================================================
