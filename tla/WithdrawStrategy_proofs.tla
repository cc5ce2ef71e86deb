------------------------- MODULE WithdrawStrategy_proofs -------------------------
(***************************************************************************)
(* OrdersDisjoint, FeeExact and SelectionBest for every set of             *)
(* withdrawals, tasks, pools and fees.                                     *)
(*                                                                         *)
(* OrdersDisjoint is not inductive alone.  A confirmed order adds a change *)
(* utxo, whose id must be new (ChangesAreConfirmed), and a request must    *)
(* not be one that an order already pays (RequestedOnce).  That a plan     *)
(* takes only what is spendable, waiting and open (PlanTakesOffered) rests *)
(* on the selection operators returning subsets of their argument.         *)
(*                                                                         *)
(* FeeExact needs what the sums and sizes are when every amount is a       *)
(* natural number (TotalTyped, SizeTyped), that CreateRawTransaction only  *)
(* succeeds at its first estimate (Created: a price that is exceeded stays *)
(* exceeded when the estimate grows), and then arithmetic for each of the  *)
(* three kinds of plan (SharedFee, ChangeFee, ConsolidationFee).           *)
(*                                                                         *)
(* SelectionBest needs that ids tell the utxos apart for ever (OwnIds) and *)
(* that no set of utxos is worth more than as many of the largest          *)
(* (UpperDominates), of which Gather always returns a whole prefix.        *)
(***************************************************************************)
EXTENDS WithdrawStrategy, FiniteSetTheorems, WellFoundedInduction, TLAPS

-----------------------------------------------------------------------------
(* The invariant of the orders *)

IsOrder(r) ==
  r = [kind |-> r.kind, ins |-> r.ins, withdrawals |-> r.withdrawals, tasks |-> r.tasks,
       change |-> r.change, fee |-> r.fee, price |-> r.price, phase |-> r.phase]

OrdersShape ==
  /\ \E S : orders \in Seq(S)
  /\ Len(orders) <= MaxOrder
  /\ \A o \in Ids : IsOrder(orders[o])

RequestedOnce ==
  /\ waiting \subseteq Withdrawals
  /\ age \in [Withdrawals -> -1 .. 2]
  /\ \A w \in waiting : age[w] >= 0
  /\ \A o \in Ids : /\ orders[o].withdrawals \subseteq Withdrawals
                    /\ \A w \in orders[o].withdrawals : age[w] >= 0

\* an id up to MaxOrder names the change of a confirmed order
ChangesAreConfirmed ==
  /\ \A u \in utxos : u.id \in 1 .. MaxOrder => u.id \in InPhase("confirmed")
  /\ \A o \in Ids : \A u \in orders[o].ins :
       u.id \in 1 .. MaxOrder => u.id \in InPhase("confirmed")

IInv == OrdersShape /\ RequestedOnce /\ ChangesAreConfirmed /\ OrdersDisjoint

-----------------------------------------------------------------------------
(* What a plan takes *)

LEMMA CoverOffered ==
  ASSUME NEW S, NEW required
  PROVE  Cover(S, required) \subseteq S
<1>1. Least(Enough(S, required)) \subseteq S
  BY DEF Least, Enough
<1>2. Gather(S, required) \subseteq S
  BY DEF Gather
<1>3. ASSUME NEW v \in Least(Pairs(S, required)) PROVE UpTo(S, v) \subseteq S
  <2>1. v \in S
    BY DEF Least, Pairs
  <2> QED BY <2>1 DEF UpTo, Largest
<1> QED BY <1>1, <1>2, <1>3 DEF Cover

LEMMA InputsOffered ==
  ASSUME NEW S, NEW required, NEW price, NEW ins \in Inputs(S, required, price)
  PROVE  ins \subseteq S
<1>1. Cover(S, required) \subseteq S
  BY CoverOffered
<1>2. Extra(S, Cover(S, required), price) \subseteq S
  BY DEF Extra, Least
<1> QED BY <1>1, <1>2 DEF Inputs

LEMMA SelectionOffered ==
  ASSUME NEW S, NEW payees, NEW external, NEW price,
         NEW sel \in SelectOptimalUTXOs(S, payees, external, price)
  PROVE  sel.ins \subseteq S
BY InputsOffered DEF SelectOptimalUTXOs, Selection

LEMMA PlanTakesOffered ==
  ASSUME NEW plan \in ThePlan
  PROVE  plan.ins \subseteq utxos /\ plan.withdrawals \subseteq waiting /\ plan.tasks \subseteq open
<1>1. CASE plan \in ConsolidationPlan
  <2>1. PICK sel \in ConsolidateUTXOsByCount(utxos, fee.halfHour, ConsolidationThreshold,
                                             ConsolidationMaxVin) :
          plan = Plan("consolidation", sel, {}, {}, fee.halfHour)
    BY <1>1 DEF ConsolidationPlan
  <2>2. sel.ins \subseteq utxos
    <3>1. sel.ins = Largest(Eligible(utxos, ConsolidationThreshold), ConsolidationMaxVin)
      BY DEF ConsolidateUTXOsByCount
    <3> QED BY <3>1 DEF Largest, Eligible
  <2> QED BY <2>1, <2>2 DEF Plan
<1>2. CASE plan \in SafeboxPlan
  <2>1. PICK k \in SelectedTask :
          \E sel \in SelectOptimalUTXOs(utxos, {k}, External, fee.halfHour) :
            plan = Plan("safebox", sel, {}, {k}, fee.halfHour)
    BY <1>2 DEF SafeboxPlan
  <2>2. PICK sel \in SelectOptimalUTXOs(utxos, {k}, External, fee.halfHour) :
          plan = Plan("safebox", sel, {}, {k}, fee.halfHour)
    BY <2>1
  <2>3. k \in open
    BY DEF SelectedTask
  <2>4. sel.ins \subseteq utxos
    BY SelectionOffered
  <2> QED BY <2>2, <2>3, <2>4 DEF Plan
<1>3. CASE plan \in WithdrawalPlan
  <2>1. PICK batch \in Batches :
          \E sel \in SelectOptimalUTXOs(utxos, batch.withdrawals, 0, batch.price) :
            plan = Plan("withdrawal", sel, batch.withdrawals, {}, batch.price)
    BY <1>3 DEF WithdrawalPlan
  <2>2. PICK sel \in SelectOptimalUTXOs(utxos, batch.withdrawals, 0, batch.price) :
          plan = Plan("withdrawal", sel, batch.withdrawals, {}, batch.price)
    BY <2>1
  <2>3. batch.withdrawals \subseteq waiting
    <3>1. \A level : OldestOf(Group(level)) \subseteq waiting
      BY DEF OldestOf, Group
    <3> QED BY <3>1 DEF Batches
  <2>4. sel.ins \subseteq utxos
    BY SelectionOffered
  <2> QED BY <2>2, <2>3, <2>4 DEF Plan
<1> QED BY <1>1, <1>2, <1>3 DEF ThePlan

-----------------------------------------------------------------------------
(* The table of orders *)

LEMMA AppendedOrder ==
  ASSUME OrdersShape, NEW r, orders' = Append(orders, r)
  PROVE  /\ \E S : orders' \in Seq(S)
         /\ Len(orders') = Len(orders) + 1
         /\ Ids' = Ids \cup {Len(orders) + 1} /\ Len(orders) + 1 \notin Ids
         /\ \A o \in Ids : orders'[o] = orders[o]
         /\ orders'[Len(orders) + 1] = r
<1>1. PICK S : orders \in Seq(S)
  BY DEF OrdersShape
<1> DEFINE T == S \cup {r}
<1>2. orders \in Seq(T) /\ r \in T
  BY <1>1
<1> HIDE DEF T
<1>3. /\ orders' \in Seq(T)
      /\ Len(orders') = Len(orders) + 1
      /\ DOMAIN orders' = 1 .. Len(orders) + 1
      /\ \A o \in 1 .. Len(orders) : orders'[o] = orders[o]
      /\ orders'[Len(orders) + 1] = r
  BY <1>2
<1>4. DOMAIN orders = 1 .. Len(orders) /\ Len(orders) \in Nat
  BY <1>2
<1> QED BY <1>3, <1>4 DEF Ids

SameMoney(r, s) ==
  r.kind = s.kind /\ r.change = s.change /\ r.fee = s.fee /\ r.price = s.price

LEMMA PhaseSet ==
  ASSUME OrdersShape, NEW o \in Ids, NEW p, orders' = [orders EXCEPT ![o].phase = p]
  PROVE  /\ OrdersShape' /\ Ids' = Ids
         /\ orders'[o].phase = p
         /\ \A q \in Ids : /\ orders'[q].ins = orders[q].ins
                           /\ orders'[q].withdrawals = orders[q].withdrawals
                           /\ orders'[q].tasks = orders[q].tasks
                           /\ SameMoney(orders'[q], orders[q])
                           /\ q # o => orders'[q].phase = orders[q].phase
<1>1. PICK S : orders \in Seq(S)
  BY DEF OrdersShape
<1> DEFINE r == [orders[o] EXCEPT !.phase = p]
<1>2. orders \in Seq(S \cup {r}) /\ r \in S \cup {r}
  BY <1>1
<1>3. orders' = [orders EXCEPT ![o] = r]
  OBVIOUS
<1> HIDE DEF r
<1>4. orders' \in Seq(S \cup {r}) /\ Len(orders') = Len(orders) /\ Ids' = Ids
  BY <1>2, <1>3 DEF Ids
<1>5. orders'[o] = r /\ \A q \in Ids \ {o} : orders'[q] = orders[q]
  BY <1>1, <1>3 DEF Ids
<1>6. IsOrder(orders[o])
  BY DEF OrdersShape
<1>7. r = [kind |-> orders[o].kind, ins |-> orders[o].ins,
           withdrawals |-> orders[o].withdrawals, tasks |-> orders[o].tasks,
           change |-> orders[o].change, fee |-> orders[o].fee,
           price |-> orders[o].price, phase |-> p]
  BY <1>6 DEF IsOrder, r
<1>8. IsOrder(r) /\ r.phase = p /\ r.ins = orders[o].ins /\ r.tasks = orders[o].tasks
      /\ r.withdrawals = orders[o].withdrawals /\ SameMoney(r, orders[o])
  BY <1>7 DEF IsOrder, SameMoney
<1>9. OrdersShape'
  <2>1. \A q \in Ids : IsOrder(orders'[q])
    BY <1>5, <1>8 DEF OrdersShape
  <2> QED BY <1>4, <2>1 DEF OrdersShape, IsOrder
<1>10. \A q \in Ids \ {o} : SameMoney(orders'[q], orders[q])
  BY <1>5 DEF SameMoney
<1> QED BY <1>4, <1>5, <1>8, <1>9, <1>10

-----------------------------------------------------------------------------
(* Two orders that stand share nothing *)

LEMMA InitInv == Init => IInv
<1> SUFFICES ASSUME Init PROVE IInv
  OBVIOUS
<1>1. orders = <<>> /\ Ids = {} /\ Len(orders) = 0
  BY DEF Init, Ids
<1>2. OrdersShape
  <2>1. orders \in Seq({})
    BY <1>1
  <2> QED BY <1>1, <2>1, StrategyAssumption DEF OrdersShape
<1>3. RequestedOnce
  BY <1>1 DEF Init, RequestedOnce
<1>4. ChangesAreConfirmed
  BY <1>1, StrategyAssumption DEF Init, ChangesAreConfirmed
<1>5. OrdersDisjoint
  BY <1>1 DEF OrdersDisjoint, Standing
<1> QED BY <1>2, <1>3, <1>4, <1>5 DEF IInv

\* a step that leaves the orders and the utxos alone and offers nothing that an order took
LEMMA OffersStep ==
  ASSUME IInv, orders' = orders, utxos' = utxos, RequestedOnce',
         \A o \in Standing : /\ orders[o].withdrawals \cap waiting' = {}
                             /\ orders[o].tasks \cap open' = {}
  PROVE  IInv'
<1>1. Ids' = Ids /\ Standing' = Standing /\ InPhase("confirmed")' = InPhase("confirmed")
  BY DEF Ids, Standing, InPhase
<1>2. OrdersShape' /\ ChangesAreConfirmed'
  BY <1>1 DEF IInv, OrdersShape, ChangesAreConfirmed, IsOrder
<1>3. OrdersDisjoint'
  BY <1>1 DEF IInv, OrdersDisjoint
<1> QED BY <1>2, <1>3 DEF IInv

LEMMA BuildStep ==
  ASSUME IInv, BuildOrder
  PROVE  IInv'
<1>1. PICK plan \in ThePlan :
        \E t \in {CreateRawTransaction(plan, plan.est)} : CreateSendOrder(plan, t)
  BY DEF BuildOrder
<1>0. PICK tx : CreateSendOrder(plan, tx)
  BY <1>1
<1>2. plan.ins \subseteq utxos /\ plan.withdrawals \subseteq waiting /\ plan.tasks \subseteq open
  BY PlanTakesOffered
<1> DEFINE r == [kind |-> plan.kind, ins |-> plan.ins, withdrawals |-> plan.withdrawals,
                 tasks |-> plan.tasks, change |-> tx.change, fee |-> tx.fee,
                 price |-> plan.price, phase |-> "aggregating"]
           n == Len(orders) + 1
<1>3. orders' = Append(orders, r)
  BY <1>0 DEF CreateSendOrder
<1>4. /\ IsOrder(r) /\ r.ins = plan.ins /\ r.withdrawals = plan.withdrawals
      /\ r.tasks = plan.tasks /\ r.phase = "aggregating"
  BY DEF IsOrder
<1>5. /\ utxos' = utxos \ plan.ins /\ waiting' = waiting \ plan.withdrawals
      /\ open' = open \ plan.tasks /\ age' = age
  BY <1>0 DEF CreateSendOrder, BuildOrder
<1> HIDE DEF r
<1>6. /\ \E S : orders' \in Seq(S)
      /\ Len(orders') = n
      /\ Ids' = Ids \cup {n} /\ n \notin Ids
      /\ \A o \in Ids : orders'[o] = orders[o]
      /\ orders'[n] = r
  BY <1>3, AppendedOrder DEF IInv
<1>7. n <= MaxOrder
  <2>1. Len(orders) \in Nat
    BY DEF IInv, OrdersShape
  <2> QED BY <2>1, StrategyAssumption DEF BuildOrder, CanBuild
<1>8. OrdersShape'
  <2>1. \A o \in Ids' : IsOrder(orders'[o])
    BY <1>4, <1>6 DEF IInv, OrdersShape
  <2>2. Len(orders') <= MaxOrder
    BY <1>6, <1>7
  <2> QED BY <1>6, <2>1, <2>2 DEF OrdersShape, IsOrder
<1> HIDE DEF n
<1>9. RequestedOnce'
  BY <1>2, <1>4, <1>5, <1>6 DEF IInv, RequestedOnce
<1>10. InPhase("confirmed")' = InPhase("confirmed") /\ Standing' = Standing \cup {n}
  BY <1>4, <1>6 DEF InPhase, Standing
<1>11. ChangesAreConfirmed'
  BY <1>2, <1>4, <1>5, <1>6, <1>10 DEF IInv, ChangesAreConfirmed
<1>12. OrdersDisjoint'
  <2>1. \A o \in Standing : o \in Ids /\ orders'[o] = orders[o]
    BY <1>6 DEF Standing
  <2>2. \A o \in Standing : /\ orders'[o].ins \cap orders'[n].ins = {}
                            /\ orders'[o].withdrawals \cap orders'[n].withdrawals = {}
                            /\ orders'[o].tasks \cap orders'[n].tasks = {}
    BY <1>2, <1>4, <1>6, <2>1 DEF IInv, OrdersDisjoint
  <2>3. ASSUME NEW o \in Standing', NEW p \in Standing', o # p
        PROVE  /\ orders'[o].ins \cap orders'[p].ins = {}
               /\ orders'[o].withdrawals \cap orders'[p].withdrawals = {}
               /\ orders'[o].tasks \cap orders'[p].tasks = {}
    <3>1. CASE o \in Standing /\ p \in Standing
      BY <2>1, <2>3, <3>1 DEF IInv, OrdersDisjoint
    <3>2. CASE o = n \/ p = n
      BY <1>10, <2>2, <2>3, <3>2
    <3> QED BY <1>10, <3>1, <3>2
  <2>4. ASSUME NEW o \in Standing'
        PROVE  /\ orders'[o].ins \cap utxos' = {}
               /\ orders'[o].withdrawals \cap waiting' = {}
               /\ orders'[o].tasks \cap open' = {}
    <3>1. CASE o \in Standing
      BY <1>5, <2>1, <3>1 DEF IInv, OrdersDisjoint
    <3>2. CASE o = n
      BY <1>4, <1>5, <1>6, <3>2
    <3> QED BY <1>10, <3>1, <3>2
  <2> QED BY <2>3, <2>4 DEF OrdersDisjoint
<1> QED BY <1>8, <1>9, <1>11, <1>12 DEF IInv

LEMMA GiveUpStep ==
  ASSUME IInv, NEW o \in Ids, GiveUp(o)
  PROVE  IInv'
<1>1. /\ OrdersShape' /\ Ids' = Ids
      /\ orders'[o].phase = "closed"
      /\ \A q \in Ids : /\ orders'[q].ins = orders[q].ins
                        /\ orders'[q].withdrawals = orders[q].withdrawals
                        /\ orders'[q].tasks = orders[q].tasks
                        /\ q # o => orders'[q].phase = orders[q].phase
  BY PhaseSet DEF IInv, GiveUp
<1>2. /\ utxos' = utxos \cup orders[o].ins /\ waiting' = waiting \cup orders[o].withdrawals
      /\ open' = open \cup orders[o].tasks /\ age' = age /\ orders[o].phase = "aggregating"
  BY DEF GiveUp
<1>3. InPhase("confirmed")' = InPhase("confirmed") /\ Standing' = Standing \ {o}
      /\ o \in Standing
  BY <1>1, <1>2 DEF InPhase, Standing
<1>4. RequestedOnce'
  BY <1>1, <1>2 DEF IInv, RequestedOnce
<1>5. ChangesAreConfirmed'
  BY <1>1, <1>2, <1>3 DEF IInv, ChangesAreConfirmed
<1>6. \A p \in Standing' : p \in Standing /\ p \in Ids /\ p # o
  BY <1>3 DEF Standing
<1>7. OrdersDisjoint'
  <2>1. \A p, q \in Standing' : p # q =>
          /\ orders'[p].ins \cap orders'[q].ins = {}
          /\ orders'[p].withdrawals \cap orders'[q].withdrawals = {}
          /\ orders'[p].tasks \cap orders'[q].tasks = {}
    BY <1>1, <1>6 DEF IInv, OrdersDisjoint
  <2>2. \A p \in Standing' : /\ orders'[p].ins \cap utxos' = {}
                             /\ orders'[p].withdrawals \cap waiting' = {}
                             /\ orders'[p].tasks \cap open' = {}
    BY <1>1, <1>2, <1>3, <1>6 DEF IInv, OrdersDisjoint
  <2> QED BY <2>1, <2>2 DEF OrdersDisjoint
<1> QED BY <1>1, <1>4, <1>5, <1>7 DEF IInv

\* an order moves on to "pending" or "confirmed"; a change utxo may appear
LEMMA AdvanceStep ==
  ASSUME IInv, NEW o \in Ids, NEW p \in {"pending", "confirmed"},
         orders[o].phase \in {"aggregating", "pending"},
         orders' = [orders EXCEPT ![o].phase = p],
         \A u \in utxos' : u \in utxos \/ (p = "confirmed" /\ u.id = o),
         waiting' = waiting, open' = open, age' = age
  PROVE  IInv'
<1>1. /\ OrdersShape' /\ Ids' = Ids
      /\ orders'[o].phase = p
      /\ \A q \in Ids : /\ orders'[q].ins = orders[q].ins
                        /\ orders'[q].withdrawals = orders[q].withdrawals
                        /\ orders'[q].tasks = orders[q].tasks
                        /\ q # o => orders'[q].phase = orders[q].phase
  BY ZenonT(60), PhaseSet DEF IInv
<1>2. /\ Standing' = Standing
      /\ \A i \in InPhase("confirmed") : i \in InPhase("confirmed")'
      /\ p = "confirmed" => o \in InPhase("confirmed")'
      /\ o \notin InPhase("confirmed")
  BY <1>1 DEF InPhase, Standing
<1>3. o \in 1 .. MaxOrder
  BY StrategyAssumption DEF IInv, OrdersShape, Ids
<1>4. RequestedOnce'
  BY <1>1 DEF IInv, RequestedOnce
<1>5. ChangesAreConfirmed'
  BY <1>1, <1>2 DEF IInv, ChangesAreConfirmed
<1>6. \A q \in Ids : \A u \in orders[q].ins : u.id # o
  BY <1>2, <1>3 DEF IInv, ChangesAreConfirmed
<1>7. OrdersDisjoint'
  <2>1. \A q \in Standing : q \in Ids
    BY DEF Standing
  <2>2. \A i, q \in Standing : i # q =>
          /\ orders'[i].ins \cap orders'[q].ins = {}
          /\ orders'[i].withdrawals \cap orders'[q].withdrawals = {}
          /\ orders'[i].tasks \cap orders'[q].tasks = {}
    BY <1>1, <2>1 DEF IInv, OrdersDisjoint
  <2>3. \A q \in Standing : /\ orders'[q].ins \cap utxos' = {}
                            /\ orders'[q].withdrawals \cap waiting' = {}
                            /\ orders'[q].tasks \cap open' = {}
    BY <1>1, <1>6, <2>1 DEF IInv, OrdersDisjoint
  <2> QED BY <1>2, <2>2, <2>3 DEF OrdersDisjoint
<1> QED BY <1>1, <1>4, <1>5, <1>7 DEF IInv

LEMMA NextInv == IInv /\ [Next]_vars => IInv'
<1> SUFFICES ASSUME IInv, [Next]_vars PROVE IInv'
  OBVIOUS
<1>1. CASE BuildOrder
  BY <1>1, BuildStep
<1>2. CASE CloseDust
  <2>1. orders' = orders /\ utxos' = utxos /\ open' = open /\ age' = age /\ waiting' \subseteq waiting
    BY <1>2 DEF CloseDust
  <2>2. RequestedOnce'
    BY <2>1 DEF IInv, RequestedOnce, Ids
  <2> QED BY <2>1, <2>2, OffersStep DEF IInv, OrdersDisjoint
<1>3. CASE UpdateNetworkFee
  <2>1. orders' = orders /\ utxos' = utxos /\ open' = open /\ age' = age /\ waiting' = waiting
    BY <1>3 DEF UpdateNetworkFee
  <2>2. RequestedOnce'
    BY <2>1 DEF IInv, RequestedOnce, Ids
  <2> QED BY <2>1, <2>2, OffersStep DEF IInv, OrdersDisjoint
<1>4. ASSUME NEW w \in Withdrawals, Request(w) PROVE IInv'
  <2>1. orders' = orders /\ utxos' = utxos /\ open' = open /\ waiting' = waiting \cup {w}
        /\ age' = [age EXCEPT ![w] = 0] /\ age[w] = -1
    BY <1>4 DEF Request
  <2>2. RequestedOnce'
    BY <2>1 DEF IInv, RequestedOnce, Ids
  <2>3. \A o \in Ids : w \notin orders[o].withdrawals
    BY <2>1 DEF IInv, RequestedOnce
  <2> QED BY <2>1, <2>2, <2>3, OffersStep DEF IInv, OrdersDisjoint, Standing
<1>5. ASSUME NEW w \in Withdrawals, PassTime(w) PROVE IInv'
  <2>1. /\ orders' = orders /\ utxos' = utxos /\ open' = open /\ waiting' = waiting
        /\ w \in waiting /\ age[w] < 2
        /\ age' = [v \in Withdrawals |-> IF v.id <= w.id /\ age[v] <= age[w]
                                         THEN age[w] + 1 ELSE age[v]]
    BY <1>5 DEF PassTime
  <2>2. age[w] \in 0 .. 1
    BY <2>1 DEF IInv, RequestedOnce
  <2>3. age' \in [Withdrawals -> -1 .. 2] /\ \A v \in Withdrawals : age[v] >= 0 => age'[v] >= 0
    BY <2>1, <2>2 DEF IInv, RequestedOnce
  <2>4. RequestedOnce'
    BY <2>1, <2>3 DEF IInv, RequestedOnce, Ids
  <2> QED BY <2>1, <2>4, OffersStep DEF IInv, OrdersDisjoint
<1>6. ASSUME NEW k \in Tasks, Receive(k) PROVE IInv'
  <2>1. orders' = orders /\ utxos' = utxos /\ open' = open \cup {k} /\ waiting' = waiting
        /\ age' = age /\ \A o \in Ids : k \notin orders[o].tasks
    BY <1>6 DEF Receive
  <2>2. RequestedOnce'
    BY <2>1 DEF IInv, RequestedOnce, Ids
  <2> QED BY <2>1, <2>2, OffersStep DEF IInv, OrdersDisjoint, Standing
<1>7. ASSUME NEW o \in Ids, Sign(o) PROVE IInv'
  BY <1>7, AdvanceStep DEF Sign
<1>8. ASSUME NEW o \in Ids, GiveUp(o) PROVE IInv'
  BY <1>8, GiveUpStep
<1>9. ASSUME NEW o \in Ids, Confirm(o) PROVE IInv'
  <2>1. \A u \in utxos' : u \in utxos \/ u.id = o
    BY <1>9 DEF Confirm
  <2> QED BY <1>9, <2>1, AdvanceStep DEF Confirm
<1>10. CASE UNCHANGED vars
  <2>1. RequestedOnce'
    BY <1>10 DEF vars, IInv, RequestedOnce, Ids
  <2> QED BY <1>10, <2>1, OffersStep DEF vars, IInv, OrdersDisjoint
<1> QED BY <1>1, <1>2, <1>3, <1>4, <1>5, <1>6, <1>7, <1>8, <1>9, <1>10 DEF Next

(* No utxo is spent, no withdrawal paid and no task opened by two orders   *)
(* that stand, nor offered again while one does.                           *)
THEOREM DisjointOrders == Spec => []OrdersDisjoint
<1>1. Init => IInv
  BY InitInv
<1>2. IInv /\ [Next]_vars => IInv'
  BY NextInv
<1>3. IInv => OrdersDisjoint
  BY DEF IInv
<1> QED BY <1>1, <1>2, <1>3, PTL DEF Spec

-----------------------------------------------------------------------------
(* Sums over finite sets.  The library's fold takes the elements in an order *)
(* it chooses; that the fold exists and that the order does not matter is    *)
(* shown by the number of elements.                                          *)

LEMMA LeastNatural ==
  ASSUME NEW T \in SUBSET Nat, T # {}
  PROVE  \E x \in T : \A y \in T : x <= y
<1> DEFINE R == {ss \in Nat \X Nat : ss[1] < ss[2]}
<1>1. R = OpToRel(<, Nat)
  BY Zenon DEF OpToRel
<1>2. IsWellFoundedOn(R, Nat)
  BY <1>1, NatLessThanWellFounded, Zenon
<1> HIDE DEF R
<1>3. \E x \in T : \A y \in T : ~ (<<y, x>> \in R)
  BY <1>2, WFMin
<1>4. PICK x \in T : \A y \in T : ~ (<<y, x>> \in R)
  BY <1>3
<1>5. ASSUME NEW y \in T PROVE x <= y
  <2>1. <<y, x>> \in Nat \X Nat /\ ~ (<<y, x>> \in R)
    BY <1>4
  <2> QED BY <2>1 DEF R
<1> QED BY <1>5

\* induction on the number of elements of a subset
LEMMA Shrinking ==
  ASSUME NEW S, IsFiniteSet(S), NEW T,
         \A s \in SUBSET S :
           (\A q \in SUBSET S : Cardinality(q) < Cardinality(s) => q \in T) => s \in T
  PROVE  \A s \in SUBSET S : s \in T
<1> SUFFICES ASSUME NEW s \in SUBSET S, s \notin T PROVE FALSE
  OBVIOUS
<1> DEFINE N == {Cardinality(q) : q \in {q \in SUBSET S : q \notin T}}
<1>1. \A q \in SUBSET S : Cardinality(q) \in Nat
  BY FS_Subset, FS_CardinalityType
<1>2. N \in SUBSET Nat /\ N # {}
  BY <1>1
<1>3. PICK n \in N : \A m \in N : n <= m
  <2> HIDE DEF N
  <2> QED BY <1>2, LeastNatural
<1>4. PICK q \in SUBSET S : q \notin T /\ n = Cardinality(q)
  OBVIOUS
<1>5. ASSUME NEW p \in SUBSET S, Cardinality(p) < Cardinality(q) PROVE p \in T
  <2>1. p \notin T => n <= Cardinality(p)
    BY <1>3
  <2> QED BY <1>1, <1>4, <1>5, <2>1
<1> QED BY <1>4, <1>5

First(s) == CHOOSE x \in s : TRUE

LEMMA FirstTaken ==
  ASSUME NEW S, IsFiniteSet(S), NEW s \in SUBSET S
  PROVE  /\ Cardinality(s) \in Nat /\ (Cardinality(s) = 0 <=> s = {})
         /\ s # {} => First(s) \in s
         /\ \A x \in s : s \ {x} \in SUBSET S /\ Cardinality(s \ {x}) = Cardinality(s) - 1
<1>1. IsFiniteSet(s) /\ Cardinality(s) \in Nat
  BY FS_Subset, FS_CardinalityType
<1> QED BY <1>1, FS_EmptySet, FS_RemoveElement DEF First

OneMore(g, s, value) == IF s = {} THEN 0 ELSE value[First(s)] + g[s \ {First(s)}]
Folds(g, S, value) == g = [s \in SUBSET S |-> OneMore(g, s, value)]

LEMMA FoldExists ==
  ASSUME NEW S, IsFiniteSet(S), NEW value
  PROVE  \E g : Folds(g, S, value)
<1> DEFINE D(n) == {s \in SUBSET S : Cardinality(s) <= n}
           Right(g, n) == \A s \in D(n) : g[s] = OneMore(g, s, value)
           N == {n \in Nat : ~ \E g : Right(g, n)}
<1>1. N = {}
  <2> SUFFICES ASSUME N # {} PROVE FALSE
    OBVIOUS
  <2>1. PICK n \in N : \A m \in N : n <= m
    <3>1. N \in SUBSET Nat
      OBVIOUS
    <3> HIDE DEF N
    <3> QED BY <3>1, LeastNatural
  <2>2. n \in Nat /\ ~ \E g : Right(g, n)
    OBVIOUS
  <2>3. Right([s \in SUBSET S |-> 0], 0)
    BY FirstTaken DEF OneMore
  <2>4. n # 0
    <3> HIDE DEF Right
    <3> QED BY <2>2, <2>3
  <2>5. n - 1 \in Nat /\ n - 1 \notin N
    <3> HIDE DEF N
    <3> QED BY <2>1, <2>2, <2>4
  <2>6. PICK g : Right(g, n - 1)
    <3> HIDE DEF Right
    <3> QED BY <2>5
  <2> DEFINE h == [s \in SUBSET S |-> IF Cardinality(s) <= n - 1 THEN g[s]
                                      ELSE OneMore(g, s, value)]
  <2>7. ASSUME NEW s \in D(n) PROVE h[s] = OneMore(h, s, value)
    <3>1. Cardinality(s) \in Nat /\ Cardinality(s) <= n /\ s \in SUBSET S
      BY FirstTaken
    <3>2. h[s] = OneMore(g, s, value)
      BY <2>6, <3>1
    <3>3. s # {} => h[s \ {First(s)}] = g[s \ {First(s)}]
      <4> DEFINE r == s \ {First(s)}
      <4>1. s # {} => r \in SUBSET S /\ Cardinality(r) = Cardinality(s) - 1
        BY FirstTaken
      <4>2. s # {} => Cardinality(r) <= n - 1
        BY <2>2, <3>1, <4>1
      <4> HIDE DEF r
      <4>3. s # {} => h[r] = g[r]
        BY <4>1, <4>2
      <4> QED BY <4>3 DEF r
    <3> HIDE DEF h
    <3> QED BY <3>2, <3>3 DEF OneMore
  <2>8. Right(h, n)
    <3> HIDE DEF h
    <3> QED BY <2>7
  <2> HIDE DEF Right, h
  <2> QED BY <2>2, <2>8
<1>2. Cardinality(S) \in Nat
  BY FS_CardinalityType
<1>3. PICK g : Right(g, Cardinality(S))
  <2> HIDE DEF Right
  <2> QED BY <1>1, <1>2
<1>4. \A s \in SUBSET S : s \in D(Cardinality(S))
  BY FS_Subset
<1> DEFINE h == [s \in SUBSET S |-> g[s]]
<1>5. ASSUME NEW s \in SUBSET S PROVE OneMore(g, s, value) = OneMore(h, s, value)
  <2>1. s # {} => s \ {First(s)} \in SUBSET S
    OBVIOUS
  <2> QED BY <2>1 DEF OneMore
<1>6. h = [s \in SUBSET S |-> OneMore(h, s, value)]
  <2>1. h = [s \in SUBSET S |-> OneMore(g, s, value)]
    BY <1>3, <1>4
  <2> HIDE DEF h
  <2> QED BY <1>5, <2>1
<1> QED BY <1>6 DEF Folds

LEMMA TotalFolds ==
  ASSUME NEW S, IsFiniteSet(S), NEW value
  PROVE  \E g : Folds(g, S, value) /\ Total(S, value) = g[S]
<1> DEFINE g == CHOOSE g : Folds(g, S, value)
<1>1. Folds(g, S, value)
  BY FoldExists
<1>2. Total(S, value) = g[S]
  BY DEF Total, MapThenSumSet, MapThenFoldSet, Folds, OneMore, First
<1> HIDE DEF g
<1> QED BY <1>1, <1>2

LEMMA FoldTyped ==
  ASSUME NEW S, IsFiniteSet(S), NEW value, \A x \in S : value[x] \in Nat,
         NEW g, Folds(g, S, value)
  PROVE  \A s \in SUBSET S : g[s] \in Nat
<1> DEFINE T == {s \in SUBSET S : g[s] \in Nat}
<1>1. ASSUME NEW s \in SUBSET S,
             \A q \in SUBSET S : Cardinality(q) < Cardinality(s) => q \in T
      PROVE  s \in T
  <2>1. g[s] = OneMore(g, s, value)
    BY DEF Folds
  <2>2. CASE s # {}
    <3>1. First(s) \in S /\ s \ {First(s)} \in T
      BY <1>1, <2>2, FirstTaken
    <3> QED BY <2>1, <2>2, <3>1 DEF OneMore
  <2> QED BY <2>1, <2>2 DEF OneMore
<1> HIDE DEF T
<1>2. \A s \in SUBSET S : s \in T
  BY <1>1, Shrinking
<1> QED BY <1>2 DEF T

\* the first element is as good as any
LEMMA FoldAny ==
  ASSUME NEW S, IsFiniteSet(S), NEW value, \A x \in S : value[x] \in Nat,
         NEW g, Folds(g, S, value)
  PROVE  \A s \in SUBSET S : \A x \in s : g[s] = value[x] + g[s \ {x}]
<1> DEFINE T == {s \in SUBSET S : \A x \in s : g[s] = value[x] + g[s \ {x}]}
<1>1. \A s \in SUBSET S : g[s] \in Nat /\ g[s] = OneMore(g, s, value)
  BY FoldTyped DEF Folds
<1>2. ASSUME NEW s \in SUBSET S,
             \A q \in SUBSET S : Cardinality(q) < Cardinality(s) => q \in T
      PROVE  s \in T
  <2> SUFFICES ASSUME NEW x \in s PROVE g[s] = value[x] + g[s \ {x}]
    OBVIOUS
  <2> DEFINE c == First(s)  r == s \ {c, x}
  <2>1. c \in s /\ g[s] = value[c] + g[s \ {c}]
    BY <1>1, FirstTaken DEF OneMore
  <2>2. CASE c = x
    BY <2>1, <2>2
  <2>3. CASE c # x
    <3>1. /\ s \ {c} \in T /\ x \in s \ {c} /\ (s \ {c}) \ {x} = r
          /\ s \ {x} \in T /\ c \in s \ {x} /\ (s \ {x}) \ {c} = r
      BY <1>2, <2>1, <2>3, FirstTaken
    <3> HIDE DEF c, r
    <3>2. g[s \ {c}] = value[x] + g[r] /\ g[s \ {x}] = value[c] + g[r]
      BY <3>1
    <3>3. value[x] \in Nat /\ value[c] \in Nat /\ g[r] \in Nat
      BY <1>1, <2>1, <3>1
    <3> QED BY <2>1, <3>2, <3>3
  <2> QED BY <2>2, <2>3
<1> HIDE DEF T
<1>3. \A s \in SUBSET S : s \in T
  BY <1>2, Shrinking
<1> QED BY <1>3 DEF T

\* a fold over a larger set gives the same sums
LEMMA FoldSame ==
  ASSUME NEW S, IsFiniteSet(S), NEW Q \in SUBSET S, NEW value, NEW other,
         \A x \in Q : value[x] = other[x],
         NEW g, Folds(g, S, value), NEW h, Folds(h, Q, other)
  PROVE  \A s \in SUBSET Q : g[s] = h[s]
<1> DEFINE T == {s \in SUBSET Q : g[s] = h[s]}
<1>0. IsFiniteSet(Q)
  BY FS_Subset
<1>1. ASSUME NEW s \in SUBSET Q,
             \A q \in SUBSET Q : Cardinality(q) < Cardinality(s) => q \in T
      PROVE  s \in T
  <2>1. g[s] = OneMore(g, s, value) /\ h[s] = OneMore(h, s, other)
    BY DEF Folds
  <2>2. CASE s # {}
    <3>1. First(s) \in Q /\ s \ {First(s)} \in T
      BY <1>0, <1>1, <2>2, FirstTaken
    <3> QED BY <2>1, <2>2, <3>1 DEF OneMore
  <2> QED BY <2>1, <2>2 DEF OneMore
<1> HIDE DEF T
<1>2. \A s \in SUBSET Q : s \in T
  BY <1>0, <1>1, Shrinking
<1> QED BY <1>2 DEF T

LEMMA TotalTyped ==
  ASSUME NEW S, IsFiniteSet(S), NEW value, \A x \in S : value[x] \in Nat
  PROVE  /\ Total(S, value) \in Nat
         /\ S = {} => Total(S, value) = 0
<1>1. PICK g : Folds(g, S, value) /\ Total(S, value) = g[S]
  BY TotalFolds
<1>2. g[S] \in Nat
  BY <1>1, FoldTyped
<1> QED BY <1>1, <1>2 DEF Folds, OneMore

Amounts(S) == IsFiniteSet(S) /\ \A r \in S : r.amount \in Nat

LEMMA SumTyped ==
  ASSUME NEW S, Amounts(S)
  PROVE  Sum(S) \in Nat /\ (S = {} => Sum(S) = 0)
BY TotalTyped DEF Sum, Amounts

LEMMA SumWithout ==
  ASSUME NEW S, Amounts(S), NEW x \in S
  PROVE  Sum(S) = x.amount + Sum(S \ {x})
<1> DEFINE Q == S \ {x}  v == [r \in S |-> r.amount]  w == [r \in Q |-> r.amount]
<1>1. PICK g : Folds(g, S, v) /\ Total(S, v) = g[S]
  BY TotalFolds DEF Amounts
<1>2. IsFiniteSet(Q) /\ IsFiniteSet(S)
  BY FS_Subset DEF Amounts
<1>3. PICK h : Folds(h, Q, w) /\ Total(Q, w) = h[Q]
  BY <1>2, TotalFolds
<1>4. v[x] = x.amount /\ (\A r \in Q : v[r] = w[r]) /\ \A r \in S : v[r] \in Nat
  BY DEF Amounts
<1>5. Sum(S) = g[S] /\ Sum(Q) = h[Q]
  BY <1>1, <1>3 DEF Sum
<1>6. Q \in SUBSET S
  OBVIOUS
<1> HIDE DEF v, w
<1>7. g[S] = v[x] + g[Q]
  BY <1>1, <1>2, <1>4, FoldAny
<1> HIDE DEF Q
<1>8. g[Q] = h[Q]
  BY <1>1, <1>2, <1>3, <1>4, <1>6, FoldSame
<1> QED BY <1>4, <1>5, <1>7, <1>8 DEF Q

-----------------------------------------------------------------------------
(* Sizes *)

Types == {"P2WPKH", "P2PKH", "P2WSH", "P2SH", "P2TR"}
Coins(S) == Amounts(S) /\ \A r \in S : r.type \in Types

LEMMA OverTyped ==
  ASSUME NEW S, Coins(S)
  PROVE  Over(S, InputBase) \in Nat /\ Over(S, InputWitness) \in Nat /\ Over(S, OutputSize) \in Nat
<1>1. \A r \in S : /\ InputBase[r.type] \in Nat /\ InputWitness[r.type] \in Nat
                   /\ OutputSize[r.type] \in Nat
  BY DEF Coins, Types, InputBase, InputWitness, OutputSize
<1>2. IsFiniteSet(S)
  BY DEF Coins, Amounts
<1> DEFINE a == [r \in S |-> InputBase[r.type]]
           b == [r \in S |-> InputWitness[r.type]]
           c == [r \in S |-> OutputSize[r.type]]
<1>3. (\A r \in S : a[r] \in Nat) /\ (\A r \in S : b[r] \in Nat) /\ (\A r \in S : c[r] \in Nat)
  BY <1>1
<1>4. Over(S, InputBase) = Total(S, a) /\ Over(S, InputWitness) = Total(S, b)
      /\ Over(S, OutputSize) = Total(S, c)
  BY DEF Over
<1> HIDE DEF a, b, c
<1> QED BY <1>2, <1>3, <1>4, TotalTyped

\* with an output for each payee; the change adds 31 bytes
LEMMA SizeTyped ==
  ASSUME NEW ins, Coins(ins), NEW payees, Coins(payees)
  PROVE  LET size == TransactionSizeEstimateV2(ins, payees, Cardinality(payees)) IN
         /\ size \in Nat /\ size >= 40 /\ Cardinality(payees) \in Nat
         /\ TransactionSizeEstimateV2(ins, payees, Cardinality(payees) + 1) = size + 124
         /\ WitnessSize(ins) \in Nat
         /\ \A change \in BOOLEAN :
              /\ NoWitnessSize(ins, payees, change) \in Nat
              /\ NoWitnessSize(ins, payees, change) >= 10
<1>1. Cardinality(payees) \in Nat /\ Cardinality(ins) \in Nat
  BY FS_CardinalityType DEF Coins, Amounts
<1>2. /\ Over(ins, InputBase) \in Nat /\ Over(ins, InputWitness) \in Nat
      /\ Over(payees, OutputSize) \in Nat
  BY OverTyped
<1>3. WitnessSize(ins) \in Nat
  BY <1>2 DEF WitnessSize
<1> QED BY <1>1, <1>2, <1>3 DEF TransactionSizeEstimateV2, NoWitnessSize

LEMMA CeilDivBounds ==
  ASSUME NEW a \in Nat, NEW b \in Nat \ {0}
  PROVE  /\ CeilDiv(a, b) \in Nat
         /\ b * CeilDiv(a, b) >= a /\ b * CeilDiv(a, b) <= a + b - 1
<1> DEFINE q == (a + b - 1) \div b
<1>1. q \in Int /\ b * q <= a + b - 1 /\ a + b - 1 < b * q + b
  OBVIOUS
<1>2. q >= 0
  BY <1>1
<1> QED BY <1>1, <1>2 DEF CeilDiv

-----------------------------------------------------------------------------
(* CreateRawTransaction.  A withdrawal whose price is exceeded stays so when *)
(* the fee grows, so only the first estimate can succeed.                    *)

Higher(est) == (est * 11) \div 10

Answer(create, params, est) ==
  LET fees == CalculateFees(params, est)
      error == OutputError(params, fees)
  IN IF error # "none" THEN Failed(error)
     ELSE IF PriceTooHigh(params, est, params.change > fees.changeFee)
     THEN create[Higher(est)]
     ELSE Built(params, fees)

Creates(create, params) == create = [est \in Nat |-> Answer(create, params, est)]

\* est passes the checks of the outputs and exceeds a price
TooHigh(params, est) ==
  LET fees == CalculateFees(params, est) IN
  /\ OutputError(params, fees) = "none"
  /\ PriceTooHigh(params, est, params.change > fees.changeFee)

Params(params) ==
  /\ Coins(params.ins) /\ Coins(params.withdrawals) /\ Coins(params.tasks)
  /\ Coins(params.withdrawals \cup params.tasks)
  /\ params.change \in Nat /\ params.price \in Nat \ {0}
  /\ \A w \in params.withdrawals : w.price \in Nat \ {0}

LEMMA HigherIsMore ==
  ASSUME NEW est \in Nat
  PROVE  Higher(est) \in Nat /\ Higher(est) >= est /\ (est >= 10 => Higher(est) > est)
BY DEF Higher

\* what a price allows, in quarter satoshis
Allowed(params, w) ==
  w.price * (4 * NoWitnessSize(params.ins, params.withdrawals \cup params.tasks,
                               params.change > 0)
               + WitnessSize(params.ins))

LEMMA AllowedTyped ==
  ASSUME NEW params, Params(params), NEW w \in params.withdrawals
  PROVE  Allowed(params, w) \in Nat /\ Allowed(params, w) >= 40
<1> DEFINE x == 4 * NoWitnessSize(params.ins, params.withdrawals \cup params.tasks,
                                  params.change > 0) + WitnessSize(params.ins)
<1>1. (params.change > 0) \in BOOLEAN
  OBVIOUS
<1>2. x \in Nat /\ x >= 40
  <2> DEFINE payees == params.withdrawals \cup params.tasks
             n == NoWitnessSize(params.ins, payees, params.change > 0)
  <2>1. Coins(params.ins) /\ Coins(payees)
    BY DEF Params
  <2> HIDE DEF payees
  <2>2. WitnessSize(params.ins) \in Nat /\ n \in Nat /\ n >= 10
    BY <1>1, <2>1, SizeTyped
  <2>3. x = 4 * n + WitnessSize(params.ins)
    BY DEF payees
  <2> HIDE DEF n, x
  <2> QED BY <2>2, <2>3
<1>3. Allowed(params, w) = w.price * x
  BY DEF Allowed
<1> HIDE DEF x
<1>4. w.price \in Nat /\ w.price >= 1
  BY DEF Params
<1> DEFINE p == w.price
<1> HIDE DEF p
<1>5. p * x \in Nat /\ p * x >= 40
  BY <1>2, <1>4 DEF p
<1> QED BY <1>3, <1>5 DEF p

LEMMA TooHighIs ==
  ASSUME NEW params, NEW est
  PROVE  /\ params.withdrawals = {} => ~ TooHigh(params, est)
         /\ params.withdrawals # {} =>
              (TooHigh(params, est) <=>
                 /\ OutputError(params, CalculateFees(params, est)) = "none"
                 /\ \E w \in params.withdrawals : est > Allowed(params, w))
BY DEF TooHigh, PriceTooHigh, CalculateFees, Allowed

LEMMA TooHighStays ==
  ASSUME NEW params, Params(params), NEW est \in Nat, TooHigh(params, est)
  PROVE  /\ params.withdrawals # {} /\ est >= 40
         /\ LET e == Higher(est) IN
            /\ OutputError(params, CalculateFees(params, e)) \in {"none", "withdraw dust"}
            /\ OutputError(params, CalculateFees(params, e)) = "none" => TooHigh(params, e)
<1>1. /\ params.withdrawals # {}
      /\ OutputError(params, CalculateFees(params, est)) = "none"
  BY TooHighIs DEF TooHigh
<1>2. PICK w \in params.withdrawals : est > Allowed(params, w)
  BY <1>1, TooHighIs
<1>3. Allowed(params, w) \in Nat /\ Allowed(params, w) >= 40
  BY AllowedTyped
<1> DEFINE e == Higher(est)
<1>4. e \in Nat /\ e >= est
  BY HigherIsMore
<1> HIDE DEF e
<1>5. e > Allowed(params, w)
  BY <1>2, <1>3, <1>4
<1>6. OutputError(params, CalculateFees(params, e)) \in {"none", "withdraw dust"}
  BY <1>1 DEF OutputError, CalculateFees
<1>7. TooHigh(params, e) <=>
        /\ OutputError(params, CalculateFees(params, e)) = "none"
        /\ \E v \in params.withdrawals : e > Allowed(params, v)
  BY <1>1, TooHighIs
<1>8. est >= 40
  BY <1>2, <1>3
<1> QED BY <1>1, <1>5, <1>6, <1>7, <1>8 DEF e

LEMMA CreateExists ==
  ASSUME NEW params, Params(params)
  PROVE  \E create : Creates(create, params)
<1> DEFINE Final(est) ==
             LET fees == CalculateFees(params, est)
                 error == OutputError(params, fees)
             IN IF error # "none" THEN Failed(error)
                ELSE IF TooHigh(params, est) THEN Failed("withdraw dust")
                ELSE Built(params, fees)
           f == [est \in Nat |-> Final(est)]
<1>1. ASSUME NEW est \in Nat PROVE Final(est) = Answer(f, params, est)
  <2>1. CASE TooHigh(params, est)
    <3>1. f[Higher(est)] = Final(Higher(est))
      BY HigherIsMore
    <3>2. Final(Higher(est)) = Failed("withdraw dust")
      BY <2>1, TooHighStays
    <3>3. Final(est) = Failed("withdraw dust")
      BY <2>1 DEF TooHigh
    <3> HIDE DEF Final, f
    <3>4. Answer(f, params, est) = f[Higher(est)]
      BY <2>1 DEF TooHigh, Answer
    <3> QED BY <3>1, <3>2, <3>3, <3>4
  <2>2. CASE ~ TooHigh(params, est)
    <3> HIDE DEF f
    <3> QED BY <2>2 DEF TooHigh, Answer
  <2> QED BY <2>1, <2>2
<1> HIDE DEF Final
<1>2. f = [est \in Nat |-> Answer(f, params, est)]
  <2>1. \A est \in Nat : Final(est) = Answer(f, params, est)
    BY <1>1
  <2> DEFINE g == f
  <2>2. f = g
    OBVIOUS
  <2> HIDE DEF g
  <2> QED BY <2>1, <2>2
<1> QED BY <1>2 DEF Creates

\* the fee that a withdrawal of the order exceeds is never the fee of the order
LEMMA CreateFails ==
  ASSUME NEW params, Params(params), NEW create, Creates(create, params),
         NEW est \in Nat, TooHigh(params, est)
  PROVE  create[est].error # "none"
<1> SUFFICES ASSUME create[est].error = "none" PROVE FALSE
  OBVIOUS
<1> DEFINE X == {e \in Nat : TooHigh(params, e) /\ create[e].error = "none"}
           n == Cardinality(params.withdrawals)
<1>1. \A e \in Nat : create[e] = Answer(create, params, e)
  BY DEF Creates
<1>2. n \in Nat \ {0} /\ params.withdrawals # {}
  BY TooHighStays, FS_CardinalityType, FS_EmptySet DEF Params, Coins, Amounts
<1>3. PICK w \in params.withdrawals : TRUE
  BY <1>2
<1>4. w.amount \in Nat /\ params.price \in Nat
  BY DEF Params, Coins, Amounts
<1> DEFINE bound == 4 * n * w.amount
<1>5. bound \in Nat
  BY <1>2, <1>4
<1>6. ASSUME NEW e \in X PROVE e <= bound
  <2>1. e \in Nat /\ OutputError(params, CalculateFees(params, e)) = "none"
    BY DEF TooHigh
  <2> DEFINE share == CeilDiv(e, 4 * n)
  <2>2. share \in Nat /\ 4 * n * share >= e
    <3>1. 4 * n \in Nat \ {0}
      BY <1>2
    <3> QED BY <2>1, <3>1, CeilDivBounds
  <2>3. ~ (w.amount - share <= GetDustAmount(params.price))
    BY <1>2, <2>1 DEF OutputError, CalculateFees
  <2>4. GetDustAmount(params.price) \in Nat
    BY <1>4 DEF GetDustAmount
  <2>5. share <= w.amount
    <3> HIDE DEF share
    <3> QED BY <1>4, <2>2, <2>3, <2>4
  <2>6. 4 * n * share <= 4 * n * w.amount
    <3> DEFINE m == 4 * n  a == w.amount
    <3>1. m \in Nat /\ a \in Nat /\ share \in Nat /\ share <= a
      BY <1>2, <1>4, <2>2, <2>5
    <3> HIDE DEF share, m, a
    <3>2. m * share <= m * a
      BY <3>1
    <3> QED BY <3>2 DEF m, a
  <2> HIDE DEF share, n
  <2> QED BY <1>2, <1>4, <2>1, <2>2, <2>6
<1>7. est \in X
  OBVIOUS
<1> DEFINE D == {bound - e : e \in X}
<1>8. PICK m \in X : \A e \in X : e <= m
  <2>1. X \in SUBSET Nat
    OBVIOUS
  <2> HIDE DEF X, bound
  <2>2. D \in SUBSET Nat /\ D # {}
    BY <1>5, <1>6, <1>7, <2>1
  <2>3. PICK d \in D : \A c \in D : d <= c
    <3> HIDE DEF D
    <3> QED BY <2>2, LeastNatural
  <2>4. PICK m \in X : d = bound - m
    OBVIOUS
  <2>5. ASSUME NEW e \in X PROVE e <= m
    <3>1. bound - m <= bound - e
      BY <2>3, <2>4
    <3> QED BY <1>5, <2>1, <3>1
  <2> QED BY <2>5
<1> HIDE DEF n, bound
<1>9. m \in Nat /\ TooHigh(params, m) /\ create[m].error = "none"
  OBVIOUS
<1> DEFINE h == Higher(m)
<1>10. h \in Nat /\ h > m /\ create[m] = create[h]
  <2>1. h \in Nat /\ h > m
    <3>1. m >= 40
      BY <1>9, TooHighStays
    <3> QED BY <1>9, <3>1, HigherIsMore
  <2>2. create[m] = create[h]
    BY <1>1, <1>9 DEF Answer, TooHigh
  <2> HIDE DEF h
  <2> QED BY <2>1, <2>2
<1>11. OutputError(params, CalculateFees(params, h)) = "none" => TooHigh(params, h)
  BY <1>9, TooHighStays
<1>12. OutputError(params, CalculateFees(params, h)) = "none"
  <2> HIDE DEF h
  <2>1. create[h] = Answer(create, params, h)
    BY <1>1, <1>10
  <2>2. OutputError(params, CalculateFees(params, h)) # "none" =>
          create[h].error = OutputError(params, CalculateFees(params, h))
    BY <2>1 DEF Answer, Failed
  <2> QED BY <1>9, <1>10, <2>2
<1> HIDE DEF h
<1>13. h \in X
  BY <1>9, <1>10, <1>11, <1>12
<1> HIDE DEF X
<1> QED BY <1>8, <1>9, <1>10, <1>13

LEMMA Created ==
  ASSUME NEW params, Params(params), NEW est \in Nat,
         CreateRawTransaction(params, est).error = "none"
  PROVE  LET fees == CalculateFees(params, est) IN
         /\ OutputError(params, fees) = "none"
         /\ CreateRawTransaction(params, est) = Built(params, fees)
<1> DEFINE create == CHOOSE create : Creates(create, params)
<1>1. Creates(create, params)
  BY CreateExists
<1>2. CreateRawTransaction(params, est) = create[est]
  BY DEF CreateRawTransaction, Creates, Answer, Higher
<1> HIDE DEF create
<1>3. create[est] = Answer(create, params, est)
  BY <1>1 DEF Creates
<1>4. ~ TooHigh(params, est)
  BY <1>1, <1>2, CreateFails
<1>5. OutputError(params, CalculateFees(params, est)) = "none"
  BY <1>2, <1>3 DEF Answer, Failed
<1> QED BY <1>2, <1>3, <1>4, <1>5 DEF Answer, TooHigh

-----------------------------------------------------------------------------
(* What an order pays to the miners *)

\* FeeExact of one order
FeeRight(r) ==
  LET payees == r.withdrawals \cup r.tasks
      weight == TransactionSizeEstimateV2(r.ins, payees,
                  Cardinality(payees) + IF r.change > 0 THEN 1 ELSE 0)
  IN /\ (r.kind = "safebox" => r.change > 0) => 4 * r.fee >= weight * r.price
     /\ 4 * r.fee <= weight * r.price
                       + 4 * (2 * GetDustAmount(r.price) + Cardinality(payees))

Order(plan, tx) ==
  [kind |-> plan.kind, ins |-> plan.ins, withdrawals |-> plan.withdrawals,
   tasks |-> plan.tasks, change |-> tx.change, fee |-> tx.fee,
   price |-> plan.price, phase |-> "aggregating"]

LEMMA NoSum == Sum({}) = 0 /\ Cardinality({}) = 0 /\ Coins({})
<1>1. Amounts({})
  BY FS_EmptySet DEF Amounts
<1> QED BY <1>1, SumTyped, FS_EmptySet DEF Coins

\* the shares of the withdrawals: n of them pay at least est and one satoshi each more
LEMMA SharesPay ==
  ASSUME NEW est \in Nat, NEW n \in Nat \ {0}
  PROVE  LET share == CeilDiv(est, 4 * n) IN
         /\ share \in Nat /\ share * n \in Nat
         /\ 4 * (share * n) >= est /\ 4 * (share * n) <= est + 4 * n
<1> DEFINE share == CeilDiv(est, 4 * n)
<1>1. 4 * n \in Nat \ {0}
  OBVIOUS
<1>2. share \in Nat /\ (4 * n) * share >= est /\ (4 * n) * share <= est + (4 * n) - 1
  BY <1>1, CeilDivBounds
<1> HIDE DEF share
<1>3. (4 * n) * share = 4 * (share * n) /\ share * n \in Nat
  BY <1>2
<1> QED BY <1>2, <1>3 DEF share

\* an order of withdrawals: sums and sizes as numbers
LEMMA SharedFee ==
  ASSUME NEW in \in Nat, NEW out \in Nat, in >= out, NEW n \in Nat \ {0},
         NEW size \in Nat, NEW price \in Nat \ {0}, NEW dust \in Nat,
         NEW change, NEW est, NEW weight,
         \/ /\ in - out > dust /\ change = in - out /\ weight = size + 124
            /\ est = (size + 124) * price
         \/ /\ ~ (in - out > dust) /\ change = 0 /\ weight = size
            /\ est = size * price + 4 * (in - out),
         NEW shares \in Nat, 4 * shares >= est, 4 * shares <= est + 4 * n,
         NEW left, left = in - (out - shares) - change
  PROVE  /\ 4 * left >= weight * price
         /\ 4 * left <= weight * price + 4 * (2 * dust + n)
<1> DEFINE a == size * price  b == (size + 124) * price
<1>1. a \in Nat /\ b \in Nat
  OBVIOUS
<1>2. CASE in - out > dust /\ change = in - out /\ weight = size + 124 /\ est = b
  <2>1. weight * price = b
    BY <1>2
  <2> HIDE DEF b
  <2> QED BY <1>1, <1>2, <2>1
<1>3. CASE ~ (in - out > dust) /\ change = 0 /\ weight = size /\ est = a + 4 * (in - out)
  <2>1. weight * price = a
    BY <1>3
  <2> HIDE DEF a
  <2> QED BY <1>1, <1>3, <2>1
<1> QED BY <1>2, <1>3

\* without withdrawals the change pays
LEMMA ChangeFee ==
  ASSUME NEW in \in Nat, NEW out \in Nat, in >= out,
         NEW size \in Nat, size >= 40, NEW price \in Nat \ {0}, NEW dust, dust = 93 * price,
         NEW change, NEW est,
         \/ /\ in - out > dust /\ change = in - out /\ est = (size + 124) * price
         \/ /\ ~ (in - out > dust) /\ change = 0
            /\ est = size * price + 4 * (in - out),
         NEW paid \in Nat, 4 * paid >= est, 4 * paid <= est + 3,
         NEW kept, kept = IF change > paid THEN change - paid ELSE 0,
         NEW weight, weight = IF kept > 0 THEN size + 124 ELSE size,
         NEW left, left = in - out - kept
  PROVE  /\ kept > 0 => 4 * left >= weight * price
         /\ 4 * left <= weight * price + 4 * (2 * dust + 1)
         /\ kept \in Nat
<1> DEFINE a == size * price
<1>1. a \in Nat /\ (size + 124) * price = a + 124 * price
  OBVIOUS
<1>2. weight * price = IF kept > 0 THEN a + 124 * price ELSE a
  BY <1>1
<1> HIDE DEF a
<1> QED BY <1>1, <1>2

LEMMA WithdrawalFee ==
  ASSUME NEW S, Coins(S), NEW W, Coins(W), W # {}, NEW price \in Nat \ {0},
         \A w \in W : w.price \in Nat \ {0},
         NEW sel \in SelectOptimalUTXOs(S, W, 0, price),
         NEW plan, plan = Plan("withdrawal", sel, W, {}, price),
         NEW tx, tx = CreateRawTransaction(plan, plan.est), tx.error = "none"
  PROVE  FeeRight(Order(plan, tx)) /\ tx.change \in Nat
<1> DEFINE ins == sel.ins  in == Sum(ins)  out == Sum(W)  n == Cardinality(W)
           size == TransactionSizeEstimateV2(ins, W, n)
           dust == GetDustAmount(price)
<1>1. PICK i \in Inputs(S, out + 0, price) : sel = Selection(i, W, price)
  BY DEF SelectOptimalUTXOs
<1>2. /\ ins = i /\ in >= out + 0 /\ ins \subseteq S
      /\ sel.change = IF in - out > dust THEN in - out ELSE 0
      /\ sel.est = IF in - out > dust THEN TransactionSizeEstimateV2(ins, W, n + 1) * price
                   ELSE size * price + 4 * (in - out)
  <2>1. i \subseteq S
    BY InputsOffered
  <2>2. Sum(i) >= out + 0
    BY DEF Inputs
  <2> QED BY <1>1, <2>1, <2>2 DEF Selection
<1>3. Coins(ins)
  BY <1>2, FS_Subset DEF Coins, Amounts
<1>4. in \in Nat /\ out \in Nat
  BY <1>3, SumTyped DEF Coins
<1>5. /\ size \in Nat /\ n \in Nat
      /\ TransactionSizeEstimateV2(ins, W, n + 1) = size + 124
  BY <1>3, SizeTyped
<1>6. n # 0
  BY FS_EmptySet DEF Coins, Amounts
<1>7. dust \in Nat
  BY DEF GetDustAmount
<1>8. /\ plan.ins = ins /\ plan.withdrawals = W /\ plan.tasks = {} /\ plan.change = sel.change
      /\ plan.est = sel.est /\ plan.price = price /\ plan.kind = "withdrawal"
  BY DEF Plan
<1> HIDE DEF ins, in, out, size, n, dust
<1>9. sel.change \in Nat /\ sel.est \in Nat
  <2>1. size * price \in Nat /\ (size + 124) * price \in Nat
    BY <1>5
  <2> QED BY <1>2, <1>4, <1>5, <1>7, <2>1
<1>10. Params(plan)
  <2>1. W \cup {} = W
    OBVIOUS
  <2> QED BY <1>3, <1>8, <1>9, <2>1, NoSum DEF Params
<1> DEFINE fees == CalculateFees(plan, plan.est)  share == CeilDiv(sel.est, 4 * n)
<1>11. tx = Built(plan, fees)
  BY <1>8, <1>9, <1>10, Created
<1>12. fees.share = share /\ fees.changeFee = 0
  BY <1>8 DEF CalculateFees, n
<1>13. share \in Nat /\ share * n \in Nat
       /\ 4 * (share * n) >= sel.est /\ 4 * (share * n) <= sel.est + 4 * n
  BY <1>5, <1>6, <1>9, SharesPay
<1> HIDE DEF fees, share
<1>14. tx.change = sel.change /\ tx.fee = in - (0 + out - share * n) - sel.change
  <2>1. sel.change - 0 = sel.change /\ ((sel.change > 0) \/ sel.change = 0)
    BY <1>9
  <2>2. tx.change = sel.change
    BY <1>8, <1>11, <1>12, <2>1 DEF Built
  <2>3. tx.fee = Sum(plan.ins) - (Sum(plan.tasks) + Sum(plan.withdrawals)
                                    - fees.share * Cardinality(plan.withdrawals)) - tx.change
    BY <1>11 DEF Built
  <2> QED BY <1>8, <1>12, <2>2, <2>3, NoSum DEF in, out, n
<1> DEFINE weight == TransactionSizeEstimateV2(ins, W, n + IF sel.change > 0 THEN 1 ELSE 0)
<1>15. weight = IF sel.change > 0 THEN size + 124 ELSE size
  BY <1>5 DEF size
<1> HIDE DEF weight
<1>16. /\ 4 * tx.fee >= weight * price
       /\ 4 * tx.fee <= weight * price + 4 * (2 * dust + n)
  <2> DEFINE shares == share * n
  <2>1. shares \in Nat /\ 4 * shares >= sel.est /\ 4 * shares <= sel.est + 4 * n
    BY <1>13
  <2>2. tx.fee = in - (out - shares) - sel.change
    BY <1>4, <1>9, <1>13, <1>14
  <2> HIDE DEF shares
  <2>3. \/ /\ in - out > dust /\ sel.change = in - out /\ weight = size + 124
           /\ sel.est = (size + 124) * price
        \/ /\ ~ (in - out > dust) /\ sel.change = 0 /\ weight = size
           /\ sel.est = size * price + 4 * (in - out)
    BY <1>2, <1>4, <1>5, <1>7, <1>15
  <2>4. in >= out /\ n \in Nat \ {0}
    BY <1>2, <1>4, <1>5, <1>6
  <2> QED BY <1>4, <1>5, <1>7, <2>1, <2>2, <2>3, <2>4, SharedFee
<1>17. W \cup {} = W
  OBVIOUS
<1> QED BY <1>8, <1>9, <1>14, <1>16, <1>17 DEF FeeRight, Order, weight, dust, n

LEMMA SafeboxFee ==
  ASSUME NEW S, Coins(S), NEW k, Coins({k}), NEW price \in Nat \ {0},
         External \in Nat,
         NEW sel \in SelectOptimalUTXOs(S, {k}, External, price),
         NEW plan, plan = Plan("safebox", sel, {}, {k}, price),
         NEW tx, tx = CreateRawTransaction(plan, plan.est), tx.error = "none"
  PROVE  FeeRight(Order(plan, tx)) /\ tx.change \in Nat
<1> DEFINE K == {k}  ins == sel.ins  in == Sum(ins)  out == Sum(K)
           size == TransactionSizeEstimateV2(ins, K, 1)
           dust == GetDustAmount(price)
<1>0. Cardinality(K) = 1
  BY FS_Singleton
<1>1. PICK i \in Inputs(S, out + External, price) : sel = Selection(i, K, price)
  BY DEF SelectOptimalUTXOs
<1>2. /\ ins = i /\ in >= out + External /\ ins \subseteq S
      /\ sel.change = IF in - out > dust THEN in - out ELSE 0
      /\ sel.est = IF in - out > dust THEN TransactionSizeEstimateV2(ins, K, 1 + 1) * price
                   ELSE size * price + 4 * (in - out)
  <2>1. i \subseteq S
    BY InputsOffered
  <2>2. Sum(i) >= out + External
    BY DEF Inputs
  <2> QED BY <1>0, <1>1, <2>1, <2>2 DEF Selection
<1>3. Coins(ins)
  BY <1>2, FS_Subset DEF Coins, Amounts
<1>4. in \in Nat /\ out \in Nat
  BY <1>3, SumTyped DEF Coins
<1>5. /\ size \in Nat /\ size >= 40
      /\ TransactionSizeEstimateV2(ins, K, 1 + 1) = size + 124
  BY <1>0, <1>3, SizeTyped
<1>6. dust \in Nat /\ dust = 93 * price
  BY DEF GetDustAmount
<1>8. /\ plan.ins = ins /\ plan.withdrawals = {} /\ plan.tasks = K /\ plan.change = sel.change
      /\ plan.est = sel.est /\ plan.price = price /\ plan.kind = "safebox"
  BY DEF Plan
<1> HIDE DEF ins, in, out, size, dust
<1>7. in >= out
  BY <1>2, <1>4
<1>9. sel.change \in Nat /\ sel.est \in Nat
  <2>1. size * price \in Nat /\ (size + 124) * price \in Nat
    BY <1>5
  <2> QED BY <1>2, <1>4, <1>5, <1>6, <1>7, <2>1
<1>17. {} \cup K = K
  OBVIOUS
<1>10. Params(plan)
  BY <1>3, <1>8, <1>9, <1>17, NoSum DEF Params
<1> DEFINE fees == CalculateFees(plan, plan.est)  paid == CeilDiv(sel.est, 4)
<1>11. tx = Built(plan, fees)
  BY <1>8, <1>9, <1>10, Created
<1>12. fees.share = 0 /\ fees.changeFee = paid
  BY <1>8 DEF CalculateFees
<1>13. paid \in Nat /\ 4 * paid >= sel.est /\ 4 * paid <= sel.est + 3
  <2>1. 4 \in Nat \ {0}
    OBVIOUS
  <2>2. paid \in Nat /\ 4 * paid >= sel.est /\ 4 * paid <= sel.est + 4 - 1
    BY <1>9, <2>1, CeilDivBounds
  <2> HIDE DEF paid
  <2> QED BY <1>9, <2>2
<1> HIDE DEF fees, paid
<1> DEFINE kept == IF sel.change > paid THEN sel.change - paid ELSE 0
<1>14. tx.change = kept /\ tx.fee = in - out - kept
  <2>1. tx.change = kept
    BY <1>8, <1>11, <1>12 DEF Built
  <2>2. tx.fee = Sum(plan.ins) - (Sum(plan.tasks) + Sum(plan.withdrawals)
                                    - fees.share * Cardinality(plan.withdrawals)) - tx.change
    BY <1>11 DEF Built
  <2>3. tx.fee = in - (out + 0 - 0 * 0) - kept
    BY <1>8, <1>12, <2>1, <2>2, NoSum DEF in, out
  <2>4. kept \in Nat
    BY <1>9, <1>13
  <2> HIDE DEF kept
  <2> QED BY <1>4, <2>1, <2>3, <2>4
<1> DEFINE weight == TransactionSizeEstimateV2(ins, K, 1 + IF kept > 0 THEN 1 ELSE 0)
<1>15. weight = IF kept > 0 THEN size + 124 ELSE size
  <2>1. 1 + 0 = 1
    OBVIOUS
  <2> HIDE DEF kept
  <2>2. CASE kept > 0
    BY <1>5, <2>2
  <2>3. CASE ~ (kept > 0)
    BY <2>1, <2>3 DEF size
  <2> QED BY <2>2, <2>3
<1>16. /\ kept > 0 => 4 * tx.fee >= weight * price
       /\ 4 * tx.fee <= weight * price + 4 * (2 * dust + 1)
       /\ kept \in Nat
  <2>1. \/ /\ in - out > dust /\ sel.change = in - out /\ sel.est = (size + 124) * price
        \/ /\ ~ (in - out > dust) /\ sel.change = 0
           /\ sel.est = size * price + 4 * (in - out)
    BY <1>2, <1>5
  <2> DEFINE kk == kept  change == sel.change  est == sel.est  txfee == tx.fee
  <2>2. kk = IF sel.change > paid THEN sel.change - paid ELSE 0
    OBVIOUS
  <2>3. txfee = in - out - kk /\ weight = IF kk > 0 THEN size + 124 ELSE size
    BY <1>14, <1>15
  <2>4. 4 * paid >= est /\ 4 * paid <= est + 3 /\ kk = IF change > paid THEN change - paid ELSE 0
    BY <1>13, <2>2
  <2>5. \/ in - out > dust /\ change = in - out /\ est = (size + 124) * price
        \/ ~ (in - out > dust) /\ change = 0 /\ est = size * price + 4 * (in - out)
    BY <2>1
  <2> HIDE DEF weight, kk, change, est, txfee
  <2>6. /\ kk > 0 => 4 * txfee >= weight * price
        /\ 4 * txfee <= weight * price + 4 * (2 * dust + 1)
        /\ kk \in Nat
    BY <1>4, <1>5, <1>6, <1>7, <1>13, <2>3, <2>4, <2>5, ChangeFee
  <2> QED BY <2>6 DEF kk, txfee
<1> HIDE DEF kept
<1>18. Order(plan, tx) = [kind |-> "safebox", ins |-> ins, withdrawals |-> {}, tasks |-> K,
                          change |-> kept, fee |-> tx.fee, price |-> price,
                          phase |-> "aggregating"]
  BY <1>8, <1>14 DEF Order
<1> DEFINE r == Order(plan, tx)
<1>19. /\ r.kind = "safebox" /\ r.ins = ins /\ r.withdrawals \cup r.tasks = K
       /\ r.change = kept /\ r.fee = tx.fee /\ r.price = price
  BY <1>17, <1>18
<1> HIDE DEF r, K
<1>20. FeeRight(r)
  BY <1>0, <1>16, <1>19 DEF FeeRight, weight, dust
<1> QED BY <1>14, <1>16, <1>20 DEF r

\* the fee of a consolidation is in the change already
LEMMA ConsolidationFee ==
  ASSUME NEW S, Coins(S), NEW threshold, NEW maxVin, NEW price \in Nat \ {0},
         NEW sel \in ConsolidateUTXOsByCount(S, price, threshold, maxVin),
         NEW plan, plan = Plan("consolidation", sel, {}, {}, price),
         NEW tx, tx = CreateRawTransaction(plan, plan.est), tx.error = "none"
  PROVE  FeeRight(Order(plan, tx)) /\ tx.change \in Nat
<1> DEFINE ins == sel.ins  in == Sum(ins)
           size == TransactionSizeEstimateV2(ins, {}, 1)
           c == CeilDiv(size, 4)
           dust == GetDustAmount(price)
<1>1. /\ ins = Largest(Eligible(S, threshold), maxVin)
      /\ AfterFee(ins, price) > 0
      /\ sel = [ins |-> ins, change |-> AfterFee(ins, price), est |-> 0]
  <2>1. PICK i \in {Largest(Eligible(S, threshold), maxVin)} :
          AfterFee(i, price) > 0 /\ sel = [ins |-> i, change |-> AfterFee(i, price), est |-> 0]
    BY DEF ConsolidateUTXOsByCount
  <2>2. ins = i
    BY <2>1
  <2> HIDE DEF ins
  <2> QED BY <2>1, <2>2
<1>2. Coins(ins)
  <2>1. ins \subseteq S
    BY <1>1 DEF Largest, Eligible
  <2> QED BY <2>1, FS_Subset DEF Coins, Amounts
<1>3. in \in Nat
  BY <1>2, SumTyped DEF Coins
<1>4. size \in Nat
  <2>1. /\ TransactionSizeEstimateV2(ins, {}, Cardinality({})) \in Nat
        /\ TransactionSizeEstimateV2(ins, {}, Cardinality({}) + 1)
             = TransactionSizeEstimateV2(ins, {}, Cardinality({})) + 124
    BY <1>2, NoSum, SizeTyped
  <2>2. Cardinality({}) + 1 = 1
    BY NoSum
  <2> QED BY <2>1, <2>2
<1>5. dust = 93 * price
  BY DEF GetDustAmount
<1> HIDE DEF size
<1>6. c \in Nat /\ 4 * c >= size /\ 4 * c <= size + 3
  <2>1. 4 \in Nat \ {0}
    OBVIOUS
  <2>2. c \in Nat /\ 4 * c >= size /\ 4 * c <= size + 4 - 1
    BY <1>4, <2>1, CeilDivBounds
  <2> HIDE DEF c
  <2> QED BY <1>4, <2>2
<1>7. AfterFee(ins, price) = in - c * price
  BY DEF AfterFee, size
<1> HIDE DEF c, in
<1>8. /\ plan.ins = ins /\ plan.withdrawals = {} /\ plan.tasks = {} /\ plan.est = 0
      /\ plan.change = in - c * price /\ plan.change > 0
      /\ plan.price = price /\ plan.kind = "consolidation"
  BY <1>1, <1>7 DEF Plan
<1> HIDE DEF ins, dust
<1>9. plan.change \in Nat
  <2>1. c * price \in Nat
    BY <1>6
  <2> QED BY <1>3, <1>8, <2>1
<1>10. Params(plan)
  <2>1. {} \cup {} = {}
    OBVIOUS
  <2> QED BY <1>2, <1>8, <1>9, <2>1, NoSum DEF Params
<1> DEFINE fees == CalculateFees(plan, plan.est)
<1>11. tx = Built(plan, fees)
  BY <1>8, <1>10, Created
<1>12. fees.share = 0 /\ fees.changeFee = 0
  <2>1. CeilDiv(0, 4) = 0
    BY DEF CeilDiv
  <2> QED BY <1>8, <2>1 DEF CalculateFees
<1> HIDE DEF fees
<1>13. tx.change = plan.change /\ tx.fee = c * price
  <2>1. tx.change = plan.change
    <3>1. plan.change > 0 /\ plan.change - 0 = plan.change
      BY <1>8, <1>9
    <3> QED BY <1>11, <1>12, <3>1 DEF Built
  <2>2. tx.fee = Sum(plan.ins) - (Sum(plan.tasks) + Sum(plan.withdrawals)
                                    - fees.share * Cardinality(plan.withdrawals)) - tx.change
    BY <1>11 DEF Built
  <2>3. tx.fee = in - (0 + 0 - 0 * 0) - (in - c * price)
    BY <1>8, <1>12, <2>1, <2>2, NoSum DEF in
  <2>4. c * price \in Nat
    BY <1>6
  <2> QED BY <1>3, <2>1, <2>3, <2>4
<1>14. 4 * tx.fee >= size * price /\ 4 * tx.fee <= size * price + 4 * (2 * dust + 0)
  <2> DEFINE a == size * price  b == c * price
  <2>1. (4 * c) * price = 4 * b /\ b \in Nat /\ a \in Nat
    BY <1>4, <1>6
  <2>2. (4 * c) * price >= size * price
    <3> DEFINE d == 4 * c
    <3>1. d \in Nat /\ d >= size
      BY <1>6
    <3> HIDE DEF d
    <3>2. d * price >= size * price
      BY <1>4, <3>1
    <3> QED BY <3>2 DEF d
  <2>3. (4 * c) * price <= (size + 3) * price
    <3> DEFINE d == 4 * c  e == size + 3
    <3>1. d \in Nat /\ e \in Nat /\ d <= e
      BY <1>4, <1>6
    <3> HIDE DEF d, e
    <3>2. d * price <= e * price
      BY <3>1
    <3> QED BY <3>2 DEF d, e
  <2>4. (size + 3) * price = a + 3 * price
    BY <1>4
  <2>5. tx.fee = b
    BY <1>13
  <2> HIDE DEF a, b
  <2>6. 4 * b >= a /\ 4 * b <= a + 3 * price
    BY <2>1, <2>2, <2>3, <2>4 DEF a
  <2> QED BY <1>5, <2>1, <2>5, <2>6 DEF a
<1> DEFINE r == Order(plan, tx)
<1>15. /\ r.kind = "consolidation" /\ r.ins = ins /\ r.withdrawals \cup r.tasks = {}
       /\ r.change > 0 /\ r.fee = tx.fee /\ r.price = price
  BY <1>8, <1>13 DEF Order
<1> HIDE DEF r
<1>16. Cardinality(r.withdrawals \cup r.tasks) = 0
       /\ TransactionSizeEstimateV2(r.ins, r.withdrawals \cup r.tasks,
            0 + IF r.change > 0 THEN 1 ELSE 0) = size
  <2>1. 0 + 1 = 1
    OBVIOUS
  <2> QED BY <1>15, <2>1, NoSum DEF size
<1>17. FeeRight(r)
  BY <1>14, <1>15, <1>16 DEF FeeRight, dust
<1> QED BY <1>9, <1>13, <1>17 DEF r

-----------------------------------------------------------------------------
(* Every plan *)

CoinsWaiting ==
  fee \in Fees \cup {NoFee} /\ Coins(utxos) /\ waiting \subseteq Withdrawals /\ open \subseteq Tasks

LEMMA PricePositive ==
  ASSUME NEW f \in Fees
  PROVE  {f.fastest, f.halfHour, f.hour} \subseteq Nat \ {0}
BY StrategyAssumption, AmountAssumption

LEMMA PayeesTyped ==
  /\ \A W \in SUBSET Withdrawals : Coins(W)
  /\ \A k \in Tasks : Coins({k})
<1>1. DOMAIN OutputSize = Types
  BY DEF OutputSize, Types
<1>2. ASSUME NEW W \in SUBSET Withdrawals PROVE Coins(W)
  <2>1. IsFiniteSet(W)
    BY AmountAssumption, FS_Subset
  <2> QED BY <1>1, <2>1, AmountAssumption DEF Coins, Amounts
<1>3. ASSUME NEW k \in Tasks PROVE Coins({k})
  BY <1>1, AmountAssumption, FS_Singleton DEF Coins, Amounts
<1> QED BY <1>2, <1>3

LEMMA OldestExists ==
  ASSUME NEW group \in SUBSET Withdrawals, group # {}
  PROVE  OldestOf(group) # {}
<1> DEFINE T == {w.id : w \in group}
<1>1. T \in SUBSET Nat /\ T # {}
  BY AmountAssumption
<1>2. PICK x \in T : \A y \in T : x <= y
  <2> HIDE DEF T
  <2> QED BY <1>1, LeastNatural
<1>3. PICK w \in group : w.id = x
  OBVIOUS
<1>4. {v \in group : v.id < w.id} = {}
  <2> SUFFICES ASSUME NEW v \in group, v.id < w.id PROVE FALSE
    OBVIOUS
  <2>1. x <= v.id /\ x \in Nat /\ v.id \in Nat
    BY <1>1, <1>2
  <2> QED BY <1>3, <2>1
<1>5. Cardinality({v \in group : v.id < w.id}) < MaxVout
  <2>1. Cardinality({v \in group : v.id < w.id}) = 0
    BY <1>4, NoSum
  <2>2. MaxVout > 0
    BY StrategyAssumption
  <2> QED BY <2>1, <2>2
<1> QED BY <1>5 DEF OldestOf

\* a batch pays a level that each of its withdrawals accepts
LEMMA BatchPrice ==
  ASSUME CoinsWaiting, fee \in Fees, NEW batch \in Batches
  PROVE  /\ batch.withdrawals \in SUBSET Withdrawals /\ batch.withdrawals # {}
         /\ batch.price \in Nat \ {0}
         /\ \A w \in batch.withdrawals : w.price \in Nat /\ w.price >= batch.price
<1>1. PICK level \in {"fastest", "halfHour", "hour"} :
        Ready(level) /\ batch = [withdrawals |-> OldestOf(Group(level)), price |-> fee[level]]
  BY DEF Batches
<1>2. Group(level) \in SUBSET Withdrawals /\ Group(level) # {}
  BY <1>1 DEF Ready, Group, CoinsWaiting
<1>3. fee[level] \in Nat \ {0}
  BY PricePositive
<1>4. ASSUME NEW w \in Group(level) PROVE w.price \in Nat /\ w.price >= fee[level]
  <2>1. LevelOf(w) = level /\ w.price \in Nat
    BY <1>2, AmountAssumption DEF Group
  <2> QED BY <2>1 DEF LevelOf
<1>5. OldestOf(Group(level)) \subseteq Group(level) /\ OldestOf(Group(level)) # {}
  BY <1>2, OldestExists DEF OldestOf
<1> QED BY <1>1, <1>2, <1>3, <1>4, <1>5

LEMMA PlanFee ==
  ASSUME CoinsWaiting, fee \in Fees, NEW plan \in ThePlan,
         NEW tx, tx = CreateRawTransaction(plan, plan.est), tx.error = "none"
  PROVE  FeeRight(Order(plan, tx)) /\ tx.change \in Nat
<1>0. fee.halfHour \in Nat \ {0}
  BY PricePositive
<1>1. CASE plan \in ConsolidationPlan
  <2>1. PICK sel \in ConsolidateUTXOsByCount(utxos, fee.halfHour, ConsolidationThreshold,
                                             ConsolidationMaxVin) :
          plan = Plan("consolidation", sel, {}, {}, fee.halfHour)
    BY <1>1 DEF ConsolidationPlan
  <2> QED BY <1>0, <2>1, ConsolidationFee DEF CoinsWaiting
<1>2. CASE plan \in SafeboxPlan
  <2>1. PICK k \in SelectedTask :
          \E sel \in SelectOptimalUTXOs(utxos, {k}, External, fee.halfHour) :
            plan = Plan("safebox", sel, {}, {k}, fee.halfHour)
    BY <1>2 DEF SafeboxPlan
  <2>2. PICK sel \in SelectOptimalUTXOs(utxos, {k}, External, fee.halfHour) :
          plan = Plan("safebox", sel, {}, {k}, fee.halfHour)
    BY <2>1
  <2>3. Coins({k})
    BY PayeesTyped DEF SelectedTask, CoinsWaiting
  <2> QED BY <1>0, <2>2, <2>3, AmountAssumption, SafeboxFee DEF CoinsWaiting
<1>3. CASE plan \in WithdrawalPlan
  <2>1. PICK batch \in Batches :
          \E sel \in SelectOptimalUTXOs(utxos, batch.withdrawals, 0, batch.price) :
            plan = Plan("withdrawal", sel, batch.withdrawals, {}, batch.price)
    BY <1>3 DEF WithdrawalPlan
  <2> DEFINE W == batch.withdrawals  price == batch.price
  <2>2. PICK sel \in SelectOptimalUTXOs(utxos, W, 0, price) :
          plan = Plan("withdrawal", sel, W, {}, price)
    BY <2>1
  <2>3. W \in SUBSET Withdrawals /\ W # {} /\ price \in Nat \ {0}
        /\ \A w \in W : w.price \in Nat \ {0}
    BY BatchPrice
  <2>4. Coins(W)
    BY <2>3, PayeesTyped
  <2> HIDE DEF W, price
  <2> QED BY <2>2, <2>3, <2>4, WithdrawalFee DEF CoinsWaiting
<1> QED BY <1>1, <1>2, <1>3 DEF ThePlan

-----------------------------------------------------------------------------
(* The fee of every order *)

\* what an order holds is typed, and its fee is right
Money ==
  /\ fee \in Fees \cup {NoFee} /\ Coins(utxos) /\ open \subseteq Tasks
  /\ \A o \in Ids :
       /\ Coins(orders[o].ins) /\ orders[o].tasks \subseteq Tasks
       /\ orders[o].change \in Nat /\ FeeRight(orders[o])

LEMMA SameFee ==
  ASSUME NEW r, NEW s, SameMoney(r, s), r.ins = s.ins, r.withdrawals = s.withdrawals,
         r.tasks = s.tasks, FeeRight(s)
  PROVE  FeeRight(r)
BY DEF FeeRight, SameMoney

LEMMA CoinsUnion ==
  ASSUME NEW S, NEW T, Coins(S), Coins(T)
  PROVE  Coins(S \cup T)
BY FS_Union DEF Coins, Amounts

LEMMA MoneyInit == Init => Money
<1> SUFFICES ASSUME Init PROVE Money
  OBVIOUS
<1>1. Ids = {}
  BY DEF Init, Ids
<1>2. DOMAIN InputBase = Types
  BY DEF InputBase, Types
<1>3. Coins(utxos)
  BY <1>2, AmountAssumption DEF Init, Coins, Amounts
<1> QED BY <1>1, <1>3 DEF Init, Money

\* a step that leaves the orders as they are
LEMMA MoneyKept ==
  ASSUME Money, orders' = orders, fee' \in Fees \cup {NoFee}, utxos' = utxos,
         open' \subseteq Tasks
  PROVE  Money'
<1>1. Ids' = Ids
  BY DEF Ids
<1> QED BY <1>1 DEF Money, FeeRight

\* a step that changes the phase of an order
LEMMA MoneyPhase ==
  ASSUME IInv, Money, NEW o \in Ids, NEW p, orders' = [orders EXCEPT ![o].phase = p],
         fee' = fee, Coins(utxos'), open' \subseteq Tasks
  PROVE  Money'
<1>1. /\ Ids' = Ids
      /\ \A q \in Ids : /\ orders'[q].ins = orders[q].ins
                        /\ orders'[q].withdrawals = orders[q].withdrawals
                        /\ orders'[q].tasks = orders[q].tasks
                        /\ SameMoney(orders'[q], orders[q])
  BY PhaseSet DEF IInv
<1>2. ASSUME NEW q \in Ids
      PROVE  /\ Coins(orders'[q].ins) /\ orders'[q].tasks \subseteq Tasks
             /\ orders'[q].change \in Nat /\ FeeRight(orders'[q])
  <2>1. orders'[q].change = orders[q].change
    BY <1>1 DEF SameMoney
  <2>2. FeeRight(orders'[q])
    BY <1>1, SameFee DEF Money
  <2> QED BY <1>1, <2>1, <2>2 DEF Money
<1> QED BY <1>1, <1>2 DEF Money, FeeRight

LEMMA MoneyBuild ==
  ASSUME IInv, Money, BuildOrder
  PROVE  Money'
<1>1. PICK plan \in ThePlan :
        \E t \in {CreateRawTransaction(plan, plan.est)} :
          t.error = "none" /\ CreateSendOrder(plan, t)
  BY DEF BuildOrder
<1> DEFINE tx == CreateRawTransaction(plan, plan.est)  r == Order(plan, tx)  n == Len(orders) + 1
<1>2. tx.error = "none" /\ CreateSendOrder(plan, tx)
  BY <1>1
<1>3. fee \in Fees /\ fee' = fee
  <2>1. NoFee.fastest = 0
    BY DEF NoFee
  <2> QED BY <2>1 DEF BuildOrder, CanBuild, Money
<1>4. CoinsWaiting
  BY DEF Money, CoinsWaiting, IInv, RequestedOnce
<1>5. FeeRight(r) /\ tx.change \in Nat
  BY <1>2, <1>3, <1>4, PlanFee
<1>6. orders' = Append(orders, r) /\ utxos' = utxos \ plan.ins /\ open' = open \ plan.tasks
  BY <1>2 DEF CreateSendOrder, Order
<1>7. r.ins = plan.ins /\ r.tasks = plan.tasks /\ r.change = tx.change
  BY DEF Order
<1>8. plan.ins \subseteq utxos /\ plan.tasks \subseteq open
  BY PlanTakesOffered
<1> HIDE DEF r, tx
<1>9. /\ Ids' = Ids \cup {n}
      /\ \A o \in Ids : orders'[o] = orders[o]
      /\ orders'[n] = r
  BY <1>6, AppendedOrder DEF IInv
<1>10. Coins(plan.ins) /\ Coins(utxos')
  BY <1>6, <1>8, FS_Subset DEF Money, Coins, Amounts
<1> HIDE DEF n
<1>11. ASSUME NEW o \in Ids'
       PROVE  /\ Coins(orders'[o].ins) /\ orders'[o].tasks \subseteq Tasks
              /\ orders'[o].change \in Nat /\ FeeRight(orders'[o])
  <2>1. CASE o = n
    BY <1>5, <1>7, <1>8, <1>9, <1>10, <2>1 DEF Money
  <2>2. CASE o \in Ids
    BY <1>9, <2>2 DEF Money
  <2> QED BY <1>9, <2>1, <2>2
<1>12. open' \subseteq Tasks /\ fee' \in Fees \cup {NoFee}
  BY <1>3, <1>6 DEF Money
<1> QED BY <1>10, <1>11, <1>12 DEF Money, FeeRight

LEMMA MoneyNext == IInv /\ Money /\ [Next]_vars => Money'
<1> SUFFICES ASSUME IInv, Money, [Next]_vars PROVE Money'
  OBVIOUS
<1>0. fee \in Fees \cup {NoFee} /\ open \subseteq Tasks /\ Coins(utxos)
  BY DEF Money
<1>1. CASE BuildOrder
  BY <1>1, MoneyBuild
<1>2. CASE CloseDust
  BY <1>0, <1>2, MoneyKept DEF CloseDust
<1>3. CASE UpdateNetworkFee
  BY <1>0, <1>3, MoneyKept DEF UpdateNetworkFee
<1>4. ASSUME NEW w \in Withdrawals, Request(w) \/ PassTime(w) PROVE Money'
  BY <1>0, <1>4, MoneyKept DEF Request, PassTime
<1>5. ASSUME NEW k \in Tasks, Receive(k) PROVE Money'
  BY <1>0, <1>5, MoneyKept DEF Receive
<1>6. ASSUME NEW o \in Ids, Sign(o) PROVE Money'
  BY <1>0, <1>6, MoneyPhase DEF Sign
<1>7. ASSUME NEW o \in Ids, GiveUp(o) PROVE Money'
  <2>1. Coins(orders[o].ins) /\ orders[o].tasks \subseteq Tasks
    BY DEF Money
  <2>2. Coins(utxos \cup orders[o].ins)
    BY <1>0, <2>1, CoinsUnion
  <2> QED BY <1>0, <1>7, <2>1, <2>2, MoneyPhase DEF GiveUp
<1>8. ASSUME NEW o \in Ids, Confirm(o) PROVE Money'
  <2> DEFINE u == [id |-> o, amount |-> orders[o].change, type |-> "P2WPKH"]
  <2>1. Coins({u})
    <3>1. u.amount \in Nat /\ u.type \in Types
      BY DEF Money, Types
    <3> HIDE DEF u
    <3> QED BY <3>1, FS_Singleton DEF Coins, Amounts
  <2>2. Coins(utxos \cup {u})
    BY <1>0, <2>1, CoinsUnion
  <2> QED BY <1>0, <1>8, <2>2, MoneyPhase DEF Confirm
<1>9. CASE UNCHANGED vars
  BY <1>0, <1>9, MoneyKept DEF vars
<1> QED BY <1>1, <1>2, <1>3, <1>4, <1>5, <1>6, <1>7, <1>8, <1>9 DEF Next

(* Whatever fees, prices and amounts: an order pays its price for its size, *)
(* and not more than the dropped change and the rounding on top.           *)
THEOREM FeeIsExact == Spec => []FeeExact
<1>1. Init => IInv /\ Money
  BY InitInv, MoneyInit
<1>2. IInv /\ Money /\ [Next]_vars => (IInv /\ Money)'
  BY NextInv, MoneyNext
<1>3. IInv /\ Money => FeeExact
  <2> SUFFICES ASSUME Money, NEW o \in Ids
               PROVE  /\ (orders[o].kind = "safebox" => orders[o].change > 0)
                           => 4 * orders[o].fee >= Weight(o) * orders[o].price
                      /\ 4 * orders[o].fee <= Weight(o) * orders[o].price
                           + 4 * (2 * GetDustAmount(orders[o].price) + Cardinality(Payees(o)))
    BY DEF FeeExact, FeeCovered, FeeBounded
  <2> QED BY DEF Money, FeeRight, Weight, Payees
<1> QED BY <1>1, <1>2, <1>3, PTL DEF Spec

-----------------------------------------------------------------------------
(* The largest utxos *)

\* utxos of different ids: Smaller orders them
Purse(S) ==
  /\ Amounts(S) /\ \A u \in S : u.id \in Nat
  /\ \A u, v \in S : u.id = v.id => u = v

LEMMA PurseSubset ==
  ASSUME NEW S, Purse(S), NEW T \in SUBSET S
  PROVE  Purse(T)
BY FS_Subset DEF Purse, Amounts

LEMMA SmallerOrders ==
  ASSUME NEW S, Purse(S)
  PROVE  /\ \A u \in S : ~ Smaller(u, u)
         /\ \A u, v \in S : u # v => Smaller(u, v) \/ Smaller(v, u)
         /\ \A u, v \in S : ~ (Smaller(u, v) /\ Smaller(v, u))
         /\ \A u, v, w \in S : Smaller(u, v) /\ Smaller(v, w) => Smaller(u, w)
         /\ \A u, v \in S : Smaller(u, v) => u.amount <= v.amount
<1>1. \A u \in S : u.amount \in Nat /\ u.id \in Nat
  BY DEF Purse, Amounts
<1>2. \A u, v \in S : u # v => u.id # v.id
  BY DEF Purse
<1> QED BY <1>1, <1>2 DEF Smaller

\* at most one element, whatever the set
LEMMA LeastIsOne ==
  ASSUME NEW S, Purse(S)
  PROVE  \A u, v \in Least(S) : u = v
BY SmallerOrders DEF Least

LEMMA LeastExists ==
  ASSUME NEW S, Purse(S), S # {}
  PROVE  \E u \in S : Least(S) = {u}
<1> DEFINE T == {s \in SUBSET S : s # {} => \E u \in s : \A v \in s \ {u} : Smaller(u, v)}
<1>0. IsFiniteSet(S)
  BY DEF Purse, Amounts
<1>1. ASSUME NEW s \in SUBSET S,
             \A q \in SUBSET S : Cardinality(q) < Cardinality(s) => q \in T
      PROVE  s \in T
  <2> SUFFICES ASSUME s # {} PROVE \E u \in s : \A v \in s \ {u} : Smaller(u, v)
    OBVIOUS
  <2> DEFINE x == First(s)  r == s \ {x}
  <2>1. x \in s /\ r \in T
    <3>1. x \in s /\ r \in SUBSET S /\ Cardinality(r) = Cardinality(s) - 1
          /\ Cardinality(s) \in Nat
      BY <1>0, FirstTaken
    <3> HIDE DEF T, x, r
    <3>2. Cardinality(r) < Cardinality(s)
      BY <3>1
    <3> QED BY <1>1, <3>1, <3>2
  <2>2. CASE r = {}
    BY <2>1, <2>2
  <2>3. CASE r # {}
    <3>1. PICK y \in r : \A v \in r \ {y} : Smaller(y, v)
      BY <2>1, <2>3
    <3>2. x \in S /\ y \in S /\ x # y /\ \A v \in s : v \in S /\ (v = x \/ v \in r)
      BY <2>1, <3>1
    <3> HIDE DEF x, r
    <3>3. CASE Smaller(x, y)
      <4>1. ASSUME NEW v \in s \ {x} PROVE Smaller(x, v)
        BY <3>1, <3>2, <3>3, SmallerOrders
      <4> QED BY <2>1, <4>1
    <3>4. CASE Smaller(y, x)
      <4>1. ASSUME NEW v \in s \ {y} PROVE Smaller(y, v)
        BY <3>1, <3>2, <3>4
      <4> QED BY <3>1, <4>1 DEF r
    <3> QED BY <3>2, <3>3, <3>4, SmallerOrders
  <2> QED BY <2>2, <2>3
<1> HIDE DEF T
<1>2. S \in T
  BY <1>0, <1>1, Shrinking
<1>3. PICK u \in S : \A v \in S \ {u} : Smaller(u, v)
  BY <1>2 DEF T
<1>4. u \in Least(S)
  BY <1>3 DEF Least
<1> QED BY <1>4, LeastIsOne

\* a set of which every larger utxo is a member
Upper(T, S) == T \subseteq S /\ \A u \in T : \A v \in S : Smaller(u, v) => v \in T

LEMMA SumSplit ==
  ASSUME NEW S, Amounts(S), NEW T
  PROVE  Sum(S) = Sum(S \cap T) + Sum(S \ T)
<1> DEFINE D == {s \in SUBSET S : Sum(s) = Sum(s \cap T) + Sum(s \ T)}
<1>0. IsFiniteSet(S)
  BY DEF Amounts
<1>1. ASSUME NEW s \in SUBSET S,
             \A q \in SUBSET S : Cardinality(q) < Cardinality(s) => q \in D
      PROVE  s \in D
  <2> DEFINE x == First(s)  r == s \ {x}
  <2>1. CASE s = {}
    <3>1. s \cap T = {} /\ s \ T = {}
      BY <2>1
    <3> QED BY <2>1, <3>1, NoSum
  <2>2. CASE s # {}
    <3>1. x \in s /\ r \in D
      BY <1>0, <1>1, <2>2, FirstTaken
    <3>2. Amounts(s) /\ Amounts(s \cap T) /\ Amounts(s \ T) /\ x.amount \in Nat
          /\ Amounts(r \cap T) /\ Amounts(r \ T)
      BY <3>1, FS_Subset DEF Amounts
    <3>3. Sum(s) = x.amount + Sum(r)
      BY <3>1, <3>2, SumWithout
    <3>4. Sum(r) = Sum(r \cap T) + Sum(r \ T)
      BY <3>1
    <3>5. Sum(r \cap T) \in Nat /\ Sum(r \ T) \in Nat
      BY <3>2, SumTyped
    <3>6. CASE x \in T
      <4>1. (s \cap T) \ {x} = r \cap T /\ s \ T = r \ T /\ x \in s \cap T
        BY <3>1, <3>6
      <4> HIDE DEF x, r
      <4>2. Sum(s \cap T) = x.amount + Sum(r \cap T)
        BY <3>2, <4>1, SumWithout
      <4>3. Sum(s \ T) = Sum(r \ T)
        BY <4>1
      <4> QED BY <3>2, <3>3, <3>4, <3>5, <4>2, <4>3
    <3>7. CASE x \notin T
      <4>1. (s \ T) \ {x} = r \ T /\ s \cap T = r \cap T /\ x \in s \ T
        BY <3>1, <3>7
      <4> HIDE DEF x, r
      <4>2. Sum(s \ T) = x.amount + Sum(r \ T)
        BY <3>2, <4>1, SumWithout
      <4>3. Sum(s \cap T) = Sum(r \cap T)
        BY <4>1
      <4> QED BY <3>2, <3>3, <3>4, <3>5, <4>2, <4>3
    <3> QED BY <3>6, <3>7
  <2> QED BY <2>1, <2>2
<1> HIDE DEF D
<1>2. S \in D
  BY <1>0, <1>1, Shrinking
<1> QED BY <1>2 DEF D

LEMMA SumMonotone ==
  ASSUME NEW S, Amounts(S), NEW T \in SUBSET S
  PROVE  Sum(T) <= Sum(S)
<1>1. S \cap T = T /\ Amounts(T) /\ Amounts(S \ T)
  BY FS_Subset DEF Amounts
<1>2. Sum(T) \in Nat /\ Sum(S \ T) \in Nat
  BY <1>1, SumTyped
<1> QED BY <1>1, <1>2, SumSplit

\* as many utxos, each at least as large
LEMMA SumDominates ==
  ASSUME NEW A, Amounts(A), NEW B, Amounts(B), Cardinality(A) >= Cardinality(B),
         \A a \in A : \A b \in B : a.amount >= b.amount
  PROVE  Sum(A) >= Sum(B)
<1> DEFINE D == {s \in SUBSET B : \A q \in SUBSET A :
                   Cardinality(q) >= Cardinality(s) => Sum(q) >= Sum(s)}
<1>0. IsFiniteSet(A) /\ IsFiniteSet(B)
  BY DEF Amounts
<1>1. ASSUME NEW s \in SUBSET B,
             \A q \in SUBSET B : Cardinality(q) < Cardinality(s) => q \in D
      PROVE  s \in D
  <2> SUFFICES ASSUME NEW q \in SUBSET A, Cardinality(q) >= Cardinality(s)
               PROVE  Sum(q) >= Sum(s)
    OBVIOUS
  <2>0. Amounts(q) /\ Amounts(s)
    BY FS_Subset DEF Amounts
  <2>1. CASE s = {}
    BY <2>0, <2>1, NoSum, SumTyped
  <2>2. CASE s # {}
    <3> DEFINE b == First(s)  a == First(q)  s1 == s \ {b}  q1 == q \ {a}
    <3>1. /\ b \in s /\ s1 \in SUBSET B /\ Cardinality(s1) = Cardinality(s) - 1
          /\ Cardinality(s) \in Nat /\ Cardinality(s) # 0
      BY <1>0, <2>2, FirstTaken
    <3>2. Cardinality(q) \in Nat /\ q # {}
      BY <1>0, <3>1, FirstTaken
    <3>3. a \in q /\ q1 \in SUBSET A /\ Cardinality(q1) = Cardinality(q) - 1
      BY <1>0, <3>2, FirstTaken
    <3>4. Sum(s) = b.amount + Sum(s1) /\ Sum(q) = a.amount + Sum(q1)
      BY <2>0, <3>1, <3>3, SumWithout
    <3>5. s1 \in D
      BY <1>1, <3>1
    <3> HIDE DEF a, b
    <3>6. a.amount \in Nat /\ b.amount \in Nat /\ a.amount >= b.amount
      BY <3>1, <3>3 DEF Amounts
    <3>7. Amounts(s1) /\ Amounts(q1)
      BY <2>0, FS_Subset DEF Amounts
    <3> HIDE DEF s1, q1
    <3>8. Sum(s1) \in Nat /\ Sum(q1) \in Nat
      BY <3>7, SumTyped
    <3>9. Cardinality(q1) >= Cardinality(s1)
      BY <3>1, <3>2, <3>3
    <3>10. Sum(q1) >= Sum(s1)
      BY <3>3, <3>5, <3>9
    <3> QED BY <3>4, <3>6, <3>8, <3>10
  <2> QED BY <2>1, <2>2
<1> HIDE DEF D
<1>2. B \in D
  BY <1>0, <1>1, Shrinking
<1> QED BY <1>2 DEF D

\* no set of spendable utxos is worth more than as many of the largest
LEMMA UpperDominates ==
  ASSUME NEW S, Purse(S), NEW T, Upper(T, S), NEW Q \in SUBSET S,
         Cardinality(T) >= Cardinality(Q)
  PROVE  Sum(T) >= Sum(Q)
<1>1. Amounts(T) /\ Amounts(Q) /\ Amounts(T \ Q) /\ Amounts(Q \ T) /\ Amounts(T \cap Q)
  BY FS_Subset DEF Upper, Purse, Amounts
<1>2. Q \cap T = T \cap Q
  OBVIOUS
<1>3. Sum(T) = Sum(T \cap Q) + Sum(T \ Q) /\ Sum(Q) = Sum(T \cap Q) + Sum(Q \ T)
  BY <1>1, <1>2, SumSplit
<1>4. Cardinality(T \ Q) >= Cardinality(Q \ T)
  <2>1. /\ Cardinality(T \ Q) = Cardinality(T) - Cardinality(T \cap Q)
        /\ Cardinality(Q \ T) = Cardinality(Q) - Cardinality(T \cap Q)
    BY ZenonT(60), <1>1, <1>2, FS_Difference DEF Amounts
  <2>2. Cardinality(T) \in Nat /\ Cardinality(Q) \in Nat /\ Cardinality(T \cap Q) \in Nat
    BY <1>1, FS_CardinalityType DEF Amounts
  <2> QED BY <2>1, <2>2
<1>5. ASSUME NEW a \in T \ Q, NEW b \in Q \ T PROVE a.amount >= b.amount
  <2>1. a \in S /\ b \in S /\ a # b /\ ~ Smaller(a, b)
    BY DEF Upper
  <2>2. Smaller(b, a)
    BY <2>1, SmallerOrders
  <2>3. b.amount <= a.amount /\ a.amount \in Nat /\ b.amount \in Nat
    BY <2>1, <2>2, SmallerOrders DEF Purse, Amounts
  <2> QED BY <2>3
<1>6. Sum(T \ Q) >= Sum(Q \ T)
  BY <1>1, <1>4, <1>5, SumDominates
<1>7. Sum(T \cap Q) \in Nat /\ Sum(T \ Q) \in Nat /\ Sum(Q \ T) \in Nat
  BY <1>1, SumTyped
<1> QED BY <1>3, <1>6, <1>7

-----------------------------------------------------------------------------
(* The inputs: no cover is missed, and none is smaller *)

Above(S, u) == {v \in S : Smaller(u, v)}

LEMMA AboveUpper ==
  ASSUME NEW S, Purse(S), NEW u \in S
  PROVE  Upper(Above(S, u), S) /\ Cardinality(Above(S, u)) \in Nat
<1>1. Cardinality(Above(S, u)) \in Nat
  BY FS_Subset, FS_CardinalityType DEF Above, Purse, Amounts
<1> QED BY <1>1, SmallerOrders DEF Above, Upper

\* at most one element
LEMMA AtMostOne ==
  ASSUME NEW S, IsFiniteSet(S), \A u, v \in S : u = v
  PROVE  Cardinality(S) \in 0 .. 1
<1>1. CASE S = {}
  BY <1>1, FS_EmptySet
<1>2. CASE S # {}
  <2>1. PICK u \in S : TRUE
    BY <1>2
  <2>2. S = {u}
    BY <2>1
  <2> HIDE <2>1
  <2>3. Cardinality({u}) = 1
    BY FS_Singleton
  <2> QED BY <2>2, <2>3
<1> QED BY <1>1, <1>2

LEMMA UnionSize ==
  ASSUME NEW S, NEW T, IsFiniteSet(S), IsFiniteSet(T)
  PROVE  /\ IsFiniteSet(S \cup T)
         /\ {Cardinality(S), Cardinality(T), Cardinality(S \cup T)} \subseteq Nat
         /\ Cardinality(S \cup T) <= Cardinality(S) + Cardinality(T)
<1>1. /\ IsFiniteSet(S \cup T) /\ IsFiniteSet(S \cap T)
      /\ Cardinality(S \cup T) = Cardinality(S) + Cardinality(T) - Cardinality(S \cap T)
  BY FS_Union, FS_Subset, FS_Intersection
<1>2. Cardinality(S) \in Nat /\ Cardinality(T) \in Nat /\ Cardinality(S \cap T) \in Nat
      /\ Cardinality(S \cup T) \in Nat
  BY <1>1, FS_CardinalityType
<1> QED BY <1>1, <1>2

LEMMA LargestIsOne ==
  ASSUME NEW S, Purse(S)
  PROVE  IsFiniteSet(Largest(S, 1)) /\ Cardinality(Largest(S, 1)) \in 0 .. 1
<1>1. ASSUME NEW u \in Largest(S, 1) PROVE \A v \in S : ~ Smaller(u, v)
  <2>1. Cardinality(Above(S, u)) < 1 /\ u \in S
    BY DEF Largest, Above
  <2>2. Cardinality(Above(S, u)) = 0
    BY <2>1, AboveUpper
  <2>3. IsFiniteSet(Above(S, u))
    BY FS_Subset DEF Purse, Amounts, Above
  <2>4. Above(S, u) = {}
    BY <2>2, <2>3, FS_EmptySet
  <2> QED BY <2>4 DEF Above
<1>2. Largest(S, 1) \subseteq S
  BY DEF Largest
<1>3. \A u, v \in Largest(S, 1) : u = v
  BY <1>1, <1>2, SmallerOrders
<1>4. IsFiniteSet(Largest(S, 1))
  BY <1>2, FS_Subset DEF Purse, Amounts
<1> QED BY <1>3, <1>4, AtMostOne

\* the first pair, where there is one
LEMMA PairCover ==
  ASSUME NEW S, Purse(S), NEW required, Enough(S, required) = {}, Pairs(S, required) # {}
  PROVE  \E v \in S : /\ Cover(S, required) = UpTo(S, v)
                      /\ Sum(UpTo(S, v)) >= required
                      /\ Cardinality(UpTo(S, v)) <= 2
<1>1. Pairs(S, required) \in SUBSET S
  BY DEF Pairs
<1>2. PICK v \in Pairs(S, required) : Least(Pairs(S, required)) = {v}
  BY <1>1, PurseSubset, LeastExists
<1>3. Cover(S, required) = UpTo(S, v)
  <2>1. Cover(S, required) = UNION {UpTo(S, x) : x \in {v}}
    BY <1>2 DEF Cover
  <2> QED BY <2>1
<1>4. v \in S /\ Sum(UpTo(S, v)) >= required
  BY DEF Pairs
<1>5. Cardinality(UpTo(S, v)) <= 2
  <2> DEFINE B == {u \in S : Smaller(u, v)}
  <2>1. IsFiniteSet(Largest(B, 1)) /\ Cardinality(Largest(B, 1)) \in 0 .. 1
    BY PurseSubset, LargestIsOne
  <2>2. UpTo(S, v) = {v} \cup Largest(B, 1)
    BY DEF UpTo
  <2>3. IsFiniteSet({v}) /\ Cardinality({v}) = 1
    BY FS_Singleton
  <2> HIDE DEF B
  <2>4. Cardinality({v} \cup Largest(B, 1)) \in Nat
        /\ Cardinality({v} \cup Largest(B, 1)) <= 1 + Cardinality(Largest(B, 1))
    BY <2>1, <2>3, UnionSize
  <2> QED BY <2>1, <2>2, <2>4
<1> QED BY <1>3, <1>4, <1>5

LEMMA GatherUpper ==
  ASSUME NEW S, Purse(S), NEW required \in Nat
  PROVE  Upper(Gather(S, required), S)
<1> SUFFICES ASSUME NEW u \in Gather(S, required), NEW v \in S, Smaller(u, v)
             PROVE  v \in Gather(S, required)
  BY DEF Upper, Gather
<1>1. /\ u \in S /\ Sum(Above(S, u)) < required
      /\ Cardinality(Above(S, u)) < VinLimit(required)
  BY DEF Gather, Above
<1>2. Above(S, v) \subseteq Above(S, u)
  BY <1>1, SmallerOrders DEF Above
<1>3. IsFiniteSet(Above(S, u)) /\ Amounts(Above(S, u)) /\ Amounts(Above(S, v))
  BY FS_Subset DEF Purse, Amounts, Above
<1>4. Sum(Above(S, v)) <= Sum(Above(S, u))
  BY <1>2, <1>3, SumMonotone
<1>5. Cardinality(Above(S, v)) <= Cardinality(Above(S, u))
  BY <1>2, <1>3, FS_Subset
<1>6. {Cardinality(Above(S, v)), Cardinality(Above(S, u)), VinLimit(required)} \subseteq Nat
      /\ {Sum(Above(S, v)), Sum(Above(S, u))} \subseteq Nat
  BY <1>1, <1>3, AboveUpper, SumTyped, SelectionAssumption DEF VinLimit
<1>7. Sum(Above(S, v)) < required /\ Cardinality(Above(S, v)) < VinLimit(required)
  BY <1>1, <1>4, <1>5, <1>6
<1> QED BY <1>7 DEF Gather, Above

\* no set that covers the amount has fewer utxos
LEMMA CoverIsSmall ==
  ASSUME NEW S, Purse(S), NEW required \in Nat \ {0}, NEW Q \in SUBSET S, Sum(Q) >= required
  PROVE  Cardinality(Cover(S, required)) <= Cardinality(Q)
<1>0. IsFiniteSet(S) /\ IsFiniteSet(Q) /\ Amounts(Q) /\ Cardinality(Q) \in Nat
  BY FS_Subset, FS_CardinalityType DEF Purse, Amounts
<1>1. Q # {}
  BY NoSum
<1>2. Cardinality(Q) >= 1
  BY <1>0, <1>1, FS_EmptySet
<1>3. CASE Enough(S, required) # {}
  <2>1. Enough(S, required) \in SUBSET S
    BY DEF Enough
  <2>2. PICK u \in S : Least(Enough(S, required)) = {u}
    BY <1>3, <2>1, PurseSubset, LeastExists
  <2>3. Cover(S, required) = {u}
    BY <1>3, <2>2 DEF Cover
  <2>4. Cardinality({u}) = 1
    BY FS_Singleton
  <2> QED BY <1>0, <1>2, <2>3, <2>4
<1>4. CASE Enough(S, required) = {} /\ Pairs(S, required) # {}
  <2>1. Cardinality(Cover(S, required)) <= 2
    BY <1>4, PairCover
  <2>2. PICK x \in Q : TRUE
    BY <1>1
  <2> DEFINE R == Q \ {x}
  <2>3. R # {}
    <3> SUFFICES ASSUME R = {} PROVE FALSE
      OBVIOUS
    <3>1. Sum(Q) = x.amount + Sum(R)
      BY <1>0, SumWithout
    <3>2. Sum(R) = 0
      BY NoSum
    <3>3. x.amount \in Nat
      BY <1>0 DEF Amounts
    <3> HIDE DEF R
    <3>4. x.amount >= required
      BY <3>1, <3>2, <3>3
    <3> QED BY <1>4, <3>4 DEF Enough
  <2>4. IsFiniteSet(R) /\ Cardinality(R) = Cardinality(Q) - 1
    BY <1>0, FS_RemoveElement
  <2>5. Cardinality(R) \in Nat /\ Cardinality(R) # 0
    BY <2>3, <2>4, FS_CardinalityType, FS_EmptySet
  <2>6. Cardinality(Q) >= 2
    BY <1>0, <2>4, <2>5
  <2>7. Cardinality(Cover(S, required)) \in Nat
    BY <1>0, CoverOffered, FS_Subset, FS_CardinalityType
  <2> QED BY <1>0, <2>1, <2>6, <2>7
<1>5. CASE Enough(S, required) = {} /\ Pairs(S, required) = {}
  <2> DEFINE G == Gather(S, required)
  <2>1. Cover(S, required) = G
    BY <1>5 DEF Cover
  <2>2. G \in SUBSET S
    BY DEF Gather
  <2>3. IsFiniteSet(G) /\ Cardinality(G) \in Nat
    BY <1>0, <2>2, FS_Subset, FS_CardinalityType
  <2> SUFFICES ASSUME Cardinality(G) > Cardinality(Q) PROVE FALSE
    BY <1>0, <2>1, <2>3
  <2>4. G # {}
    BY <1>0, FS_EmptySet
  <2>5. PICK u \in G : Least(G) = {u}
    BY <2>2, <2>4, PurseSubset, LeastExists
  <2>6. u \in S /\ Sum(Above(S, u)) < required
    BY DEF Gather, Above
  <2>7. G \ {u} \subseteq Above(S, u)
    BY <2>2, <2>5 DEF Least, Above
  <2>8. Cardinality(G \ {u}) = Cardinality(G) - 1
    BY <2>3, FS_RemoveElement
  <2>9. IsFiniteSet(Above(S, u)) /\ Amounts(Above(S, u))
    BY FS_Subset DEF Purse, Amounts, Above
  <2>10. Cardinality(G \ {u}) <= Cardinality(Above(S, u)) /\ Cardinality(Above(S, u)) \in Nat
    BY <2>6, <2>7, <2>9, FS_Subset, AboveUpper
  <2> HIDE DEF G
  <2>11. Cardinality(Above(S, u)) >= Cardinality(Q)
    BY <1>0, <2>3, <2>8, <2>10
  <2>12. Sum(Above(S, u)) >= Sum(Q)
    BY <2>6, <2>11, AboveUpper, UpperDominates
  <2>13. Sum(Above(S, u)) \in Nat /\ Sum(Q) \in Nat
    BY <1>0, <2>9, SumTyped
  <2> QED BY <2>6, <2>12, <2>13
<1> QED BY <1>3, <1>4, <1>5

\* the amount is covered whenever the limit of inputs allows it
LEMMA CoverIsEnough ==
  ASSUME NEW S, Purse(S), NEW required \in Nat,
         NEW Q \in SUBSET S, Cardinality(Q) <= VinLimit(required), Sum(Q) >= required
  PROVE  Sum(Cover(S, required)) >= required
<1>0. IsFiniteSet(S) /\ Amounts(S) /\ Amounts(Q) /\ Cardinality(Q) \in Nat
      /\ VinLimit(required) \in Nat
  BY FS_Subset, FS_CardinalityType, SelectionAssumption DEF Purse, Amounts, VinLimit
<1>1. CASE Enough(S, required) # {}
  <2>1. Enough(S, required) \in SUBSET S
    BY DEF Enough
  <2>2. PICK u \in Enough(S, required) : Least(Enough(S, required)) = {u}
    BY <1>1, <2>1, PurseSubset, LeastExists
  <2>3. Cover(S, required) = {u}
    BY <1>1, <2>2 DEF Cover
  <2>4. Amounts({u}) /\ u.amount \in Nat /\ u.amount >= required
    BY <1>0, FS_Singleton DEF Amounts, Enough
  <2>5. {u} \ {u} = {}
    OBVIOUS
  <2>6. Sum({u}) = u.amount + 0
    BY <2>4, <2>5, NoSum, SumWithout
  <2> QED BY <2>3, <2>4, <2>6
<1>2. CASE Enough(S, required) = {} /\ Pairs(S, required) # {}
  BY <1>2, PairCover
<1>3. CASE Enough(S, required) = {} /\ Pairs(S, required) = {}
  <2> DEFINE G == Gather(S, required)
  <2>1. Cover(S, required) = G /\ Upper(G, S)
    BY <1>3, GatherUpper DEF Cover
  <2>2. Amounts(G) /\ Sum(G) \in Nat /\ Sum(Q) \in Nat
    BY <1>0, <2>1, SumTyped, FS_Subset DEF Amounts, Upper
  <2> SUFFICES ASSUME Sum(G) < required PROVE FALSE
    BY <2>1, <2>2
  <2>3. S \ G # {}
    <3> SUFFICES ASSUME S \ G = {} PROVE FALSE
      OBVIOUS
    <3>1. S = G
      BY <2>1 DEF Upper
    <3> HIDE DEF G
    <3>2. Sum(Q) <= Sum(G)
      BY <1>0, <3>1, SumMonotone
    <3> QED BY <2>2, <3>2
  <2> DEFINE N == {Cardinality(Above(S, u)) : u \in S \ G}
  <2>4. N \in SUBSET Nat /\ N # {}
    BY <2>3, AboveUpper
  <2>5. PICK n \in N : \A m \in N : n <= m
    <3> HIDE DEF N
    <3> QED BY <2>4, LeastNatural
  <2>6. PICK u \in S \ G : n = Cardinality(Above(S, u))
    OBVIOUS
  <2> HIDE DEF G
  <2>7. \A v \in S \ G : Cardinality(Above(S, u)) <= Cardinality(Above(S, v))
    BY <2>5, <2>6
  <2> HIDE DEF N
  <2>8. Above(S, u) \subseteq G
    <3> SUFFICES ASSUME NEW v \in Above(S, u), v \notin G PROVE FALSE
      OBVIOUS
    <3>1. v \in S /\ Smaller(u, v)
      BY DEF Above
    <3>2. Above(S, v) \subseteq Above(S, u) \ {v}
      BY <3>1, SmallerOrders DEF Above
    <3>3. IsFiniteSet(Above(S, u))
      BY <1>0, FS_Subset DEF Above
    <3>4. IsFiniteSet(Above(S, u) \ {v})
          /\ Cardinality(Above(S, u) \ {v}) = Cardinality(Above(S, u)) - 1
      <4> DEFINE A == Above(S, u)
      <4>1. v \in A /\ IsFiniteSet(A)
        BY <3>3
      <4> HIDE DEF A
      <4>2. IsFiniteSet(A \ {v}) /\ Cardinality(A \ {v}) = Cardinality(A) - 1
        BY <4>1, FS_RemoveElement
      <4> QED BY <4>2 DEF A
    <3>5. Cardinality(Above(S, v)) <= Cardinality(Above(S, u) \ {v})
      BY <3>2, <3>4, FS_Subset
    <3>6. Cardinality(Above(S, u)) \in Nat /\ Cardinality(Above(S, v)) \in Nat
      BY <3>1, AboveUpper
    <3>7. Cardinality(Above(S, u)) <= Cardinality(Above(S, v))
      BY <2>7, <3>1
    <3> QED BY <3>4, <3>5, <3>6, <3>7
  <2>9. G \subseteq Above(S, u)
    <3> SUFFICES ASSUME NEW v \in G PROVE Smaller(u, v) /\ v \in S
      BY DEF Above
    <3>1. v \in S /\ v # u /\ ~ Smaller(v, u)
      BY <2>1, <2>6 DEF Upper
    <3> QED BY <2>6, <3>1, SmallerOrders
  <2>10. G = Above(S, u)
    BY <2>8, <2>9
  <2>11. ~ (Sum(Above(S, u)) < required /\ Cardinality(Above(S, u)) < VinLimit(required))
    BY <2>6 DEF G, Gather, Above
  <2>12. ~ (Sum(G) < required /\ Cardinality(G) < VinLimit(required))
    BY <2>10, <2>11
  <2>13. Cardinality(G) \in Nat
    BY <2>2, FS_CardinalityType DEF Amounts
  <2>14. Cardinality(G) >= Cardinality(Q)
    BY <1>0, <2>12, <2>13
  <2>15. Sum(G) >= Sum(Q)
    BY <2>1, <2>14, UpperDominates
  <2> QED BY <2>2, <2>15
<1> QED BY <1>1, <1>2, <1>3

LEMMA InputsFew ==
  ASSUME NEW S, Purse(S), NEW required \in Nat \ {0}, NEW price,
         NEW ins \in Inputs(S, required, price), NEW Q \in SUBSET S, Sum(Q) >= required
  PROVE  Cardinality(ins) <= Cardinality(Q) + 1
<1> DEFINE cover == Cover(S, required)
           T == {v \in S \ cover : v.amount > price * (296 + 31)}
           extra == Extra(S, cover, price)
<1>1. ins = cover \cup extra
  BY DEF Inputs
<1>2. extra \subseteq Least(T) /\ T \in SUBSET S
  BY DEF Extra
<1>3. IsFiniteSet(extra) /\ IsFiniteSet(cover) /\ IsFiniteSet(Q)
  <2>1. extra \in SUBSET S /\ cover \in SUBSET S
    BY <1>2, CoverOffered DEF Least
  <2> HIDE DEF extra, cover
  <2> QED BY <2>1, FS_Subset DEF Purse, Amounts
<1>4. Cardinality(extra) \in 0 .. 1
  <2>1. \A u, v \in Least(T) : u = v
    BY <1>2, PurseSubset, LeastIsOne
  <2> HIDE DEF T, extra
  <2>2. \A u, v \in extra : u = v
    BY <1>2, <2>1
  <2> QED BY <1>3, <2>2, AtMostOne
<1>5. Cardinality(cover) <= Cardinality(Q)
  BY CoverIsSmall
<1> HIDE DEF cover, extra
<1>6. Cardinality(Q) \in Nat
  BY <1>3, FS_CardinalityType
<1>7. /\ {Cardinality(cover), Cardinality(extra), Cardinality(cover \cup extra)} \subseteq Nat
      /\ Cardinality(cover \cup extra) <= Cardinality(cover) + Cardinality(extra)
  BY <1>3, UnionSize
<1> QED BY <1>1, <1>4, <1>5, <1>6, <1>7

LEMMA InputsFound ==
  ASSUME NEW S, Purse(S), NEW required \in Nat, NEW price, Inputs(S, required, price) = {},
         NEW Q \in SUBSET S, Cardinality(Q) <= VinLimit(required)
  PROVE  ~ (Sum(Q) >= required)
<1> SUFFICES ASSUME Sum(Q) >= required PROVE FALSE
  OBVIOUS
<1> DEFINE cover == Cover(S, required)
           ins == cover \cup Extra(S, cover, price)
<1>1. Sum(cover) >= required
  BY CoverIsEnough
<1>2. ins \subseteq S /\ cover \subseteq S
  BY CoverOffered DEF Extra, Least
<1>3. Amounts(ins) /\ Amounts(cover) /\ cover \in SUBSET ins
  BY <1>2, FS_Subset DEF Purse, Amounts
<1>4. Sum(cover) <= Sum(ins) /\ Sum(cover) \in Nat /\ Sum(ins) \in Nat
  <2> HIDE DEF cover, ins
  <2> QED BY <1>3, SumMonotone, SumTyped
<1>5. Sum(ins) >= required
  <2> HIDE DEF cover, ins
  <2> QED BY <1>1, <1>4
<1>6. ins \in Inputs(S, required, price)
  BY <1>5 DEF Inputs
<1> QED BY <1>6

-----------------------------------------------------------------------------
(* The selection of a tick *)

AllCoins == utxos \cup UNION {orders[o].ins : o \in Ids}
OwnIds == \A u, v \in AllCoins : u.id \in Nat /\ (u.id = v.id => u = v)

LEMMA OwnIdsInit == Init => OwnIds
<1> SUFFICES ASSUME Init PROVE OwnIds
  OBVIOUS
<1>1. AllCoins = utxos
  BY DEF Init, Ids, AllCoins
<1> QED BY <1>1, StrategyAssumption, AmountAssumption DEF Init, OwnIds

\* a step after which there is no other coin
LEMMA OwnIdsKept ==
  ASSUME OwnIds, AllCoins' \subseteq AllCoins
  PROVE  OwnIds'
BY DEF OwnIds

LEMMA OwnIdsNext == IInv /\ OwnIds /\ [Next]_vars => OwnIds'
<1> SUFFICES ASSUME IInv, OwnIds, [Next]_vars PROVE OwnIds'
  OBVIOUS
<1>1. CASE BuildOrder
  <2>1. PICK plan \in ThePlan :
          \E t \in {CreateRawTransaction(plan, plan.est)} : CreateSendOrder(plan, t)
    BY <1>1 DEF BuildOrder
  <2>2. PICK tx : CreateSendOrder(plan, tx)
    BY <2>1
  <2>3. plan.ins \subseteq utxos
    BY PlanTakesOffered
  <2> DEFINE r == Order(plan, tx)  n == Len(orders) + 1
  <2>4. orders' = Append(orders, r) /\ utxos' = utxos \ plan.ins
    BY <2>2 DEF CreateSendOrder, Order
  <2>5. r.ins = plan.ins
    BY DEF Order
  <2> HIDE DEF r
  <2>6. /\ Ids' = Ids \cup {n}
        /\ \A o \in Ids : orders'[o] = orders[o]
        /\ orders'[n] = r
    BY <2>4, AppendedOrder DEF IInv
  <2> HIDE DEF n
  <2>7. \A o \in Ids' : orders'[o].ins \subseteq AllCoins
    BY <2>3, <2>5, <2>6 DEF AllCoins
  <2>8. AllCoins' \subseteq AllCoins
    BY <2>4, <2>7 DEF AllCoins
  <2> QED BY <2>8, OwnIdsKept
<1>2. ASSUME orders' = orders, utxos' = utxos PROVE OwnIds'
  <2>1. AllCoins' = AllCoins
    BY <1>2 DEF AllCoins, Ids
  <2> QED BY <2>1, OwnIdsKept
<1>3. ASSUME NEW o \in Ids, NEW p, orders' = [orders EXCEPT ![o].phase = p],
             utxos' \subseteq utxos \cup orders[o].ins
      PROVE  OwnIds'
  <2>1. Ids' = Ids /\ \A q \in Ids : orders'[q].ins = orders[q].ins
    BY <1>3, PhaseSet DEF IInv
  <2>2. AllCoins' \subseteq AllCoins
    BY <1>3, <2>1 DEF AllCoins
  <2> QED BY <2>2, OwnIdsKept
<1>4. ASSUME NEW o \in Ids, Confirm(o) PROVE OwnIds'
  <2> DEFINE c == [id |-> o, amount |-> orders[o].change, type |-> "P2WPKH"]
  <2>1. Ids' = Ids /\ \A q \in Ids : orders'[q].ins = orders[q].ins
    BY <1>4, PhaseSet DEF IInv, Confirm
  <2>2. utxos' \subseteq utxos \cup {c}
    BY <1>4 DEF Confirm
  <2>3. c.id = o
    OBVIOUS
  <2> HIDE DEF c
  <2>4. \A u \in AllCoins' : u \in AllCoins \/ u = c
    BY <2>1, <2>2 DEF AllCoins
  <2>5. o \in 1 .. MaxOrder /\ o \in Nat
    BY StrategyAssumption DEF IInv, OrdersShape, Ids
  <2>6. o \notin InPhase("confirmed")
    BY <1>4 DEF Confirm, InPhase
  <2>7. \A u \in AllCoins : u.id # o
    BY <2>5, <2>6 DEF IInv, ChangesAreConfirmed, AllCoins
  <2> QED BY <2>3, <2>4, <2>5, <2>7 DEF OwnIds
<1>5. CASE CloseDust \/ UpdateNetworkFee
  BY <1>2, <1>5 DEF CloseDust, UpdateNetworkFee
<1>6. ASSUME NEW w \in Withdrawals, Request(w) \/ PassTime(w) PROVE OwnIds'
  BY <1>2, <1>6 DEF Request, PassTime
<1>7. ASSUME NEW k \in Tasks, Receive(k) PROVE OwnIds'
  BY <1>2, <1>7 DEF Receive
<1>8. ASSUME NEW o \in Ids, Sign(o) \/ GiveUp(o) PROVE OwnIds'
  BY <1>3, <1>8 DEF Sign, GiveUp
<1>9. CASE UNCHANGED vars
  BY <1>2, <1>9 DEF vars
<1> QED BY <1>1, <1>4, <1>5, <1>6, <1>7, <1>8, <1>9 DEF Next

\* what a batch needs; more than nothing
LEMMA BatchSum ==
  ASSUME Money, IInv, fee \in Fees, NEW batch \in Batches
  PROVE  Sum(batch.withdrawals) \in Nat \ {0}
<1>1. PICK level \in {"fastest", "halfHour", "hour"} :
        Ready(level) /\ batch = [withdrawals |-> OldestOf(Group(level)), price |-> fee[level]]
  BY DEF Batches
<1> DEFINE W == batch.withdrawals
<1>2. W \in SUBSET Withdrawals /\ W # {} /\ batch.price \in Nat
  BY BatchPrice DEF CoinsWaiting, Money, IInv, RequestedOnce
<1>3. PICK w \in W : TRUE
  BY <1>2
<1>4. w.amount > GetDustAmount(batch.price)
  BY <1>1 DEF OldestOf, Group
<1> HIDE DEF W
<1>5. w.amount \in Nat /\ w.amount # 0
  BY <1>2, <1>4, AmountAssumption DEF GetDustAmount
<1>6. Amounts(W) /\ Amounts(W \ {w})
  BY <1>2, PayeesTyped, FS_Subset DEF Coins, Amounts
<1>7. Sum(W) = w.amount + Sum(W \ {w}) /\ Sum(W \ {w}) \in Nat
  BY <1>6, SumWithout, SumTyped
<1> QED BY <1>5, <1>7 DEF W

LEMMA TaskSum ==
  ASSUME NEW k \in Tasks
  PROVE  Sum({k}) = k.amount /\ k.amount \in Nat /\ External \in Nat \ {0}
<1>1. Amounts({k}) /\ {k} \ {k} = {} /\ k \in {k}
  BY PayeesTyped DEF Coins
<1>2. Sum({k}) = k.amount + 0
  BY <1>1, SumWithout, NoSum
<1> QED BY <1>2, AmountAssumption

LEMMA FewestIsKept == IInv /\ Money /\ OwnIds => FewestInputs
<1> SUFFICES ASSUME IInv, Money, OwnIds, CanBuild, NEW plan \in ThePlan,
                    plan.kind # "consolidation",
                    NEW S \in SUBSET utxos, Sum(S) >= Required(plan)
             PROVE  Cardinality(plan.ins) <= Cardinality(S) + 1
  BY DEF FewestInputs
<1>1. Purse(utxos) /\ fee \in Fees
  BY DEF Money, OwnIds, AllCoins, Purse, Coins, CanBuild, NoFee
<1>2. CASE plan \in ConsolidationPlan
  BY <1>2 DEF ConsolidationPlan, Plan
<1>3. CASE plan \in SafeboxPlan
  <2>1. PICK k \in SelectedTask :
          \E sel \in SelectOptimalUTXOs(utxos, {k}, External, fee.halfHour) :
            plan = Plan("safebox", sel, {}, {k}, fee.halfHour)
    BY <1>3 DEF SafeboxPlan
  <2>2. PICK sel \in SelectOptimalUTXOs(utxos, {k}, External, fee.halfHour) :
          plan = Plan("safebox", sel, {}, {k}, fee.halfHour)
    BY <2>1
  <2> DEFINE required == Sum({k}) + External
  <2>3. required \in Nat \ {0}
    BY TaskSum DEF SelectedTask, Money
  <2>4. PICK ins \in Inputs(utxos, required, fee.halfHour) :
          sel = Selection(ins, {k}, fee.halfHour)
    BY DEF SelectOptimalUTXOs
  <2>5. plan.ins = ins
    BY <2>2, <2>4 DEF Plan, Selection
  <2>6. Required(plan) = required
    <3>1. plan.withdrawals \cup plan.tasks = {k} /\ plan.kind = "safebox"
      BY <2>2 DEF Plan
    <3> QED BY <3>1 DEF Required
  <2> HIDE DEF required
  <2> QED BY <1>1, <2>3, <2>4, <2>5, <2>6, InputsFew
<1>4. CASE plan \in WithdrawalPlan
  <2>1. PICK batch \in Batches :
          \E sel \in SelectOptimalUTXOs(utxos, batch.withdrawals, 0, batch.price) :
            plan = Plan("withdrawal", sel, batch.withdrawals, {}, batch.price)
    BY <1>4 DEF WithdrawalPlan
  <2> DEFINE W == batch.withdrawals  price == batch.price  required == Sum(W)
  <2>2. PICK sel \in SelectOptimalUTXOs(utxos, W, 0, price) :
          plan = Plan("withdrawal", sel, W, {}, price)
    BY <2>1
  <2>3. required \in Nat \ {0} /\ required + 0 = required
    BY <1>1, BatchSum
  <2> HIDE DEF W, price
  <2>4. PICK ins \in Inputs(utxos, required + 0, price) : sel = Selection(ins, W, price)
    BY DEF SelectOptimalUTXOs
  <2>5. plan.ins = ins
    BY <2>2, <2>4 DEF Plan, Selection
  <2>6. Required(plan) = required + 0
    <3>1. plan.withdrawals \cup plan.tasks = W /\ plan.kind = "withdrawal"
      BY <2>2 DEF Plan
    <3> QED BY <3>1 DEF Required
  <2> HIDE DEF required
  <2> QED BY <1>1, <2>3, <2>4, <2>5, <2>6, InputsFew
<1> QED BY <1>2, <1>3, <1>4 DEF ThePlan

LEMMA CompleteIsKept == IInv /\ Money /\ OwnIds => SelectionComplete
<1> SUFFICES ASSUME IInv, Money, OwnIds, CanBuild
             PROVE  /\ WithdrawalPlan = {} =>
                         \A batch \in Batches : ~ Covered(Sum(batch.withdrawals))
                    /\ SafeboxPlan = {} => \A k \in SelectedTask : ~ Covered(k.amount + External)
  BY DEF SelectionComplete
<1>1. Purse(utxos) /\ fee \in Fees
  BY DEF Money, OwnIds, AllCoins, Purse, Coins, CanBuild, NoFee
<1>2. ASSUME NEW required \in Nat, NEW price, Inputs(utxos, required, price) = {}
      PROVE  ~ Covered(required)
  <2> SUFFICES ASSUME NEW S \in SUBSET utxos, Cardinality(S) <= VinLimit(required),
                      Sum(S) >= required
               PROVE  FALSE
    BY DEF Covered
  <2> QED BY <1>1, <1>2, InputsFound
<1>3. ASSUME WithdrawalPlan = {}, NEW batch \in Batches
      PROVE  ~ Covered(Sum(batch.withdrawals))
  <2> DEFINE W == batch.withdrawals  price == batch.price  required == Sum(W)
  <2>1. required \in Nat /\ required + 0 = required
    BY <1>1, BatchSum
  <2>2. SelectOptimalUTXOs(utxos, W, 0, price) = {}
    BY <1>3 DEF WithdrawalPlan
  <2> HIDE DEF W, price
  <2>3. Inputs(utxos, required + 0, price) = {}
    BY <2>2 DEF SelectOptimalUTXOs
  <2> HIDE DEF required
  <2>4. ~ Covered(required)
    BY <1>2, <2>1, <2>3
  <2> QED BY <2>4 DEF required, W
<1>4. ASSUME SafeboxPlan = {}, NEW k \in SelectedTask
      PROVE  ~ Covered(k.amount + External)
  <2>1. Sum({k}) = k.amount /\ k.amount + External \in Nat
    BY TaskSum DEF SelectedTask, Money
  <2>2. SelectOptimalUTXOs(utxos, {k}, External, fee.halfHour) = {}
    <3> SUFFICES ASSUME NEW sel \in SelectOptimalUTXOs(utxos, {k}, External, fee.halfHour)
                 PROVE  FALSE
      OBVIOUS
    <3>1. Plan("safebox", sel, {}, {k}, fee.halfHour) \in SafeboxPlan
      BY DEF SafeboxPlan
    <3> QED BY <1>4, <3>1
  <2>3. Inputs(utxos, Sum({k}) + External, fee.halfHour) = {}
    BY <2>2 DEF SelectOptimalUTXOs
  <2> QED BY <1>2, <2>1, <2>3
<1> QED BY <1>3, <1>4

(* Whichever utxos are spendable: a cover within the limit of inputs is     *)
(* found, and with at most one utxo more than any other cover needs.       *)
THEOREM SelectionIsBest == Spec => []SelectionBest
<1>1. Init => IInv /\ Money /\ OwnIds
  BY InitInv, MoneyInit, OwnIdsInit
<1>2. IInv /\ Money /\ OwnIds /\ [Next]_vars => (IInv /\ Money /\ OwnIds)'
  BY NextInv, MoneyNext, OwnIdsNext
<1>3. IInv /\ Money /\ OwnIds => SelectionBest
  BY FewestIsKept, CompleteIsKept DEF SelectionBest
<1> QED BY <1>1, <1>2, <1>3, PTL DEF Spec
=============================================================================
