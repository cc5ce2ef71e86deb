------------------------------ MODULE BlsSigning ------------------------------
(***************************************************************************)
(* Signature rounds between the relayers (internal/bls) with their clients *)
(* and layer 2.                                                            *)
(*                                                                         *)
(*   poller     asks for signatures of new bitcoin block headers           *)
(*              (internal/btc/poller.go)                                   *)
(*   wallet     asks for signatures of send orders and for finalization    *)
(*              and cancellation messages (internal/wallet)                *)
(*   signer     one goroutine that handles requests and messages one at a  *)
(*              time, and one that removes rounds whose time is over       *)
(*   layer 2    external: one log that every relayer reads at its own      *)
(*              pace; accepts proposals of the elected proposer            *)
(*   network    external: delivers late, in any order, or never            *)
(*                                                                         *)
(* A message that changes nothing at its receiver is as good as lost, so   *)
(* only deliveries with an effect are steps.  Rounds of the threshold      *)
(* signature service and changes of the voter list are not modelled here.  *)
(***************************************************************************)
EXTENDS Integers, Sequences, FiniteSets

CONSTANTS
  Relayer,         \* the epoch's voters, the proposer among them
  Candidates,      \* bound: relayers that may be elected
  Kinds,           \* bound: the kinds of request in this instance
  StartBtcHeight,  \* L2Info.StartBtcHeight
  MaxHeight,       \* bound: confirmed bitcoin blocks
  Batch,           \* headers in one request, 16 in the code
  Due,             \* bound: orders to finalize and withdrawals to cancel
  MaxAsk,          \* bound: requests of all clients
  MaxEpoch,        \* bound: elections
  MaxFault         \* bound: restarts, failed publications, periods of catching up

AllKinds == {"block", "order", "finalize", "cancel"}

ASSUME RelayerAssumption == IsFiniteSet(Relayer) /\ Candidates \subseteq Relayer
ASSUME KindAssumption == Kinds \subseteq AllKinds
ASSUME HeightAssumption ==
  /\ StartBtcHeight \in Nat
  /\ MaxHeight \in Nat
  /\ Batch \in Nat \ {0}
ASSUME LimitAssumption ==
  /\ Due \subseteq Nat
  /\ MaxAsk \in Nat
  /\ MaxEpoch \in Nat
  /\ MaxFault \in Nat

VARIABLES
  l2,         \* external: the states of layer 2, oldest first
  pool,       \* external: proposals that layer 2 may still include
  accepted,   \* external: proposals that layer 2 has included
  net,        \* external: messages in transit, the receiver's queue included
  voted,      \* State.EpochVoter is that of l2[voted[r]]
  headed,     \* State.L2Info is that of l2[headed[r]]
  syncing,    \* L2Info.Syncing
  scanned,    \* highest confirmed bitcoin block in the database
  poll,       \* BTCPoller.sigHashQueue
  busy,       \* WalletServer.sigStatus, finalizeWithdrawStatus, cancelWithdrawStatus
  sigStartCh, \* Signer.sigStartCh
  sigMap,     \* Signer.sigMap: the votes of all open rounds
  signer,     \* what the signer's goroutine is doing
  feedback,   \* SigFinish, SigFailed and SigTimeout events on their way to the clients
  asked,      \* requests so far; also the time of a request
  faults      \* faults so far

chain == <<l2, pool, accepted>>
view == <<voted, headed, syncing, scanned>>
clients == <<poll, busy>>
vars == <<chain, net, view, clients, sigStartCh, sigMap, signer, feedback, asked, faults>>

-----------------------------------------------------------------------------
(* What a relayer knows, and what it sends *)

Threshold(total) == (total * 2 + 2) \div 3

EpochVoter(r) == l2[voted[r]]
LatestBtcHeight(r) == l2[headed[r]].height
IsProposer(r) == EpochVoter(r).proposer = r
CanSign(r) == ~ syncing[r]

RequestId(k, r, n) == [kind |-> k, proposer |-> r, number |-> n]

\* a request as a client puts it on the bus
Request(r, id, count) ==
  [id |-> id, voter |-> r, lead |-> TRUE, count |-> count, time |-> asked + 1,
   epoch |-> EpochVoter(r).epoch, sequence |-> EpochVoter(r).sequence]

\* the answer of r to request e: the fields are copied from the request (a header
\* answer's own time, which nobody reads, is left out), the signed document names
\* what r itself takes for proposer, sequence and epoch
Vote(r, e, lead) ==
  [id |-> e.id, voter |-> r, lead |-> lead, count |-> e.count, time |-> e.time,
   epoch |-> e.epoch, sequence |-> e.sequence,
   doc |-> [proposer |-> EpochVoter(r).proposer, epoch |-> EpochVoter(r).epoch,
            sequence |-> EpochVoter(r).sequence]]

Packet(r, m) == [to |-> r, msg |-> m]
Broadcast(r, m) == {Packet(v, m) : v \in Relayer \ {r}}

Votes(r, id) == {m \in sigMap[r] : m.id = id}
Rounds(r) == {m.id : m \in sigMap[r]}

Event(outcome, e) == [outcome |-> outcome, id |-> e.id, voter |-> e.voter, time |-> e.time]
Publish(r, events) == feedback' = [feedback EXCEPT ![r] = @ \cup events]

\* the poller acts on its own request only, the wallet on any
Heard(r, id) == id.kind = "block" => id.proposer = r

RemoveSigMap(r, id) == sigMap' = [sigMap EXCEPT ![r] = {m \in @ : m.id # id}]

Idle == [at |-> "idle"]
Collecting(e) == [at |-> "collect", event |-> e]
Submitting(e, s) == [at |-> "submit", event |-> e, proposal |-> s]

SignerIs(r, s) == signer' = [signer EXCEPT ![r] = s]

Init ==
  /\ \E p \in Candidates :
       l2 = <<[epoch |-> 1, proposer |-> p, sequence |-> 0, height |-> StartBtcHeight]>>
  /\ pool = {} /\ accepted = {} /\ net = {}
  /\ voted = [r \in Relayer |-> 1]
  /\ headed = [r \in Relayer |-> 1]
  /\ syncing = [r \in Relayer |-> FALSE]
  /\ scanned = [r \in Relayer |-> StartBtcHeight]
  /\ poll = [r \in Relayer |-> [status |-> FALSE, id |-> RequestId("block", r, StartBtcHeight),
                                start |-> 0, count |-> 0]]
  /\ busy = [r \in Relayer |-> {}]
  /\ sigStartCh = [r \in Relayer |-> <<>>]
  /\ sigMap = [r \in Relayer |-> {}]
  /\ signer = [r \in Relayer |-> Idle]
  /\ feedback = [r \in Relayer |-> {}]
  /\ asked = 0
  /\ faults = 0

-----------------------------------------------------------------------------
(* External: layer 2 *)

Now == l2[Len(l2)]

\* every vote is a signature of the document that the proposal claims
Signed(s) ==
  /\ s.sequence = Now.sequence /\ s.epoch = Now.epoch
  /\ Cardinality(s.votes) >= Threshold(Cardinality(Relayer))
  /\ \A m \in s.votes :
       /\ m.count = s.count
       /\ m.doc = [proposer |-> Now.proposer, epoch |-> Now.epoch, sequence |-> Now.sequence]

MayAccept(s) ==
  /\ s.id.proposer = Now.proposer
  /\ \/ s.id.kind = "block" /\ Signed(s) /\ s.id.number = Now.height + 1
     \/ s.id.kind = "order" /\ Signed(s)
     \/ /\ s.id.kind \in {"finalize", "cancel"}
        /\ \A a \in accepted : a.id.kind = s.id.kind => a.id.number # s.id.number

Include(s) ==
  /\ MayAccept(s)
  /\ pool' = pool \ {s}
  /\ accepted' = accepted \cup {s}
  /\ l2' = CASE s.id.kind = "block" ->
                  Append(l2, [Now EXCEPT !.sequence = @ + 1, !.height = @ + s.count])
             [] s.id.kind = "order" -> Append(l2, [Now EXCEPT !.sequence = @ + 1])
             [] OTHER -> l2
  /\ UNCHANGED <<net, view, clients, sigStartCh, sigMap, signer, feedback, asked, faults>>

Elect(p) ==
  /\ Now.epoch < MaxEpoch
  /\ l2' = Append(l2, [Now EXCEPT !.epoch = @ + 1, !.proposer = p])
  /\ UNCHANGED <<pool, accepted, net, view, clients, sigStartCh, sigMap, signer, feedback,
                 asked, faults>>

-----------------------------------------------------------------------------
(* What a relayer learns *)

\* the listener updates epoch, proposer and sequence ...
UpdateEpochVoter(r) ==
  /\ voted[r] = headed[r]
  /\ voted[r] < Len(l2)
  /\ voted' = [voted EXCEPT ![r] = @ + 1]
  /\ headed' = [headed EXCEPT ![r] = IF l2[@ + 1].height = l2[@].height THEN @ + 1 ELSE @]
  /\ UNCHANGED <<chain, net, syncing, scanned, clients, sigStartCh, sigMap, signer,
                 feedback, asked, faults>>

\* ... and in another step the bitcoin height, where there are new headers
UpdateLatestBtc(r) ==
  /\ headed[r] < voted[r]
  /\ headed' = [headed EXCEPT ![r] = @ + 1]
  /\ UNCHANGED <<chain, net, voted, syncing, scanned, clients, sigStartCh, sigMap, signer,
                 feedback, asked, faults>>

ConfirmBtcBlock(r) ==
  /\ scanned[r] < MaxHeight
  /\ scanned' = [scanned EXCEPT ![r] = @ + 1]
  /\ UNCHANGED <<chain, net, voted, headed, syncing, clients, sigStartCh, sigMap, signer,
                 feedback, asked, faults>>

CatchUp(r) ==
  /\ \/ ~ syncing[r] /\ faults < MaxFault /\ faults' = faults + 1
     \/ syncing[r] /\ UNCHANGED faults
  /\ syncing' = [syncing EXCEPT ![r] = ~ @]
  /\ UNCHANGED <<chain, net, voted, headed, scanned, clients, sigStartCh, sigMap, signer,
                 feedback, asked>>

-----------------------------------------------------------------------------
(* The clients *)

Ask(r, e) ==
  /\ asked < MaxAsk
  /\ asked' = asked + 1
  /\ sigStartCh' = [sigStartCh EXCEPT ![r] = Append(@, e)]
  /\ UNCHANGED <<chain, net, view, sigMap, signer, feedback, faults>>

\* headers of the next blocks; the last request's height is lastStartHeight
InitSig(r) ==
  LET first == LatestBtcHeight(r) + 1
      stored == scanned[r] - LatestBtcHeight(r)
      count == IF stored < Batch THEN stored ELSE Batch
      id == RequestId("block", r, first)
  IN /\ "block" \in Kinds
     /\ CanSign(r) /\ IsProposer(r)
     /\ ~ poll[r].status
     /\ stored > 0
     /\ poll[r].start <= first
     /\ poll[r].id.number <= first
     /\ Ask(r, Request(r, id, count))
     /\ poll' = [poll EXCEPT ![r].status = TRUE, ![r].id = id, ![r].count = count]
     /\ UNCHANGED busy

InitWithdrawSig(r) ==
  /\ "order" \in Kinds
  /\ CanSign(r) /\ IsProposer(r)
  /\ "order" \notin busy[r]
  /\ Ask(r, Request(r, RequestId("order", r, asked + 1), 0))
  /\ busy' = [busy EXCEPT ![r] = @ \cup {"order"}]
  /\ UNCHANGED poll

\* finalizeWithdrawSig and cancelWithdrawSig
InitSingleSig(r, k, n) ==
  /\ k \in Kinds
  /\ CanSign(r) /\ IsProposer(r)
  /\ k \notin busy[r]
  /\ Ask(r, Request(r, RequestId(k, r, n), 0))
  /\ busy' = [busy EXCEPT ![r] = @ \cup {k}]
  /\ UNCHANGED poll

\* a client that is no longer proposer forgets its request
StepDown(r) ==
  /\ CanSign(r) /\ ~ IsProposer(r)
  /\ \/ poll[r].status /\ poll' = [poll EXCEPT ![r].status = FALSE] /\ UNCHANGED busy
     \/ \E k \in busy[r] : busy' = [busy EXCEPT ![r] = @ \ {k}] /\ UNCHANGED poll
  /\ UNCHANGED <<chain, net, view, sigStartCh, sigMap, signer, feedback, asked, faults>>

\* (bug) takes the sender of the event for the sender of the request
MineByVoter(r, f) == poll[r].status /\ f.voter = r

Mine(r, f) == poll[r].status /\ f.id = poll[r].id

\* Start after an outcome: a failure keeps it
NextStart(r, f) == poll[r].start + (IF f.outcome = "finish" THEN poll[r].count ELSE 0)

\* the poller compares request ids, the wallet does not
HandleFeedback(r, f) ==
  /\ f \in feedback[r]
  /\ feedback' = [feedback EXCEPT ![r] = @ \ {f}]
  /\ \/ /\ f.id.kind = "block" /\ Mine(r, f)
        /\ poll' = [poll EXCEPT ![r].status = FALSE, ![r].start = NextStart(r, f)]
        /\ UNCHANGED busy
     \/ /\ f.id.kind = "block" /\ ~ Mine(r, f)
        /\ UNCHANGED clients
     \/ /\ f.id.kind # "block"
        /\ busy' = [busy EXCEPT ![r] = @ \ {f.id.kind}]
        /\ UNCHANGED poll
  /\ UNCHANGED <<chain, net, view, sigStartCh, sigMap, signer, asked, faults>>

-----------------------------------------------------------------------------
(* The signer: requests of this relayer's clients *)

External == <<chain, view, clients, asked>>

TakeStart(r) == sigStartCh' = [sigStartCh EXCEPT ![r] = Tail(@)]

Startable(r, e) ==
  /\ CanSign(r) /\ IsProposer(r)
  /\ e.id \notin Rounds(r)
  /\ e.id.kind = "block" => e.id.number = LatestBtcHeight(r) + 1

\* a request that cannot start, or whose message cannot be published
StartRefused(r) ==
  /\ signer[r] = Idle
  /\ sigStartCh[r] # <<>>
  /\ LET e == Head(sigStartCh[r])
     IN /\ \/ ~ Startable(r, e) /\ UNCHANGED faults
           \/ /\ e.id.kind \in {"block", "order"}
              /\ Startable(r, e)
              /\ faults < MaxFault /\ faults' = faults + 1
        /\ Publish(r, {Event("failed", e)})
  /\ TakeStart(r)
  /\ UNCHANGED <<External, net, sigMap, signer>>

\* handleSigStartNewBlock and handleSigStartSendOrder open a round; only the
\* first tries at once to aggregate
StartRound(r) ==
  /\ signer[r] = Idle
  /\ sigStartCh[r] # <<>>
  /\ LET e == Head(sigStartCh[r])
         own == Vote(r, e, TRUE)
     IN /\ e.id.kind \in {"block", "order"}
        /\ Startable(r, e)
        /\ net' = net \cup Broadcast(r, own)
        /\ sigMap' = [sigMap EXCEPT ![r] = @ \cup {own}]
        /\ SignerIs(r, IF e.id.kind = "block" THEN Collecting(e) ELSE Idle)
  /\ TakeStart(r)
  /\ UNCHANGED <<External, feedback, faults>>

\* handleSigStartWithdrawFinalize and handleSigStartWithdrawCancel submit a
\* message that needs no votes
StartSingle(r) ==
  /\ signer[r] = Idle
  /\ sigStartCh[r] # <<>>
  /\ LET e == Head(sigStartCh[r])
         s == [id |-> e.id, time |-> e.time, votes |-> {}]
     IN /\ e.id.kind \in {"finalize", "cancel"}
        /\ Startable(r, e)
        /\ pool' = pool \cup {s}
        /\ SignerIs(r, Submitting(e, s))
  /\ TakeStart(r)
  /\ UNCHANGED <<l2, accepted, view, clients, asked, net, sigMap, feedback, faults>>

-----------------------------------------------------------------------------
(* The signer: messages of other relayers *)

\* (bug) goes by the name of the request
OpenedByName(r, m) == m.id.proposer = r

Opened(r, m) == m.id \in Rounds(r)

Take(r, m) ==
  /\ signer[r] = Idle
  /\ Packet(r, m) \in net

Delivered(r, m) == net \ {Packet(r, m)}

\* (bug) only the first block's parent is looked up
StoredParent(r, m) == m.id.number - 1 <= scanned[r]

\* CheckBtcBlockSignCount: all headers of the message are in the database
Stored(r, m) == m.id.number + m.count - 1 <= scanned[r]

\* the voter's checks of a proposer's message
Signable(r, m) ==
  /\ m.epoch = EpochVoter(r).epoch
  /\ m.id.kind = "block" =>
       /\ m.id.number = LatestBtcHeight(r) + 1
       /\ m.count \in 1 .. Batch
       /\ Stored(r, m)

\* a voter answers; it has stored a send order before (WithdrawFlow!JoinOrder)
Answer(r, m) ==
  /\ Take(r, m)
  /\ CanSign(r) /\ ~ IsProposer(r)
  /\ m.lead /\ Signable(r, m)
  /\ net' = Delivered(r, m) \cup Broadcast(r, Vote(r, m, FALSE))
  /\ UNCHANGED <<External, sigStartCh, sigMap, signer, feedback, faults>>

\* an error: catching up, a check that fails, an order that cannot be stored, an
\* answer that cannot be published, a vote for a round that is not open
ReceiveFailed(r, m) ==
  /\ Take(r, m)
  /\ Heard(r, m.id)
  /\ \/ /\ \/ ~ CanSign(r)
           \/ ~ IsProposer(r) /\ m.lead /\ (Signable(r, m) => m.id.kind = "order")
           \/ IsProposer(r) /\ ~ m.lead /\ ~ Opened(r, m)
        /\ UNCHANGED faults
     \/ /\ CanSign(r) /\ ~ IsProposer(r) /\ m.lead /\ Signable(r, m)
        /\ faults < MaxFault /\ faults' = faults + 1
  /\ net' = Delivered(r, m)
  /\ Publish(r, {Event("failed", m)})
  /\ UNCHANGED <<External, sigStartCh, sigMap, signer>>

\* a vote of a voter the proposer has not heard in this round
NewVote(r, m) == ~ m.lead /\ \A v \in Votes(r, m.id) : v.voter # m.voter

ReceiveVote(r, m) ==
  /\ Take(r, m)
  /\ CanSign(r) /\ IsProposer(r)
  /\ Opened(r, m)
  /\ NewVote(r, m)
  /\ net' = Delivered(r, m)
  /\ sigMap' = [sigMap EXCEPT ![r] = @ \cup {m}]
  /\ SignerIs(r, Collecting(m))
  /\ UNCHANGED <<External, sigStartCh, feedback, faults>>

\* for a send order, a message that adds no vote (of a former proposer, or a second
\* vote of one voter) also ends the round
ReceiveOther(r, m) ==
  /\ Take(r, m)
  /\ CanSign(r) /\ IsProposer(r)
  /\ m.id.kind = "order"
  /\ m.lead \/ Opened(r, m)
  /\ ~ NewVote(r, m)
  /\ net' = Delivered(r, m)
  /\ RemoveSigMap(r, m.id)
  /\ Publish(r, {Event("finish", m)})
  /\ UNCHANGED <<External, sigStartCh, signer, faults>>

-----------------------------------------------------------------------------
(* The signer: aggregation and submission *)

\* (bug) one vote less
EnoughButOne(votes) == Cardinality(votes) + 1 >= Threshold(Cardinality(Relayer))

Enough(votes) == Cardinality(votes) >= Threshold(Cardinality(Relayer))

\* aggSigNewBlock and aggSigSendOrder take the proposer's fields for the proposal
Aggregate(r, e) ==
  LET votes == Votes(r, e.id)
  IN {[id |-> e.id, time |-> m.time, count |-> m.count, epoch |-> m.epoch,
       sequence |-> m.sequence, votes |-> votes] :
         m \in {v \in votes : /\ v.lead /\ Enough(votes)
                              /\ v.epoch = EpochVoter(r).epoch
                              /\ v.sequence = EpochVoter(r).sequence}}

\* (bug) every round ends when its votes cannot be aggregated
EndsAnyway(e) == TRUE

EndsWithout(e) == e.id.kind = "order"

\* without enough votes a header's round stays open, a send order's ends
CollectMore(r) ==
  /\ signer[r].at = "collect"
  /\ LET e == signer[r].event
     IN /\ Aggregate(r, e) = {}
        /\ IF EndsWithout(e)
             THEN RemoveSigMap(r, e.id) /\ Publish(r, {Event("finish", e)})
             ELSE UNCHANGED <<sigMap, feedback>>
  /\ SignerIs(r, Idle)
  /\ UNCHANGED <<External, net, sigStartCh, faults>>

Submit(r) ==
  /\ signer[r].at = "collect"
  /\ \E s \in Aggregate(r, signer[r].event) :
       /\ pool' = pool \cup {s}
       /\ SignerIs(r, Submitting(signer[r].event, s))
  /\ UNCHANGED <<l2, accepted, view, clients, asked, net, sigStartCh, sigMap, feedback, faults>>

\* RetrySubmit saw the proposal in a layer 2 block; finalization and cancellation
\* publish nothing then, or a failure where a finalization cannot be broadcast
SubmitOk(r) ==
  /\ signer[r].at = "submit"
  /\ signer[r].proposal \in accepted
  /\ LET e == signer[r].event
     IN /\ RemoveSigMap(r, e.id)
        /\ \/ /\ e.id.kind \in {"block", "order"}
              /\ Publish(r, {Event("finish", e)})
              /\ UNCHANGED faults
           \/ /\ e.id.kind \in {"finalize", "cancel"}
              /\ UNCHANGED <<feedback, faults>>
           \/ /\ e.id.kind = "finalize"
              /\ faults < MaxFault /\ faults' = faults + 1
              /\ Publish(r, {Event("failed", e)})
  /\ SignerIs(r, Idle)
  /\ UNCHANGED <<External, net, sigStartCh>>

\* (bug) the round is removed and nobody told
FailureUnreported(e) == {}

\* finalization and cancellation report a failure twice
Failure(e) ==
  {Event("failed", e)} \cup
  (IF e.id.kind \in {"finalize", "cancel"} THEN {Event("failed again", e)} ELSE {})

\* RetrySubmit gave up, which says nothing about the proposal
SubmitFailed(r) ==
  /\ signer[r].at = "submit"
  /\ LET e == signer[r].event
     IN /\ IF e.id.kind \in {"block", "order"}
             THEN RemoveSigMap(r, e.id)
             ELSE UNCHANGED sigMap
        /\ Publish(r, Failure(e))
  /\ SignerIs(r, Idle)
  /\ UNCHANGED <<External, net, sigStartCh, faults>>

-----------------------------------------------------------------------------
(* The signer: timeouts, and a restart *)

\* (bug) removes the round as a finished one is removed
TimeoutUnreported(r, id) == {}

TimeoutReport(r, id) == {Event("timeout", m) : m \in {v \in Votes(r, id) : v.voter = r}}

\* checkTimeouts removes a round under its name, without a look at its age between
\* collecting and removing; ages are left out, so any open round may end here
Timeout(r, id) ==
  /\ id \in Rounds(r)
  /\ Publish(r, TimeoutReport(r, id))
  /\ RemoveSigMap(r, id)
  /\ UNCHANGED <<External, net, sigStartCh, signer, faults>>

Restart(r) ==
  /\ faults < MaxFault
  /\ faults' = faults + 1
  /\ poll' = [poll EXCEPT ![r] = [status |-> FALSE, id |-> RequestId("block", r, StartBtcHeight),
                                  start |-> 0, count |-> 0]]
  /\ busy' = [busy EXCEPT ![r] = {}]
  /\ sigStartCh' = [sigStartCh EXCEPT ![r] = <<>>]
  /\ sigMap' = [sigMap EXCEPT ![r] = {}]
  /\ SignerIs(r, Idle)
  /\ feedback' = [feedback EXCEPT ![r] = {}]
  /\ UNCHANGED <<chain, net, view, asked>>

-----------------------------------------------------------------------------
(* The specification *)

Layer2Step == (\E s \in pool : Include(s)) \/ (\E p \in Candidates : Elect(p))

ViewStep(r) ==
  UpdateEpochVoter(r) \/ UpdateLatestBtc(r) \/ ConfirmBtcBlock(r) \/ CatchUp(r)

ClientStep(r) ==
  \/ InitSig(r) \/ InitWithdrawSig(r) \/ StepDown(r)
  \/ \E k \in {"finalize", "cancel"}, n \in Due : InitSingleSig(r, k, n)
  \/ \E f \in feedback[r] : HandleFeedback(r, f)

HandleStart(r) == StartRefused(r) \/ StartRound(r) \/ StartSingle(r)

HandleReceive(r) ==
  \E p \in net :
    /\ p.to = r
    /\ Answer(r, p.msg) \/ ReceiveFailed(r, p.msg) \/ ReceiveVote(r, p.msg)
         \/ ReceiveOther(r, p.msg)

Work(r) == CollectMore(r) \/ Submit(r) \/ SubmitOk(r) \/ SubmitFailed(r)

CheckTimeouts(r) == \E id \in Rounds(r) : Timeout(r, id)

Next ==
  \/ Layer2Step
  \/ \E r \in Relayer : \/ ViewStep(r) \/ ClientStep(r) \/ HandleStart(r) \/ HandleReceive(r)
                        \/ Work(r) \/ CheckTimeouts(r) \/ Restart(r)

Spec == Init /\ [][Next]_vars

\* the signer's goroutine chooses between requests and messages at random; the
\* poller, the wallet and the timeout check run on timers
Fairness ==
  \A r \in Relayer :
    /\ SF_vars(HandleStart(r))
    /\ WF_vars(Work(r))
    /\ WF_vars(CheckTimeouts(r))
    /\ WF_vars(\E f \in feedback[r] : HandleFeedback(r, f))

FairSpec == Spec /\ Fairness

-----------------------------------------------------------------------------
(* Properties *)

L2States == [epoch : Nat, proposer : Candidates, sequence : Nat, height : Nat]
RequestIds == [kind : AllKinds, proposer : Relayer, number : Nat]
Docs == [proposer : Relayer, epoch : Nat, sequence : Nat]
Requests == [id : RequestIds, voter : Relayer, lead : {TRUE}, count : Nat, time : Nat,
             epoch : Nat, sequence : Nat]
VoteMsgs == [id : RequestIds, voter : Relayer, lead : BOOLEAN, count : Nat, time : Nat,
             epoch : Nat, sequence : Nat, doc : Docs]
Events == [outcome : {"finish", "failed", "failed again", "timeout"}, id : RequestIds,
           voter : Relayer, time : Nat]
Polls == [status : BOOLEAN, id : RequestIds, start : Nat, count : Nat]

SignerOK(r) ==
  /\ signer[r].at \in {"idle", "collect", "submit"}
  /\ signer[r].at # "idle" => signer[r].event \in Requests \cup VoteMsgs
  /\ signer[r].at = "submit" =>
       /\ signer[r].proposal \in pool \cup accepted
       /\ signer[r].proposal.id = signer[r].event.id

\* a relayer knows an earlier state of layer 2; the height may be one state behind
ViewOK(r) ==
  /\ voted[r] \in 1 .. Len(l2)
  /\ headed[r] \in 1 .. voted[r] /\ voted[r] <= headed[r] + 1

\* The type invariant.  Every round that is open holds the proposer's own vote, so
\* that its end can be reported; what the signer waits for has been submitted.
TypeOK ==
  /\ l2 \in Seq(L2States) /\ l2 # <<>>
  /\ net \subseteq [to : Relayer, msg : VoteMsgs]
  /\ voted \in [Relayer -> Nat] /\ headed \in [Relayer -> Nat]
  /\ syncing \in [Relayer -> BOOLEAN] /\ scanned \in [Relayer -> Nat]
  /\ poll \in [Relayer -> Polls]
  /\ busy \in [Relayer -> SUBSET AllKinds]
  /\ sigStartCh \in [Relayer -> Seq(Requests)]
  /\ sigMap \in [Relayer -> SUBSET VoteMsgs]
  /\ feedback \in [Relayer -> SUBSET Events]
  /\ DOMAIN signer = Relayer
  /\ asked \in Nat /\ faults \in Nat
  /\ \A s \in pool \cup accepted :
       s.id \in RequestIds /\ (s.id.kind = "block" => s.count \in Nat)
  /\ \A r \in Relayer :
       /\ ViewOK(r) /\ SignerOK(r)
       /\ \A m \in sigMap[r] : \E own \in Votes(r, m.id) : own.lead /\ own.voter = r

\* the requests that are queued, open, in the signer's hands, or whose end is on
\* its way back to the client
Pending(r) ==
  {sigStartCh[r][i].id : i \in DOMAIN sigStartCh[r]} \cup Rounds(r)
    \cup {f.id : f \in feedback[r]}
    \cup (IF signer[r].at = "idle" THEN {} ELSE {signer[r].event.id})

\* The poller never waits for nothing: while its queue is in status "signing", the
\* request is pending.  Otherwise no header would be signed until the next election.
PollerNotStranded == \A r \in Relayer : poll[r].status => poll[r].id \in Pending(r)

\* The same of the wallet's flag for send orders.
OrderNotStranded ==
  \A r \in Relayer : "order" \in busy[r] => \E id \in Pending(r) : id.kind = "order"

\* What reaches layer 2 was signed by the proposer and by enough other relayers,
\* each counted once, however often requests are repeated under one name.
SubmittedHasQuorum ==
  \A s \in pool \cup accepted :
    s.id.kind \in {"block", "order"} =>
      /\ Cardinality({m.voter : m \in s.votes}) >= Threshold(Cardinality(Relayer))
      /\ \E m \in s.votes : m.lead /\ m.voter = s.id.proposer

\* Every voter counted for an accepted header proposal has confirmed these blocks
\* itself, also when votes of an earlier request of the same height arrive late.
AcceptedIsConfirmed ==
  \A s \in accepted :
    s.id.kind = "block" => \A m \in s.votes : s.id.number + s.count - 1 <= scanned[m.voter]

\* The poller is told "finished" only of headers that layer 2 has.
FinishedBlockAccepted ==
  \A r \in Relayer : \A f \in feedback[r] :
    f.outcome = "finish" /\ f.id.kind = "block" => Now.height >= f.id.number

\* Every request for headers ends, whatever voters, layer 2 and the network do:
\* the timeout ends what nobody answers.
PollerReleased == \A r \in Relayer : poll[r].status ~> ~ poll[r].status
=============================================================================
