-------------------------- MODULE BlsSigning_proofs --------------------------
(***************************************************************************)
(* What holds of the signature rounds for every set of relayers, every     *)
(* threshold and any number of requests, elections and faults.             *)
(***************************************************************************)
EXTENDS BlsSigning, FiniteSetTheorems, FunctionTheorems, TLAPS

-----------------------------------------------------------------------------
(* The parts of the inductive invariant that are not properties themselves. *)
(* With TypeOK, SubmittedHasQuorum, AcceptedIsConfirmed and                 *)
(* FinishedBlockAccepted they are inductive; each theorem uses those it     *)
(* rests on.                                                                *)

\* the requests a client can still hear of, not counting the signer's own memory
Waiting(r) ==
  {sigStartCh[r][i].id : i \in DOMAIN sigStartCh[r]} \cup Rounds(r)
    \cup {f.id : f \in feedback[r]}

\* a relayer opens rounds for its own requests only, with one vote of each voter
RoundsOK ==
  \A r \in Relayer :
    /\ \A i \in DOMAIN sigStartCh[r] :
         sigStartCh[r][i].id.proposer = r /\ sigStartCh[r][i].voter = r
    /\ IsFiniteSet(sigMap[r])
    /\ \A m \in sigMap[r] : m.lead => m.voter = r /\ m.id.proposer = r
    /\ \A m, n \in sigMap[r] : m.id = n.id /\ m.voter = n.voter => m = n

PollerServed ==
  \A r \in Relayer :
    poll[r].id.kind = "block" /\ (poll[r].status => poll[r].id \in Waiting(r))

OrderServed ==
  \A r \in Relayer : "order" \in busy[r] => \E id \in Waiting(r) : id.kind = "order"

\* a request or vote names blocks that its sender has confirmed
Confirmed(m) ==
  m.id.kind = "block" => m.count > 0 /\ m.id.number + m.count - 1 <= scanned[m.voter]

VotesConfirmed ==
  /\ \A p \in net : Confirmed(p.msg)
  /\ \A r \in Relayer :
       /\ \A i \in DOMAIN sigStartCh[r] : Confirmed(sigStartCh[r][i])
       /\ \A m \in sigMap[r] : Confirmed(m)
  /\ \A s \in pool \cup accepted :
       s.id.kind = "block" =>
         /\ s.count > 0
         /\ \A m \in s.votes : m \in VoteMsgs /\ m.id = s.id /\ Confirmed(m)

\* layer 2 has the first header of every accepted proposal
AcceptedReached ==
  \A s \in accepted : s.id.kind = "block" => Now.height >= s.id.number

-----------------------------------------------------------------------------
(* What the helpers return *)

\* A relayer's view of layer 2 is typed, whatever it lags behind.
LEMMA ViewTyped ==
  ASSUME TypeOK, NEW r \in Relayer
  PROVE  /\ EpochVoter(r) \in [epoch : Nat, proposer : Relayer, sequence : Nat, height : Nat]
         /\ LatestBtcHeight(r) \in Nat
<1>1. voted[r] \in 1 .. Len(l2) /\ headed[r] \in 1 .. Len(l2) /\ l2 \in Seq(L2States)
  BY DEF TypeOK, ViewOK
<1>2. l2[voted[r]] \in L2States /\ l2[headed[r]] \in L2States
  BY <1>1
<1> QED
  BY <1>2, RelayerAssumption DEF EpochVoter, LatestBtcHeight, L2States

\* The present state of layer 2 is typed, and so are the states that may follow.
LEMMA NowTyped ==
  ASSUME TypeOK
  PROVE  /\ Now \in L2States /\ Len(l2) \in Nat /\ Len(l2) > 0
         /\ \A n \in Nat :
              [Now EXCEPT !.sequence = @ + 1, !.height = @ + n] \in L2States
         /\ [Now EXCEPT !.sequence = @ + 1] \in L2States
         /\ \A p \in Candidates : [Now EXCEPT !.epoch = @ + 1, !.proposer = p] \in L2States
<1>1. l2 \in Seq(L2States) /\ Len(l2) \in Nat /\ Len(l2) > 0 /\ Now \in L2States
  BY DEF TypeOK, Now
<1>2. ASSUME NEW x \in L2States
      PROVE  /\ [x EXCEPT !.sequence = @ + 1] \in L2States
             /\ [x EXCEPT !.epoch = @ + 1] \in L2States
             /\ \A n \in Nat : [x EXCEPT !.height = @ + n] \in L2States
             /\ \A p \in Candidates : [x EXCEPT !.proposer = p] \in L2States
  BY DEF L2States
<1>3. ASSUME NEW n \in Nat
      PROVE  [Now EXCEPT !.sequence = @ + 1, !.height = @ + n] \in L2States
  <2>1. [[Now EXCEPT !.sequence = @ + 1] EXCEPT !.height = @ + n] \in L2States
    BY <1>1, <1>2
  <2> QED
    BY <2>1
<1>4. ASSUME NEW p \in Candidates
      PROVE  [Now EXCEPT !.epoch = @ + 1, !.proposer = p] \in L2States
  <2>1. [[Now EXCEPT !.epoch = @ + 1] EXCEPT !.proposer = p] \in L2States
    BY <1>1, <1>2
  <2> QED
    BY <2>1
<1> QED
  BY <1>1, <1>2, <1>3, <1>4

LEMMA RequestTyped ==
  ASSUME TypeOK, NEW r \in Relayer, NEW id \in RequestIds, NEW count \in Nat
  PROVE  Request(r, id, count) \in Requests
<1>1. asked \in Nat
  BY DEF TypeOK
<1> QED
  BY <1>1, ViewTyped DEF Request, Requests

LEMMA VoteTyped ==
  ASSUME TypeOK, NEW r \in Relayer, NEW e \in VoteMsgs
  PROVE  /\ Vote(r, e, FALSE) \in VoteMsgs
         /\ Vote(r, e, FALSE).id = e.id /\ Vote(r, e, FALSE).voter = r
         /\ Vote(r, e, FALSE).lead = FALSE /\ Vote(r, e, FALSE).count = e.count
BY ViewTyped DEF Vote, Requests, VoteMsgs, Docs

LEMMA OwnVoteTyped ==
  ASSUME TypeOK, NEW r \in Relayer, NEW e \in Requests
  PROVE  /\ Vote(r, e, TRUE) \in VoteMsgs
         /\ Vote(r, e, TRUE).id = e.id /\ Vote(r, e, TRUE).voter = r
         /\ Vote(r, e, TRUE).lead = TRUE /\ Vote(r, e, TRUE).count = e.count
BY ViewTyped DEF Vote, Requests, VoteMsgs, Docs

LEMMA EventTyped ==
  ASSUME NEW e \in Requests \cup VoteMsgs,
         NEW outcome \in {"finish", "failed", "failed again", "timeout"}
  PROVE  /\ Event(outcome, e) \in Events
         /\ Event(outcome, e).id = e.id /\ Event(outcome, e).outcome = outcome
BY DEF Event, Events, Requests, VoteMsgs

\* A request taken from the queue, and what is left of it.
LEMMA QueueTaken ==
  ASSUME TypeOK, NEW r \in Relayer, sigStartCh[r] # <<>>
  PROVE  /\ Head(sigStartCh[r]) \in Requests
         /\ Head(sigStartCh[r]) = sigStartCh[r][1] /\ 1 \in DOMAIN sigStartCh[r]
         /\ Tail(sigStartCh[r]) \in Seq(Requests)
         /\ \A i \in DOMAIN Tail(sigStartCh[r]) :
              /\ i + 1 \in DOMAIN sigStartCh[r]
              /\ Tail(sigStartCh[r])[i] = sigStartCh[r][i + 1]
         /\ \A i \in DOMAIN sigStartCh[r] :
              i # 1 => /\ i - 1 \in DOMAIN Tail(sigStartCh[r])
                       /\ sigStartCh[r][i] = Tail(sigStartCh[r])[i - 1]
<1> DEFINE q == sigStartCh[r]
<1>1. q \in Seq(Requests)
  BY DEF TypeOK
<1>2. Len(q) \in Nat /\ Len(q) > 0 /\ DOMAIN q = 1 .. Len(q)
  BY <1>1
<1>3. /\ Tail(q) \in Seq(Requests) /\ Len(Tail(q)) = Len(q) - 1
      /\ \A i \in 1 .. Len(q) - 1 : Tail(q)[i] = q[i + 1]
  BY <1>1, <1>2
<1> QED
  BY <1>1, <1>2, <1>3

-----------------------------------------------------------------------------
(* Type correctness *)

LEMMA InitTyped == Init => TypeOK
<1> SUFFICES ASSUME Init PROVE TypeOK
  OBVIOUS
<1>1. PICK p \in Candidates :
        l2 = <<[epoch |-> 1, proposer |-> p, sequence |-> 0, height |-> StartBtcHeight]>>
  BY DEF Init
<1>2. l2 \in Seq(L2States) /\ Len(l2) = 1 /\ l2 # <<>>
  BY <1>1, HeightAssumption DEF L2States
<1>3. \A r \in Relayer : RequestId("block", r, StartBtcHeight) \in RequestIds
  BY HeightAssumption DEF RequestId, RequestIds, AllKinds
<1>4. poll \in [Relayer -> Polls]
  BY <1>3 DEF Init, Polls
<1>5. \A r \in Relayer : ViewOK(r)
  BY <1>2 DEF Init, ViewOK
<1>6. \A r \in Relayer : SignerOK(r)
  BY DEF Init, SignerOK, Idle
<1>7. /\ net \subseteq [to : Relayer, msg : VoteMsgs]
      /\ voted \in [Relayer -> Nat] /\ headed \in [Relayer -> Nat]
      /\ syncing \in [Relayer -> BOOLEAN] /\ scanned \in [Relayer -> Nat]
      /\ busy \in [Relayer -> SUBSET AllKinds]
      /\ sigStartCh \in [Relayer -> Seq(Requests)]
      /\ sigMap \in [Relayer -> SUBSET VoteMsgs]
      /\ feedback \in [Relayer -> SUBSET Events]
      /\ DOMAIN signer = Relayer
      /\ asked \in Nat /\ faults \in Nat
      /\ pool \cup accepted = {}
      /\ \A r \in Relayer : sigMap[r] = {}
  BY HeightAssumption DEF Init
<1> QED
  BY <1>2, <1>4, <1>5, <1>6, <1>7 DEF TypeOK

\* Layer 2 moves on: every relayer's view stays a view of an earlier state.
LEMMA Layer2Typed ==
  ASSUME TypeOK, Layer2Step
  PROVE  TypeOK'
<1>1. \/ l2' = l2
      \/ \E x \in L2States : l2' = Append(l2, x)
  <2>1. ASSUME NEW s \in pool, Include(s)
        PROVE  l2' = l2 \/ \E x \in L2States : l2' = Append(l2, x)
    <3>1. CASE s.id.kind = "block"
      <4>1. s.count \in Nat
        BY <3>1 DEF TypeOK
      <4> QED
        BY <2>1, <3>1, <4>1, NowTyped DEF Include
    <3>2. CASE s.id.kind = "order"
      BY <2>1, <3>2, NowTyped DEF Include
    <3>3. CASE s.id.kind \notin {"block", "order"}
      BY <2>1, <3>3 DEF Include
    <3> QED
      BY <3>1, <3>2, <3>3
  <2>2. ASSUME NEW p \in Candidates, Elect(p)
        PROVE  \E x \in L2States : l2' = Append(l2, x)
    BY <2>2, NowTyped DEF Elect
  <2> QED
    BY <2>1, <2>2 DEF Layer2Step
<1>2. /\ l2' \in Seq(L2States) /\ l2' # <<>>
      /\ Len(l2) \in Nat /\ Len(l2') \in Nat /\ Len(l2) <= Len(l2')
  <2>1. l2 \in Seq(L2States) /\ l2 # <<>> /\ Len(l2) \in Nat
    BY NowTyped DEF TypeOK
  <2>2. ASSUME NEW x \in L2States
        PROVE  /\ Append(l2, x) \in Seq(L2States) /\ Append(l2, x) # <<>>
               /\ Len(Append(l2, x)) = Len(l2) + 1
    BY <2>1
  <2> QED
    BY <1>1, <2>1, <2>2
<1>3. /\ UNCHANGED <<net, view, clients, sigStartCh, sigMap, signer, feedback, asked, faults>>
      /\ pool' \cup accepted' = pool \cup accepted
  BY DEF Layer2Step, Include, Elect
<1>4. \A r \in Relayer : ViewOK(r)'
  BY <1>2, <1>3 DEF TypeOK, ViewOK, view
<1>5. \A r \in Relayer : SignerOK(r)'
  BY <1>3 DEF TypeOK, SignerOK
<1> QED
  BY <1>2, <1>3, <1>4, <1>5 DEF TypeOK, view, clients, Votes

\* A relayer reads on.
LEMMA ViewStepTyped ==
  ASSUME TypeOK, NEW r \in Relayer, ViewStep(r)
  PROVE  TypeOK'
<1>1. l2 \in Seq(L2States) /\ Len(l2) \in Nat /\ voted[r] \in Nat /\ headed[r] \in Nat
  BY DEF TypeOK
<1>2. \A q \in Relayer : ViewOK(q)
  BY DEF TypeOK
<1>3. /\ voted' \in [Relayer -> Nat] /\ headed' \in [Relayer -> Nat]
      /\ \A q \in Relayer : ViewOK(q)'
  <2>1. CASE UpdateEpochVoter(r)
    BY <1>1, <1>2, <2>1 DEF TypeOK, ViewOK, UpdateEpochVoter, chain
  <2>2. CASE UpdateLatestBtc(r)
    BY <1>1, <1>2, <2>2 DEF TypeOK, ViewOK, UpdateLatestBtc, chain
  <2>3. CASE ConfirmBtcBlock(r) \/ CatchUp(r)
    BY <1>1, <1>2, <2>3 DEF TypeOK, ViewOK, ConfirmBtcBlock, CatchUp, chain
  <2> QED
    BY <2>1, <2>2, <2>3 DEF ViewStep
<1>4. /\ syncing' \in [Relayer -> BOOLEAN] /\ scanned' \in [Relayer -> Nat]
      /\ faults' \in Nat
  <2>1. CASE UpdateEpochVoter(r) \/ UpdateLatestBtc(r)
    BY <2>1 DEF TypeOK, UpdateEpochVoter, UpdateLatestBtc
  <2>2. CASE ConfirmBtcBlock(r)
    BY <2>2 DEF TypeOK, ConfirmBtcBlock
  <2>3. CASE CatchUp(r)
    BY <2>3 DEF TypeOK, CatchUp
  <2> QED
    BY <2>1, <2>2, <2>3 DEF ViewStep
<1>5. UNCHANGED <<chain, net, clients, sigStartCh, sigMap, signer, feedback, asked>>
  BY DEF ViewStep, UpdateEpochVoter, UpdateLatestBtc, ConfirmBtcBlock, CatchUp
<1>6. \A q \in Relayer : SignerOK(q)'
  BY <1>5 DEF TypeOK, SignerOK, chain
<1> QED
  BY <1>3, <1>4, <1>5, <1>6 DEF TypeOK, chain, clients, Votes

\* What a request in the queue of r looks like when a client makes it.
LEMMA AskedTyped ==
  ASSUME TypeOK, NEW r \in Relayer, NEW e \in Requests, Ask(r, e)
  PROVE  /\ sigStartCh' \in [Relayer -> Seq(Requests)]
         /\ sigStartCh'[r] = Append(sigStartCh[r], e)
         /\ \A q \in Relayer \ {r} : sigStartCh'[q] = sigStartCh[q]
         /\ asked' \in Nat
  BY DEF TypeOK, Ask

\* The arguments of a client's request.
LEMMA InitSigTyped ==
  ASSUME TypeOK, NEW r \in Relayer, InitSig(r)
  PROVE  \E first \in Nat, count \in Nat :
           /\ first = LatestBtcHeight(r) + 1
           /\ count > 0 /\ count <= scanned[r] - LatestBtcHeight(r)
           /\ RequestId("block", r, first) \in RequestIds
           /\ Ask(r, Request(r, RequestId("block", r, first), count))
           /\ poll' = [poll EXCEPT ![r].status = TRUE,
                         ![r].id = RequestId("block", r, first), ![r].count = count]
           /\ busy' = busy
<1>1. LatestBtcHeight(r) \in Nat /\ scanned[r] \in Nat
  BY ViewTyped DEF TypeOK
<1>2. LatestBtcHeight(r) + 1 \in Nat
  BY <1>1
<1>3. RequestId("block", r, LatestBtcHeight(r) + 1) \in RequestIds
  BY <1>2 DEF RequestId, RequestIds, AllKinds
<1>4. DEFINE stored == scanned[r] - LatestBtcHeight(r)
             count == IF stored < Batch THEN stored ELSE Batch
<1>5. stored > 0
  BY DEF InitSig
<1>6. count \in Nat /\ count > 0 /\ count <= stored
  BY <1>1, <1>5, HeightAssumption
<1> QED
  BY <1>2, <1>3, <1>6 DEF InitSig

LEMMA ClientStepTyped ==
  ASSUME TypeOK, NEW r \in Relayer, ClientStep(r)
  PROVE  TypeOK'
<1>1. /\ poll \in [Relayer -> Polls] /\ busy \in [Relayer -> SUBSET AllKinds]
      /\ feedback \in [Relayer -> SUBSET Events] /\ asked \in Nat
      /\ sigStartCh \in [Relayer -> Seq(Requests)]
  BY DEF TypeOK
<1> DEFINE ClientsTyped ==
      /\ poll' \in [Relayer -> Polls] /\ busy' \in [Relayer -> SUBSET AllKinds]
      /\ sigStartCh' \in [Relayer -> Seq(Requests)]
      /\ feedback' \in [Relayer -> SUBSET Events] /\ asked' \in Nat
<1>2. ClientsTyped
  <2>1. CASE InitSig(r)
    <3>1. PICK first \in Nat, count \in Nat :
            /\ RequestId("block", r, first) \in RequestIds
            /\ Ask(r, Request(r, RequestId("block", r, first), count))
            /\ poll' = [poll EXCEPT ![r].status = TRUE,
                          ![r].id = RequestId("block", r, first), ![r].count = count]
            /\ busy' = busy
      BY <2>1, InitSigTyped
    <3>2. Request(r, RequestId("block", r, first), count) \in Requests
      BY <3>1, RequestTyped
    <3>3. poll' \in [Relayer -> Polls]
      BY ZenonT(60), <1>1, <3>1 DEF Polls
    <3> QED
      BY <1>1, <3>1, <3>2, <3>3, AskedTyped DEF Ask
  <2>2. CASE InitWithdrawSig(r)
    <3>1. RequestId("order", r, asked + 1) \in RequestIds
      BY <1>1 DEF RequestId, RequestIds, AllKinds
    <3>2. Request(r, RequestId("order", r, asked + 1), 0) \in Requests
      BY <3>1, RequestTyped
    <3>3. busy' \in [Relayer -> SUBSET AllKinds]
      BY <1>1, <2>2 DEF InitWithdrawSig, AllKinds
    <3> QED
      BY <1>1, <2>2, <3>2, <3>3, AskedTyped DEF InitWithdrawSig, Ask
  <2>3. ASSUME NEW k \in {"finalize", "cancel"}, NEW n \in Due, InitSingleSig(r, k, n)
        PROVE  ClientsTyped
    <3>1. RequestId(k, r, n) \in RequestIds
      BY LimitAssumption DEF RequestId, RequestIds, AllKinds
    <3>2. Request(r, RequestId(k, r, n), 0) \in Requests
      BY <3>1, RequestTyped
    <3>3. busy' \in [Relayer -> SUBSET AllKinds]
      BY <1>1, <2>3 DEF InitSingleSig, AllKinds
    <3> QED
      BY <1>1, <2>3, <3>2, <3>3, AskedTyped DEF InitSingleSig, Ask
  <2>4. CASE StepDown(r)
    <3>1. poll' \in [Relayer -> Polls]
      BY ZenonT(60), <1>1, <2>4 DEF StepDown, Polls
    <3>2. busy' \in [Relayer -> SUBSET AllKinds]
      BY <1>1, <2>4 DEF StepDown
    <3> QED
      BY <1>1, <2>4, <3>1, <3>2 DEF StepDown, TypeOK
  <2>5. ASSUME NEW f \in feedback[r], HandleFeedback(r, f)
        PROVE  ClientsTyped
    <3>1. poll' \in [Relayer -> Polls]
      <4>1. poll[r].start \in Nat /\ poll[r].count \in Nat
        BY <1>1 DEF Polls
      <4>2. NextStart(r, f) \in Nat
        BY <4>1 DEF NextStart
      <4>3. CASE Mine(r, f) /\ f.id.kind = "block"
        <5>1. poll' = [poll EXCEPT ![r].status = FALSE, ![r].start = NextStart(r, f)]
          BY <2>5, <4>3 DEF HandleFeedback
        <5> QED
          BY <1>1, <4>2, <5>1 DEF Polls
      <4>4. CASE ~ (Mine(r, f) /\ f.id.kind = "block")
        BY <1>1, <2>5, <4>4 DEF HandleFeedback, clients
      <4> QED
        BY <4>3, <4>4
    <3>2. busy' \in [Relayer -> SUBSET AllKinds]
      BY <1>1, <2>5 DEF HandleFeedback, clients
    <3>3. feedback' \in [Relayer -> SUBSET Events]
      BY <1>1, <2>5 DEF HandleFeedback
    <3> QED
      BY <1>1, <2>5, <3>1, <3>2, <3>3 DEF HandleFeedback, TypeOK
  <2> QED
    BY <2>1, <2>2, <2>3, <2>4, <2>5 DEF ClientStep
<1>3. UNCHANGED <<chain, net, view, sigMap, signer, faults>>
  BY DEF ClientStep, InitSig, InitWithdrawSig, InitSingleSig, StepDown, HandleFeedback, Ask
<1>4. \A q \in Relayer : ViewOK(q)' /\ SignerOK(q)'
  BY <1>3 DEF TypeOK, ViewOK, SignerOK, chain, view
<1> QED
  BY <1>2, <1>3, <1>4 DEF TypeOK, chain, view, Votes

\* The signer's steps change what follows here; it is enough to type that.
OwnVotes ==
  \A q \in Relayer : \A m \in sigMap[q] :
    \E own \in sigMap[q] : own.id = m.id /\ own.lead /\ own.voter = q

SignerTyped ==
  /\ net \subseteq [to : Relayer, msg : VoteMsgs]
  /\ sigStartCh \in [Relayer -> Seq(Requests)]
  /\ sigMap \in [Relayer -> SUBSET VoteMsgs]
  /\ feedback \in [Relayer -> SUBSET Events]
  /\ DOMAIN signer = Relayer
  /\ faults \in Nat
  /\ \A q \in Relayer : SignerOK(q)
  /\ OwnVotes

LEMMA TypedParts == TypeOK => SignerTyped
  BY DEF TypeOK, SignerTyped, OwnVotes, Votes

LEMMA SignerStepTyped ==
  ASSUME TypeOK, UNCHANGED <<l2, accepted, view, asked>>, SignerTyped',
         poll' \in [Relayer -> Polls], busy' \in [Relayer -> SUBSET AllKinds],
         \A s \in pool' : s \in pool \/ (s.id \in RequestIds
                                          /\ (s.id.kind = "block" => s.count \in Nat))
  PROVE  TypeOK'
<1>1. \A q \in Relayer : ViewOK(q)'
  BY DEF TypeOK, ViewOK, view
<1>2. \A q \in Relayer : \A m \in sigMap'[q] :
        \E own \in Votes(q, m.id)' : own.lead /\ own.voter = q
  BY DEF SignerTyped, OwnVotes, Votes
<1>3. \A s \in pool' \cup accepted' :
        s.id \in RequestIds /\ (s.id.kind = "block" => s.count \in Nat)
  BY DEF TypeOK
<1> QED
  BY <1>1, <1>2, <1>3 DEF TypeOK, SignerTyped, view

\* Events on their way to the clients.
LEMMA Published ==
  ASSUME TypeOK, NEW r \in Relayer, NEW events \in SUBSET Events, Publish(r, events)
  PROVE  /\ feedback' \in [Relayer -> SUBSET Events]
         /\ feedback'[r] = feedback[r] \cup events
         /\ \A q \in Relayer \ {r} : feedback'[q] = feedback[q]
  BY DEF TypeOK, Publish

\* The end of a round leaves the other rounds as they are.
LEMMA RoundRemoved ==
  ASSUME TypeOK, NEW r \in Relayer, NEW id, RemoveSigMap(r, id)
  PROVE  /\ sigMap' \in [Relayer -> SUBSET VoteMsgs]
         /\ sigMap'[r] = {m \in sigMap[r] : m.id # id}
         /\ \A q \in Relayer \ {r} : sigMap'[q] = sigMap[q]
         /\ OwnVotes'
<1>1. /\ sigMap' \in [Relayer -> SUBSET VoteMsgs]
      /\ sigMap'[r] = {m \in sigMap[r] : m.id # id}
      /\ \A q \in Relayer \ {r} : sigMap'[q] = sigMap[q]
  BY DEF TypeOK, RemoveSigMap
<1>2. OwnVotes
  BY TypedParts DEF SignerTyped
<1> QED
  BY <1>1, <1>2 DEF OwnVotes

\* The signer's goroutine turns to something else.
LEMMA SignerTurned ==
  ASSUME TypeOK, NEW r \in Relayer, NEW s, SignerIs(r, s),
         pool \cup accepted \subseteq pool' \cup accepted',
         /\ s.at \in {"idle", "collect", "submit"}
         /\ s.at # "idle" => s.event \in Requests \cup VoteMsgs
         /\ s.at = "submit" => s.proposal \in pool' \cup accepted' /\ s.proposal.id = s.event.id
  PROVE  /\ DOMAIN signer' = Relayer
         /\ signer'[r] = s
         /\ \A q \in Relayer \ {r} : signer'[q] = signer[q]
         /\ \A q \in Relayer : SignerOK(q)'
<1>1. /\ DOMAIN signer' = Relayer /\ signer'[r] = s
      /\ \A q \in Relayer \ {r} : signer'[q] = signer[q]
  BY DEF TypeOK, SignerIs
<1>2. \A q \in Relayer : SignerOK(q)
  BY DEF TypeOK
<1>3. ASSUME NEW q \in Relayer PROVE SignerOK(q)'
  <2>1. CASE q = r
    BY <1>1, <2>1 DEF SignerOK
  <2>2. CASE q # r
    BY <1>1, <1>2, <2>2 DEF SignerOK
  <2> QED
    BY <2>1, <2>2
<1> QED
  BY <1>1, <1>3

LEMMA SignerKept ==
  ASSUME TypeOK, UNCHANGED signer, pool \cup accepted \subseteq pool' \cup accepted'
  PROVE  DOMAIN signer' = Relayer /\ \A q \in Relayer : SignerOK(q)'
  BY DEF TypeOK, SignerOK

\* The request at the head of the queue is taken.
LEMMA StartTaken ==
  ASSUME TypeOK, NEW r \in Relayer, sigStartCh[r] # <<>>, TakeStart(r)
  PROVE  /\ sigStartCh' \in [Relayer -> Seq(Requests)]
         /\ sigStartCh'[r] = Tail(sigStartCh[r])
         /\ \A q \in Relayer \ {r} : sigStartCh'[q] = sigStartCh[q]
  BY QueueTaken DEF TypeOK, TakeStart

\* A broadcast goes to the others.
LEMMA BroadcastTyped ==
  ASSUME NEW r \in Relayer, NEW m \in VoteMsgs
  PROVE  Broadcast(r, m) \subseteq [to : Relayer, msg : VoteMsgs]
<1> SUFFICES ASSUME NEW v \in Relayer
             PROVE  Packet(v, m) \in [to : Relayer, msg : VoteMsgs]
  BY DEF Broadcast
<1> QED
  BY DEF Packet

\* A vote opens a round as the proposer's own or joins one that is open.
LEMMA VoteStored ==
  ASSUME TypeOK, NEW r \in Relayer, NEW m \in VoteMsgs,
         sigMap' = [sigMap EXCEPT ![r] = @ \cup {m}],
         (m.lead = TRUE /\ m.voter = r) \/ m.id \in Rounds(r)
  PROVE  /\ sigMap' \in [Relayer -> SUBSET VoteMsgs]
         /\ sigMap'[r] = sigMap[r] \cup {m}
         /\ \A q \in Relayer \ {r} : sigMap'[q] = sigMap[q]
         /\ OwnVotes'
<1>1. /\ sigMap' \in [Relayer -> SUBSET VoteMsgs]
      /\ sigMap'[r] = sigMap[r] \cup {m}
      /\ \A q \in Relayer \ {r} : sigMap'[q] = sigMap[q]
  BY DEF TypeOK
<1>2. OwnVotes
  BY TypedParts DEF SignerTyped
<1>3. ASSUME NEW q \in Relayer, NEW n \in sigMap'[q]
      PROVE  \E own \in sigMap'[q] : own.id = n.id /\ own.lead /\ own.voter = q
  <2>1. CASE n \in sigMap[q]
    BY <1>1, <1>2, <2>1 DEF OwnVotes
  <2>2. CASE q = r /\ n = m
    <3>1. CASE m.lead = TRUE /\ m.voter = r
      BY <1>1, <2>2, <3>1
    <3>2. CASE m.id \in Rounds(r)
      BY <1>1, <1>2, <2>2, <3>2 DEF OwnVotes, Rounds
    <3> QED
      BY <3>1, <3>2
  <2> QED
    BY <1>1, <2>1, <2>2
<1> QED
  BY <1>1, <1>3 DEF OwnVotes

LEMMA HandleStartTyped ==
  ASSUME TypeOK, NEW r \in Relayer, HandleStart(r)
  PROVE  TypeOK'
<1> DEFINE e == Head(sigStartCh[r])
<1>1. SignerTyped /\ poll \in [Relayer -> Polls] /\ busy \in [Relayer -> SUBSET AllKinds]
  BY TypedParts DEF TypeOK
<1>2. sigStartCh[r] # <<>> /\ TakeStart(r) /\ UNCHANGED <<l2, accepted, view, clients, asked>>
  BY DEF HandleStart, StartRefused, StartRound, StartSingle, External, chain
<1>3. e \in Requests /\ sigStartCh' \in [Relayer -> Seq(Requests)]
  BY <1>2, QueueTaken, StartTaken
<1>4. CASE StartRefused(r)
  <2>1. /\ Publish(r, {Event("failed", e)}) /\ faults' \in Nat
        /\ UNCHANGED <<pool, net, sigMap, signer>>
    BY <1>1, <1>4 DEF StartRefused, External, chain, SignerTyped
  <2>2. feedback' \in [Relayer -> SUBSET Events]
    BY <1>3, <2>1, EventTyped, Published
  <2>3. SignerTyped'
    BY <1>1, <1>2, <1>3, <2>1, <2>2, SignerKept DEF SignerTyped, OwnVotes
  <2> QED
    BY <1>1, <1>2, <2>1, <2>3, SignerStepTyped DEF clients
<1>5. CASE StartRound(r)
  <2> DEFINE own == Vote(r, e, TRUE)
  <2>1. /\ net' = net \cup Broadcast(r, own)
        /\ sigMap' = [sigMap EXCEPT ![r] = @ \cup {own}]
        /\ SignerIs(r, IF e.id.kind = "block" THEN Collecting(e) ELSE Idle)
        /\ UNCHANGED <<pool, feedback, faults>>
    BY <1>5 DEF StartRound, External, chain
  <2>2. own \in VoteMsgs /\ own.id = e.id /\ own.voter = r /\ own.lead = TRUE
    BY <1>3, OwnVoteTyped
  <2>3. net' \subseteq [to : Relayer, msg : VoteMsgs]
    <3>1. Broadcast(r, own) \subseteq [to : Relayer, msg : VoteMsgs]
      BY <2>2, BroadcastTyped
    <3> HIDE DEF own
    <3> QED
      BY <1>1, <2>1, <3>1 DEF SignerTyped
  <2>4. sigMap' \in [Relayer -> SUBSET VoteMsgs] /\ OwnVotes'
    BY <2>1, <2>2, VoteStored
  <2>5. DOMAIN signer' = Relayer /\ \A q \in Relayer : SignerOK(q)'
    <3>1. CASE e.id.kind = "block"
      BY <1>2, <1>3, <2>1, <3>1, SignerTurned DEF Collecting
    <3>2. CASE e.id.kind # "block"
      BY <1>2, <2>1, <3>2, SignerTurned DEF Idle
    <3> QED
      BY <3>1, <3>2
  <2>6. SignerTyped'
    BY <1>1, <1>3, <2>1, <2>3, <2>4, <2>5 DEF SignerTyped
  <2> QED
    BY <1>1, <1>2, <2>1, <2>6, SignerStepTyped DEF clients
<1>6. CASE StartSingle(r)
  <2> DEFINE s == [id |-> e.id, time |-> e.time, votes |-> {}]
  <2>1. /\ pool' = pool \cup {s} /\ SignerIs(r, Submitting(e, s))
        /\ e.id.kind \in {"finalize", "cancel"}
        /\ UNCHANGED <<net, sigMap, feedback, faults>>
    BY <1>6 DEF StartSingle
  <2>2. DOMAIN signer' = Relayer /\ \A q \in Relayer : SignerOK(q)'
    BY <1>2, <1>3, <2>1, SignerTurned DEF Submitting
  <2>3. SignerTyped'
    BY <1>1, <1>3, <2>1, <2>2 DEF SignerTyped, OwnVotes
  <2>4. s.id \in RequestIds /\ s.id.kind # "block"
    BY <1>3, <2>1 DEF Requests
  <2> QED
    BY <1>1, <1>2, <2>1, <2>3, <2>4, SignerStepTyped DEF clients
<1> QED
  BY <1>4, <1>5, <1>6 DEF HandleStart

\* The effect of an answer, a failure or a vote.
LEMMA HandleReceiveTyped ==
  ASSUME TypeOK, NEW r \in Relayer, HandleReceive(r)
  PROVE  TypeOK'
<1>1. SignerTyped /\ poll \in [Relayer -> Polls] /\ busy \in [Relayer -> SUBSET AllKinds]
  BY TypedParts DEF TypeOK
<1>2. PICK p \in net :
        Answer(r, p.msg) \/ ReceiveFailed(r, p.msg) \/ ReceiveVote(r, p.msg)
          \/ ReceiveOther(r, p.msg)
  BY DEF HandleReceive
<1> DEFINE m == p.msg
<1>3. m \in VoteMsgs
  BY <1>1 DEF SignerTyped
<1>4. UNCHANGED <<chain, view, clients, asked, sigStartCh>>
  BY <1>2 DEF Answer, ReceiveFailed, ReceiveVote, ReceiveOther, External
<1>5. Delivered(r, m) \subseteq [to : Relayer, msg : VoteMsgs]
  BY <1>1 DEF SignerTyped, Delivered
<1>6. CASE Answer(r, m)
  <2>1. /\ net' = Delivered(r, m) \cup Broadcast(r, Vote(r, m, FALSE))
        /\ UNCHANGED <<sigMap, signer, feedback, faults>>
    BY <1>6 DEF Answer
  <2>2. Vote(r, m, FALSE) \in VoteMsgs
    BY <1>3, VoteTyped
  <2>3. SignerTyped'
    BY <1>1, <1>4, <1>5, <2>1, <2>2, BroadcastTyped, SignerKept
    DEF SignerTyped, OwnVotes, chain
  <2> QED
    BY <1>1, <1>4, <2>3, SignerStepTyped DEF chain, clients
<1>7. CASE ReceiveFailed(r, m)
  <2>1. /\ net' = Delivered(r, m) /\ Publish(r, {Event("failed", m)}) /\ faults' \in Nat
        /\ UNCHANGED <<sigMap, signer>>
    BY <1>1, <1>7 DEF ReceiveFailed, SignerTyped
  <2>2. feedback' \in [Relayer -> SUBSET Events]
    BY <1>3, <2>1, EventTyped, Published
  <2>3. SignerTyped'
    BY <1>1, <1>4, <1>5, <2>1, <2>2, SignerKept DEF SignerTyped, OwnVotes, chain
  <2> QED
    BY <1>1, <1>4, <2>3, SignerStepTyped DEF chain, clients
<1>8. CASE ReceiveVote(r, m)
  <2>1. /\ net' = Delivered(r, m) /\ Opened(r, m)
        /\ sigMap' = [sigMap EXCEPT ![r] = @ \cup {m}]
        /\ SignerIs(r, Collecting(m))
        /\ UNCHANGED <<feedback, faults>>
    BY <1>8 DEF ReceiveVote
  <2>2. sigMap' \in [Relayer -> SUBSET VoteMsgs] /\ OwnVotes'
    BY <1>3, <2>1, VoteStored DEF Opened
  <2>3. DOMAIN signer' = Relayer /\ \A q \in Relayer : SignerOK(q)'
    BY <1>3, <1>4, <2>1, SignerTurned DEF Collecting, chain
  <2>4. SignerTyped'
    BY <1>1, <1>4, <1>5, <2>1, <2>2, <2>3 DEF SignerTyped
  <2> QED
    BY <1>1, <1>4, <2>4, SignerStepTyped DEF chain, clients
<1>9. CASE ReceiveOther(r, m)
  <2>1. /\ net' = Delivered(r, m) /\ RemoveSigMap(r, m.id)
        /\ Publish(r, {Event("finish", m)})
        /\ UNCHANGED <<signer, faults>>
    BY <1>9 DEF ReceiveOther
  <2>2. feedback' \in [Relayer -> SUBSET Events]
    BY <1>3, <2>1, EventTyped, Published
  <2>3. SignerTyped'
    BY <1>1, <1>4, <1>5, <2>1, <2>2, RoundRemoved, SignerKept DEF SignerTyped, chain
  <2> QED
    BY <1>1, <1>4, <2>3, SignerStepTyped DEF chain, clients
<1> QED
  BY <1>2, <1>6, <1>7, <1>8, <1>9

\* A submission is made from votes of an open round of a typed request.
LEMMA Aggregated ==
  ASSUME TypeOK, NEW r \in Relayer, NEW e \in Requests \cup VoteMsgs,
         NEW s \in Aggregate(r, e)
  PROVE  /\ s.id = e.id /\ s.votes = Votes(r, e.id) /\ s.id \in RequestIds
         /\ \E m \in Votes(r, e.id) : m.lead /\ s.count = m.count
         /\ s.count \in Nat
         /\ Enough(s.votes)
<1>1. PICK m \in Votes(r, e.id) :
        /\ m.lead /\ Enough(Votes(r, e.id))
        /\ s = [id |-> e.id, time |-> m.time, count |-> m.count, epoch |-> m.epoch,
                sequence |-> m.sequence, votes |-> Votes(r, e.id)]
  BY DEF Aggregate
<1>2. m \in VoteMsgs
  BY <1>1 DEF Votes, TypeOK
<1>3. s.id = e.id /\ s.votes = Votes(r, e.id) /\ s.count = m.count
  BY <1>1
<1>4. e.id \in RequestIds /\ m.count \in Nat
  BY <1>2 DEF Requests, VoteMsgs
<1> QED
  BY <1>1, <1>3, <1>4

\* The outcomes of the signer's own work.
LEMMA WorkTyped ==
  ASSUME TypeOK, NEW r \in Relayer, Work(r)
  PROVE  TypeOK'
<1> DEFINE e == signer[r].event
<1>1. SignerTyped /\ poll \in [Relayer -> Polls] /\ busy \in [Relayer -> SUBSET AllKinds]
  BY TypedParts DEF TypeOK
<1>2. /\ e \in Requests \cup VoteMsgs
      /\ UNCHANGED <<l2, accepted, view, clients, asked, net, sigStartCh>>
  BY <1>1 DEF Work, CollectMore, Submit, SubmitOk, SubmitFailed, External, chain, SignerTyped,
              SignerOK
<1>3. CASE CollectMore(r)
  <2>1. /\ SignerIs(r, Idle) /\ UNCHANGED <<pool, faults>>
        /\ \/ RemoveSigMap(r, e.id) /\ Publish(r, {Event("finish", e)})
           \/ UNCHANGED <<sigMap, feedback>>
    BY <1>3 DEF CollectMore, External, chain
  <2>2. DOMAIN signer' = Relayer /\ \A q \in Relayer : SignerOK(q)'
    BY <1>2, <2>1, SignerTurned DEF Idle
  <2>3. /\ sigMap' \in [Relayer -> SUBSET VoteMsgs] /\ OwnVotes'
        /\ feedback' \in [Relayer -> SUBSET Events]
    <3>1. CASE RemoveSigMap(r, e.id) /\ Publish(r, {Event("finish", e)})
      BY <1>2, <3>1, RoundRemoved, EventTyped, Published
    <3>2. CASE UNCHANGED <<sigMap, feedback>>
      BY <1>1, <3>2 DEF SignerTyped, OwnVotes
    <3> QED
      BY <2>1, <3>1, <3>2
  <2>4. SignerTyped'
    BY <1>1, <1>2, <2>1, <2>2, <2>3 DEF SignerTyped
  <2> QED
    BY <1>1, <1>2, <2>1, <2>4, SignerStepTyped DEF clients
<1>4. CASE Submit(r)
  <2>1. PICK s \in Aggregate(r, e) :
          pool' = pool \cup {s} /\ SignerIs(r, Submitting(e, s))
    BY <1>4 DEF Submit
  <2>2. s.id = e.id /\ s.id \in RequestIds /\ s.count \in Nat
    BY <1>2, Aggregated
  <2>3. DOMAIN signer' = Relayer /\ \A q \in Relayer : SignerOK(q)'
    BY <1>2, <2>1, <2>2, SignerTurned DEF Submitting
  <2>4. SignerTyped'
    BY <1>1, <1>2, <1>4, <2>3 DEF SignerTyped, Submit, OwnVotes
  <2> QED
    BY <1>1, <1>2, <2>1, <2>2, <2>4, SignerStepTyped DEF clients
<1>5. CASE SubmitOk(r)
  <2>1. /\ SignerIs(r, Idle) /\ RemoveSigMap(r, e.id) /\ UNCHANGED pool /\ faults' \in Nat
        /\ \/ \E outcome \in {"finish", "failed"} : Publish(r, {Event(outcome, e)})
           \/ UNCHANGED feedback
    BY <1>1, <1>5 DEF SubmitOk, External, chain, SignerTyped
  <2>2. DOMAIN signer' = Relayer /\ \A q \in Relayer : SignerOK(q)'
    BY <1>2, <2>1, SignerTurned DEF Idle
  <2>3. feedback' \in [Relayer -> SUBSET Events]
    <3>1. ASSUME NEW outcome \in {"finish", "failed"}, Publish(r, {Event(outcome, e)})
          PROVE  feedback' \in [Relayer -> SUBSET Events]
      BY ZenonT(60), <1>2, <3>1, EventTyped, Published
    <3> QED
      BY <1>1, <2>1, <3>1 DEF SignerTyped
  <2>4. SignerTyped'
    BY <1>1, <1>2, <2>1, <2>2, <2>3, RoundRemoved DEF SignerTyped
  <2> QED
    BY <1>1, <1>2, <2>1, <2>4, SignerStepTyped DEF clients
<1>6. CASE SubmitFailed(r)
  <2>1. /\ SignerIs(r, Idle) /\ Publish(r, Failure(e)) /\ UNCHANGED <<pool, faults>>
        /\ RemoveSigMap(r, e.id) \/ UNCHANGED sigMap
    BY <1>6 DEF SubmitFailed, External, chain
  <2>2. DOMAIN signer' = Relayer /\ \A q \in Relayer : SignerOK(q)'
    BY <1>2, <2>1, SignerTurned DEF Idle
  <2>3. Failure(e) \in SUBSET Events
    BY <1>2, EventTyped DEF Failure
  <2>4. feedback' \in [Relayer -> SUBSET Events]
    BY <2>1, <2>3, Published
  <2>5. sigMap' \in [Relayer -> SUBSET VoteMsgs] /\ OwnVotes'
    BY <1>1, <2>1, RoundRemoved DEF SignerTyped, OwnVotes
  <2>6. SignerTyped'
    BY <1>1, <1>2, <2>1, <2>2, <2>4, <2>5 DEF SignerTyped
  <2> QED
    BY <1>1, <1>2, <2>1, <2>6, SignerStepTyped DEF clients
<1> QED
  BY <1>3, <1>4, <1>5, <1>6 DEF Work

\* What a timeout reports: the proposer's own vote of the round.
LEMMA TimeoutReported ==
  ASSUME TypeOK, NEW r \in Relayer, NEW id
  PROVE  /\ TimeoutReport(r, id) \in SUBSET Events
         /\ \A f \in TimeoutReport(r, id) : f.id = id /\ f.outcome = "timeout"
         /\ id \in Rounds(r) => TimeoutReport(r, id) # {}
<1>1. \A m \in Votes(r, id) : m \in VoteMsgs /\ m.id = id
  BY DEF TypeOK, Votes
<1>2. OwnVotes
  BY TypedParts DEF SignerTyped
<1>3. ASSUME NEW m \in Votes(r, id)
      PROVE  /\ Event("timeout", m) \in Events
             /\ Event("timeout", m).id = id /\ Event("timeout", m).outcome = "timeout"
  BY <1>1, EventTyped
<1>4. ASSUME id \in Rounds(r)
      PROVE  \E m \in Votes(r, id) : m.voter = r
  BY <1>2, <1>4 DEF OwnVotes, Rounds, Votes
<1> QED
  BY <1>3, <1>4 DEF TimeoutReport

LEMMA TimeoutTyped ==
  ASSUME TypeOK, NEW r \in Relayer, NEW id, Timeout(r, id)
  PROVE  TypeOK'
<1>1. SignerTyped /\ poll \in [Relayer -> Polls] /\ busy \in [Relayer -> SUBSET AllKinds]
  BY TypedParts DEF TypeOK
<1>2. /\ UNCHANGED <<chain, view, clients, asked, net, sigStartCh, signer, faults>>
      /\ Publish(r, TimeoutReport(r, id)) /\ RemoveSigMap(r, id)
  BY DEF Timeout, External
<1>3. SignerTyped'
  BY <1>1, <1>2, TimeoutReported, Published, RoundRemoved, SignerKept DEF SignerTyped, chain
<1> QED
  BY <1>1, <1>2, <1>3, SignerStepTyped DEF chain, clients

LEMMA RestartTyped ==
  ASSUME TypeOK, NEW r \in Relayer, Restart(r)
  PROVE  TypeOK'
<1>1. SignerTyped /\ poll \in [Relayer -> Polls] /\ busy \in [Relayer -> SUBSET AllKinds]
  BY TypedParts DEF TypeOK
<1>2. RequestId("block", r, StartBtcHeight) \in RequestIds
  BY HeightAssumption DEF RequestId, RequestIds, AllKinds
<1>3. poll' \in [Relayer -> Polls] /\ busy' \in [Relayer -> SUBSET AllKinds]
  BY <1>1, <1>2 DEF Restart, Polls
<1>4. DOMAIN signer' = Relayer /\ \A q \in Relayer : SignerOK(q)'
  BY SignerTurned DEF Restart, Idle, chain
<1>5. /\ sigStartCh' \in [Relayer -> Seq(Requests)]
      /\ sigMap' \in [Relayer -> SUBSET VoteMsgs] /\ OwnVotes'
      /\ feedback' \in [Relayer -> SUBSET Events] /\ faults' \in Nat
  BY <1>1 DEF Restart, SignerTyped, OwnVotes
<1>6. SignerTyped'
  BY <1>1, <1>4, <1>5 DEF Restart, SignerTyped
<1> QED
  BY <1>3, <1>6, SignerStepTyped DEF Restart, chain

\* Every step of the system preserves the types.
LEMMA StepTyped == TypeOK /\ [Next]_vars => TypeOK'
<1> SUFFICES ASSUME TypeOK, [Next]_vars PROVE TypeOK'
  OBVIOUS
<1>1. CASE UNCHANGED vars
  BY <1>1 DEF TypeOK, ViewOK, SignerOK, Votes, vars, chain, view, clients
<1>2. CASE Layer2Step
  BY <1>2, Layer2Typed
<1>3. ASSUME NEW r \in Relayer,
             ViewStep(r) \/ ClientStep(r) \/ HandleStart(r) \/ HandleReceive(r) \/ Work(r)
               \/ CheckTimeouts(r) \/ Restart(r)
      PROVE  TypeOK'
  BY <1>3, ViewStepTyped, ClientStepTyped, HandleStartTyped, HandleReceiveTyped, WorkTyped,
     TimeoutTyped, RestartTyped DEF CheckTimeouts
<1> QED
  BY <1>1, <1>2, <1>3 DEF Next

\* TypeOK holds of the rounds of any number of relayers (internal/bls/signer.go).
THEOREM TypesCorrect == Spec => []TypeOK
  BY InitTyped, StepTyped, PTL DEF Spec

-----------------------------------------------------------------------------
(* What a step may do to the queues, the rounds and the network *)

ActorStep(r) ==
  ViewStep(r) \/ ClientStep(r) \/ HandleStart(r) \/ HandleReceive(r) \/ Work(r)
    \/ CheckTimeouts(r) \/ Restart(r)

LEMMA NextCases ==
  [Next]_vars => UNCHANGED vars \/ Layer2Step \/ \E r \in Relayer : ActorStep(r)
  BY DEF Next, ActorStep

\* a request as a client of q makes it
AskedBy(q, e) ==
  e \in Requests /\ e.voter = q /\ e.id.proposer = q /\ Confirmed(e)

\* the queue of q gains at most one request of q's own clients
QueueChange(q) ==
  \A i \in DOMAIN sigStartCh'[q] :
    \/ \E j \in DOMAIN sigStartCh[q] : sigStartCh'[q][i] = sigStartCh[q][j]
    \/ AskedBy(q, sigStartCh'[q][i])

\* the votes of q gain at most the vote that opens a round or one that joins it
Opens(q, m) ==
  /\ m \in VoteMsgs /\ m.id \notin Rounds(q) /\ m.lead = TRUE /\ m.voter = q
  /\ \E i \in DOMAIN sigStartCh[q] : m.id = sigStartCh[q][i].id /\ m.count = sigStartCh[q][i].count

Joins(q, m) == m \in VoteMsgs /\ Packet(q, m) \in net /\ NewVote(q, m)

MapChange(q) ==
  \/ sigMap'[q] \subseteq sigMap[q]
  \/ \E m : sigMap'[q] = sigMap[q] \cup {m} /\ (Opens(q, m) \/ Joins(q, m))

\* A client's request is its relayer's own and names confirmed blocks.
LEMMA ClientAsks ==
  ASSUME TypeOK, NEW r \in Relayer, ClientStep(r)
  PROVE  \/ sigStartCh' = sigStartCh
         \/ \E e : Ask(r, e) /\ AskedBy(r, e)
<1>1. scanned[r] \in Nat /\ LatestBtcHeight(r) \in Nat /\ asked \in Nat
  BY ViewTyped DEF TypeOK
<1>2. CASE InitSig(r)
  <2>1. PICK first \in Nat, count \in Nat :
          /\ first = LatestBtcHeight(r) + 1
          /\ count > 0 /\ count <= scanned[r] - LatestBtcHeight(r)
          /\ RequestId("block", r, first) \in RequestIds
          /\ Ask(r, Request(r, RequestId("block", r, first), count))
    BY <1>2, InitSigTyped
  <2> DEFINE e == Request(r, RequestId("block", r, first), count)
  <2>2. e \in Requests
    BY <2>1, RequestTyped
  <2>3. e.voter = r /\ e.id.proposer = r /\ e.id.number = first /\ e.count = count
    BY DEF Request, RequestId
  <2>4. Confirmed(e)
    BY <1>1, <2>1, <2>3 DEF Confirmed
  <2> QED
    BY <2>1, <2>2, <2>3, <2>4 DEF AskedBy
<1>3. ASSUME NEW k \in {"order", "finalize", "cancel"}, NEW n \in Nat,
             Ask(r, Request(r, RequestId(k, r, n), 0))
      PROVE  \E e : Ask(r, e) /\ AskedBy(r, e)
  <2> DEFINE e == Request(r, RequestId(k, r, n), 0)
  <2>1. RequestId(k, r, n) \in RequestIds
    BY DEF RequestId, RequestIds, AllKinds
  <2>2. e \in Requests
    BY <2>1, RequestTyped
  <2>3. e.voter = r /\ e.id.proposer = r /\ e.id.kind = k
    BY DEF Request, RequestId
  <2>4. AskedBy(r, e)
    BY <2>2, <2>3 DEF AskedBy, Confirmed
  <2> QED
    BY <1>3, <2>4
<1>4. CASE InitWithdrawSig(r)
  <2>1. asked + 1 \in Nat
    BY <1>1
  <2> QED
    BY <1>3, <1>4, <2>1 DEF InitWithdrawSig
<1>5. ASSUME NEW k \in {"finalize", "cancel"}, NEW n \in Due, InitSingleSig(r, k, n)
      PROVE  \E e : Ask(r, e) /\ AskedBy(r, e)
  BY <1>3, <1>5, LimitAssumption DEF InitSingleSig
<1>6. CASE StepDown(r) \/ \E f \in feedback[r] : HandleFeedback(r, f)
  BY <1>6 DEF StepDown, HandleFeedback
<1> QED
  BY <1>2, <1>4, <1>5, <1>6 DEF ClientStep

LEMMA QueueStep ==
  ASSUME TypeOK, [Next]_vars, NEW q \in Relayer
  PROVE  QueueChange(q)
<1>1. CASE sigStartCh'[q] = sigStartCh[q]
  BY <1>1 DEF QueueChange
<1>2. CASE UNCHANGED vars \/ Layer2Step
  BY <1>1, <1>2 DEF vars, Layer2Step, Include, Elect
<1>3. ASSUME NEW r \in Relayer, ActorStep(r)
      PROVE  QueueChange(q)
  <2>1. CASE ViewStep(r) \/ HandleReceive(r) \/ Work(r) \/ CheckTimeouts(r)
    <3>1. sigStartCh' = sigStartCh
      BY <2>1 DEF ViewStep, UpdateEpochVoter, UpdateLatestBtc, ConfirmBtcBlock, CatchUp,
                  HandleReceive, Answer, ReceiveFailed, ReceiveVote, ReceiveOther,
                  Work, CollectMore, Submit, SubmitOk, SubmitFailed, CheckTimeouts, Timeout
    <3> QED
      BY <1>1, <3>1
  <2>2. CASE ClientStep(r)
    <3>1. ASSUME NEW e, Ask(r, e), AskedBy(r, e)
          PROVE  QueueChange(q)
      <4>1. CASE q = r
        <5>1. sigStartCh[r] \in Seq(Requests) /\ e \in Requests
          BY <3>1 DEF TypeOK, AskedBy
        <5>2. sigStartCh'[r] = Append(sigStartCh[r], e)
          BY <3>1, <5>1, AskedTyped
        <5>3. \A i \in DOMAIN Append(sigStartCh[r], e) :
                \/ i \in DOMAIN sigStartCh[r] /\ Append(sigStartCh[r], e)[i] = sigStartCh[r][i]
                \/ Append(sigStartCh[r], e)[i] = e
          BY <5>1
        <5> QED
          BY <3>1, <4>1, <5>2, <5>3 DEF QueueChange
      <4>2. CASE q # r
        BY <1>1, <3>1, <4>2, AskedTyped DEF AskedBy
      <4> QED
        BY <4>1, <4>2
    <3> QED
      BY <1>1, <2>2, <3>1, ClientAsks
  <2>3. CASE HandleStart(r)
    <3>1. sigStartCh[r] # <<>> /\ TakeStart(r)
      BY <2>3 DEF HandleStart, StartRefused, StartRound, StartSingle
    <3>2. CASE q = r
      <4>1. sigStartCh'[r] = Tail(sigStartCh[r])
        BY <3>1, StartTaken
      <4>2. \A i \in DOMAIN Tail(sigStartCh[r]) :
              /\ i + 1 \in DOMAIN sigStartCh[r]
              /\ Tail(sigStartCh[r])[i] = sigStartCh[r][i + 1]
        BY <3>1, QueueTaken
      <4> QED
        BY <3>2, <4>1, <4>2 DEF QueueChange
    <3>3. CASE q # r
      BY <1>1, <3>1, <3>3, StartTaken
    <3> QED
      BY <3>2, <3>3
  <2>4. CASE Restart(r)
    <3>1. CASE q = r
      <4>1. sigStartCh'[q] = <<>>
        BY <2>4, <3>1 DEF Restart, TypeOK
      <4> QED
        BY <4>1 DEF QueueChange
    <3>2. CASE q # r
      BY <1>1, <2>4, <3>2 DEF Restart, TypeOK
    <3> QED
      BY <3>1, <3>2
  <2> QED
    BY <1>3, <2>1, <2>2, <2>3, <2>4 DEF ActorStep
<1> QED
  BY <1>2, <1>3, NextCases

LEMMA MapStep ==
  ASSUME TypeOK, [Next]_vars, NEW q \in Relayer
  PROVE  MapChange(q)
<1>1. CASE sigMap'[q] \subseteq sigMap[q]
  BY <1>1 DEF MapChange
<1>2. CASE UNCHANGED vars \/ Layer2Step
  BY <1>1, <1>2 DEF vars, Layer2Step, Include, Elect
<1>3. ASSUME NEW r \in Relayer, NEW id, RemoveSigMap(r, id)
      PROVE  MapChange(q)
  BY <1>1, <1>3, RoundRemoved
<1>4. ASSUME NEW r \in Relayer, ActorStep(r)
      PROVE  MapChange(q)
  <2>1. CASE ViewStep(r) \/ ClientStep(r) \/ StartRefused(r) \/ StartSingle(r) \/ Submit(r)
    <3>1. sigMap' = sigMap
      BY <2>1 DEF ViewStep, UpdateEpochVoter, UpdateLatestBtc, ConfirmBtcBlock, CatchUp,
                  ClientStep, InitSig, InitWithdrawSig, InitSingleSig, StepDown, HandleFeedback,
                  Ask, StartRefused, StartSingle, Submit
    <3> QED
      BY <1>1, <3>1
  <2>2. CASE StartRound(r)
    <3> DEFINE e == Head(sigStartCh[r])
               own == Vote(r, e, TRUE)
    <3>1. /\ sigStartCh[r] # <<>> /\ e.id \notin Rounds(r)
          /\ sigMap' = [sigMap EXCEPT ![r] = @ \cup {own}]
      BY <2>2 DEF StartRound, Startable
    <3>2. e \in Requests /\ e = sigStartCh[r][1] /\ 1 \in DOMAIN sigStartCh[r]
      BY <3>1, QueueTaken
    <3>3. /\ own \in VoteMsgs /\ own.id = e.id /\ own.voter = r
          /\ own.lead = TRUE /\ own.count = e.count
      BY <3>2, OwnVoteTyped
    <3>4. Opens(r, own)
      BY <3>1, <3>2, <3>3 DEF Opens
    <3>5. CASE q = r
      BY <3>1, <3>4, <3>5 DEF MapChange, TypeOK
    <3>6. CASE q # r
      BY <1>1, <3>1, <3>6 DEF TypeOK
    <3> QED
      BY <3>5, <3>6
  <2>3. CASE HandleReceive(r)
    <3>1. PICK p \in net :
            Answer(r, p.msg) \/ ReceiveFailed(r, p.msg) \/ ReceiveVote(r, p.msg)
              \/ ReceiveOther(r, p.msg)
      BY <2>3 DEF HandleReceive
    <3>2. CASE Answer(r, p.msg) \/ ReceiveFailed(r, p.msg)
      BY <1>1, <3>2 DEF Answer, ReceiveFailed
    <3>3. CASE ReceiveOther(r, p.msg)
      BY <1>3, <3>3 DEF ReceiveOther
    <3>4. CASE ReceiveVote(r, p.msg)
      <4>1. p.msg \in VoteMsgs
        BY DEF TypeOK
      <4>2. /\ sigMap' = [sigMap EXCEPT ![r] = @ \cup {p.msg}]
            /\ Joins(r, p.msg)
        BY <3>4, <4>1 DEF ReceiveVote, Take, Joins
      <4>3. CASE q = r
        BY <4>2, <4>3 DEF MapChange, TypeOK
      <4>4. CASE q # r
        BY <1>1, <4>2, <4>4 DEF TypeOK
      <4> QED
        BY <4>3, <4>4
    <3> QED
      BY <3>1, <3>2, <3>3, <3>4
  <2>4. CASE CollectMore(r) \/ SubmitOk(r) \/ SubmitFailed(r) \/ CheckTimeouts(r)
    BY <1>1, <1>3, <2>4 DEF CollectMore, SubmitOk, SubmitFailed, CheckTimeouts, Timeout
  <2>5. CASE Restart(r)
    BY <1>1, <2>5 DEF Restart, TypeOK
  <2> QED
    BY <1>4, <2>1, <2>2, <2>3, <2>4, <2>5 DEF ActorStep, HandleStart, Work
<1> QED
  BY <1>2, <1>4, NextCases

\* Rounds stay a relayer's own, with one vote of each voter.
LEMMA RoundsStep == TypeOK /\ RoundsOK /\ [Next]_vars => RoundsOK'
<1> SUFFICES ASSUME TypeOK, RoundsOK, [Next]_vars, NEW q \in Relayer
             PROVE  /\ \A i \in DOMAIN sigStartCh'[q] :
                         sigStartCh'[q][i].id.proposer = q /\ sigStartCh'[q][i].voter = q
                    /\ IsFiniteSet(sigMap'[q])
                    /\ \A m \in sigMap'[q] : m.lead => m.voter = q /\ m.id.proposer = q
                    /\ \A m, n \in sigMap'[q] : m.id = n.id /\ m.voter = n.voter => m = n
  BY DEF RoundsOK
<1>1. \A i \in DOMAIN sigStartCh'[q] :
        sigStartCh'[q][i].id.proposer = q /\ sigStartCh'[q][i].voter = q
  BY QueueStep DEF QueueChange, AskedBy, RoundsOK
<1>2. CASE sigMap'[q] \subseteq sigMap[q]
  BY <1>1, <1>2, FS_Subset DEF RoundsOK
<1>3. ASSUME NEW m, sigMap'[q] = sigMap[q] \cup {m}, Opens(q, m) \/ Joins(q, m)
      PROVE  /\ IsFiniteSet(sigMap'[q])
             /\ \A n \in sigMap'[q] : n.lead => n.voter = q /\ n.id.proposer = q
             /\ \A n, o \in sigMap'[q] : n.id = o.id /\ n.voter = o.voter => n = o
  <2>1. IsFiniteSet(sigMap'[q])
    <3>1. IsFiniteSet(sigMap[q])
      BY DEF RoundsOK
    <3>2. IsFiniteSet(sigMap[q] \cup {m})
      BY <3>1, FS_AddElement
    <3> QED
      BY <1>3, <3>2
  <2>2. m.lead => m.voter = q /\ m.id.proposer = q
    BY <1>3 DEF Opens, Joins, NewVote, RoundsOK
  <2>3. \A n \in sigMap[q] : n.id = m.id => n.voter # m.voter
    BY <1>3 DEF Opens, Joins, NewVote, Rounds, Votes
  <2> QED
    BY <1>3, <2>1, <2>2, <2>3 DEF RoundsOK
<1> QED
  BY <1>1, <1>2, <1>3, MapStep DEF MapChange

\* A relayer opens rounds for its own requests only, and a round holds one vote of
\* each voter (handleSigReceiveNewBlock and handleSigReceiveSendOrder look it up first).
THEOREM RoundsCorrect == Spec => []RoundsOK
<1>1. Init => RoundsOK
  BY FS_EmptySet DEF Init, RoundsOK
<1> QED
  BY <1>1, RoundsStep, TypesCorrect, PTL DEF Spec

-----------------------------------------------------------------------------
(* What reaches layer 2 *)

\* the quorum of one proposal
Quorate(s) ==
  s.id.kind \in {"block", "order"} =>
    /\ Cardinality({m.voter : m \in s.votes}) >= Threshold(Cardinality(Relayer))
    /\ \E m \in s.votes : m.lead /\ m.voter = s.id.proposer

\* What the signer puts into a round's proposal has a quorum.
LEMMA AggregatedQuorum ==
  ASSUME TypeOK, RoundsOK, NEW r \in Relayer, NEW e \in Requests \cup VoteMsgs,
         NEW s \in Aggregate(r, e)
  PROVE  Quorate(s)
<1> DEFINE votes == Votes(r, e.id)
           voters == {m.voter : m \in votes}
<1>1. s.id = e.id /\ s.votes = votes /\ Enough(votes) /\ \E m \in votes : m.lead
  BY Aggregated
<1>2. IsFiniteSet(votes)
  BY FS_Subset DEF RoundsOK, Votes
<1>3. Cardinality(voters) = Cardinality(votes)
  <2> DEFINE f == [m \in votes |-> m.voter]
  <2>1. f \in [votes -> voters] /\ \A v \in voters : \E m \in votes : f[m] = v
    OBVIOUS
  <2>2. \A m, n \in votes : f[m] = f[n] => m = n
    BY DEF RoundsOK, Votes
  <2>3. f \in Bijection(votes, voters)
    BY <2>1, <2>2, Fun_IsBij
  <2>4. ExistsBijection(votes, voters)
    BY <2>3 DEF ExistsBijection
  <2> QED
    BY <1>2, <2>4, FS_Bijection
<1>4. \E m \in votes : m.lead /\ m.voter = e.id.proposer
  BY <1>1 DEF RoundsOK, Votes
<1> QED
  BY <1>1, <1>3, <1>4 DEF Quorate, Enough

\* Proposals come from the signer and stay.
LEMMA PoolStep ==
  ASSUME TypeOK, [Next]_vars, NEW s \in pool' \cup accepted'
  PROVE  \/ s \in pool \cup accepted
         \/ s.id.kind \in {"finalize", "cancel"}
         \/ \E r \in Relayer : \E e \in Requests \cup VoteMsgs : s \in Aggregate(r, e)
<1>1. CASE UNCHANGED vars \/ Layer2Step
  BY <1>1 DEF vars, chain, Layer2Step, Include, Elect
<1>2. ASSUME NEW r \in Relayer, ActorStep(r), ~ StartSingle(r), ~ Submit(r)
      PROVE  UNCHANGED <<pool, accepted>>
  <2>1. CASE ViewStep(r) \/ ClientStep(r) \/ HandleReceive(r) \/ CheckTimeouts(r) \/ Restart(r)
    BY <2>1 DEF chain, External,
                ViewStep, UpdateEpochVoter, UpdateLatestBtc, ConfirmBtcBlock, CatchUp,
                ClientStep, InitSig, InitWithdrawSig, InitSingleSig, StepDown, HandleFeedback,
                Ask, HandleReceive, Answer, ReceiveFailed, ReceiveVote, ReceiveOther,
                CheckTimeouts, Timeout, Restart
  <2>2. CASE HandleStart(r) \/ Work(r)
    BY <1>2, <2>2 DEF chain, External, HandleStart, StartRefused, StartRound, Work,
                      CollectMore, SubmitOk, SubmitFailed
  <2> QED
    BY <1>2, <2>1, <2>2 DEF ActorStep
<1>3. ASSUME NEW r \in Relayer, StartSingle(r)
      PROVE  s \in pool \cup accepted \/ s.id.kind \in {"finalize", "cancel"}
  BY <1>3 DEF StartSingle
<1>4. ASSUME NEW r \in Relayer, Submit(r)
      PROVE  \/ s \in pool \cup accepted
             \/ \E e \in Requests \cup VoteMsgs : s \in Aggregate(r, e)
  <2>1. signer[r].event \in Requests \cup VoteMsgs
    BY <1>4 DEF TypeOK, SignerOK, Submit
  <2> QED
    BY <1>4, <2>1 DEF Submit
<1> QED
  BY <1>1, <1>2, <1>3, <1>4, NextCases

\* What is submitted was signed by the proposer and by enough relayers, each counted
\* once (aggSigNewBlock and aggSigSendOrder in internal/bls).
THEOREM QuorumCorrect == Spec => []SubmittedHasQuorum
<1>1. Init => SubmittedHasQuorum
  BY DEF Init, SubmittedHasQuorum
<1>2. TypeOK /\ RoundsOK /\ SubmittedHasQuorum /\ [Next]_vars => SubmittedHasQuorum'
  <2> SUFFICES ASSUME TypeOK, RoundsOK, SubmittedHasQuorum, [Next]_vars,
                      NEW s \in pool' \cup accepted'
               PROVE  Quorate(s)
    BY DEF SubmittedHasQuorum, Quorate
  <2>1. CASE s \in pool \cup accepted
    BY <2>1 DEF SubmittedHasQuorum, Quorate
  <2>2. CASE s.id.kind \in {"finalize", "cancel"}
    BY <2>2 DEF Quorate
  <2> QED
    BY <2>1, <2>2, PoolStep, AggregatedQuorum
<1> QED
  BY <1>1, <1>2, TypesCorrect, RoundsCorrect, PTL DEF Spec

-----------------------------------------------------------------------------
(* Votes are for confirmed blocks *)

\* What a relayer has confirmed, it has confirmed for good.
LEMMA ScannedStep ==
  ASSUME TypeOK, [Next]_vars, NEW q \in Relayer
  PROVE  scanned[q] \in Nat /\ scanned'[q] \in Nat /\ scanned[q] <= scanned'[q]
<1>1. scanned \in [Relayer -> Nat]
  BY DEF TypeOK
<1>2. CASE UNCHANGED vars \/ Layer2Step
  <2>1. UNCHANGED view
    BY <1>2 DEF vars, Layer2Step, Include, Elect
  <2> QED
    BY <1>1, <2>1 DEF view
<1>3. ASSUME NEW r \in Relayer, ActorStep(r)
      PROVE  scanned' = scanned \/ scanned' = [scanned EXCEPT ![r] = @ + 1]
  <2>1. CASE ViewStep(r) \/ ClientStep(r)
    BY <2>1 DEF view, ViewStep, UpdateEpochVoter, UpdateLatestBtc, ConfirmBtcBlock, CatchUp,
                ClientStep, InitSig, InitWithdrawSig, InitSingleSig, StepDown, HandleFeedback, Ask
  <2>2. CASE HandleStart(r) \/ HandleReceive(r)
    BY <2>2 DEF view, External, HandleStart, StartRefused, StartRound, StartSingle,
                HandleReceive, Answer, ReceiveFailed, ReceiveVote, ReceiveOther
  <2>3. CASE Work(r) \/ CheckTimeouts(r) \/ Restart(r)
    BY <2>3 DEF view, External, Work, CollectMore, Submit, SubmitOk, SubmitFailed,
                CheckTimeouts, Timeout, Restart
  <2> QED
    BY <1>3, <2>1, <2>2, <2>3 DEF ActorStep
<1> QED
  BY <1>1, <1>2, <1>3, NextCases

LEMMA StaysConfirmed ==
  ASSUME TypeOK, [Next]_vars, NEW m \in Requests \cup VoteMsgs, Confirmed(m)
  PROVE  Confirmed(m)'
<1>1. m.voter \in Relayer /\ m.id.number \in Nat /\ m.count \in Nat
  BY DEF Requests, VoteMsgs, RequestIds
<1>2. /\ scanned[m.voter] \in Nat /\ scanned'[m.voter] \in Nat
      /\ scanned[m.voter] <= scanned'[m.voter]
  BY <1>1, ScannedStep
<1> QED
  BY <1>1, <1>2 DEF Confirmed

\* A new message is the vote that opens a round or a voter's answer.
LEMMA NetStep ==
  ASSUME TypeOK, [Next]_vars, NEW p \in net'
  PROVE  \/ p \in net
         \/ \E r \in Relayer :
              /\ sigStartCh[r] # <<>>
              /\ p.msg = Vote(r, Head(sigStartCh[r]), TRUE)
         \/ \E r \in Relayer, m \in VoteMsgs : Signable(r, m) /\ p.msg = Vote(r, m, FALSE)
<1>1. CASE UNCHANGED vars \/ Layer2Step
  BY <1>1 DEF vars, Layer2Step, Include, Elect
<1>2. ASSUME NEW r \in Relayer, NEW v, NEW n, p \in n \cup Broadcast(r, v)
      PROVE  p \in n \/ p.msg = v
  BY <1>2 DEF Broadcast, Packet
<1>3. ASSUME NEW r \in Relayer, ActorStep(r), ~ StartRound(r), ~ HandleReceive(r)
      PROVE  net' = net
  <2>1. CASE ViewStep(r) \/ ClientStep(r)
    BY <2>1 DEF ViewStep, UpdateEpochVoter, UpdateLatestBtc, ConfirmBtcBlock, CatchUp,
                ClientStep, InitSig, InitWithdrawSig, InitSingleSig, StepDown, HandleFeedback, Ask
  <2>2. CASE HandleStart(r) \/ Work(r) \/ CheckTimeouts(r) \/ Restart(r)
    BY <1>3, <2>2 DEF HandleStart, StartRefused, StartSingle, Work, CollectMore, Submit,
                      SubmitOk, SubmitFailed, CheckTimeouts, Timeout, Restart
  <2> QED
    BY <1>3, <2>1, <2>2 DEF ActorStep
<1>4. ASSUME NEW r \in Relayer, StartRound(r)
      PROVE  \/ p \in net
             \/ sigStartCh[r] # <<>> /\ p.msg = Vote(r, Head(sigStartCh[r]), TRUE)
  BY <1>2, <1>4 DEF StartRound
<1>5. ASSUME NEW r \in Relayer, HandleReceive(r)
      PROVE  \/ p \in net
             \/ \E m \in VoteMsgs : Signable(r, m) /\ p.msg = Vote(r, m, FALSE)
  <2>1. PICK o \in net :
          Answer(r, o.msg) \/ ReceiveFailed(r, o.msg) \/ ReceiveVote(r, o.msg)
            \/ ReceiveOther(r, o.msg)
    BY <1>5 DEF HandleReceive
  <2>2. o.msg \in VoteMsgs /\ Delivered(r, o.msg) \subseteq net
    BY DEF TypeOK, Delivered
  <2>3. CASE Answer(r, o.msg)
    BY <1>2, <2>2, <2>3 DEF Answer
  <2>4. CASE ~ Answer(r, o.msg)
    BY <2>1, <2>2, <2>4 DEF ReceiveFailed, ReceiveVote, ReceiveOther
  <2> QED
    BY <2>3, <2>4
<1> QED
  BY <1>1, <1>3, <1>4, <1>5, NextCases

\* The proposer's own vote repeats a request of its client.
LEMMA OwnVoteConfirmed ==
  ASSUME TypeOK, RoundsOK, VotesConfirmed, NEW r \in Relayer, sigStartCh[r] # <<>>
  PROVE  Confirmed(Vote(r, Head(sigStartCh[r]), TRUE))
<1> DEFINE e == Head(sigStartCh[r])
<1>1. e \in Requests /\ e.voter = r /\ Confirmed(e)
  BY QueueTaken DEF RoundsOK, VotesConfirmed
<1>2. /\ Vote(r, e, TRUE).id = e.id /\ Vote(r, e, TRUE).voter = r
      /\ Vote(r, e, TRUE).count = e.count
  BY <1>1, OwnVoteTyped
<1> QED
  BY <1>1, <1>2 DEF Confirmed

\* A voter answers for blocks in its own database.
LEMMA AnswerConfirmed ==
  ASSUME TypeOK, NEW r \in Relayer, NEW m \in VoteMsgs, Signable(r, m)
  PROVE  Confirmed(Vote(r, m, FALSE))
<1>1. /\ Vote(r, m, FALSE).id = m.id /\ Vote(r, m, FALSE).voter = r
      /\ Vote(r, m, FALSE).count = m.count
  BY VoteTyped
<1>2. m.id.kind = "block" => m.count > 0 /\ m.id.number + m.count - 1 <= scanned[r]
  BY HeightAssumption DEF Signable, Stored
<1> QED
  BY <1>1, <1>2 DEF Confirmed

\* A proposal's votes as VotesConfirmed wants them.
ProposalConfirmed(s) ==
  s.id.kind = "block" =>
    /\ s.count > 0
    /\ \A m \in s.votes : m \in VoteMsgs /\ m.id = s.id /\ Confirmed(m)

LEMMA AggregatedConfirmed ==
  ASSUME TypeOK, VotesConfirmed, NEW r \in Relayer, NEW e \in Requests \cup VoteMsgs,
         NEW s \in Aggregate(r, e)
  PROVE  ProposalConfirmed(s)
<1>1. PICK v \in Votes(r, e.id) : s.count = v.count
  BY Aggregated
<1>2. s.id = e.id /\ s.votes = Votes(r, e.id)
  BY Aggregated
<1>3. \A m \in Votes(r, e.id) : m \in VoteMsgs /\ m.id = e.id /\ Confirmed(m)
  BY DEF TypeOK, Votes, VotesConfirmed
<1> QED
  BY <1>1, <1>2, <1>3 DEF ProposalConfirmed, Confirmed

LEMMA VotesConfirmedStep ==
  TypeOK /\ RoundsOK /\ VotesConfirmed /\ [Next]_vars => VotesConfirmed'
<1> SUFFICES ASSUME TypeOK, RoundsOK, VotesConfirmed, [Next]_vars PROVE VotesConfirmed'
  OBVIOUS
<1>1. ASSUME NEW p \in net' PROVE Confirmed(p.msg)'
  <2>1. TypeOK'
    BY StepTyped
  <2>2. p.msg \in VoteMsgs
    BY <2>1 DEF TypeOK
  <2>3. Confirmed(p.msg)
    BY NetStep, OwnVoteConfirmed, AnswerConfirmed DEF VotesConfirmed
  <2> QED
    BY <2>2, <2>3, StaysConfirmed
<1>2. ASSUME NEW r \in Relayer, NEW i \in DOMAIN sigStartCh'[r]
      PROVE  Confirmed(sigStartCh[r][i])'
  <2>1. PICK e \in Requests : e = sigStartCh'[r][i] /\ Confirmed(e)
    <3>1. \A j \in DOMAIN sigStartCh[r] :
            sigStartCh[r][j] \in Requests /\ Confirmed(sigStartCh[r][j])
      BY DEF VotesConfirmed, TypeOK
    <3> QED
      BY <3>1, QueueStep DEF QueueChange, AskedBy
  <2>2. Confirmed(e)'
    BY <2>1, StaysConfirmed
  <2> QED
    BY <2>1, <2>2 DEF Confirmed
<1>3. ASSUME NEW r \in Relayer, NEW m \in sigMap'[r]
      PROVE  Confirmed(m)'
  <2>1. CASE m \in sigMap[r]
    BY <2>1, StaysConfirmed DEF VotesConfirmed, TypeOK
  <2>2. CASE Opens(r, m)
    <3>1. m \in VoteMsgs /\ m.voter = r
      BY <2>2 DEF Opens
    <3>2. PICK i \in DOMAIN sigStartCh[r] :
            m.id = sigStartCh[r][i].id /\ m.count = sigStartCh[r][i].count
      BY <2>2 DEF Opens
    <3>3. Confirmed(sigStartCh[r][i]) /\ sigStartCh[r][i].voter = r
      BY DEF RoundsOK, VotesConfirmed
    <3>4. Confirmed(m)
      BY <3>1, <3>2, <3>3 DEF Confirmed
    <3> QED
      BY <3>1, <3>4, StaysConfirmed
  <2>3. CASE Joins(r, m)
    <3>1. m \in VoteMsgs /\ Packet(r, m) \in net /\ Packet(r, m).msg = m
      BY <2>3 DEF Joins, Packet
    <3>2. Confirmed(m)
      BY <3>1 DEF VotesConfirmed
    <3> QED
      BY <3>1, <3>2, StaysConfirmed
  <2> QED
    BY <2>1, <2>2, <2>3, MapStep DEF MapChange
<1>4. ASSUME NEW s \in pool' \cup accepted', s.id.kind = "block"
      PROVE  /\ s.count > 0
             /\ \A m \in s.votes : m \in VoteMsgs /\ m.id = s.id /\ Confirmed(m)'
  <2>1. ProposalConfirmed(s)
    BY <1>4, PoolStep, AggregatedConfirmed DEF ProposalConfirmed, VotesConfirmed
  <2> QED
    BY <1>4, <2>1, StaysConfirmed DEF ProposalConfirmed
<1> QED
  BY <1>1, <1>2, <1>3, <1>4 DEF VotesConfirmed

LEMMA VotesAlwaysConfirmed == Spec => []VotesConfirmed
<1>1. Init => VotesConfirmed
  BY DEF Init, VotesConfirmed
<1> QED
  BY <1>1, VotesConfirmedStep, TypesCorrect, RoundsCorrect, PTL DEF Spec

\* What layer 2 accepts was in the pool and passed its check.
LEMMA AcceptedStep ==
  ASSUME TypeOK, [Next]_vars, NEW s \in accepted'
  PROVE  s \in accepted \/ (s \in pool /\ Include(s))
<1>1. CASE UNCHANGED vars
  BY <1>1 DEF vars, chain
<1>2. CASE Layer2Step
  BY <1>2 DEF Layer2Step, Include, Elect
<1>3. ASSUME NEW r \in Relayer, ActorStep(r)
      PROVE  accepted' = accepted
  <2>1. CASE ViewStep(r) \/ ClientStep(r)
    BY <2>1 DEF chain, ViewStep, UpdateEpochVoter, UpdateLatestBtc, ConfirmBtcBlock, CatchUp,
                ClientStep, InitSig, InitWithdrawSig, InitSingleSig, StepDown, HandleFeedback, Ask
  <2>2. CASE HandleStart(r) \/ HandleReceive(r)
    BY <2>2 DEF chain, External, HandleStart, StartRefused, StartRound, StartSingle,
                HandleReceive, Answer, ReceiveFailed, ReceiveVote, ReceiveOther
  <2>3. CASE Work(r) \/ CheckTimeouts(r) \/ Restart(r)
    BY <2>3 DEF chain, External, Work, CollectMore, Submit, SubmitOk, SubmitFailed,
                CheckTimeouts, Timeout, Restart
  <2> QED
    BY <1>3, <2>1, <2>2, <2>3 DEF ActorStep
<1> QED
  BY <1>1, <1>2, <1>3, NextCases

\* Every voter of an accepted header proposal has confirmed its blocks
\* (handleSigReceiveNewBlock in internal/bls/handle_block.go).
THEOREM ConfirmedCorrect == Spec => []AcceptedIsConfirmed
<1>1. Init => AcceptedIsConfirmed
  BY DEF Init, AcceptedIsConfirmed
<1>2. TypeOK /\ VotesConfirmed /\ AcceptedIsConfirmed /\ [Next]_vars => AcceptedIsConfirmed'
  <2> SUFFICES ASSUME TypeOK, VotesConfirmed, AcceptedIsConfirmed, [Next]_vars,
                      NEW s \in accepted', s.id.kind = "block", NEW m \in s.votes
               PROVE  s.id.number + s.count - 1 <= scanned'[m.voter]
    BY DEF AcceptedIsConfirmed
  <2>1. m \in VoteMsgs /\ m.id = s.id /\ Confirmed(m) /\ s.id \in RequestIds /\ s.count \in Nat
    BY AcceptedStep DEF VotesConfirmed, TypeOK
  <2>2. m.voter \in Relayer /\ s.id.number \in Nat
    BY <2>1 DEF VoteMsgs, RequestIds
  <2>3. s.id.number + s.count - 1 <= scanned[m.voter]
    <3>1. CASE s \in accepted
      BY <3>1 DEF AcceptedIsConfirmed
    <3>2. CASE Include(s)
      <4>1. m.count = s.count
        BY <3>2 DEF Include, MayAccept, Signed
      <4> QED
        BY <2>1, <4>1 DEF Confirmed
    <3> QED
      BY <3>1, <3>2, AcceptedStep
  <2> QED
    BY <2>1, <2>2, <2>3, ScannedStep
<1> QED
  BY <1>1, <1>2, TypesCorrect, VotesAlwaysConfirmed, PTL DEF Spec

-----------------------------------------------------------------------------
(* The height of layer 2 *)

\* Layer 2 keeps its height or accepts headers that follow it.
LEMMA HeightStep ==
  ASSUME TypeOK, VotesConfirmed, [Next]_vars
  PROVE  /\ Now.height \in Nat /\ Now'.height \in Nat /\ Now.height <= Now'.height
         /\ \A s \in pool : Include(s) /\ s.id.kind = "block" => Now'.height >= s.id.number
<1>1. Now \in L2States /\ l2 \in Seq(L2States) /\ Now.height \in Nat
  BY NowTyped DEF TypeOK, L2States
<1>2. ASSUME NEW x \in L2States, l2' = Append(l2, x)
      PROVE  Now' = x
  BY <1>1, <1>2 DEF Now
<1>3. CASE l2' = l2
  <2>1. Now' = Now
    BY <1>3 DEF Now
  <2>2. ASSUME NEW s \in pool, Include(s), s.id.kind = "block"
        PROVE  FALSE
    <3>1. s.count \in Nat
      BY <2>2 DEF TypeOK
    <3>2. /\ [Now EXCEPT !.sequence = @ + 1, !.height = @ + s.count] \in L2States
          /\ l2' = Append(l2, [Now EXCEPT !.sequence = @ + 1, !.height = @ + s.count])
      BY <2>2, <3>1, NowTyped DEF Include
    <3>3. \A x \in L2States : Append(l2, x) # l2
      BY <1>1
    <3> QED
      BY <1>3, <3>2, <3>3
  <2> QED
    BY <1>1, <2>1, <2>2
<1>4. ASSUME NEW s \in pool, Include(s)
      PROVE  /\ Now'.height \in Nat /\ Now.height <= Now'.height
             /\ s.id.kind = "block" => Now'.height >= s.id.number
  <2>1. CASE s.id.kind = "block"
    <3>1. s.count \in Nat /\ s.count > 0 /\ s.id.number = Now.height + 1
      BY <1>4, <2>1 DEF TypeOK, VotesConfirmed, Include, MayAccept
    <3> DEFINE x == [Now EXCEPT !.sequence = @ + 1, !.height = @ + s.count]
    <3>2. x \in L2States /\ l2' = Append(l2, x)
      BY <1>4, <2>1, <3>1, NowTyped DEF Include
    <3>3. x.height = Now.height + s.count
      BY <1>1 DEF L2States
    <3>4. Now' = x
      BY <1>2, <3>2
    <3> HIDE DEF x
    <3> QED
      BY <1>1, <3>1, <3>3, <3>4
  <2>2. CASE s.id.kind = "order"
    <3> DEFINE x == [Now EXCEPT !.sequence = @ + 1]
    <3>1. x \in L2States /\ l2' = Append(l2, x)
      BY <1>4, <2>2, NowTyped DEF Include
    <3>2. x.height = Now.height
      BY <1>1 DEF L2States
    <3>3. Now' = x
      BY <1>2, <3>1
    <3> HIDE DEF x
    <3> QED
      BY <1>1, <2>2, <3>2, <3>3
  <2>3. CASE s.id.kind \notin {"block", "order"}
    BY <1>1, <1>4, <2>3 DEF Include, Now
  <2> QED
    BY <2>1, <2>2, <2>3
<1>5. ASSUME NEW p \in Candidates, Elect(p)
      PROVE  Now'.height = Now.height
  <2> DEFINE x == [Now EXCEPT !.epoch = @ + 1, !.proposer = p]
  <2>1. x \in L2States /\ l2' = Append(l2, x)
    BY <1>5, NowTyped DEF Elect
  <2>2. x.height = Now.height
    BY <1>1 DEF L2States
  <2>3. Now' = x
    BY <1>2, <2>1
  <2> HIDE DEF x
  <2> QED
    BY <2>2, <2>3
<1>6. l2' = l2 \/ Layer2Step
  <2>1. ASSUME NEW r \in Relayer, ActorStep(r)
        PROVE  l2' = l2
    <3>1. CASE ViewStep(r) \/ ClientStep(r)
      BY <3>1 DEF chain, ViewStep, UpdateEpochVoter, UpdateLatestBtc, ConfirmBtcBlock, CatchUp,
                  ClientStep, InitSig, InitWithdrawSig, InitSingleSig, StepDown,
                  HandleFeedback, Ask
    <3>2. CASE HandleStart(r) \/ HandleReceive(r)
      BY <3>2 DEF chain, External, HandleStart, StartRefused, StartRound, StartSingle,
                  HandleReceive, Answer, ReceiveFailed, ReceiveVote, ReceiveOther
    <3>3. CASE Work(r) \/ CheckTimeouts(r) \/ Restart(r)
      BY <3>3 DEF chain, External, Work, CollectMore, Submit, SubmitOk, SubmitFailed,
                  CheckTimeouts, Timeout, Restart
    <3> QED
      BY <2>1, <3>1, <3>2, <3>3 DEF ActorStep
  <2> QED
    BY <2>1, NextCases DEF vars, chain
<1>7. CASE \E p \in Candidates : Elect(p)
  BY <1>1, <1>4, <1>5, <1>7
<1> QED
  BY <1>1, <1>3, <1>4, <1>6, <1>7 DEF Layer2Step

LEMMA ReachedStep ==
  TypeOK /\ VotesConfirmed /\ AcceptedReached /\ [Next]_vars => AcceptedReached'
<1> SUFFICES ASSUME TypeOK, VotesConfirmed, AcceptedReached, [Next]_vars,
                    NEW s \in accepted', s.id.kind = "block"
             PROVE  Now'.height >= s.id.number
  BY DEF AcceptedReached
<1>1. /\ Now.height \in Nat /\ Now'.height \in Nat /\ Now.height <= Now'.height
      /\ \A t \in pool : Include(t) /\ t.id.kind = "block" => Now'.height >= t.id.number
  BY HeightStep
<1>2. CASE s \in accepted
  <2>1. s.id.number \in Nat /\ Now.height >= s.id.number
    BY <1>2 DEF AcceptedReached, TypeOK, RequestIds
  <2> QED
    BY <1>1, <2>1
<1> QED
  BY <1>1, <1>2, AcceptedStep

\* Only the signer says that headers are finished, of a proposal it saw accepted.
LEMMA FinishStep ==
  ASSUME TypeOK, [Next]_vars, NEW q \in Relayer, NEW f \in feedback'[q],
         f.outcome = "finish", f.id.kind = "block"
  PROVE  f \in feedback[q] \/ \E s \in accepted : s.id = f.id
<1> DEFINE Told == f \in feedback[q] \/ \E s \in accepted : s.id = f.id
<1>1. CASE feedback'[q] \subseteq feedback[q]
  BY <1>1
<1>2. CASE UNCHANGED vars \/ Layer2Step
  BY <1>1, <1>2 DEF vars, Layer2Step, Include, Elect
<1>3. ASSUME NEW r \in Relayer, NEW e \in Requests \cup VoteMsgs,
             NEW outcome \in {"finish", "failed", "failed again", "timeout"},
             Publish(r, {Event(outcome, e)}),
             outcome # "finish" \/ e.id.kind # "block" \/ \E s \in accepted : s.id = e.id
      PROVE  Told
  <2>1. /\ Event(outcome, e) \in Events /\ Event(outcome, e).id = e.id
        /\ Event(outcome, e).outcome = outcome
    BY EventTyped
  <2>2. feedback'[q] \subseteq feedback[q] \cup {Event(outcome, e)}
    BY <1>3, <2>1, Published
  <2> QED
    BY <1>3, <2>1, <2>2
<1>4. ASSUME NEW r \in Relayer, ActorStep(r)
      PROVE  Told
  <2>1. CASE ViewStep(r) \/ ClientStep(r)
    <3>1. feedback' = feedback \/ \E g : feedback' = [feedback EXCEPT ![r] = @ \ {g}]
      BY <2>1 DEF ViewStep, UpdateEpochVoter, UpdateLatestBtc, ConfirmBtcBlock, CatchUp,
                  ClientStep, InitSig, InitWithdrawSig, InitSingleSig, StepDown,
                  HandleFeedback, Ask
    <3> QED
      BY ZenonT(60), <1>1, <3>1 DEF TypeOK
  <2>2. CASE StartRefused(r)
    <3> DEFINE e == Head(sigStartCh[r])
    <3>1. e \in Requests /\ Publish(r, {Event("failed", e)})
      BY <2>2, QueueTaken DEF StartRefused
    <3> QED
      BY <1>3, <3>1
  <2>3. CASE StartRound(r) \/ StartSingle(r) \/ Submit(r)
    BY <1>1, <2>3 DEF StartRound, StartSingle, Submit
  <2>4. CASE HandleReceive(r)
    <3>1. PICK p \in net :
            Answer(r, p.msg) \/ ReceiveFailed(r, p.msg) \/ ReceiveVote(r, p.msg)
              \/ ReceiveOther(r, p.msg)
      BY <2>4 DEF HandleReceive
    <3>2. p.msg \in VoteMsgs
      BY DEF TypeOK
    <3>3. CASE Answer(r, p.msg) \/ ReceiveVote(r, p.msg)
      BY <1>1, <3>3 DEF Answer, ReceiveVote
    <3>4. CASE ReceiveFailed(r, p.msg)
      BY <1>3, <3>2, <3>4 DEF ReceiveFailed
    <3>5. CASE ReceiveOther(r, p.msg)
      BY <1>3, <3>2, <3>5 DEF ReceiveOther
    <3> QED
      BY <3>1, <3>3, <3>4, <3>5
  <2>5. CASE CollectMore(r) \/ SubmitOk(r) \/ SubmitFailed(r)
    <3> DEFINE e == signer[r].event
    <3>1. /\ e \in Requests \cup VoteMsgs
          /\ signer[r].at = "submit" => signer[r].proposal.id = e.id
      BY <2>5 DEF CollectMore, SubmitOk, SubmitFailed, TypeOK, SignerOK
    <3>2. CASE CollectMore(r)
      <4>1. feedback' = feedback \/ (e.id.kind = "order" /\ Publish(r, {Event("finish", e)}))
        BY <3>2 DEF CollectMore, EndsWithout
      <4> QED
        BY <1>1, <1>3, <3>1, <4>1
    <3>3. CASE SubmitOk(r)
      <4>1. \E s \in accepted : s.id = e.id
        BY <3>1, <3>3 DEF SubmitOk
      <4>2. \/ feedback' = feedback
            \/ Publish(r, {Event("finish", e)}) \/ Publish(r, {Event("failed", e)})
        BY <3>3 DEF SubmitOk
      <4> QED
        BY <1>1, <1>3, <3>1, <4>1, <4>2
    <3>4. CASE SubmitFailed(r)
      <4>1. Publish(r, Failure(e))
        BY <3>4 DEF SubmitFailed
      <4>2. Failure(e) \in SUBSET Events /\ \A g \in Failure(e) : g.outcome # "finish"
        BY <3>1, EventTyped DEF Failure
      <4>3. feedback'[q] \subseteq feedback[q] \cup Failure(e)
        BY <4>1, <4>2, Published
      <4> QED
        BY <4>2, <4>3
    <3> QED
      BY <2>5, <3>2, <3>3, <3>4
  <2>6. ASSUME NEW id, Timeout(r, id)
        PROVE  Told
    <3>1. Publish(r, TimeoutReport(r, id))
      BY <2>6 DEF Timeout
    <3>2. /\ TimeoutReport(r, id) \in SUBSET Events
          /\ \A g \in TimeoutReport(r, id) : g.outcome # "finish"
      BY TimeoutReported
    <3>3. feedback'[q] \subseteq feedback[q] \cup TimeoutReport(r, id)
      BY <3>1, <3>2, Published
    <3> QED
      BY <3>2, <3>3
  <2>7. CASE Restart(r)
    <3>1. feedback' = [feedback EXCEPT ![r] = {}]
      BY <2>7 DEF Restart
    <3> QED
      BY <1>1, <3>1 DEF TypeOK
  <2> QED
    BY <1>4, <2>1, <2>2, <2>3, <2>4, <2>5, <2>6, <2>7
    DEF ActorStep, HandleStart, Work, CheckTimeouts
<1> QED
  BY <1>2, <1>4, NextCases

\* The poller hears "finished" only of headers that layer 2 has
\* (the SigFinish events of internal/bls/handle_block.go).
THEOREM FinishedCorrect == Spec => []FinishedBlockAccepted
<1>1. Init => AcceptedReached /\ FinishedBlockAccepted
  BY DEF Init, AcceptedReached, FinishedBlockAccepted
<1>2. TypeOK /\ VotesConfirmed /\ AcceptedReached /\ FinishedBlockAccepted /\ [Next]_vars
        => FinishedBlockAccepted'
  <2> SUFFICES ASSUME TypeOK, VotesConfirmed, AcceptedReached, FinishedBlockAccepted,
                      [Next]_vars, NEW q \in Relayer, NEW f \in feedback'[q],
                      f.outcome = "finish", f.id.kind = "block"
               PROVE  Now'.height >= f.id.number
    BY DEF FinishedBlockAccepted
  <2>1. Now.height >= f.id.number
    BY FinishStep DEF FinishedBlockAccepted, AcceptedReached
  <2>2. f.id.number \in Nat
    <3>1. TypeOK'
      BY StepTyped
    <3>2. f \in Events
      BY <3>1 DEF TypeOK
    <3> QED
      BY <3>2 DEF Events, RequestIds
  <2> QED
    BY <2>1, <2>2, HeightStep
<1> QED
  BY <1>1, <1>2, ReachedStep, TypesCorrect, VotesAlwaysConfirmed, PTL DEF Spec

-----------------------------------------------------------------------------
(* No request is forgotten *)

\* A step of one relayer leaves the clients and the signer of another alone.
LEMMA OthersKept ==
  ASSUME TypeOK, NEW r \in Relayer, NEW q \in Relayer \ {r}, ActorStep(r)
  PROVE  /\ poll'[q] = poll[q] /\ busy'[q] = busy[q] /\ sigStartCh'[q] = sigStartCh[q]
         /\ sigMap'[q] = sigMap[q] /\ feedback'[q] = feedback[q]
<1>1. CASE ViewStep(r)
  BY <1>1 DEF clients, ViewStep, UpdateEpochVoter, UpdateLatestBtc, ConfirmBtcBlock, CatchUp
<1>2. CASE ClientStep(r)
  <2>1. /\ \/ poll' = poll
           \/ \E x : poll' = [poll EXCEPT ![r] = x]
        /\ \/ busy' = busy
           \/ \E x : busy' = [busy EXCEPT ![r] = x]
        /\ \/ sigStartCh' = sigStartCh
           \/ \E x : sigStartCh' = [sigStartCh EXCEPT ![r] = x]
        /\ \/ feedback' = feedback
           \/ \E x : feedback' = [feedback EXCEPT ![r] = x]
        /\ sigMap' = sigMap
    <3>1. CASE InitSig(r)
      BY <3>1 DEF InitSig, Ask
    <3>2. CASE InitWithdrawSig(r) \/ StepDown(r)
      BY <3>2 DEF InitWithdrawSig, StepDown, Ask
    <3>3. CASE \E k \in {"finalize", "cancel"}, n \in Due : InitSingleSig(r, k, n)
      BY <3>3 DEF InitSingleSig, Ask
    <3>4. CASE \E f \in feedback[r] : HandleFeedback(r, f)
      BY <3>4 DEF HandleFeedback, clients
    <3> QED
      BY <1>2, <3>1, <3>2, <3>3, <3>4 DEF ClientStep
  <2> QED
    BY <2>1 DEF TypeOK
<1>3. CASE HandleStart(r)
  <2>1. sigStartCh'[q] = sigStartCh[q] /\ UNCHANGED clients
    BY <1>3, StartTaken
    DEF HandleStart, StartRefused, StartRound, StartSingle, External
  <2>2. sigMap'[q] = sigMap[q] /\ feedback'[q] = feedback[q]
    BY <1>3 DEF HandleStart, StartRefused, StartRound, StartSingle, Publish, TypeOK
  <2> QED
    BY <2>1, <2>2 DEF clients
<1>4. CASE HandleReceive(r)
  BY <1>4 DEF clients, External, HandleReceive, Answer, ReceiveFailed, ReceiveVote,
              ReceiveOther, Publish, RemoveSigMap, TypeOK
<1>5. CASE Work(r) \/ CheckTimeouts(r)
  BY <1>5 DEF clients, External, Work, CollectMore, Submit, SubmitOk, SubmitFailed,
              CheckTimeouts, Timeout, Publish, RemoveSigMap, TypeOK
<1>6. CASE Restart(r)
  BY <1>6 DEF Restart, TypeOK
<1> QED
  BY <1>1, <1>2, <1>3, <1>4, <1>5, <1>6 DEF ActorStep

\* the client of r hears what became of request id
Hears(r, id) == \E f \in feedback[r] : f.id = id /\ HandleFeedback(r, f)

Queued(r, id) == \E i \in DOMAIN sigStartCh[r] : sigStartCh[r][i].id = id
Reported(r, id) == \E f \in feedback[r] : f.id = id

LEMMA WaitingCases ==
  ASSUME NEW r, NEW id
  PROVE  id \in Waiting(r) <=> Queued(r, id) \/ id \in Rounds(r) \/ Reported(r, id)
BY DEF Waiting, Queued, Reported

\* What is published about a request keeps it from being forgotten.
LEMMA PublishedWaits ==
  ASSUME TypeOK, NEW r \in Relayer, NEW events \in SUBSET Events, Publish(r, events)
  PROVE  \A id : \/ Reported(r, id)
                 \/ \E f \in events : f.id = id
                 => Reported(r, id)'
BY Published DEF Reported

LEMMA RemovedWaits ==
  ASSUME TypeOK, NEW r \in Relayer, NEW id, RemoveSigMap(r, id)
  PROVE  \A other \in Rounds(r) : other # id => other \in Rounds(r)'
BY RoundRemoved DEF Rounds

LEMMA AskedWaits ==
  ASSUME TypeOK, NEW r \in Relayer, NEW e \in Requests, Ask(r, e)
  PROVE  /\ Queued(r, e.id)'
         /\ \A id : Queued(r, id) => Queued(r, id)'
<1>1. sigStartCh[r] \in Seq(Requests) /\ sigStartCh'[r] = Append(sigStartCh[r], e)
  BY AskedTyped DEF TypeOK
<1>2. /\ Len(sigStartCh[r]) + 1 \in DOMAIN Append(sigStartCh[r], e)
      /\ Append(sigStartCh[r], e)[Len(sigStartCh[r]) + 1] = e
      /\ \A i \in DOMAIN sigStartCh[r] :
           /\ i \in DOMAIN Append(sigStartCh[r], e)
           /\ Append(sigStartCh[r], e)[i] = sigStartCh[r][i]
  BY <1>1
<1> QED
  BY <1>1, <1>2 DEF Queued

\* A request for headers or for an order waits until its client hears of it.
LEMMA WaitingStep ==
  ASSUME TypeOK, NEW r \in Relayer, ActorStep(r), ~ Restart(r),
         NEW id \in Waiting(r), id.kind \in {"block", "order"}, ~ Hears(r, id)
  PROVE  id \in Waiting(r)'
<1> DEFINE Waits == Queued(r, id)' \/ id \in Rounds(r)' \/ Reported(r, id)'
<1>1. SUFFICES Waits
  BY DEF Waiting, Queued, Reported
<1>2. Queued(r, id) \/ id \in Rounds(r) \/ Reported(r, id)
  BY WaitingCases
<1>3. CASE UNCHANGED <<sigStartCh, sigMap, feedback>>
  BY <1>2, <1>3 DEF Queued, Rounds, Reported
<1>4. CASE ViewStep(r) \/ StepDown(r)
  BY <1>3, <1>4 DEF ViewStep, UpdateEpochVoter, UpdateLatestBtc, ConfirmBtcBlock, CatchUp,
                    StepDown
<1>5. CASE \E f \in feedback[r] : HandleFeedback(r, f)
  <2>1. PICK f \in feedback[r] : HandleFeedback(r, f)
    BY <1>5
  <2>2. f.id # id /\ UNCHANGED <<sigStartCh, sigMap>> /\ feedback'[r] = feedback[r] \ {f}
    BY <2>1 DEF Hears, HandleFeedback, TypeOK
  <2> QED
    BY <1>2, <2>2 DEF Queued, Rounds, Reported
<1>6. ASSUME NEW e, Ask(r, e), AskedBy(r, e)
      PROVE  Waits
  <2>1. UNCHANGED <<sigMap, feedback>>
    BY <1>6 DEF Ask
  <2>2. Queued(r, id) => Queued(r, id)'
    BY <1>6, AskedWaits DEF AskedBy
  <2> QED
    BY <1>2, <2>1, <2>2 DEF Rounds, Reported
<1>7. CASE ClientStep(r)
  <2>1. CASE \E e : Ask(r, e) /\ AskedBy(r, e)
    BY <1>6, <2>1
  <2>2. CASE sigStartCh' = sigStartCh
    <3>1. CASE StepDown(r) \/ \E f \in feedback[r] : HandleFeedback(r, f)
      BY <1>4, <1>5, <3>1
    <3>2. CASE ~ (StepDown(r) \/ \E f \in feedback[r] : HandleFeedback(r, f))
      <4>1. UNCHANGED <<sigMap, feedback>>
        BY <1>7, <3>2 DEF ClientStep, InitSig, InitWithdrawSig, InitSingleSig, Ask
      <4> QED
        BY <1>3, <2>2, <4>1
    <3> QED
      BY <3>1, <3>2
  <2> QED
    BY <1>7, <2>1, <2>2, ClientAsks
<1>8. CASE HandleStart(r)
  <2> DEFINE e == Head(sigStartCh[r])
  <2>1. sigStartCh[r] # <<>> /\ TakeStart(r)
    BY <1>8 DEF HandleStart, StartRefused, StartRound, StartSingle
  <2>2. e \in Requests /\ (Queued(r, id) => id = e.id \/ Queued(r, id)')
    <3>1. /\ e \in Requests /\ e = sigStartCh[r][1]
          /\ \A i \in DOMAIN sigStartCh[r] :
               i # 1 => /\ i - 1 \in DOMAIN Tail(sigStartCh[r])
                        /\ sigStartCh[r][i] = Tail(sigStartCh[r])[i - 1]
      BY <2>1, QueueTaken
    <3>2. sigStartCh'[r] = Tail(sigStartCh[r])
      BY <2>1, StartTaken
    <3> QED
      BY <3>1, <3>2 DEF Queued
  <2>3. CASE StartRefused(r)
    <3>1. Publish(r, {Event("failed", e)}) /\ UNCHANGED sigMap
      BY <2>3 DEF StartRefused
    <3>2. Event("failed", e) \in Events /\ Event("failed", e).id = e.id
      BY <2>2, EventTyped
    <3> QED
      BY <1>2, <2>2, <3>1, <3>2, PublishedWaits DEF Rounds
  <2>4. CASE StartRound(r)
    <3>1. PICK own \in VoteMsgs :
            /\ own.id = e.id
            /\ sigMap' = [sigMap EXCEPT ![r] = @ \cup {own}] /\ UNCHANGED feedback
      BY <2>2, <2>4, OwnVoteTyped DEF StartRound
    <3>2. sigMap'[r] = sigMap[r] \cup {own}
      BY <3>1 DEF TypeOK
    <3>3. e.id \in Rounds(r)' /\ Rounds(r) \subseteq Rounds(r)'
      BY <3>1, <3>2 DEF Rounds
    <3> QED
      BY <1>2, <2>2, <3>1, <3>3 DEF Reported
  <2>5. CASE StartSingle(r)
    <3>1. e.id.kind \in {"finalize", "cancel"} /\ UNCHANGED <<sigMap, feedback>>
      BY <2>5 DEF StartSingle
    <3> QED
      BY <1>2, <2>2, <3>1 DEF Rounds, Reported
  <2> QED
    BY <1>8, <2>3, <2>4, <2>5 DEF HandleStart
<1>9. ASSUME UNCHANGED sigStartCh, NEW other, RemoveSigMap(r, other),
             NEW events \in SUBSET Events, Publish(r, events),
             id = other /\ id \in Rounds(r) => \E f \in events : f.id = id
      PROVE  Waits
  <2>1. id # other /\ id \in Rounds(r) => id \in Rounds(r)'
    BY <1>9, RemovedWaits
  <2>2. Reported(r, id) \/ (\E f \in events : f.id = id) => Reported(r, id)'
    BY <1>9, PublishedWaits
  <2> QED
    BY <1>2, <1>9, <2>1, <2>2 DEF Queued
<1>10. CASE HandleReceive(r)
  <2>1. PICK p \in net :
          Answer(r, p.msg) \/ ReceiveFailed(r, p.msg) \/ ReceiveVote(r, p.msg)
            \/ ReceiveOther(r, p.msg)
    BY <1>10 DEF HandleReceive
  <2>2. p.msg \in VoteMsgs
    BY DEF TypeOK
  <2>3. CASE Answer(r, p.msg)
    BY <1>3, <2>3 DEF Answer
  <2>4. CASE ReceiveFailed(r, p.msg)
    <3>1. UNCHANGED <<sigStartCh, sigMap>> /\ Publish(r, {Event("failed", p.msg)})
      BY <2>4 DEF ReceiveFailed
    <3>2. Event("failed", p.msg) \in Events
      BY <2>2, EventTyped
    <3> QED
      BY <1>2, <3>1, <3>2, PublishedWaits DEF Queued, Rounds
  <2>5. CASE ReceiveVote(r, p.msg)
    <3>1. /\ UNCHANGED <<sigStartCh, feedback>>
          /\ sigMap' = [sigMap EXCEPT ![r] = @ \cup {p.msg}]
      BY <2>5 DEF ReceiveVote
    <3>2. Rounds(r) \subseteq Rounds(r)'
      BY <3>1 DEF Rounds, TypeOK
    <3> QED
      BY <1>2, <3>1, <3>2 DEF Queued, Reported
  <2>6. CASE ReceiveOther(r, p.msg)
    <3>1. /\ UNCHANGED sigStartCh /\ RemoveSigMap(r, p.msg.id)
          /\ Publish(r, {Event("finish", p.msg)})
      BY <2>6 DEF ReceiveOther
    <3>2. Event("finish", p.msg) \in Events /\ Event("finish", p.msg).id = p.msg.id
      BY <2>2, EventTyped
    <3> QED
      BY <1>9, <3>1, <3>2
  <2> QED
    BY <2>1, <2>3, <2>4, <2>5, <2>6
<1>11. CASE Work(r)
  <2> DEFINE e == signer[r].event
  <2>1. e \in Requests \cup VoteMsgs
    BY <1>11 DEF Work, CollectMore, Submit, SubmitOk, SubmitFailed, TypeOK, SignerOK
  <2>2. ASSUME NEW outcome \in {"finish", "failed"}, Publish(r, {Event(outcome, e)}),
               RemoveSigMap(r, e.id), UNCHANGED sigStartCh
        PROVE  Waits
    <3>1. Event(outcome, e) \in Events /\ Event(outcome, e).id = e.id
      BY ZenonT(60), <2>1, EventTyped
    <3> QED
      BY <1>9, <2>2, <3>1
  <2>3. CASE CollectMore(r)
    <3>1. /\ UNCHANGED sigStartCh
          /\ \/ RemoveSigMap(r, e.id) /\ Publish(r, {Event("finish", e)})
             \/ UNCHANGED <<sigMap, feedback>>
      BY <2>3 DEF CollectMore
    <3> QED
      BY <1>3, <2>2, <3>1
  <2>4. CASE Submit(r)
    BY <1>3, <2>4 DEF Submit
  <2>5. CASE SubmitOk(r)
    <3>1. /\ RemoveSigMap(r, e.id) /\ UNCHANGED sigStartCh
          /\ \/ \E outcome \in {"finish", "failed"} : Publish(r, {Event(outcome, e)})
             \/ e.id.kind \in {"finalize", "cancel"} /\ UNCHANGED feedback
      BY <2>5 DEF SubmitOk
    <3>2. CASE e.id.kind \in {"finalize", "cancel"} /\ UNCHANGED feedback
      <4>1. id \in Rounds(r) => id \in Rounds(r)'
        BY <3>1, <3>2, RemovedWaits
      <4> QED
        BY <1>2, <3>1, <3>2, <4>1 DEF Queued, Reported
    <3> QED
      BY <2>2, <3>1, <3>2
  <2>6. CASE SubmitFailed(r)
    <3>1. /\ Publish(r, Failure(e)) /\ UNCHANGED sigStartCh
          /\ RemoveSigMap(r, e.id) \/ UNCHANGED sigMap
      BY <2>6 DEF SubmitFailed
    <3>2. Failure(e) \in SUBSET Events /\ \E f \in Failure(e) : f.id = e.id
      BY <2>1, EventTyped DEF Failure
    <3>3. CASE RemoveSigMap(r, e.id)
      BY <1>9, <3>1, <3>2, <3>3
    <3>4. CASE UNCHANGED sigMap
      BY <1>2, <3>1, <3>2, <3>4, PublishedWaits DEF Queued, Rounds
    <3> QED
      BY <3>1, <3>3, <3>4
  <2> QED
    BY <1>11, <2>3, <2>4, <2>5, <2>6 DEF Work
<1>12. CASE CheckTimeouts(r)
  <2>1. PICK other \in Rounds(r) : Timeout(r, other)
    BY <1>12 DEF CheckTimeouts
  <2>2. /\ UNCHANGED sigStartCh /\ RemoveSigMap(r, other)
        /\ Publish(r, TimeoutReport(r, other))
    BY <2>1 DEF Timeout
  <2>3. /\ TimeoutReport(r, other) \in SUBSET Events
        /\ \E f \in TimeoutReport(r, other) : f.id = other
    BY <2>1, TimeoutReported
  <2> QED
    BY <1>9, <2>2, <2>3
<1> QED
  BY <1>4, <1>7, <1>8, <1>10, <1>11, <1>12 DEF ActorStep

\* the queue of r holds request id after the step
Enqueued(r, id) == \E i \in DOMAIN sigStartCh'[r] : sigStartCh'[r][i].id = id

LEMMA Appended ==
  ASSUME TypeOK, NEW r \in Relayer, NEW e \in Requests, Ask(r, e)
  PROVE  Enqueued(r, e.id)
<1>1. Queued(r, e.id)' /\ sigStartCh'[r] = Append(sigStartCh[r], e)
  BY AskedWaits, AskedTyped
<1> QED
  BY <1>1 DEF Queued, Enqueued

\* A client that newly waits has asked; the poller asks for headers, the wallet not.
LEMMA ClientWaits ==
  ASSUME TypeOK, NEW r \in Relayer, ClientStep(r)
  PROVE  /\ poll'[r].status /\ (poll'[r].id # poll[r].id \/ ~ poll[r].status)
              => Enqueued(r, poll'[r].id) /\ poll'[r].id.kind = "block"
         /\ poll'[r].id # poll[r].id => poll'[r].id.kind = "block"
         /\ "order" \in busy'[r] /\ "order" \notin busy[r]
              => \E id : Enqueued(r, id) /\ id.kind = "order"
<1>1. poll \in [Relayer -> Polls] /\ busy \in [Relayer -> SUBSET AllKinds] /\ asked \in Nat
  BY DEF TypeOK
<1>2. CASE InitSig(r)
  <2>1. PICK first \in Nat, count \in Nat :
          /\ RequestId("block", r, first) \in RequestIds
          /\ Ask(r, Request(r, RequestId("block", r, first), count))
          /\ poll' = [poll EXCEPT ![r].status = TRUE,
                        ![r].id = RequestId("block", r, first), ![r].count = count]
          /\ busy' = busy
    BY <1>2, InitSigTyped
  <2> DEFINE id == RequestId("block", r, first)
  <2>2. Request(r, id, count) \in Requests
    BY <2>1, RequestTyped
  <2>3. Request(r, id, count).id = id /\ id.kind = "block"
    BY DEF Request, RequestId
  <2>4. Enqueued(r, id)
    BY <2>1, <2>2, <2>3, Appended
  <2>5. poll'[r].id = id
    BY <1>1, <2>1 DEF Polls
  <2> QED
    BY <2>1, <2>3, <2>4, <2>5
<1>3. CASE InitWithdrawSig(r)
  <2> DEFINE id == RequestId("order", r, asked + 1)
  <2>1. id \in RequestIds /\ id.kind = "order"
    BY <1>1 DEF RequestId, RequestIds, AllKinds
  <2>2. Request(r, id, 0) \in Requests
    BY <2>1, RequestTyped
  <2>3. Request(r, id, 0).id = id
    BY DEF Request
  <2>4. Enqueued(r, id)
    BY <1>3, <2>2, <2>3, Appended DEF InitWithdrawSig
  <2> QED
    BY <1>3, <2>1, <2>4 DEF InitWithdrawSig
<1>4. CASE \E k \in {"finalize", "cancel"}, n \in Due : InitSingleSig(r, k, n)
  BY <1>1, <1>4 DEF InitSingleSig
<1>5. CASE StepDown(r)
  <2>1. CASE poll' = [poll EXCEPT ![r].status = FALSE] /\ UNCHANGED busy
    <3>1. poll'[r].status = FALSE /\ poll'[r].id = poll[r].id
      BY <1>1, <2>1 DEF Polls
    <3> QED
      BY <2>1, <3>1
  <2>2. CASE \E k \in busy[r] : busy' = [busy EXCEPT ![r] = @ \ {k}] /\ UNCHANGED poll
    BY <1>1, <2>2
  <2> QED
    BY <1>5, <2>1, <2>2 DEF StepDown
<1>6. ASSUME NEW f \in feedback[r], HandleFeedback(r, f)
      PROVE  /\ poll'[r].id = poll[r].id /\ (poll'[r].status => poll[r].status)
             /\ "order" \in busy'[r] => "order" \in busy[r]
  <2>1. CASE poll' = [poll EXCEPT ![r].status = FALSE, ![r].start = NextStart(r, f)]
               /\ UNCHANGED busy
    <3>1. poll'[r].status = FALSE /\ poll'[r].id = poll[r].id
      BY <1>1, <2>1 DEF Polls
    <3> QED
      BY <2>1, <3>1
  <2>2. CASE UNCHANGED poll /\ (UNCHANGED busy \/ busy' = [busy EXCEPT ![r] = @ \ {f.id.kind}])
    BY <1>1, <2>2
  <2> QED
    BY <1>6, <2>1, <2>2 DEF HandleFeedback, clients
<1> QED
  BY <1>2, <1>3, <1>4, <1>5, <1>6 DEF ClientStep

\* What its clients do with an event.
LEMMA HearingReleases ==
  ASSUME TypeOK, NEW r \in Relayer, NEW f \in feedback[r], HandleFeedback(r, f)
  PROVE  /\ f.id.kind = "block" /\ f.id = poll[r].id => ~ poll'[r].status
         /\ f.id.kind = "order" => "order" \notin busy'[r]
<1>1. poll \in [Relayer -> Polls] /\ busy \in [Relayer -> SUBSET AllKinds]
  BY DEF TypeOK
<1>2. CASE f.id.kind = "block" /\ Mine(r, f)
  <2>1. poll' = [poll EXCEPT ![r].status = FALSE, ![r].start = NextStart(r, f)]
    BY <1>2 DEF HandleFeedback
  <2>2. poll'[r].status = FALSE
    BY <1>1, <2>1 DEF Polls
  <2> QED
    BY <1>2, <2>2
<1>3. CASE f.id.kind = "block" /\ ~ Mine(r, f)
  <2>1. poll' = poll
    BY <1>3 DEF HandleFeedback, clients
  <2> QED
    BY <1>3, <2>1 DEF Mine
<1>4. CASE f.id.kind # "block"
  <2>1. busy' = [busy EXCEPT ![r] = @ \ {f.id.kind}]
    BY <1>4 DEF HandleFeedback
  <2> QED
    BY <1>1, <1>4, <2>1
<1> QED
  BY <1>2, <1>3, <1>4

\* Only its clients' own steps and a restart make a client wait.
LEMMA ClientsKept ==
  ASSUME TypeOK, NEW r \in Relayer, ActorStep(r), ~ ClientStep(r), ~ Restart(r)
  PROVE  UNCHANGED <<poll, busy>>
<1>1. CASE ViewStep(r)
  BY <1>1 DEF clients, ViewStep, UpdateEpochVoter, UpdateLatestBtc, ConfirmBtcBlock, CatchUp
<1>2. CASE HandleStart(r) \/ HandleReceive(r)
  BY <1>2 DEF clients, External, HandleStart, StartRefused, StartRound, StartSingle,
              HandleReceive, Answer, ReceiveFailed, ReceiveVote, ReceiveOther
<1>3. CASE Work(r) \/ CheckTimeouts(r)
  BY <1>3 DEF clients, External, Work, CollectMore, Submit, SubmitOk, SubmitFailed,
              CheckTimeouts, Timeout
<1> QED
  BY <1>1, <1>2, <1>3 DEF ActorStep

LEMMA ServedStep ==
  TypeOK /\ PollerServed /\ OrderServed /\ [Next]_vars => PollerServed' /\ OrderServed'
<1> SUFFICES ASSUME TypeOK, PollerServed, OrderServed, [Next]_vars, NEW q \in Relayer
             PROVE  /\ poll'[q].id.kind = "block"
                    /\ poll'[q].status => poll'[q].id \in Waiting(q)'
                    /\ "order" \in busy'[q] => \E id \in Waiting(q)' : id.kind = "order"
  BY DEF PollerServed, OrderServed
<1> DEFINE Served ==
      /\ poll'[q].id.kind = "block"
      /\ poll'[q].status => poll'[q].id \in Waiting(q)'
      /\ "order" \in busy'[q] => \E id \in Waiting(q)' : id.kind = "order"
<1>1. /\ poll[q].id.kind = "block"
      /\ poll[q].status => poll[q].id \in Waiting(q)
      /\ "order" \in busy[q] => \E id \in Waiting(q) : id.kind = "order"
  BY DEF PollerServed, OrderServed
<1>2. CASE /\ poll'[q] = poll[q] /\ busy'[q] = busy[q] /\ sigStartCh'[q] = sigStartCh[q]
           /\ sigMap'[q] = sigMap[q] /\ feedback'[q] = feedback[q]
  <2>1. Waiting(q)' = Waiting(q)
    BY <1>2 DEF Waiting, Rounds
  <2> QED
    BY <1>1, <1>2, <2>1
<1>3. CASE UNCHANGED vars \/ Layer2Step
  BY <1>2, <1>3 DEF vars, clients, Layer2Step, Include, Elect
<1>4. ASSUME NEW r \in Relayer, ActorStep(r), q # r
      PROVE  Served
  BY <1>2, <1>4, OthersKept
<1>5. CASE Restart(q)
  <2>1. /\ poll'[q] = [status |-> FALSE, id |-> RequestId("block", q, StartBtcHeight),
                       start |-> 0, count |-> 0]
        /\ busy'[q] = {}
    BY <1>5 DEF Restart, TypeOK
  <2> QED
    BY <2>1 DEF RequestId
<1>6. CASE ActorStep(q) /\ ~ Restart(q) /\ ~ ClientStep(q)
  <2>1. UNCHANGED <<poll, busy>> /\ \A id : ~ Hears(q, id)
    <3>1. \A f \in feedback[q] : ~ HandleFeedback(q, f)
      BY <1>6 DEF ClientStep
    <3> QED
      BY <1>6, <3>1, ClientsKept DEF Hears
  <2>2. \A id \in Waiting(q) : id.kind \in {"block", "order"} => id \in Waiting(q)'
    BY <1>6, <2>1, WaitingStep
  <2> QED
    BY <1>1, <2>1, <2>2
<1>7. CASE ClientStep(q) /\ ~ Restart(q)
  <2>1. ASSUME NEW id \in Waiting(q), id.kind \in {"block", "order"}, id \notin Waiting(q)'
        PROVE  Hears(q, id)
    BY <1>7, <2>1, WaitingStep DEF ActorStep
  <2>2. poll'[q].id.kind = "block"
    BY <1>1, <1>7, ClientWaits
  <2>3. ASSUME poll'[q].status
        PROVE  poll'[q].id \in Waiting(q)'
    <3>1. CASE poll'[q].id = poll[q].id /\ poll[q].status
      <4>1. SUFFICES ~ Hears(q, poll[q].id)
        BY <1>1, <2>1, <3>1
      <4> QED
        BY <1>1, <2>3, HearingReleases DEF Hears
    <3>2. CASE poll'[q].id # poll[q].id \/ ~ poll[q].status
      <4>1. Enqueued(q, poll'[q].id)
        BY <1>7, <2>3, <3>2, ClientWaits
      <4> QED
        BY <4>1 DEF Enqueued, Waiting
    <3> QED
      BY <3>1, <3>2
  <2>4. ASSUME "order" \in busy'[q]
        PROVE  \E id \in Waiting(q)' : id.kind = "order"
    <3>1. CASE "order" \in busy[q]
      <4>1. PICK id \in Waiting(q) : id.kind = "order"
        BY <1>1, <3>1
      <4>2. ~ Hears(q, id)
        BY <2>4, <4>1, HearingReleases DEF Hears
      <4> QED
        BY <2>1, <4>1, <4>2
    <3>2. CASE "order" \notin busy[q]
      <4>1. PICK id : Enqueued(q, id) /\ id.kind = "order"
        BY <1>7, <2>4, <3>2, ClientWaits
      <4> QED
        BY <4>1 DEF Enqueued, Waiting
    <3> QED
      BY <3>1, <3>2
  <2> QED
    BY <2>2, <2>3, <2>4
<1> QED
  BY <1>3, <1>4, <1>5, <1>6, <1>7, NextCases

\* what a client waits for is pending
LEMMA WaitingPends == ASSUME NEW r PROVE Waiting(r) \subseteq Pending(r)
  BY DEF Waiting, Pending

LEMMA AlwaysServed == Spec => [](PollerServed /\ OrderServed)
<1>1. Init => PollerServed /\ OrderServed
  BY DEF Init, PollerServed, OrderServed, RequestId
<1> QED
  BY <1>1, ServedStep, TypesCorrect, PTL DEF Spec

\* The poller never waits for a request that nobody has (the sigStatus of
\* internal/btc/poller.go): every way a round ends is reported.
THEOREM PollerCorrect == Spec => []PollerNotStranded
<1>1. PollerServed /\ OrderServed => PollerNotStranded
  BY WaitingPends DEF PollerServed, PollerNotStranded
<1> QED
  BY <1>1, AlwaysServed, PTL

\* Nor does the wallet wait for a send order that nobody has (sigStatus of
\* internal/wallet/withdraw.go).
THEOREM OrderCorrect == Spec => []OrderNotStranded
<1>1. PollerServed /\ OrderServed => OrderNotStranded
  BY WaitingPends DEF OrderServed, OrderNotStranded
<1> QED
  BY <1>1, AlwaysServed, PTL

=============================================================================
