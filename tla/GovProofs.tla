----------------------------- MODULE GovProofs -----------------------------
(* Proofs about module Gov: the queues of the proposals and their deposits, for
   any validators, proposals, periods and coins, and the balances of all accounts,
   with what module Coins makes of them. *)
EXTENDS Gov, InductionTheorems, FiniteSetTheorems, TLAPS

(* The queues hold each live proposal once, under the end of its period. *)
Queued(st, ends, vends, iq, aq) ==
  \A id \in IDs, t \in Nat :
    /\ <<id, t>> \in iq <=> st[id] = "DepositPeriod" /\ t = ends[id]
    /\ <<id, t>> \in aq <=> st[id] = "VotingPeriod" /\ t = vends[id]

(* No live proposal is older than its period, as far as EndBlocker has run. *)
InTime(st, ends, vends) ==
  \A id \in IDs :
    /\ st[id] = "DepositPeriod" => ran <= ends[id]
    /\ st[id] = "VotingPeriod" => ran <= vends[id]

(* Only live proposals have deposits. *)
DepositsLive(st, ds) ==
  \A id \in IDs, v \in Validators :
    ds[<<id, v>>] # 0 => st[id] \in {"DepositPeriod", "VotingPeriod"}

(* An ID that was not given yet has no proposal. *)
Fresh == \A id \in IDs : id >= nextID => status[id] = "None"

ProposalsOK ==
  /\ Queued(status, depositEnd, votingEnd, inactiveQueue, activeQueue)
  /\ InTime(status, depositEnd, votingEnd)
  /\ DepositsLive(status, deposits)

Inv == GovTypeOK /\ ran <= now /\ Fresh /\ ProposalsOK

-----------------------------------------------------------------------------
LEMMA InitInv == Init => Inv
<1> SUFFICES ASSUME Init PROVE Inv
  OBVIOUS
<1> USE GovAssumption DEF Init, CoinsInit
<1>1. GovTypeOK
  BY DEF GovTypeOK, Statuses
<1>2. ran <= now /\ Fresh
  BY DEF Fresh
<1>3. ProposalsOK
  BY DEF ProposalsOK, Queued, InTime, DepositsLive
<1> QED BY <1>1, <1>2, <1>3 DEF Inv

(* What a deposit does to the proposals, whatever st, ends and queue are. *)
LEMMA AddDepositKeeps ==
  ASSUME NEW id \in IDs, NEW v \in Validators, NEW n \in Nat,
         NEW st \in [IDs -> Statuses], NEW ends \in [IDs -> Nat],
         NEW queue \in SUBSET (IDs \X Nat),
         GovTypeOK, ran <= now, UNCHANGED chainVars,
         st[id] \in {"DepositPeriod", "VotingPeriod"},
         Queued(st, ends, votingEnd, queue, activeQueue),
         InTime(st, ends, votingEnd),
         DepositsLive(st, deposits),
         AddDeposit(id, st, ends, queue, v, n),
         depositEnd' = ends
  PROVE  /\ status' \in [IDs -> Statuses] /\ total' \in [IDs -> Nat]
         /\ depositEnd' \in [IDs -> Nat] /\ votingEnd' \in [IDs -> Nat]
         /\ deposits' \in [IDs \X Validators -> Nat]
         /\ inactiveQueue' \subseteq IDs \X Nat /\ activeQueue' \subseteq IDs \X Nat
         /\ \A i \in IDs \ {id} : status'[i] = st[i]
         /\ ProposalsOK'
<1> USE GovAssumption
<1>1. total' \in [IDs -> Nat] /\ depositEnd' \in [IDs -> Nat]
  BY DEF AddDeposit, GovTypeOK
<1>2. /\ deposits' \in [IDs \X Validators -> Nat]
      /\ \A i \in IDs, w \in Validators :
           <<i, w>> # <<id, v>> => deposits'[<<i, w>>] = deposits[<<i, w>>]
  BY DEF AddDeposit, GovTypeOK
<1>3. CASE Activates(id, st, n)
  <2>1. ActivateVotingPeriod(id, st, ends, queue)
    BY <1>3 DEF AddDeposit
  <2>2. st[id] = "DepositPeriod"
    BY <1>3 DEF Activates
  <2>3. now \in Nat /\ ran \in Nat /\ now + VotingPeriod \in Nat /\ ran <= now + VotingPeriod
    BY DEF GovTypeOK
  <2>4. /\ status' \in [IDs -> Statuses] /\ status'[id] = "VotingPeriod"
        /\ \A i \in IDs \ {id} : status'[i] = st[i]
    BY <2>1 DEF ActivateVotingPeriod, Statuses
  <2>5. /\ votingEnd' \in [IDs -> Nat] /\ votingEnd'[id] = now + VotingPeriod
        /\ \A i \in IDs \ {id} : votingEnd'[i] = votingEnd[i]
    BY <2>1, <2>3 DEF ActivateVotingPeriod, GovTypeOK
  <2>6. inactiveQueue' \subseteq IDs \X Nat /\ activeQueue' \subseteq IDs \X Nat
    BY <2>1, <2>3 DEF ActivateVotingPeriod, GovTypeOK
  <2>7. Queued(status, depositEnd, votingEnd, inactiveQueue, activeQueue)'
    <3> SUFFICES ASSUME NEW i \in IDs, NEW t \in Nat
                 PROVE  /\ <<i, t>> \in inactiveQueue' <=>
                             status'[i] = "DepositPeriod" /\ t = depositEnd'[i]
                        /\ <<i, t>> \in activeQueue' <=>
                             status'[i] = "VotingPeriod" /\ t = votingEnd'[i]
      BY DEF Queued
    <3>1. /\ <<i, t>> \in queue <=> st[i] = "DepositPeriod" /\ t = ends[i]
          /\ <<i, t>> \in activeQueue <=> st[i] = "VotingPeriod" /\ t = votingEnd[i]
      BY DEF Queued
    <3>2. <<i, t>> \in inactiveQueue' <=> <<i, t>> \in queue /\ <<i, t>> # <<id, ends[id]>>
      BY <2>1 DEF ActivateVotingPeriod
    <3>3. <<i, t>> \in activeQueue' <=>
            <<i, t>> \in activeQueue \/ <<i, t>> = <<id, now + VotingPeriod>>
      BY <2>1 DEF ActivateVotingPeriod
    <3>4. CASE i = id
      BY <2>2, <2>4, <2>5, <3>1, <3>2, <3>3, <3>4
    <3>5. CASE i # id
      BY <2>4, <2>5, <3>1, <3>2, <3>3, <3>5
    <3> QED BY <3>4, <3>5
  <2>8. InTime(status, depositEnd, votingEnd)'
    BY <2>3, <2>4, <2>5 DEF InTime, chainVars
  <2>9. DepositsLive(status, deposits)'
    BY <1>2, <2>4 DEF DepositsLive
  <2> QED BY <1>1, <1>2, <2>4, <2>5, <2>6, <2>7, <2>8, <2>9 DEF ProposalsOK
<1>4. CASE ~Activates(id, st, n)
  <2>1. status' = st /\ inactiveQueue' = queue /\ UNCHANGED <<votingEnd, activeQueue>>
    BY <1>4 DEF AddDeposit
  <2>2. Queued(status, depositEnd, votingEnd, inactiveQueue, activeQueue)'
    BY <2>1 DEF Queued
  <2>3. InTime(status, depositEnd, votingEnd)'
    BY <2>1 DEF InTime, chainVars
  <2>4. DepositsLive(status, deposits)'
    BY <1>2, <2>1 DEF DepositsLive
  <2> QED BY <1>1, <1>2, <2>1, <2>2, <2>3, <2>4 DEF ProposalsOK, GovTypeOK
<1> QED BY <1>3, <1>4

(* A step that leaves the proposals alone keeps the invariant, if time and the
   validators are what they should be. *)
LEMMA QuietKeepsInv ==
  ASSUME Inv, UNCHANGED proposalVars,
         now' \in Nat, now <= now', ran' = ran, proposer' \in Users,
         signer' \in [Validators -> Users], active' \subseteq Validators
  PROVE  Inv'
<1>1. GovTypeOK' /\ (ran <= now)'
  BY DEF Inv, GovTypeOK, proposalVars
<1>2. Fresh' /\ ProposalsOK'
  BY DEF Inv, Fresh, ProposalsOK, Queued, InTime, DepositsLive, proposalVars
<1> QED BY <1>1, <1>2 DEF Inv

LEMMA FailsKeepsInv ==
  ASSUME Inv, UNCHANGED chainVars, NEW v \in Validators, Fails(v)
  PROVE  Inv'
BY QuietKeepsInv DEF Inv, GovTypeOK, chainVars, Fails

LEMMA SubmitKeepsInv ==
  ASSUME Inv, NEW v \in Validators, NEW n \in InitialDeposits, NEW accepted \in BOOLEAN,
         HandleMsgSubmitProposal(v, n, accepted)
  PROVE  Inv'
<1> DEFINE ends == [depositEnd EXCEPT ![nextID] = now + DepositPeriod]
           st == [status EXCEPT ![nextID] = "DepositPeriod"]
           queue == inactiveQueue \cup {<<nextID, now + DepositPeriod>>}
           ok == Pays(signer[v], v \in active /\ accepted, n)
<1> USE GovAssumption
<1>1. UNCHANGED chainVars /\ nextID \in IDs
  BY DEF HandleMsgSubmitProposal, Deliver
<1>2. CASE ~ok
  BY <1>1, <1>2, FailsKeepsInv DEF HandleMsgSubmitProposal
<1>3. CASE ok
  <2>1. /\ nextID' = nextID + 1 /\ depositEnd' = ends /\ votes' = votes
        /\ AddDeposit(nextID, st, ends, queue, v, n)
    BY <1>3 DEF HandleMsgSubmitProposal
  <2>2. /\ GovTypeOK /\ ran <= now /\ now \in Nat /\ ran \in Nat /\ nextID \in Nat
        /\ now + DepositPeriod \in Nat /\ ran <= now + DepositPeriod
        /\ status[nextID] = "None"
    BY <1>1 DEF Inv, GovTypeOK, Fresh
  <2>3. /\ st \in [IDs -> Statuses] /\ st[nextID] = "DepositPeriod"
        /\ \A i \in IDs \ {nextID} : st[i] = status[i]
    BY <1>1, <2>2 DEF GovTypeOK, Statuses
  <2>4. /\ ends \in [IDs -> Nat] /\ ends[nextID] = now + DepositPeriod
        /\ \A i \in IDs \ {nextID} : ends[i] = depositEnd[i]
    BY <1>1, <2>2 DEF GovTypeOK
  <2>5. queue \in SUBSET (IDs \X Nat)
    BY <1>1, <2>2 DEF GovTypeOK
  <2>6. Queued(st, ends, votingEnd, queue, activeQueue)
    <3> SUFFICES ASSUME NEW i \in IDs, NEW t \in Nat
                 PROVE  /\ <<i, t>> \in queue <=> st[i] = "DepositPeriod" /\ t = ends[i]
                        /\ <<i, t>> \in activeQueue <=> st[i] = "VotingPeriod" /\ t = votingEnd[i]
      BY DEF Queued
    <3>1. /\ <<i, t>> \in inactiveQueue <=> status[i] = "DepositPeriod" /\ t = depositEnd[i]
          /\ <<i, t>> \in activeQueue <=> status[i] = "VotingPeriod" /\ t = votingEnd[i]
      BY DEF Inv, ProposalsOK, Queued
    <3>2. <<i, t>> \in queue <=> <<i, t>> \in inactiveQueue \/ <<i, t>> = <<nextID, now + DepositPeriod>>
      OBVIOUS
    <3> HIDE DEF queue, st, ends
    <3>3. CASE i = nextID
      BY <2>2, <2>3, <2>4, <3>1, <3>2, <3>3
    <3>4. CASE i # nextID
      BY <2>3, <2>4, <3>1, <3>2, <3>4
    <3> QED BY <3>3, <3>4
  <2>7. InTime(st, ends, votingEnd)
    <3> HIDE DEF st, ends
    <3> QED BY <2>2, <2>3, <2>4 DEF Inv, ProposalsOK, InTime
  <2>8. DepositsLive(st, deposits)
    <3> HIDE DEF st
    <3> QED BY <2>3 DEF Inv, ProposalsOK, DepositsLive
  <2>9. /\ status' \in [IDs -> Statuses] /\ total' \in [IDs -> Nat]
        /\ depositEnd' \in [IDs -> Nat] /\ votingEnd' \in [IDs -> Nat]
        /\ deposits' \in [IDs \X Validators -> Nat]
        /\ inactiveQueue' \subseteq IDs \X Nat /\ activeQueue' \subseteq IDs \X Nat
        /\ \A i \in IDs \ {nextID} : status'[i] = st[i]
        /\ ProposalsOK'
    <3> HIDE DEF st, ends, queue
    <3>1. n \in Nat
      OBVIOUS
    <3> QED BY <1>1, <2>1, <2>2, <2>3, <2>4, <2>5, <2>6, <2>7, <2>8, <3>1, AddDepositKeeps
  <2>10. GovTypeOK' /\ (ran <= now)'
    BY <1>1, <2>1, <2>2, <2>9 DEF GovTypeOK, chainVars
  <2>11. Fresh'
    <3> SUFFICES ASSUME NEW i \in IDs, i >= nextID + 1 PROVE status'[i] = "None"
      BY <2>1 DEF Fresh
    <3>1. i \in Nat /\ i # nextID /\ i >= nextID
      BY <2>2
    <3> HIDE DEF st
    <3> QED BY <2>3, <2>9, <3>1 DEF Inv, Fresh
  <2> QED BY <2>9, <2>10, <2>11 DEF Inv
<1> QED BY <1>2, <1>3

LEMMA DepositKeepsInv ==
  ASSUME Inv, NEW v \in Validators, NEW id \in IDs, NEW n \in Amounts,
         HandleMsgDeposit(v, id, n)
  PROVE  Inv'
<1> DEFINE ok == Pays(signer[v], v \in active /\ Depositable(id), n)
<1> USE GovAssumption, CoinsAssumption
<1>1. UNCHANGED chainVars
  BY DEF HandleMsgDeposit, Deliver
<1>2. CASE ~ok
  BY <1>1, <1>2, FailsKeepsInv DEF HandleMsgDeposit
<1>3. CASE ok
  <2>1. /\ AddDeposit(id, status, depositEnd, inactiveQueue, v, n)
        /\ UNCHANGED <<nextID, depositEnd, votes>>
    BY <1>3 DEF HandleMsgDeposit
  <2>2. status[id] \in {"DepositPeriod", "VotingPeriod"}
    BY <1>3 DEF Pays, Depositable, Live
  <2>3. /\ status' \in [IDs -> Statuses] /\ total' \in [IDs -> Nat]
        /\ depositEnd' \in [IDs -> Nat] /\ votingEnd' \in [IDs -> Nat]
        /\ deposits' \in [IDs \X Validators -> Nat]
        /\ inactiveQueue' \subseteq IDs \X Nat /\ activeQueue' \subseteq IDs \X Nat
        /\ \A i \in IDs \ {id} : status'[i] = status[i]
        /\ ProposalsOK'
    <3>1. n \in Nat
      OBVIOUS
    <3>2. /\ status \in [IDs -> Statuses] /\ depositEnd \in [IDs -> Nat]
          /\ inactiveQueue \in SUBSET (IDs \X Nat)
      BY DEF Inv, GovTypeOK
    <3> QED BY <1>1, <2>1, <2>2, <3>1, <3>2, AddDepositKeeps DEF Inv, ProposalsOK
  <2>4. GovTypeOK' /\ (ran <= now)'
    BY <1>1, <2>1, <2>3 DEF Inv, GovTypeOK, chainVars
  <2>5. Fresh'
    BY <2>1, <2>2, <2>3 DEF Inv, Fresh
  <2> QED BY <2>3, <2>4, <2>5 DEF Inv
<1> QED BY <1>2, <1>3

LEMMA VoteKeepsInv ==
  ASSUME Inv, NEW v \in Validators, NEW id \in IDs, NEW option \in Options,
         HandleMsgVote(v, id, option)
  PROVE  Inv'
<1>1. votes' \in [IDs \X Validators -> Options \cup {"Empty"}]
  BY DEF HandleMsgVote, Inv, GovTypeOK
<1>2. GovTypeOK' /\ (ran <= now)'
  BY <1>1 DEF HandleMsgVote, Deliver, Inv, GovTypeOK, chainVars
<1>3. Fresh' /\ ProposalsOK'
  BY DEF HandleMsgVote, Deliver, Inv, Fresh, ProposalsOK, Queued, InTime, DepositsLive, chainVars
<1> QED BY <1>2, <1>3 DEF Inv

LEMMA EndBlockerKeepsInv ==
  ASSUME Inv, NEW fail, NEW next \in active, EndBlocker(fail, next)
  PROVE  Inv'
<1> DEFINE dropped == Due(inactiveQueue)
           decided == Due(activeQueue)
           over == dropped \cup decided
<1> USE GovAssumption
<1>1. now' \in Nat /\ now <= now' /\ ran' = now' /\ now' <= now + 1 /\ proposer' \in Users
      /\ UNCHANGED <<signer, active>>
  BY DEF EndBlocker, NextBlock, Inv, GovTypeOK
<1>2. dropped \subseteq IDs /\ decided \subseteq IDs
  BY DEF Due
<1>3. /\ \A id \in IDs : id \in dropped <=> status[id] = "DepositPeriod" /\ depositEnd[id] <= now
      /\ \A id \in IDs : id \in decided <=> status[id] = "VotingPeriod" /\ votingEnd[id] <= now
  <2>1. \A id \in IDs : depositEnd[id] \in Nat /\ votingEnd[id] \in Nat /\ now \in Nat
    BY DEF Inv, GovTypeOK
  <2>2. \A id \in IDs, t \in Nat :
          /\ <<id, t>> \in inactiveQueue <=> status[id] = "DepositPeriod" /\ t = depositEnd[id]
          /\ <<id, t>> \in activeQueue <=> status[id] = "VotingPeriod" /\ t = votingEnd[id]
    BY DEF Inv, ProposalsOK, Queued
  <2>3. \A id \in IDs : id \in dropped <=> \E t \in 0..now : <<id, t>> \in inactiveQueue
    BY DEF Due
  <2>4. \A id \in IDs : id \in decided <=> \E t \in 0..now : <<id, t>> \in activeQueue
    BY DEF Due
  <2> HIDE DEF dropped, decided
  <2>5. \A t : t \in 0..now <=> t \in Nat /\ t <= now
    BY <2>1 DEF Inv, GovTypeOK
  <2> QED BY <2>1, <2>2, <2>3, <2>4, <2>5
<1>4. /\ status' = [id \in IDs |-> IF id \in dropped THEN "None"
                                   ELSE IF id \in decided THEN Decision(id, fail)
                                   ELSE status[id]]
      /\ total' = [id \in IDs |-> IF id \in dropped THEN 0 ELSE total[id]]
      /\ deposits' = [d \in IDs \X Validators |-> IF d[1] \in over THEN 0 ELSE deposits[d]]
      /\ votes' = [d \in IDs \X Validators |-> IF d[1] \in decided THEN "Empty" ELSE votes[d]]
      /\ inactiveQueue' = {q \in inactiveQueue : q[1] \notin dropped}
      /\ activeQueue' = {q \in activeQueue : q[1] \notin over}
      /\ UNCHANGED <<nextID, depositEnd, votingEnd>>
  BY DEF EndBlocker, Remaining
<1>5. \A id : Decision(id, fail) \in {"Passed", "Rejected", "Failed"}
  BY DEF Decision
<1> HIDE DEF dropped, decided
<1>6. GovTypeOK'
  <2>1. status' \in [IDs -> Statuses]
    BY <1>4, <1>5 DEF Inv, GovTypeOK, Statuses
  <2>2. total' \in [IDs -> Nat] /\ deposits' \in [IDs \X Validators -> Nat]
    BY <1>4 DEF Inv, GovTypeOK
  <2>3. votes' \in [IDs \X Validators -> Options \cup {"Empty"}]
    BY <1>4 DEF Inv, GovTypeOK
  <2> QED BY <1>1, <1>4, <2>1, <2>2, <2>3 DEF Inv, GovTypeOK
<1>7. Fresh'
  BY <1>3, <1>4 DEF Inv, Fresh
<1>8. \A id \in IDs :
        /\ status'[id] = "DepositPeriod" <=> status[id] = "DepositPeriod" /\ id \notin dropped
        /\ status'[id] = "VotingPeriod" <=> status[id] = "VotingPeriod" /\ id \notin decided
  BY <1>3, <1>4, <1>5
<1>9. Queued(status, depositEnd, votingEnd, inactiveQueue, activeQueue)'
  <2> SUFFICES ASSUME NEW i \in IDs, NEW t \in Nat
               PROVE  /\ <<i, t>> \in inactiveQueue' <=>
                           status'[i] = "DepositPeriod" /\ t = depositEnd'[i]
                      /\ <<i, t>> \in activeQueue' <=>
                           status'[i] = "VotingPeriod" /\ t = votingEnd'[i]
    BY DEF Queued
  <2>1. /\ <<i, t>> \in inactiveQueue <=> status[i] = "DepositPeriod" /\ t = depositEnd[i]
        /\ <<i, t>> \in activeQueue <=> status[i] = "VotingPeriod" /\ t = votingEnd[i]
    BY DEF Inv, ProposalsOK, Queued
  <2>2. /\ <<i, t>> \in inactiveQueue' <=> <<i, t>> \in inactiveQueue /\ i \notin dropped
        /\ <<i, t>> \in activeQueue' <=> <<i, t>> \in activeQueue /\ i \notin over
    BY <1>4
  <2>3. status[i] = "VotingPeriod" => i \notin dropped
    BY <1>3
  <2> QED BY <1>4, <1>8, <2>1, <2>2, <2>3
<1>10. InTime(status, depositEnd, votingEnd)'
  <2>1. \A id \in IDs : depositEnd[id] \in Nat /\ votingEnd[id] \in Nat /\ now \in Nat
    BY DEF Inv, GovTypeOK
  <2> QED BY <1>1, <1>3, <1>4, <1>8, <2>1 DEF InTime
<1>11. DepositsLive(status, deposits)'
  <2> SUFFICES ASSUME NEW i \in IDs, NEW v \in Validators, deposits'[<<i, v>>] # 0
               PROVE  status'[i] \in {"DepositPeriod", "VotingPeriod"}
    BY DEF DepositsLive
  <2>1. i \notin over /\ deposits[<<i, v>>] # 0
    BY <1>4
  <2>2. status[i] \in {"DepositPeriod", "VotingPeriod"}
    BY <2>1 DEF Inv, ProposalsOK, DepositsLive
  <2> QED BY <1>8, <2>1, <2>2
<1> QED BY <1>1, <1>6, <1>7, <1>9, <1>10, <1>11 DEF Inv, ProposalsOK, GovTypeOK

LEMMA InvStep == Inv /\ [Next]_vars => Inv'
<1> SUFFICES ASSUME Inv, [Next]_vars PROVE Inv'
  OBVIOUS
<1> USE GovAssumption
<1>0. GovTypeOK
  BY DEF Inv
<1>1. CASE CoinStep
  BY <1>0, <1>1, QuietKeepsInv DEF CoinStep, chainVars, GovTypeOK
<1>2. ASSUME NEW v \in Validators, NEW n \in InitialDeposits, NEW accepted \in BOOLEAN,
             HandleMsgSubmitProposal(v, n, accepted)
      PROVE  Inv'
  BY <1>2, SubmitKeepsInv
<1>3. ASSUME NEW v \in Validators, NEW id \in IDs, NEW n \in Amounts, HandleMsgDeposit(v, id, n)
      PROVE  Inv'
  BY <1>3, DepositKeepsInv
<1>4. ASSUME NEW v \in Validators, NEW id \in IDs, NEW option \in Options,
             HandleMsgVote(v, id, option)
      PROVE  Inv'
  BY <1>4, VoteKeepsInv
<1>5. ASSUME NEW v \in Validators, NEW new \in Users, SignerUpdate(v, new)
      PROVE  Inv'
  <2>1. signer' \in [Validators -> Users]
    BY <1>0, <1>5 DEF SignerUpdate, GovTypeOK
  <2> QED BY <1>0, <1>5, <2>1, QuietKeepsInv DEF SignerUpdate, GovTypeOK
<1>6. ASSUME NEW v \in Leavers, Leave(v)
      PROVE  Inv'
  BY <1>0, <1>6, QuietKeepsInv DEF Leave, GovTypeOK
<1>7. CASE EndBlock
  BY <1>7, EndBlockerKeepsInv DEF EndBlock
<1>8. CASE EndBlockFails
  <2>1. PICK next \in active : NextBlock(next)
    BY <1>8 DEF EndBlockFails
  <2>2. now' \in Nat /\ now <= now' /\ proposer' \in Users /\ UNCHANGED <<signer, active>>
    BY <1>0, <2>1 DEF NextBlock, GovTypeOK
  <2>3. UNCHANGED <<ran, proposalVars>>
    BY <1>8 DEF EndBlockFails
  <2> QED BY <1>0, <2>2, <2>3, QuietKeepsInv DEF GovTypeOK
<1>9. CASE UNCHANGED vars
  BY <1>0, <1>9, QuietKeepsInv DEF vars, chainVars, GovTypeOK
<1> QED BY <1>1, <1>2, <1>3, <1>4, <1>5, <1>6, <1>7, <1>8, <1>9 DEF Next

(* The proposals, their deposits, votes, queues and times are always what the
   types of gov/types say. *)
THEOREM GovTypeCorrect == Spec => []GovTypeOK
<1>1. Inv => GovTypeOK
  BY DEF Inv
<1> QED BY InitInv, InvStep, <1>1, PTL DEF Spec

(* No proposal is in the inactive and in the active queue, so that none is
   dropped while it is voted on (gov/proposal.go:152-164). *)
THEOREM OneQueueHolds == Spec => []OneQueue
<1>1. Inv => OneQueue
  <2> SUFFICES ASSUME Inv, NEW i \in inactiveQueue, NEW a \in activeQueue, i[1] = a[1]
               PROVE  FALSE
    BY DEF OneQueue
  <2>1. PICK id \in IDs, t \in Nat : i = <<id, t>>
    BY DEF Inv, GovTypeOK
  <2>2. PICK u \in Nat : a = <<id, u>>
    BY <2>1 DEF Inv, GovTypeOK
  <2>3. status[id] = "DepositPeriod" /\ status[id] = "VotingPeriod"
    BY <2>1, <2>2 DEF Inv, ProposalsOK, Queued
  <2> QED BY <2>3
<1> QED BY InitInv, InvStep, <1>1, PTL DEF Spec

(* No deposit is kept longer than the period its proposal is in, whatever
   signers change, validators leave and blocks end early
   (gov/endblocker.go:16,40). *)
THEOREM DepositsReturnedHolds == Spec => []DepositsReturned
<1>1. Inv => DepositsReturned
  BY DEF Inv, ProposalsOK, InTime, DepositsLive, DepositsReturned
<1> QED BY InitInv, InvStep, <1>1, PTL DEF Spec
-----------------------------------------------------------------------------
(* The coins.                                                               *)

Held(b) == SumFunctionOnSet(b, Accounts)      \* in all accounts
Out(d)  == SumFunctionOnSet(d, Users)         \* in all dividend accounts
In(c)   == SumFunctionOnSet(TopupFee, c)      \* brought in by top-ups

LEMMA SetsFinite ==
  /\ IsFiniteSet(Users) /\ IsFiniteSet(Accounts)
  /\ \A c \in SUBSET Topups : IsFiniteSet(c)
  /\ \A ids \in SUBSET IDs : IsFiniteSet(ids \X Validators)
<1>1. IsFiniteSet(Users) /\ \A c \in SUBSET Topups : IsFiniteSet(c)
  BY CoinsAssumption, FS_Subset
<1>2. IsFiniteSet({FeeCollector, GovModule})
  <2>1. IsFiniteSet({} \cup {FeeCollector}) /\ IsFiniteSet(({} \cup {FeeCollector}) \cup {GovModule})
    BY FS_EmptySet, FS_AddElement
  <2>2. ({} \cup {FeeCollector}) \cup {GovModule} = {FeeCollector, GovModule}
    OBVIOUS
  <2> QED BY <2>1, <2>2, Zenon
<1>3. IsFiniteSet(Accounts)
  BY <1>1, <1>2, FS_Union DEF Accounts
<1>4. \A ids \in SUBSET IDs : IsFiniteSet(ids \X Validators)
  BY GovAssumption, FS_Subset, FS_Product
<1> QED BY <1>1, <1>3, <1>4

LEMMA HeldType ==
  ASSUME NEW b \in [Accounts -> Nat]
  PROVE  Held(b) \in Nat
BY SetsFinite, SumNat DEF Held

(* The balance of one account is set. *)
LEMMA HeldChange ==
  ASSUME NEW b \in [Accounts -> Nat], NEW a \in Accounts, NEW x \in Nat
  PROVE  Held([b EXCEPT ![a] = x]) = Held(b) + x - b[a]
<1> DEFINE c == [b EXCEPT ![a] = x]
<1>1. (\A y \in Accounts : b[y] \in Int) /\ c[a] = x /\ \A y \in Accounts \ {a} : c[y] = b[y]
  OBVIOUS
<1> HIDE DEF c
<1>2. Held(c) = Held(b) + c[a] - b[a]
  BY <1>1, SetsFinite, SumChange DEF Held
<1> QED BY <1>1, <1>2 DEF c

(* A payment leaves the sum as it is, and lowers one balance only. *)
LEMMA MoveKeeps ==
  ASSUME NEW b \in [Accounts -> Nat], NEW from \in Accounts, NEW to \in Accounts,
         NEW n \in Nat, n <= b[from]
  PROVE  /\ Move(b, from, to, n) \in [Accounts -> Nat]
         /\ Held(Move(b, from, to, n)) = Held(b)
         /\ \A a \in Accounts \ {from} : b[a] <= Move(b, from, to, n)[a]
         /\ from # to => Move(b, from, to, n)[to] = b[to] + n
<1> DEFINE x == b[from] - n
           taken == [b EXCEPT ![from] = x]
           y == taken[to] + n
           moved == [taken EXCEPT ![to] = y]
<1>1. x \in Nat /\ taken \in [Accounts -> Nat] /\ taken[from] = x
      /\ \A a \in Accounts \ {from} : taken[a] = b[a]
  OBVIOUS
<1>2. Move(b, from, to, n) = moved
  BY DEF Move
<1>3. Held(taken) = Held(b) + x - b[from]
  BY <1>1, HeldChange
<1>4. Held(b) \in Nat /\ b[from] \in Nat
  BY HeldType
<1> HIDE DEF taken
<1>5. y \in Nat /\ moved \in [Accounts -> Nat]
      /\ moved[to] = y /\ \A a \in Accounts \ {to} : moved[a] = taken[a]
  BY <1>1
<1> HIDE DEF y
<1>6. Held(moved) = Held(taken) + y - taken[to]
  BY <1>1, <1>5, HeldChange
<1> HIDE DEF moved
<1>7. Held(moved) = Held(b)
  BY <1>1, <1>3, <1>4, <1>6 DEF y
<1>8. \A a \in Accounts \ {from} : b[a] <= moved[a]
  BY <1>1, <1>5 DEF y
<1>9. from # to => moved[to] = b[to] + n
  BY <1>1, <1>5 DEF y
<1> QED BY <1>2, <1>5, <1>7, <1>8, <1>9

(* What a transaction's fee leaves. *)
LEMMA AfterFeeKeeps ==
  ASSUME CoinsTypeOK, NEW a \in Users, AnteHandler(a)
  PROVE  /\ AfterFee(a) \in [Accounts -> Nat]
         /\ Held(AfterFee(a)) = Held(balance)
         /\ balance[GovModule] <= AfterFee(a)[GovModule]
<1>1. a \in Accounts /\ FeeCollector \in Accounts /\ GovModule \in Accounts \ {a}
      /\ TxFee \in Nat /\ TxFee <= balance[a] /\ balance \in [Accounts -> Nat]
  BY CoinsAssumption DEF Accounts, CoinsTypeOK, AnteHandler
<1> QED BY <1>1, MoveKeeps DEF AfterFee

LEMMA WholeSums ==
  ASSUME NEW b \in [Accounts -> Nat], NEW d \in [Users -> Nat]
  PROVE  SumFunction(b) = Held(b) /\ SumFunction(d) = Out(d)
<1>1. DOMAIN b = Accounts /\ DOMAIN d = Users
  OBVIOUS
<1> QED BY <1>1, Zenon DEF SumFunction, Held, Out

LEMMA OutType ==
  ASSUME NEW d \in [Users -> Nat]
  PROVE  Out(d) \in Nat
BY SetsFinite, SumNat DEF Out

LEMMA InType ==
  ASSUME NEW c \in SUBSET Topups
  PROVE  In(c) \in Nat
<1>1. \A e \in c : TopupFee[e] \in Nat
  BY CoinsAssumption
<1> QED BY <1>1, SetsFinite, SumNat DEF In

LEMMA DepositedType ==
  ASSUME NEW ds \in [IDs \X Validators -> Nat], NEW ids \in SUBSET IDs
  PROVE  SumFunctionOnSet(ds, ids \X Validators) \in Nat
<1>1. \A d \in ids \X Validators : ds[d] \in Nat
  OBVIOUS
<1> QED BY <1>1, SetsFinite, SumNat

CoinsInv == CoinsTypeOK /\ Conserved /\ DepositsCovered

(* What a step must do to the sums. *)
LEMMA SumsKeepInv ==
  ASSUME CoinsInv, CoinsTypeOK', GovTypeOK, GovTypeOK',
         Held(balance') + Out(dividend') + In(credited)
           = Held(balance) + Out(dividend) + In(credited'),
         balance[GovModule] + Deposited(IDs)' <= balance'[GovModule] + Deposited(IDs)
  PROVE  CoinsInv'
<1>1. /\ CoinsTypeOK /\ GovModule \in Accounts /\ Genesis \in [Users -> Nat]
  BY CoinsAssumption DEF CoinsInv, Accounts
<1>2. /\ Held(balance) \in Nat /\ Out(dividend) \in Nat /\ In(credited) \in Nat
      /\ Held(balance') \in Nat /\ Out(dividend') \in Nat /\ In(credited') \in Nat
      /\ Out(Genesis) \in Nat
  BY <1>1, HeldType, OutType, InType DEF CoinsTypeOK
<1>3. Conserved'
  <2>1. Held(balance) + Out(dividend) = Out(Genesis) + In(credited)
    BY <1>1, WholeSums DEF CoinsInv, Conserved, CoinsTypeOK, In
  <2>2. Held(balance') + Out(dividend') = Out(Genesis) + In(credited')
    BY <1>2, <2>1
  <2> QED BY <1>1, <2>2, WholeSums DEF Conserved, CoinsTypeOK, In
<1>4. DepositsCovered'
  <2>1. Deposited(IDs) \in Nat /\ Deposited(IDs)' \in Nat
    BY DepositedType DEF GovTypeOK, Deposited
  <2>2. balance[GovModule] \in Nat /\ balance'[GovModule] \in Nat
    BY <1>1 DEF CoinsTypeOK
  <2> QED BY <2>1, <2>2 DEF CoinsInv, DepositsCovered
<1> QED BY <1>3, <1>4 DEF CoinsInv

(* A step that moves coins between accounts and takes none from the module. *)
LEMMA PaymentKeepsInv ==
  ASSUME CoinsInv, GovTypeOK, GovTypeOK',
         UNCHANGED <<dividend, credited, deposits>>, pipe' \in Seq(Claims), txs' \in Nat,
         balance' \in [Accounts -> Nat], Held(balance') = Held(balance),
         balance[GovModule] <= balance'[GovModule]
  PROVE  CoinsInv'
<1>1. CoinsTypeOK'
  BY DEF CoinsInv, CoinsTypeOK
<1>2. Deposited(IDs)' = Deposited(IDs) /\ Deposited(IDs) \in Nat
  BY DepositedType DEF GovTypeOK, Deposited
<1>3. balance[GovModule] \in Nat /\ balance'[GovModule] \in Nat
  BY DEF CoinsInv, CoinsTypeOK, Accounts
<1>4. balance[GovModule] + Deposited(IDs)' <= balance'[GovModule] + Deposited(IDs)
  BY <1>2, <1>3
<1> QED BY <1>1, <1>4, SumsKeepInv

LEMMA CoinsInitInv == Init => CoinsInv
<1> SUFFICES ASSUME Init PROVE CoinsInv
  OBVIOUS
<1> USE CoinsAssumption, GovAssumption
<1>1. CoinsTypeOK
  BY DEF Init, CoinsInit, CoinsTypeOK, Accounts
<1>2. Held(balance) = Out(Genesis)
  <2> DEFINE Modules == {FeeCollector, GovModule}
  <2>1. /\ IsFiniteSet(Users) /\ IsFiniteSet(Modules) /\ Users \cap Modules = {}
        /\ Accounts = Users \cup Modules
    <3>1. Modules \subseteq Accounts
      BY DEF Accounts
    <3> QED BY <3>1, SetsFinite, FS_Subset DEF Accounts
  <2>2. balance = [a \in Accounts |-> IF a \in Users THEN Genesis[a] ELSE 0]
    BY DEF Init, CoinsInit
  <2>3. \A a \in Users : balance[a] = Genesis[a] /\ Genesis[a] \in Int
    BY <2>1, <2>2
  <2>4. \A a \in Modules : balance[a] = 0
    BY <2>1, <2>2
  <2>5. \A a \in Users \cup Modules : balance[a] \in Int
    BY <2>3, <2>4
  <2> HIDE DEF Modules
  <2>6. SumFunctionOnSet(balance, Users \cup Modules)
          = SumFunctionOnSet(balance, Users) + SumFunctionOnSet(balance, Modules)
    BY <2>1, <2>5, SumDisjoint
  <2>7. SumFunctionOnSet(balance, Users) = SumFunctionOnSet(Genesis, Users)
    BY <2>1, <2>3, SumSame
  <2>8. SumFunctionOnSet(balance, Modules) = 0
    BY <2>1, <2>4, SumZero
  <2>9. Held(balance) = SumFunctionOnSet(balance, Users \cup Modules)
    BY <2>1, Zenon DEF Held
  <2>10. SumFunctionOnSet(Genesis, Users) \in Int
    BY <2>1, <2>3, SumInt
  <2> QED BY <2>6, <2>7, <2>8, <2>9, <2>10 DEF Out
<1>3. Out(dividend) = 0
  <2>1. \A u \in Users : dividend[u] = 0
    BY DEF Init, CoinsInit
  <2> QED BY <2>1, SetsFinite, SumZero DEF Out
<1>4. In(credited) = 0
  BY SumEmpty DEF Init, CoinsInit, In
<1>5. Conserved
  <2>1. Out(Genesis) \in Nat
    BY OutType
  <2> QED BY <1>1, <1>2, <1>3, <1>4, <2>1, WholeSums DEF Conserved, CoinsTypeOK, In
<1>6. DepositsCovered
  <2>1. \A d \in IDs \X Validators : deposits[d] = 0
    BY DEF Init
  <2>2. Deposited(IDs) = 0
    BY <2>1, SetsFinite, SumZero DEF Deposited
  <2>3. balance[GovModule] = 0
    BY DEF Init, CoinsInit, Accounts
  <2> QED BY <2>2, <2>3 DEF DepositsCovered
<1> QED BY <1>1, <1>5, <1>6 DEF CoinsInv

LEMMA SendKeepsCoins ==
  ASSUME CoinsInv, GovTypeOK, GovTypeOK', UNCHANGED deposits,
         NEW from \in Users, NEW to \in Recipients, NEW n \in Amounts,
         HandleMsgSend(from, to, n)
  PROVE  CoinsInv'
<1> DEFINE left == AfterFee(from)
<1>1. CoinsTypeOK /\ n \in Nat /\ to \in Accounts /\ from \in Accounts /\ GovModule \in Accounts \ {from}
  BY CoinsAssumption DEF CoinsInv, Accounts
<1>2. AnteHandler(from) /\ UNCHANGED <<dividend, credited, pipe>>
  BY DEF HandleMsgSend
<1>3. /\ left \in [Accounts -> Nat] /\ Held(left) = Held(balance)
      /\ balance[GovModule] <= left[GovModule]
  BY <1>1, <1>2, AfterFeeKeeps
<1>4. txs' \in Nat /\ pipe' \in Seq(Claims)
  BY <1>1, <1>2 DEF AnteHandler, CoinsTypeOK
<1>5. CASE Pays(from, SendEnabled, n)
  <2>1. balance' = Move(left, from, to, n) /\ n <= left[from]
    BY <1>1, <1>3, <1>5 DEF HandleMsgSend, Pays
  <2> HIDE DEF left
  <2>2. /\ balance' \in [Accounts -> Nat] /\ Held(balance') = Held(left)
        /\ left[GovModule] <= balance'[GovModule]
    BY <1>1, <1>3, <2>1, MoveKeeps
  <2>3. balance[GovModule] <= balance'[GovModule]
    BY <1>1, <1>3, <2>2 DEF CoinsTypeOK
  <2> QED BY <1>2, <1>3, <1>4, <2>2, <2>3, PaymentKeepsInv
<1>6. CASE ~ Pays(from, SendEnabled, n)
  <2>1. balance' = left
    BY <1>6 DEF HandleMsgSend
  <2> QED BY <1>2, <1>3, <1>4, <2>1, PaymentKeepsInv
<1> QED BY <1>5, <1>6

LEMMA WithdrawKeepsCoins ==
  ASSUME CoinsInv, GovTypeOK, GovTypeOK', UNCHANGED deposits,
         NEW a \in Users, NEW n \in Amounts \cup {0}, HandleMsgWithdrawFee(a, n)
  PROVE  CoinsInv'
<1> DEFINE left == AfterFee(a)
           amount == Withdrawn(a, n)
           x == left[a] - amount
           y == dividend[a] + amount
<1>1. CoinsTypeOK /\ n \in Nat /\ a \in Accounts /\ GovModule \in Accounts \ {a}
  BY CoinsAssumption DEF CoinsInv, Accounts
<1>2. AnteHandler(a) /\ UNCHANGED <<credited, pipe>>
  BY DEF HandleMsgWithdrawFee
<1>3. /\ left \in [Accounts -> Nat] /\ Held(left) = Held(balance)
      /\ balance[GovModule] <= left[GovModule]
  BY <1>1, <1>2, AfterFeeKeeps
<1>4. txs' \in Nat /\ pipe' \in Seq(Claims)
  BY <1>1, <1>2 DEF AnteHandler, CoinsTypeOK
<1>5. CASE Pays(a, amount # 0, amount)
  <2>1. /\ balance' = [left EXCEPT ![a] = x] /\ dividend' = [dividend EXCEPT ![a] = y]
        /\ left[a] >= amount
    BY <1>5 DEF HandleMsgWithdrawFee, Pays
  <2>2. amount \in Nat
    BY <1>1, <1>3 DEF Withdrawn
  <2> HIDE DEF left, amount
  <2>3. x \in Nat /\ y \in Nat /\ dividend \in [Users -> Nat] /\ dividend[a] \in Nat
    BY <1>1, <1>3, <2>1, <2>2 DEF CoinsTypeOK
  <2>4. balance' \in [Accounts -> Nat] /\ balance'[GovModule] = left[GovModule]
    BY <1>1, <1>3, <2>1, <2>3
  <2>5. dividend' \in [Users -> Nat] /\ dividend'[a] = y
        /\ \A u \in Users \ {a} : dividend'[u] = dividend[u]
    BY <2>1, <2>3
  <2>6. Held(balance') = Held(left) + x - left[a]
    BY <1>1, <1>3, <2>1, <2>3, HeldChange
  <2>7. Out(dividend') = Out(dividend) + y - dividend[a]
    <3>1. (\A u \in Users : dividend[u] \in Int) /\ dividend'[a] \in Int
      BY <2>3, <2>5
    <3> QED BY <2>5, <3>1, SetsFinite, SumChange DEF Out
  <2>8. Held(left) \in Nat /\ Out(dividend) \in Nat /\ In(credited) \in Nat /\ left[a] \in Nat
    BY <1>1, <1>3, <2>3, HeldType, OutType, InType DEF CoinsTypeOK
  <2>9. Held(balance') + Out(dividend') = Held(balance) + Out(dividend)
    BY <1>3, <2>2, <2>3, <2>6, <2>7, <2>8
  <2>10. CoinsTypeOK'
    BY <1>1, <1>2, <1>4, <2>4, <2>5 DEF CoinsTypeOK
  <2>11. Deposited(IDs)' = Deposited(IDs) /\ Deposited(IDs) \in Nat
    BY DepositedType DEF GovTypeOK, Deposited
  <2>12. balance[GovModule] + Deposited(IDs)' <= balance'[GovModule] + Deposited(IDs)
    BY <1>1, <1>3, <2>4, <2>11 DEF CoinsTypeOK
  <2>13. Held(balance') + Out(dividend') + In(credited) = Held(balance) + Out(dividend) + In(credited')
    BY <1>2, <2>9
  <2> QED BY <2>10, <2>12, <2>13, SumsKeepInv
<1>6. CASE ~ Pays(a, amount # 0, amount)
  <2>1. balance' = left /\ dividend' = dividend
    BY <1>6 DEF HandleMsgWithdrawFee
  <2> QED BY <1>2, <1>3, <1>4, <2>1, PaymentKeepsInv
<1> QED BY <1>5, <1>6

LEMMA TopupKeepsCoins ==
  ASSUME CoinsInv, GovTypeOK, GovTypeOK', UNCHANGED deposits,
         NEW m \in Claims, HandleMsgTopup(m)
  PROVE  CoinsInv'
<1>1. CoinsTypeOK /\ m.from \in Users
  BY CoinsAssumption DEF CoinsInv
<1>2. AnteHandler(m.from) /\ balance' = AfterFee(m.from) /\ UNCHANGED <<dividend, credited>>
  BY DEF HandleMsgTopup
<1>3. pipe' \in Seq(Claims) /\ txs' \in Nat
  BY <1>1, <1>2 DEF HandleMsgTopup, AnteHandler, CoinsTypeOK
<1> QED BY <1>1, <1>2, <1>3, AfterFeeKeeps, PaymentKeepsInv

(* The only step that brings coins in, and once for each event. *)
LEMMA CreditKeepsCoins ==
  ASSUME CoinsInv, GovTypeOK, GovTypeOK', UNCHANGED deposits,
         NEW approved \in BOOLEAN, PostHandleMsgTopup(approved)
  PROVE  CoinsInv'
<1> DEFINE m == Head(pipe)
           x == balance[m.user] + m.fee
           added == [balance EXCEPT ![m.user] = x]
<1>1. CoinsTypeOK /\ pipe # <<>> /\ UNCHANGED <<dividend, txs>> /\ pipe' = Tail(pipe)
  BY DEF CoinsInv, PostHandleMsgTopup
<1>2. /\ m \in Claims /\ pipe' \in Seq(Claims) /\ txs' \in Nat
      /\ balance \in [Accounts -> Nat] /\ dividend \in [Users -> Nat] /\ credited \subseteq Topups
  BY <1>1 DEF CoinsTypeOK
<1> HIDE DEF m
<1>3. /\ m.event \in Topups /\ m.user \in Users /\ m.from \in Users /\ m.fee \in Nat
      /\ m.user \in Accounts /\ m.from \in Accounts
      /\ GovModule \in Accounts \ {m.user} /\ DefaultFee \in Nat /\ TopupFee \in [Topups -> Nat]
  BY <1>2, CoinsAssumption DEF Accounts
<1>4. CASE approved /\ Creditable(m)
  <2>1. /\ balance' = Move(added, m.user, m.from, DefaultFee)
        /\ credited' = credited \cup {m.event}
        /\ m.fee = TopupFee[m.event] /\ m.event \notin credited /\ x >= DefaultFee
    BY <1>4 DEF PostHandleMsgTopup, SideHandleMsgTopup, Creditable, m
  <2>2. x \in Nat /\ balance[m.user] \in Nat
    BY <1>2, <1>3
  <2>3. added \in [Accounts -> Nat] /\ added[m.user] = x /\ added[GovModule] = balance[GovModule]
    BY <1>2, <1>3, <2>2
  <2>4. Held(added) = Held(balance) + x - balance[m.user]
    BY <1>2, <1>3, <2>2, HeldChange
  <2> HIDE DEF added
  <2>5. /\ balance' \in [Accounts -> Nat] /\ Held(balance') = Held(added)
        /\ balance[GovModule] <= balance'[GovModule]
    BY <1>3, <2>1, <2>3, MoveKeeps
  <2>6. In(credited') = TopupFee[m.event] + In(credited)
    <3>1. TopupFee[m.event] \in Int /\ \A e \in credited : TopupFee[e] \in Int
      BY <1>2, <1>3
    <3>2. SumFunctionOnSet(TopupFee, credited \cup {m.event})
            = TopupFee[m.event] + SumFunctionOnSet(TopupFee, credited)
      BY <1>2, <2>1, <3>1, SetsFinite, SumInsert
    <3> QED BY <2>1, <3>2, Zenon DEF In
  <2>7. Held(balance) \in Nat /\ Out(dividend) \in Nat /\ In(credited) \in Nat
    BY <1>2, HeldType, OutType, InType
  <2>8. Held(balance') = Held(balance) + m.fee
    BY <1>3, <2>2, <2>4, <2>5, <2>7
  <2>9. Held(balance') + Out(dividend') + In(credited) = Held(balance) + Out(dividend) + In(credited')
    BY <1>1, <1>3, <2>1, <2>6, <2>7, <2>8
  <2>10. CoinsTypeOK'
    BY <1>1, <1>2, <1>3, <2>1, <2>5 DEF CoinsTypeOK
  <2>11. Deposited(IDs)' = Deposited(IDs) /\ Deposited(IDs) \in Nat
    BY DepositedType DEF GovTypeOK, Deposited
  <2>12. balance[GovModule] + Deposited(IDs)' <= balance'[GovModule] + Deposited(IDs)
    BY <1>2, <1>3, <2>5, <2>11
  <2> QED BY <2>9, <2>10, <2>12, SumsKeepInv
<1>5. CASE ~ (approved /\ Creditable(m))
  <2>1. balance' = balance /\ credited' = credited
    BY <1>5 DEF PostHandleMsgTopup, m
  <2>2. balance[GovModule] <= balance'[GovModule]
    BY <1>2, <1>3, <2>1
  <2> QED BY <1>1, <1>2, <2>1, <2>2, PaymentKeepsInv
<1> QED BY <1>4, <1>5

LEMMA DepositKeepsCoins ==
  ASSUME CoinsInv, GovTypeOK, GovTypeOK', NEW id \in IDs, NEW v \in Validators, NEW n \in Nat,
         NEW st, NEW ends, NEW queue, AnteHandler(signer[v]), n <= AfterFee(signer[v])[signer[v]],
         UNCHANGED <<dividend, credited, pipe>>, AddDeposit(id, st, ends, queue, v, n)
  PROVE  CoinsInv'
<1> DEFINE s == signer[v]
           left == AfterFee(s)
           x == deposits[<<id, v>>] + n
<1>1. /\ CoinsTypeOK /\ s \in Users /\ s \in Accounts /\ GovModule \in Accounts \ {s}
      /\ deposits \in [IDs \X Validators -> Nat]
      /\ balance' = Move(left, s, GovModule, n)
      /\ deposits' = [deposits EXCEPT ![<<id, v>>] = x]
      /\ AnteHandler(s) /\ n <= left[s]
  BY CoinsAssumption DEF CoinsInv, Accounts, GovTypeOK, AddDeposit
<1> HIDE DEF s
<1>2. /\ left \in [Accounts -> Nat] /\ Held(left) = Held(balance)
      /\ balance[GovModule] <= left[GovModule]
  BY <1>1, AfterFeeKeeps
<1> HIDE DEF left
<1>3. /\ balance' \in [Accounts -> Nat] /\ Held(balance') = Held(left)
      /\ balance'[GovModule] = left[GovModule] + n
  BY <1>1, <1>2, MoveKeeps
<1>4. CoinsTypeOK'
  BY <1>1, <1>3 DEF CoinsTypeOK, AnteHandler
<1>5. Deposited(IDs)' = Deposited(IDs) + n
  <2>1. /\ <<id, v>> \in IDs \X Validators /\ deposits'[<<id, v>>] = x
        /\ deposits[<<id, v>>] \in Nat /\ x \in Nat
    BY <1>1
  <2>2. /\ \A d \in IDs \X Validators : deposits[d] \in Int
        /\ \A d \in (IDs \X Validators) \ {<<id, v>>} : deposits'[d] = deposits[d]
    BY <1>1
  <2>3. IsFiniteSet(IDs \X Validators)
    BY SetsFinite
  <2>4. Deposited(IDs) \in Nat
    BY <1>1, DepositedType DEF Deposited
  <2> HIDE DEF x
  <2>5. SumFunctionOnSet(deposits', IDs \X Validators)
          = SumFunctionOnSet(deposits, IDs \X Validators) + deposits'[<<id, v>>] - deposits[<<id, v>>]
    BY <2>1, <2>2, <2>3, SumChange
  <2> QED BY <2>1, <2>4, <2>5 DEF Deposited, x
<1>6. Deposited(IDs) \in Nat
  BY <1>1, DepositedType DEF Deposited
<1>7. balance[GovModule] + Deposited(IDs)' <= balance'[GovModule] + Deposited(IDs)
  BY <1>1, <1>2, <1>3, <1>5, <1>6 DEF CoinsTypeOK
<1>8. Held(balance') + Out(dividend') + In(credited) = Held(balance) + Out(dividend) + In(credited')
  BY <1>2, <1>3
<1> QED BY <1>4, <1>7, <1>8, SumsKeepInv

(* The fees of the block go to the proposer. *)
LEMMA TransferFeesKeeps ==
  ASSUME CoinsTypeOK, GovTypeOK
  PROVE  /\ TransferFees(proposer) \in [Accounts -> Nat]
         /\ Held(TransferFees(proposer)) = Held(balance)
         /\ balance[GovModule] <= TransferFees(proposer)[GovModule]
<1>1. /\ balance \in [Accounts -> Nat] /\ FeeCollector \in Accounts /\ proposer \in Accounts
      /\ GovModule \in Accounts \ {FeeCollector}
      /\ balance[FeeCollector] \in Nat /\ balance[FeeCollector] <= balance[FeeCollector]
  BY CoinsAssumption DEF CoinsTypeOK, GovTypeOK, Accounts
<1> QED BY <1>1, MoveKeeps DEF TransferFees

(* The refunds of all accounts together are the deposits. *)
LEMMA RefundsAddUp ==
  ASSUME GovTypeOK, NEW ids \in SUBSET IDs, NEW b \in [Accounts -> Nat],
         b[GovModule] >= Deposited(ids)
  PROVE  /\ RefundDeposits(b, ids) \in [Accounts -> Nat]
         /\ Held(RefundDeposits(b, ids)) = Held(b)
         /\ RefundDeposits(b, ids)[GovModule] = b[GovModule] - Deposited(ids)
<1> DEFINE D == ids \X Validators
           K == Accounts \ {GovModule}
           group == [a \in K |-> {d \in D : signer[d[2]] = a}]
           back == [a \in Accounts |-> IF a = GovModule THEN - Deposited(ids) ELSE RefundTo(a, ids)]
           after == RefundDeposits(b, ids)
<1>1. GovModule \in Accounts /\ IsFiniteSet(D) /\ IsFiniteSet(Accounts) /\ IsFiniteSet(K)
  BY SetsFinite, FS_RemoveElement DEF Accounts
<1>2. /\ deposits \in [IDs \X Validators -> Nat] /\ signer \in [Validators -> Users]
      /\ \A d \in D : deposits[d] \in Nat
  BY DEF GovTypeOK
<1>3. /\ group \in [K -> SUBSET D]
      /\ \A d \in D : \E a \in K : d \in group[a]
      /\ \A a, c \in K : a # c => group[a] \cap group[c] = {}
  <2>1. Users \subseteq K
    BY CoinsAssumption DEF Accounts
  <2>2. \A d \in D : d[2] \in Validators
    OBVIOUS
  <2>3. \A d \in D : signer[d[2]] \in K
    <3> HIDE DEF D, K
    <3> QED BY <1>2, <2>1, <2>2
  <2> HIDE DEF D, K
  <2> QED BY <2>3
<1>4. Deposited(ids) \in Nat
  BY <1>2, DepositedType DEF Deposited
<1>5. \A a \in Accounts : RefundTo(a, ids) \in Nat
  <2> SUFFICES ASSUME NEW a \in Accounts PROVE RefundTo(a, ids) \in Nat
    OBVIOUS
  <2> DEFINE T == {d \in D : signer[d[2]] = a}
  <2>1. IsFiniteSet(T) /\ \A d \in T : deposits[d] \in Nat
    BY <1>1, <1>2, FS_Subset, T \subseteq D
  <2>2. SumFunctionOnSet(deposits, T) \in Nat
    <3> HIDE DEF T
    <3> QED BY <2>1, SumNat
  <2> QED BY <2>2 DEF RefundTo
<1>6. SumFunctionOnSet(back, K) = Deposited(ids)
  <2>1. \A a \in K : back[a] = SumFunctionOnSet(deposits, group[a])
    BY DEF RefundTo
  <2>2. \A d \in D : deposits[d] \in Int
    BY <1>2
  <2> HIDE DEF K, group, back, D
  <2>3. SumFunctionOnSet(back, K) = SumFunctionOnSet(deposits, D)
    BY <1>1, <1>3, <2>1, <2>2, SumGroups
  <2> QED BY <2>3 DEF Deposited, D
<1>7. /\ back[GovModule] = - Deposited(ids)
      /\ \A a \in Accounts : back[a] \in Int /\ b[a] \in Int
  BY <1>1, <1>4, <1>5
<1>8. /\ after[GovModule] = b[GovModule] - Deposited(ids)
      /\ \A a \in Accounts \ {GovModule} : after[a] = b[a] + RefundTo(a, ids)
      /\ after \in [Accounts -> Nat]
  <2>1. after = [a \in Accounts |->
                  IF a = GovModule THEN b[a] - Deposited(ids) ELSE b[a] + RefundTo(a, ids)]
    BY DEF RefundDeposits
  <2>2. b[GovModule] - Deposited(ids) \in Nat
    BY <1>1, <1>4
  <2> HIDE DEF after
  <2> QED BY <1>1, <1>5, <2>1, <2>2
<1>9. \A a \in Accounts : after[a] = b[a] + back[a]
  <2> SUFFICES ASSUME NEW a \in Accounts PROVE after[a] = b[a] + back[a]
    OBVIOUS
  <2> HIDE DEF after
  <2>1. CASE a = GovModule
    BY <1>4, <1>7, <1>8, <2>1
  <2>2. CASE a # GovModule
    BY <1>8, <2>2
  <2> QED BY <2>1, <2>2
<1> HIDE DEF back, after, K
<1>10. SumFunctionOnSet(back, Accounts) = back[GovModule] + SumFunctionOnSet(back, K)
  <2>1. SumFunctionOnSet(back, Accounts)
          = back[GovModule] + SumFunctionOnSet(back, Accounts \ {GovModule})
    BY <1>1, <1>7, SumRemove
  <2> QED BY <2>1 DEF K
<1>11. SumFunctionOnSet(back, Accounts) = 0
  BY <1>4, <1>6, <1>7, <1>10
<1>12. SumFunctionOnSet(after, Accounts)
         = SumFunctionOnSet(b, Accounts) + SumFunctionOnSet(back, Accounts)
  BY <1>1, <1>7, <1>9, SumPointwise
<1>13. Held(after) = Held(b)
  <2>1. Held(b) \in Nat
    BY HeldType
  <2> QED BY <1>11, <1>12, <2>1 DEF Held
<1> QED BY <1>8, <1>13 DEF after

(* What is kept when the deposits on ids are given back. *)
LEMMA RemainingDeposits ==
  ASSUME GovTypeOK, NEW ids \in SUBSET IDs
  PROVE  Deposited(IDs) = Deposited(ids) + SumFunctionOnSet(Remaining(ids), IDs \X Validators)
<1> DEFINE D == IDs \X Validators
           S == ids \X Validators
           T == (IDs \ ids) \X Validators
           kept == Remaining(ids)
<1>1. IsFiniteSet(D) /\ IsFiniteSet(S) /\ IsFiniteSet(T)
  <2>1. IDs \in SUBSET IDs /\ (IDs \ ids) \in SUBSET IDs
    OBVIOUS
  <2> QED BY <2>1, SetsFinite
<1>2. D = S \cup T /\ S \cap T = {}
  OBVIOUS
<1>3. \A d \in S \cup T : deposits[d] \in Int /\ kept[d] \in Int
  BY DEF GovTypeOK, Remaining
<1>4. \A d \in S : kept[d] = 0
  BY DEF Remaining
<1>5. \A d \in T : kept[d] = deposits[d] /\ deposits[d] \in Int
  BY DEF Remaining, GovTypeOK
<1> HIDE DEF S, T, kept
<1>6. SumFunctionOnSet(deposits, S \cup T)
        = SumFunctionOnSet(deposits, S) + SumFunctionOnSet(deposits, T)
  BY <1>1, <1>2, <1>3, SumDisjoint
<1>7. SumFunctionOnSet(kept, S \cup T) = SumFunctionOnSet(kept, S) + SumFunctionOnSet(kept, T)
  BY <1>1, <1>2, <1>3, SumDisjoint
<1>8. SumFunctionOnSet(kept, S) = 0
  BY <1>1, <1>4, SumZero
<1>9. SumFunctionOnSet(kept, T) = SumFunctionOnSet(deposits, T)
  BY <1>1, <1>5, SumSame
<1>10. /\ SumFunctionOnSet(deposits, D) = SumFunctionOnSet(deposits, S \cup T)
       /\ SumFunctionOnSet(kept, D) = SumFunctionOnSet(kept, S \cup T)
  BY <1>2, Zenon
<1>11. SumFunctionOnSet(deposits, T) \in Int /\ SumFunctionOnSet(deposits, S) \in Int
  BY <1>1, <1>3, SumInt
<1> HIDE DEF D
<1>12. SumFunctionOnSet(deposits, D)
         = SumFunctionOnSet(deposits, S) + SumFunctionOnSet(kept, D)
  BY <1>6, <1>7, <1>8, <1>9, <1>10, <1>11
<1> QED BY <1>12 DEF Deposited, D, S, kept

(* The refunds of the EndBlocker come out of the module's account, which held
   them. *)
LEMMA EndBlockerKeepsCoins ==
  ASSUME CoinsInv, GovTypeOK, GovTypeOK', NEW fail, NEW next \in active, EndBlocker(fail, next)
  PROVE  CoinsInv'
<1> DEFINE over == Due(inactiveQueue) \cup Due(activeQueue)
           paid == TransferFees(proposer)
<1>1. over \in SUBSET IDs
  BY DEF Due
<1>2. /\ paid[GovModule] >= Deposited(over) /\ balance' = RefundDeposits(paid, over)
      /\ deposits' = Remaining(over)
      /\ UNCHANGED <<dividend, credited, pipe, txs>>
  BY DEF EndBlocker, NextBlock
<1>3. /\ paid \in [Accounts -> Nat] /\ Held(paid) = Held(balance)
      /\ balance[GovModule] <= paid[GovModule] /\ CoinsTypeOK /\ GovModule \in Accounts
  BY TransferFeesKeeps DEF CoinsInv, Accounts
<1> HIDE DEF over, paid
<1>4. /\ balance' \in [Accounts -> Nat] /\ Held(balance') = Held(balance)
      /\ balance'[GovModule] = paid[GovModule] - Deposited(over)
  BY <1>1, <1>2, <1>3, RefundsAddUp
<1>5. Deposited(IDs) = Deposited(over) + Deposited(IDs)'
  BY <1>1, <1>2, RemainingDeposits DEF Deposited
<1>6. Deposited(over) \in Nat /\ Deposited(IDs)' \in Nat
  BY <1>1, DepositedType DEF GovTypeOK, Deposited
<1>7. balance[GovModule] + Deposited(IDs)' <= balance'[GovModule] + Deposited(IDs)
  BY <1>3, <1>4, <1>5, <1>6 DEF CoinsTypeOK
<1>8. CoinsTypeOK'
  BY <1>2, <1>3, <1>4 DEF CoinsTypeOK
<1>9. Held(balance') + Out(dividend') + In(credited) = Held(balance) + Out(dividend) + In(credited')
  BY <1>2, <1>4
<1> QED BY <1>7, <1>8, <1>9, SumsKeepInv

LEMMA CoinsStep ==
  ASSUME Inv, Inv', CoinsInv, [Next]_vars
  PROVE  CoinsInv'
<1> USE CoinsAssumption, GovAssumption
<1>0. GovTypeOK /\ GovTypeOK' /\ CoinsTypeOK
  BY DEF Inv, CoinsInv
<1>1. CASE CoinStep
  <2>1. CoinsNext /\ UNCHANGED deposits
    BY <1>1 DEF CoinStep, proposalVars
  <2> QED BY <1>0, <2>1, SendKeepsCoins, WithdrawKeepsCoins, TopupKeepsCoins, CreditKeepsCoins
          DEF CoinsNext
<1>2. ASSUME NEW v \in Validators, Deliver(v), Fails(v)
      PROVE  CoinsInv'
  <2>1. /\ signer[v] \in Users /\ AnteHandler(signer[v]) /\ balance' = AfterFee(signer[v])
        /\ UNCHANGED <<dividend, credited, pipe, deposits>>
    BY <1>0, <1>2 DEF Deliver, Fails, proposalVars, GovTypeOK
  <2>2. txs' \in Nat /\ pipe' \in Seq(Claims)
    BY <1>0, <2>1 DEF AnteHandler, CoinsTypeOK
  <2> QED BY <1>0, <2>1, <2>2, AfterFeeKeeps, PaymentKeepsInv
<1>3. ASSUME NEW v \in Validators, NEW id \in IDs, NEW n \in Nat, NEW st, NEW ends, NEW queue,
             NEW ok, Deliver(v), Pays(signer[v], ok, n), AddDeposit(id, st, ends, queue, v, n)
      PROVE  CoinsInv'
  <2>1. /\ signer[v] \in Users /\ AnteHandler(signer[v]) /\ n <= AfterFee(signer[v])[signer[v]]
        /\ UNCHANGED <<dividend, credited, pipe>>
    <3>1. signer[v] \in Users /\ AnteHandler(signer[v])
      BY <1>0, <1>3 DEF Deliver, GovTypeOK
    <3>2. AfterFee(signer[v])[signer[v]] \in Nat
      BY <1>0, <3>1, AfterFeeKeeps DEF Accounts
    <3> QED BY <1>3, <3>1, <3>2 DEF Deliver, Pays
  <2> QED BY <1>0, <1>3, <2>1, DepositKeepsCoins
<1>4. ASSUME NEW v \in Validators, NEW n \in InitialDeposits, NEW accepted \in BOOLEAN,
             HandleMsgSubmitProposal(v, n, accepted)
      PROVE  CoinsInv'
  <2>1. Deliver(v) /\ nextID \in IDs /\ n \in Nat
    BY <1>4 DEF HandleMsgSubmitProposal
  <2>2. CASE Pays(signer[v], v \in active /\ accepted, n)
    BY <1>3, <1>4, <2>1, <2>2 DEF HandleMsgSubmitProposal
  <2>3. CASE ~ Pays(signer[v], v \in active /\ accepted, n)
    BY <1>2, <1>4, <2>1, <2>3 DEF HandleMsgSubmitProposal
  <2> QED BY <2>2, <2>3
<1>5. ASSUME NEW v \in Validators, NEW id \in IDs, NEW n \in Amounts, HandleMsgDeposit(v, id, n)
      PROVE  CoinsInv'
  <2>1. Deliver(v) /\ n \in Nat
    BY <1>5 DEF HandleMsgDeposit
  <2>2. CASE Pays(signer[v], v \in active /\ Depositable(id), n)
    BY <1>3, <1>5, <2>1, <2>2 DEF HandleMsgDeposit
  <2>3. CASE ~ Pays(signer[v], v \in active /\ Depositable(id), n)
    BY <1>2, <1>5, <2>1, <2>3 DEF HandleMsgDeposit
  <2> QED BY <2>2, <2>3
<1>6. ASSUME NEW v \in Validators, NEW id \in IDs, NEW option \in Options,
             HandleMsgVote(v, id, option)
      PROVE  CoinsInv'
  <2>1. /\ signer[v] \in Users /\ AnteHandler(signer[v]) /\ balance' = AfterFee(signer[v])
        /\ UNCHANGED <<dividend, credited, pipe, deposits>>
    BY <1>0, <1>6 DEF HandleMsgVote, Deliver, GovTypeOK
  <2>2. txs' \in Nat /\ pipe' \in Seq(Claims)
    BY <1>0, <2>1 DEF AnteHandler, CoinsTypeOK
  <2> QED BY <1>0, <2>1, <2>2, AfterFeeKeeps, PaymentKeepsInv
<1>7. ASSUME NEW v \in Validators, NEW new \in Users, SignerUpdate(v, new)
      PROVE  CoinsInv'
  <2>1. /\ signer[v] \in Accounts \ {GovModule} /\ new \in Accounts /\ GovModule \in Accounts
        /\ balance \in [Accounts -> Nat]
        /\ balance' = Move(balance, signer[v], new, balance[signer[v]])
        /\ UNCHANGED <<dividend, credited, pipe, txs, deposits>>
    <3>1. signer[v] \in Users /\ balance \in [Accounts -> Nat]
      BY <1>0 DEF GovTypeOK, CoinsTypeOK
    <3>2. Users \subseteq Accounts \ {GovModule} /\ GovModule \in Accounts
      BY DEF Accounts
    <3> QED BY <1>7, <3>1, <3>2 DEF SignerUpdate, MoveFee, proposalVars
  <2>2. balance[signer[v]] \in Nat /\ balance[signer[v]] <= balance[signer[v]]
    BY <2>1
  <2>3. /\ balance' \in [Accounts -> Nat] /\ Held(balance') = Held(balance)
        /\ balance[GovModule] <= balance'[GovModule]
    BY <2>1, <2>2, MoveKeeps
  <2> QED BY <1>0, <2>1, <2>3, PaymentKeepsInv DEF CoinsTypeOK
<1>8. CASE EndBlock
  BY <1>0, <1>8, EndBlockerKeepsCoins DEF EndBlock
<1>9. CASE EndBlockFails
  <2>1. balance' = TransferFees(proposer) /\ UNCHANGED <<dividend, credited, pipe, txs, deposits>>
    BY <1>9 DEF EndBlockFails, NextBlock, proposalVars
  <2> QED BY <1>0, <2>1, TransferFeesKeeps, PaymentKeepsInv DEF CoinsTypeOK
<1>10. CASE UNCHANGED <<coinVars, deposits>>
  BY <1>0, <1>10 DEF CoinsInv, CoinsTypeOK, Conserved, DepositsCovered, Deposited, coinVars
<1>11. CASE \E v \in Leavers : Leave(v)
  BY <1>10, <1>11 DEF Leave, proposalVars
<1>12. CASE UNCHANGED vars
  BY <1>10, <1>12 DEF vars, proposalVars
<1> QED BY <1>1, <1>4, <1>5, <1>6, <1>7, <1>8, <1>9, <1>11, <1>12 DEF Next

LEMMA CoinsInvHolds == Spec => []CoinsInv
BY InitInv, InvStep, CoinsInitInv, CoinsStep, PTL DEF Spec

(* No balance and no deposit falls below zero, and what is stored is what the
   types of the modules say. *)
THEOREM TypeCorrect == Spec => []TypeOK
<1>1. Inv /\ CoinsInv => TypeOK
  BY DEF Inv, CoinsInv, TypeOK
<1> QED BY <1>1, CoinsInvHolds, InitInv, InvStep, PTL DEF Spec

(* Coins are neither made nor lost, for any accounts, fees, top-ups and
   proposals: payments, withdrawals, refunds and fees only move them, and each
   top-up is credited once, with the amount the staking chain names
   (topup/side_handler.go, bank/keeper.go). *)
THEOREM CoinsConserved == Spec => []Conserved
<1>1. CoinsInv => Conserved
  BY DEF CoinsInv
<1> QED BY <1>1, CoinsInvHolds, PTL

(* The account of the module can always pay every deposit that is stored, so
   that no refund panics in the EndBlocker (gov/deposit.go:117). *)
THEOREM DepositsAreCovered == Spec => []DepositsCovered
<1>1. CoinsInv => DepositsCovered
  BY DEF CoinsInv
<1> QED BY <1>1, CoinsInvHolds, PTL
=============================================================================
