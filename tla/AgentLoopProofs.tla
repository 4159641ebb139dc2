-------------------------- MODULE AgentLoopProofs --------------------------
(***************************************************************************)
(* For any specialists, threshold, balances, quotes, limits and number of   *)
(* deploys: the published state is well typed, its history matches the      *)
(* deploys the nodes accepted, and the loop implements AgentFeed.           *)
(***************************************************************************)
EXTENDS AgentLoop, FiniteSetTheorems, SequenceTheorems, TLAPS

Swaps == {"SWAP", "SWAP_BACK"}
Entries == [action : Actions, deploy_hash : Hashes \cup {NoHash}]
Decisions == [action : Actions, amount : Nat, amount_out : Nat]

\* What the place of the task tells of the cycle it is in: what was observed is
\* published before anything is decided, a SWAP has its votes and its quote, and
\* only a swap that a node took has a hash when it is recorded.
CycleInv ==
    /\ pc \in {"voting", "quoting"} => store.status = "deciding"
    /\ pc \in Submitting => store.status \in {"deciding", "executing"}
    /\ pc = "quoting" => decision.action = "SWAP"
    /\ pc = "swapping" => decision.action \in Swaps
    /\ pc \in {"quoting"} \cup Submitting =>
         (decision.action = "SWAP" <=> votes.SWAP >= VoteThreshold)
    /\ pc \in Submitting /\ decision.action = "SWAP" => decision.amount_out \in Quotes
    /\ pc = "logging" => (deploy_hash = NoHash <=> decision.action = "HOLD")
    /\ pc # "logging" => deploy_hash = NoHash

\* A hash in the published state is that of a swap deploy for that decision; the
\* last one is the largest, and the hash of this cycle is larger still.
Hashed(h, action) == h \in SwapsAccepted /\ deploys[h].action = action

HashInv ==
    LET history == store.decision_history IN
    /\ store.last_tx_hash <= Len(deploys)
    /\ deploy_hash # NoHash =>
         Hashed(deploy_hash, decision.action) /\ store.last_tx_hash < deploy_hash
    /\ \A i \in 1..Len(history) : history[i].deploy_hash # NoHash =>
         /\ Hashed(history[i].deploy_hash, history[i].action)
         /\ history[i].deploy_hash <= store.last_tx_hash
    /\ \A i, j \in 1..Len(history) :
         (i # j /\ history[i].deploy_hash # NoHash) =>
            history[i].deploy_hash # history[j].deploy_hash
    /\ store.actions_taken + (IF deploy_hash = NoHash THEN 0 ELSE 1)
         <= Cardinality(SwapsAccepted)

LoopInv == LoopTypeOK /\ CycleInv /\ HashInv

\* The agent believes what a node reported, or nothing.
ReadingsInv ==
    /\ cached_balance \in Balances \cup {Unread}
    /\ market_balance \in Balances \cup {0}

-----------------------------------------------------------------------------
\* A tally counts every specialist once at most.
LEMMA TallyType ==
    ASSUME NEW answers \in Answers
    PROVE  Tally(answers) \in VoteTallies
<1> DEFINE A == VotersFor(answers, "SWAP")
           B == VotersFor(answers, "HOLD")
           N == Cardinality(Specialists)
<1>1. A \in SUBSET Specialists /\ B \in SUBSET Specialists /\ A \cap B = {}
      /\ A \cup B \in SUBSET Specialists
  BY DEF VotersFor
<1> HIDE DEF A, B
<1>2. IsFiniteSet(Specialists) /\ N \in Nat
  BY SwarmAssumption, FS_CardinalityType
<1>3. /\ IsFiniteSet(A) /\ Cardinality(A) \in Nat /\ Cardinality(A) <= N
      /\ IsFiniteSet(B) /\ Cardinality(B) \in Nat /\ Cardinality(B) <= N
      /\ Cardinality(A \cup B) <= N
  BY <1>1, <1>2, FS_Subset, FS_CardinalityType
<1>4. Cardinality(A \cup B) = Cardinality(A) + Cardinality(B)
  <2>1. Cardinality(A \cup B) = Cardinality(A) + Cardinality(B) - Cardinality(A \cap B)
    BY <1>3, FS_Union
  <2>2. Cardinality(A \cap B) = 0
    BY <1>1, FS_EmptySet
  <2> QED BY <1>3, <2>1, <2>2
<1>5. Tally(answers) = [SWAP |-> Cardinality(A), HOLD |-> Cardinality(B)]
  BY DEF Tally, A, B
<1> HIDE DEF N
<1>6. Cardinality(A) \in 0..N /\ Cardinality(B) \in 0..N
      /\ Cardinality(A) + Cardinality(B) <= N
  BY <1>2, <1>3, <1>4
<1> QED BY <1>5, <1>6 DEF VoteTallies, N

\* The amount of a swap is a whole number of motes.
LEMMA SwapAmountType ==
    ASSUME NEW b \in Nat PROVE SwapAmount(b) \in Nat
  BY SwarmAssumption DEF SwapAmount

\* The list of deploys only grows, and what is in it stays.
LEMMA DeploysGrow ==
    ASSUME LoopTypeOK,
           \/ deploys' = deploys
           \/ \E d \in DeployType : Accept(d)
    PROVE  /\ deploys' \in Seq(DeployType) /\ Len(deploys') <= MaxDeploys
           /\ Len(deploys) \in Nat /\ Len(deploys') \in Nat
           /\ Len(deploys) <= Len(deploys')
           /\ \A h \in 1..Len(deploys) : h \in 1..Len(deploys') /\ deploys'[h] = deploys[h]
           /\ SwapsAccepted \subseteq SwapsAccepted'
           /\ Cardinality(SwapsAccepted) \in Nat /\ Cardinality(SwapsAccepted') \in Nat
           /\ Cardinality(SwapsAccepted) <= Cardinality(SwapsAccepted')
           /\ Cardinality(SwapsAccepted') <= MaxDeploys
<1>1. /\ deploys \in Seq(DeployType) /\ Len(deploys) \in Nat /\ Len(deploys) <= MaxDeploys
      /\ MaxDeploys \in Nat
  BY LoopAssumption DEF LoopTypeOK
<1>2. /\ deploys' \in Seq(DeployType) /\ Len(deploys') \in Nat
      /\ Len(deploys') <= MaxDeploys /\ Len(deploys) <= Len(deploys')
      /\ \A h \in 1..Len(deploys) : h \in 1..Len(deploys') /\ deploys'[h] = deploys[h]
  <2>1. CASE deploys' = deploys
    BY <1>1, <2>1
  <2>2. ASSUME NEW d \in DeployType, Accept(d)
        PROVE  /\ deploys' \in Seq(DeployType) /\ Len(deploys') = Len(deploys) + 1
               /\ Len(deploys) < MaxDeploys
               /\ \A h \in 1..Len(deploys) : deploys'[h] = deploys[h]
    BY <1>1, <2>2 DEF Accept
  <2>3. CASE \E d \in DeployType : Accept(d)
    BY <1>1, <2>2, <2>3
  <2> QED BY <2>1, <2>3
<1>3. SwapsAccepted \subseteq SwapsAccepted'
  BY <1>2 DEF SwapsAccepted
<1>4. SwapsAccepted' \in SUBSET (1..Len(deploys'))
  BY DEF SwapsAccepted
<1>5. IsFiniteSet(1..Len(deploys')) /\ Cardinality(1..Len(deploys')) <= MaxDeploys
  <2>1. ASSUME NEW n \in Nat PROVE IsFiniteSet(1..n) /\ Cardinality(1..n) = n
    <3>1. IsFiniteSet(1..n) /\ Cardinality(1..n) = IF 1 > n THEN 0 ELSE n - 1 + 1
      BY FS_Interval
    <3> QED BY <3>1
  <2> QED BY <1>2, <2>1
<1>6. /\ IsFiniteSet(SwapsAccepted') /\ Cardinality(SwapsAccepted') \in Nat
      /\ Cardinality(SwapsAccepted') <= Cardinality(1..Len(deploys'))
  BY <1>4, <1>5, FS_Subset, FS_CardinalityType
<1>7. /\ IsFiniteSet(SwapsAccepted) /\ Cardinality(SwapsAccepted) \in Nat
      /\ Cardinality(SwapsAccepted) <= Cardinality(SwapsAccepted')
  BY <1>3, <1>6, FS_Subset, FS_CardinalityType
<1>8. Cardinality(1..Len(deploys')) \in Nat
  BY <1>5, FS_CardinalityType
<1>9. Cardinality(SwapsAccepted') <= MaxDeploys
  BY <1>1, <1>5, <1>6, <1>8
<1> QED BY <1>1, <1>2, <1>3, <1>6, <1>7, <1>9

\* r holds the last of what is in s, and then e.
EndsWith(r, s, e, limit) ==
    \A i \in 1..Len(r) :
      \A k : k = i + (IF Len(s) < limit THEN 0 ELSE 1) =>
         /\ k \in 1..(Len(s) + 1)
         /\ r[i] = IF k = Len(s) + 1 THEN e ELSE s[k]

\* The same said of the list t that e was appended to.
Trimmed(r, t, limit) == r = IF Len(t) <= limit THEN t ELSE Tail(t)

\* The trimmed list: the last of what is there and of what is appended.
LEMMA LatestOfAppend ==
    ASSUME NEW S, NEW s \in Seq(S), NEW e \in S, NEW limit \in Nat \ {0},
           Len(s) <= limit,
           NEW t, t = Append(s, e),
           NEW r, r = Latest(t, limit)
    PROVE  /\ r \in Seq(S) /\ Len(r) <= limit /\ Len(r) \in Nat
           /\ EndsWith(r, s, e, limit)
           /\ Trimmed(r, t, limit)
<1>1. /\ t \in Seq(S) /\ Len(t) = Len(s) + 1 /\ Len(s) \in Nat /\ t # <<>>
      /\ \A i \in 1..Len(t) : t[i] = IF i = Len(s) + 1 THEN e ELSE s[i]
  OBVIOUS
<1>2. CASE Len(s) < limit
  <2>1. r = t
    BY <1>1, <1>2 DEF Latest
  <2>2. /\ \A i \in 1..Len(r) : i \in 1..(Len(s) + 1) /\ i + 0 = i
        /\ r \in Seq(S) /\ Len(r) <= limit /\ Len(r) \in Nat
    BY <1>1, <1>2, <2>1
  <2>3. \A i \in 1..Len(r) : r[i] = IF i = Len(s) + 1 THEN e ELSE s[i]
    BY <1>1, <2>1
  <2> QED BY <1>1, <1>2, <2>1, <2>2, <2>3 DEF EndsWith, Trimmed
<1>3. CASE Len(s) = limit
  <2>1. ~(Len(t) <= limit) /\ Len(t) - limit + 1 = 2
    BY <1>1, <1>3
  <2>2. r = SubSeq(t, 2, Len(t))
    BY <2>1 DEF Latest
  <2>3. r = Tail(t)
    BY <1>1, <2>2, TailIsSubSeq
  <2>4. /\ r \in Seq(S) /\ Len(r) = Len(s)
        /\ \A i \in 1..Len(r) : r[i] = t[i + 1]
    BY <1>1, <2>3, HeadTailProperties
  <2>5. \A i \in 1..Len(r) : i + 1 \in 1..(Len(s) + 1) /\ i + 1 \in 1..Len(t)
    BY <1>1, <2>4
  <2>6. Len(r) <= limit /\ Len(r) \in Nat /\ ~(Len(s) < limit)
    BY <1>1, <1>3, <2>4
  <2>7. \A i \in 1..Len(r) : r[i] = IF i + 1 = Len(s) + 1 THEN e ELSE s[i + 1]
    BY <1>1, <2>4, <2>5
  <2> QED BY <2>1, <2>3, <2>4, <2>5, <2>6, <2>7 DEF EndsWith, Trimmed
<1> QED BY <1>1, <1>2, <1>3

-----------------------------------------------------------------------------
\* A deploy sent later does not change what a hash stands for.
LEMMA HashedStays ==
    ASSUME LoopTypeOK, NEW h, NEW action, Hashed(h, action),
           \/ deploys' = deploys
           \/ \E d \in DeployType : Accept(d)
    PROVE  h \in SwapsAccepted' /\ deploys'[h].action = action
  BY DeploysGrow DEF Hashed, SwapsAccepted

\* A step that leaves history, counter and last hash alone, and the hash of the
\* cycle too or drops it.
LEMMA HashKept ==
    ASSUME LoopInv,
           \/ deploys' = deploys
           \/ \E d \in DeployType : Accept(d),
           store'.decision_history = store.decision_history,
           store'.last_tx_hash = store.last_tx_hash,
           store'.actions_taken = store.actions_taken,
           deploy_hash' = NoHash
             \/ (deploy_hash' = deploy_hash /\ decision'.action = decision.action)
    PROVE  HashInv'
<1> DEFINE hist == store.decision_history
<1>1. HashInv /\ LoopTypeOK
  BY DEF LoopInv
<1>2. store.actions_taken \in Nat /\ store.last_tx_hash \in Nat
  BY <1>1, LoopAssumption DEF LoopTypeOK, StoreType, Hashes, NoHash
<1>3. deploy_hash' # NoHash =>
        /\ deploy_hash' \in SwapsAccepted'
        /\ deploys'[deploy_hash'].action = decision'.action
        /\ store'.last_tx_hash < deploy_hash'
  BY <1>1, HashedStays DEF HashInv
<1>4. store'.last_tx_hash <= Len(deploys')
  BY <1>1, <1>2, DeploysGrow DEF HashInv
<1>5. store'.actions_taken + (IF deploy_hash' = NoHash THEN 0 ELSE 1)
        <= Cardinality(SwapsAccepted')
  BY <1>1, <1>2, DeploysGrow DEF HashInv
<1>6. ASSUME NEW i \in 1..Len(hist), hist[i].deploy_hash # NoHash
      PROVE  /\ hist[i].deploy_hash \in SwapsAccepted'
             /\ deploys'[hist[i].deploy_hash].action = hist[i].action
             /\ hist[i].deploy_hash <= store.last_tx_hash
  BY <1>1, <1>6, HashedStays DEF HashInv
<1>7. \A i, j \in 1..Len(hist) :
        (i # j /\ hist[i].deploy_hash # NoHash) => hist[i].deploy_hash # hist[j].deploy_hash
  BY <1>1 DEF HashInv
<1> QED BY <1>3, <1>4, <1>5, <1>6, <1>7 DEF HashInv, Hashed

\* Types of the constants a step assigns.
LEMMA FreshTypes ==
    /\ NoVotes \in VoteTallies
    /\ NoDecision \in Decisions
    /\ NoHash \in Hashes \cup {NoHash} /\ NoHash \in Nat
    /\ Starting(FreshStore) \in StoreType
    /\ Len(Starting(FreshStore).decision_history) = 0
    /\ {"SWAP", "HOLD", "SWAP_BACK"} = Actions
<1>1. Cardinality(Specialists) \in Nat
  BY SwarmAssumption, FS_CardinalityType
<1>2. NoVotes \in VoteTallies
  BY <1>1 DEF NoVotes, VoteTallies
<1>3. <<>> \in Seq(Entries) /\ Len(<<>>) = 0
  BY EmptySeq
<1>4. 0 \in 0..MaxDeploys /\ 0 \in 0..ERROR_LIMIT
  BY LoopAssumption
<1>5. FreshStore \in StoreType /\ FreshStore.decision_history = <<>>
  BY <1>2, <1>3, <1>4
  DEF FreshStore, StoreType, Statuses, NoHash, NoReading, Entries
<1>6. /\ Starting(FreshStore) \in StoreType
      /\ Starting(FreshStore).decision_history = <<>>
  BY <1>5 DEF Starting, StoreType, Statuses
<1> QED BY <1>2, <1>3, <1>6 DEF NoDecision, Decisions, NoHash, Actions

\* record_error touches the error list alone.
LEMMA WithErrorType ==
    ASSUME NEW state \in StoreType
    PROVE  /\ WithError(state) \in StoreType
           /\ WithError(state).decision_history = state.decision_history
           /\ WithError(state).last_tx_hash = state.last_tx_hash
           /\ WithError(state).actions_taken = state.actions_taken
<1> DEFINE n == IF state.errors < ERROR_LIMIT THEN state.errors + 1 ELSE state.errors
<1>1. n \in 0..ERROR_LIMIT
  BY LoopAssumption DEF StoreType
<1>2. WithError(state) = [state EXCEPT !.errors = n]
  BY DEF WithError
<1> HIDE DEF n
<1> QED BY <1>1, <1>2 DEF StoreType

\* A new status only.
LEMMA StatusType ==
    ASSUME NEW state \in StoreType, NEW s \in Statuses
    PROVE  /\ [state EXCEPT !.status = s] \in StoreType
           /\ [state EXCEPT !.status = s].status = s
           /\ [state EXCEPT !.status = s].decision_history = state.decision_history
           /\ [state EXCEPT !.status = s].last_tx_hash = state.last_tx_hash
           /\ [state EXCEPT !.status = s].actions_taken = state.actions_taken
  BY DEF StoreType

\* The end of a cycle leaves nothing of it.
LEMMA EndCycleKeepsInv ==
    ASSUME LoopInv, NEW state \in StoreType, EndCycle(state),
           Len(state.decision_history) <= HISTORY_LIMIT,
           cached_balance' = cached_balance,
           \/ deploys' = deploys
           \/ \E d \in DeployType : Accept(d),
           HashInv'
    PROVE  LoopInv'
<1>1. /\ pc' = "sleeping" /\ market_balance' = 0
      /\ votes' = NoVotes /\ decision' = NoDecision /\ deploy_hash' = NoHash
      /\ store' = [state EXCEPT !.status = "running"]
  BY DEF EndCycle
<1>2. store' \in StoreType /\ Len(store'.decision_history) <= HISTORY_LIMIT
  BY <1>1, StatusType DEF Statuses
<1>3. /\ deploys' \in Seq(DeployType) /\ Len(deploys') <= MaxDeploys
      /\ cached_balance' \in Nat \cup {Unread}
  BY DeploysGrow DEF LoopInv, LoopTypeOK
<1>4. LoopTypeOK'
  BY <1>1, <1>2, <1>3, FreshTypes DEF LoopTypeOK, InLoop, Decisions
<1>5. CycleInv'
  BY <1>1, <1>3 DEF CycleInv, Submitting
<1> QED BY <1>4, <1>5 DEF LoopInv

\* A cycle that fails: status and error, back to the sleep.
LEMMA FailCycleKeepsInv ==
    ASSUME LoopInv, FailCycle, cached_balance' = cached_balance,
           \/ deploys' = deploys
           \/ \E d \in DeployType : Accept(d)
    PROVE  LoopInv'
<1>1. store \in StoreType /\ Len(store.decision_history) <= HISTORY_LIMIT
  BY DEF LoopInv, LoopTypeOK
<1>2. EndCycle(WithError(store))
  BY DEF FailCycle
<1>3. store' = [WithError(store) EXCEPT !.status = "running"] /\ deploy_hash' = NoHash
  BY <1>2 DEF EndCycle
<1>4. HashInv'
  BY <1>1, <1>3, WithErrorType, StatusType, HashKept DEF Statuses
<1> QED BY <1>1, <1>2, <1>4, WithErrorType, EndCycleKeepsInv

\* A step within or between cycles that changes the status at most, and neither
\* the locals of the cycle nor the deploys.
LEMMA StatusStepKeepsInv ==
    ASSUME LoopInv, NEW s \in Statuses, NEW place \in Connecting \cup InLoop \cup {"ended"},
           NEW state \in {store, WithError(store)},
           pc' = place, store' = [state EXCEPT !.status = s],
           deploy_hash = NoHash,
           place \notin {"voting", "quoting"} \cup Submitting,
           cached_balance' \in {cached_balance, Unread},
           UNCHANGED <<cycleVars, deploys>>
    PROVE  LoopInv'
<1>1. /\ store \in StoreType /\ Len(store.decision_history) <= HISTORY_LIMIT
      /\ LoopTypeOK /\ CycleInv
  BY DEF LoopInv, LoopTypeOK
<1>2. /\ state \in StoreType /\ state.decision_history = store.decision_history
      /\ state.last_tx_hash = store.last_tx_hash
      /\ state.actions_taken = store.actions_taken
  BY <1>1, WithErrorType
<1>3. /\ store' \in StoreType /\ store'.decision_history = store.decision_history
      /\ store'.last_tx_hash = store.last_tx_hash
      /\ store'.actions_taken = store.actions_taken
  BY <1>2, StatusType
<1>4. HashInv'
  BY <1>3, HashKept DEF cycleVars
<1>5. LoopTypeOK'
  BY <1>1, <1>3 DEF LoopTypeOK, cycleVars
<1>6. CycleInv'
  BY <1>1 DEF CycleInv, cycleVars, Submitting
<1> QED BY <1>4, <1>5, <1>6 DEF LoopInv

\* A step that moves the task and no more.
LEMMA PlaceStepKeepsInv ==
    ASSUME LoopInv, NEW place \in Connecting \cup {"ended"},
           pc' = place, deploy_hash = NoHash,
           UNCHANGED <<cached_balance, cycleVars, store, deploys>>
    PROVE  LoopInv'
<1>1. LoopTypeOK /\ CycleInv
  BY DEF LoopInv
<1>2. HashInv'
  BY HashKept DEF cycleVars
<1>3. LoopTypeOK'
  BY <1>1 DEF LoopTypeOK, cycleVars
<1>4. CycleInv'
  BY <1>1 DEF CycleInv, cycleVars, Submitting, Connecting
<1> QED BY <1>2, <1>3, <1>4 DEF LoopInv

-----------------------------------------------------------------------------
\* Connecting to the MCP server and retrying.
LEMMA ConnectionKeepsInv ==
    ASSUME LoopInv,
           Connect \/ ConnectRefused \/ ConnectBreaks \/ Retry \/ SupervisorRestart
             \/ NextCycle \/ Shutdown
    PROVE  LoopInv'
<1>1. pc # "logging" => deploy_hash = NoHash
  BY DEF LoopInv, CycleInv
<1>2. CASE Connect \/ NextCycle
  BY <1>1, <1>2, StatusStepKeepsInv
  DEF Connect, NextCycle, BeginCycle, Statuses, InLoop, Observing, Submitting
<1>3. CASE ConnectRefused
  <2>1. store' = [WithError(store) EXCEPT !.status = "waiting_mcp"]
    BY <1>3 DEF ConnectRefused, WithError, LoopInv, LoopTypeOK, StoreType
  <2> QED
    BY <1>1, <1>3, <2>1, StatusStepKeepsInv
    DEF ConnectRefused, Statuses, Connecting, Submitting
<1>4. CASE ConnectBreaks \/ Retry
  BY <1>1, <1>4, PlaceStepKeepsInv DEF ConnectBreaks, Retry, Connecting
<1>5. CASE SupervisorRestart
  BY <1>1, <1>5, StatusStepKeepsInv
  DEF SupervisorRestart, Starting, Statuses, Connecting, Submitting
<1>6. CASE Shutdown
  <2>1. CASE pc \in InLoop
    BY <1>1, <1>6, <2>1, StatusStepKeepsInv DEF Shutdown, Statuses, Submitting
  <2>2. CASE pc \notin InLoop
    BY <1>1, <1>6, <2>2, PlaceStepKeepsInv DEF Shutdown, Submitting
  <2> QED BY <2>1, <2>2
<1> QED BY <1>2, <1>3, <1>4, <1>5, <1>6

\* Reading the vault's balance, whatever it is, from a node or the cache.
LEMMA ObservationKeepsInv ==
    ASSUME LoopInv,
           (\E b \in Nat : ReadBalance(b)) \/ ReadNoPurse \/ ReadCached
    PROVE  LoopInv'
<1>1. LoopTypeOK /\ CycleInv
  BY DEF LoopInv
<1>2. PICK balance \in Nat, cached \in Nat \cup {Unread} : BalanceRead(balance, cached)
  BY <1>1 DEF LoopTypeOK, ReadBalance, ReadNoPurse, ReadCached
<1>3. /\ pc' = "market" /\ market_balance' = balance /\ cached_balance' = cached
      /\ deploy_hash = NoHash
      /\ UNCHANGED <<votes, decision, deploy_hash, store, deploys>>
  BY <1>1, <1>2 DEF BalanceRead, CycleInv
<1>4. HashInv'
  BY <1>3, HashKept
<1>5. LoopTypeOK'
  BY <1>1, <1>3, LoopAssumption DEF LoopTypeOK, InLoop, Observing
<1>6. CycleInv'
  BY <1>1, <1>3 DEF CycleInv, Submitting
<1> QED BY <1>4, <1>5, <1>6 DEF LoopInv

\* A source that fails, or a skipped cycle.
LEMMA FailuresKeepInv ==
    ASSUME LoopInv,
           MarketFails \/ SkipCycle \/ QuoteFails \/ SubmitRaises
             \/ \E answers \in Answers : VoteRaises(answers)
    PROVE  LoopInv'
<1>1. FailCycle /\ cached_balance' = cached_balance
  BY DEF MarketFails, SkipCycle, QuoteFails, SubmitRaises, VoteRaises
<1>2. deploys' = deploys \/ \E d \in DeployType : Accept(d)
  <2>1. CASE SubmitRaises
    <3>1. SwapDeploy \in DeployType
      BY DEF LoopInv, LoopTypeOK, SwapDeploy, DeployType, VoteTallies, Fates
    <3> QED BY <2>1, <3>1 DEF SubmitRaises
  <2>2. CASE MarketFails \/ SkipCycle \/ QuoteFails \/ \E answers \in Answers : VoteRaises(answers)
    BY <2>2 DEF MarketFails, SkipCycle, QuoteFails, VoteRaises
  <2> QED BY <2>1, <2>2
<1> QED BY <1>1, <1>2, FailCycleKeepsInv

\* The market data, the votes and the quote.
LEMMA DecidingKeepsInv ==
    ASSUME LoopInv,
           \/ MarketRead
           \/ \E answers \in Answers : VoteSwap(answers) \/ VoteHold(answers)
           \/ \E q \in Quotes : QuoteRead(q)
    PROVE  LoopInv'
<1>1. LoopTypeOK /\ CycleInv /\ store \in StoreType /\ market_balance \in Nat
      /\ Len(store.decision_history) <= HISTORY_LIMIT
  BY DEF LoopInv, LoopTypeOK
<1>2. CASE MarketRead
  <2>1. /\ store' \in StoreType /\ store'.status = "deciding"
        /\ store'.decision_history = store.decision_history
        /\ store'.last_tx_hash = store.last_tx_hash
        /\ store'.actions_taken = store.actions_taken
    BY <1>1, <1>2 DEF MarketRead, StoreType, Statuses
  <2>2. HashInv'
    BY <1>2, <2>1, HashKept DEF MarketRead, cycleVars
  <2>3. LoopTypeOK'
    BY <1>1, <1>2, <2>1 DEF MarketRead, cycleVars, LoopTypeOK, InLoop
  <2>4. CycleInv'
    BY <1>1, <1>2, <2>1 DEF MarketRead, cycleVars, CycleInv, Submitting
  <2> QED BY <2>2, <2>3, <2>4 DEF LoopInv
<1>3. ASSUME NEW answers \in Answers, VoteSwap(answers) PROVE LoopInv'
  <2>1. /\ pc = "voting" /\ pc' = "quoting" /\ votes' \in VoteTallies
        /\ decision'.action = "SWAP" /\ decision' \in Decisions
        /\ votes'.SWAP >= VoteThreshold
        /\ UNCHANGED <<cached_balance, market_balance, deploy_hash, store, deploys>>
    BY <1>1, <1>3, TallyType, SwapAmountType DEF VoteSwap, SwapWins, Decisions, Actions
  <2>2. deploy_hash = NoHash
    BY <1>1, <2>1 DEF CycleInv
  <2>3. HashInv'
    BY <2>1, <2>2, HashKept
  <2>4. LoopTypeOK'
    BY <1>1, <2>1 DEF LoopTypeOK, InLoop, Decisions
  <2>5. CycleInv'
    BY <1>1, <2>1, <2>2 DEF CycleInv, Submitting
  <2> QED BY <2>3, <2>4, <2>5 DEF LoopInv
<1>4. ASSUME NEW answers \in Answers, VoteHold(answers) PROVE LoopInv'
  <2>1. /\ pc = "voting" /\ votes' \in VoteTallies
        /\ UNCHANGED <<cached_balance, market_balance, deploy_hash, deploys>>
        /\ deploy_hash = NoHash /\ store.status = "deciding"
    BY <1>1, <1>4, TallyType DEF VoteHold, CycleInv
  <2>2. ~(votes'.SWAP >= VoteThreshold)
    <3>1. votes' = Tally(answers) /\ ~SwapWins(votes')
      BY <1>4 DEF VoteHold
    <3>2. votes'.SWAP \in Nat /\ votes'.HOLD \in Nat
      BY <2>1, SwarmAssumption, FS_CardinalityType DEF VoteTallies
    <3> QED BY <3>1, <3>2, SwarmAssumption DEF SwapWins
  <2>3. CASE store.scspr_balance_cspr > 0
    <3>1. /\ pc' = "swapping" /\ decision'.action = "SWAP_BACK" /\ decision' \in Decisions
          /\ store' = [store EXCEPT !.status = "executing"]
      BY <1>1, <1>4, <2>3 DEF VoteHold, Decisions, Actions, StoreType
    <3>2. /\ store' \in StoreType /\ store'.status = "executing"
          /\ store'.decision_history = store.decision_history
          /\ store'.last_tx_hash = store.last_tx_hash
          /\ store'.actions_taken = store.actions_taken
      BY <1>1, <3>1, StatusType DEF Statuses
    <3>3. HashInv'
      BY <2>1, <3>2, HashKept
    <3>4. LoopTypeOK'
      BY <1>1, <2>1, <3>1, <3>2 DEF LoopTypeOK, InLoop, Submitting, Decisions
    <3>5. CycleInv'
      BY <1>1, <2>1, <2>2, <3>1, <3>2 DEF CycleInv, Submitting, Swaps
    <3> QED BY <3>3, <3>4, <3>5 DEF LoopInv
  <2>4. CASE ~(store.scspr_balance_cspr > 0)
    <3>1. /\ pc' = "logging" /\ decision' = NoDecision /\ store' = store
          /\ decision'.action = "HOLD" /\ decision' \in Decisions
      BY <1>4, <2>4, FreshTypes DEF VoteHold, NoDecision
    <3>2. HashInv'
      BY <2>1, <3>1, HashKept
    <3>3. LoopTypeOK'
      BY <1>1, <2>1, <3>1 DEF LoopTypeOK, InLoop, Submitting, Decisions
    <3>4. CycleInv'
      BY <1>1, <2>1, <2>2, <3>1 DEF CycleInv, Submitting, Swaps
    <3> QED BY <3>2, <3>3, <3>4 DEF LoopInv
  <2> QED BY <2>3, <2>4
<1>5. ASSUME NEW q \in Quotes, QuoteRead(q) PROVE LoopInv'
  <2>1. /\ pc = "quoting" /\ pc' = "swapping"
        /\ decision' = [decision EXCEPT !.amount_out = q]
        /\ store' = [store EXCEPT !.status = "executing"]
        /\ UNCHANGED <<cached_balance, market_balance, votes, deploy_hash, deploys>>
        /\ deploy_hash = NoHash /\ decision.action = "SWAP"
        /\ decision \in Decisions /\ q \in Nat
    BY <1>1, <1>5, LoopAssumption DEF QuoteRead, CycleInv, LoopTypeOK, Decisions
  <2>2. decision' \in Decisions /\ decision'.action = "SWAP" /\ decision'.amount_out = q
    BY <2>1 DEF Decisions
  <2>3. /\ store' \in StoreType /\ store'.status = "executing"
        /\ store'.decision_history = store.decision_history
        /\ store'.last_tx_hash = store.last_tx_hash
        /\ store'.actions_taken = store.actions_taken
    BY <1>1, <2>1, StatusType DEF Statuses
  <2>4. HashInv'
    BY <2>1, <2>3, HashKept
  <2>5. LoopTypeOK'
    BY <1>1, <2>1, <2>2, <2>3 DEF LoopTypeOK, InLoop, Submitting, Decisions
  <2>6. CycleInv'
    BY <1>1, <2>1, <2>2, <2>3 DEF CycleInv, Submitting, Swaps
  <2> QED BY <2>4, <2>5, <2>6 DEF LoopInv
<1> QED BY <1>2, <1>3, <1>4, <1>5

\* A node takes the swap of this cycle: its place in the list, beyond every hash
\* published so far, becomes the hash of the cycle.
LEMMA SubmitKeepsInv ==
    ASSUME LoopInv, SubmitSwap
    PROVE  LoopInv'
<1> DEFINE n == Len(deploys) + 1
<1>1. LoopTypeOK /\ CycleInv /\ HashInv /\ Len(deploys) \in Nat /\ n \in Nat \ {0}
      /\ deploys \in Seq(DeployType)
  BY DEF LoopInv, LoopTypeOK
<1>2. SwapDeploy \in DeployType
      /\ SwapDeploy.entry_point = "execute_swap" /\ SwapDeploy.action = decision.action
  BY <1>1 DEF LoopTypeOK, SwapDeploy, DeployType, VoteTallies, Fates
<1>3. /\ pc = "swapping" /\ pc' = "logging" /\ Accept(SwapDeploy)
      /\ deploys' = Append(deploys, SwapDeploy) /\ deploy_hash' = Len(deploys')
      /\ UNCHANGED <<cached_balance, market_balance, votes, decision, store>>
  BY DEF SubmitSwap, Accept
<1>4. /\ Len(deploys') = n /\ deploys'[n] = SwapDeploy /\ deploy_hash' = n
      /\ \A h \in 1..Len(deploys) : deploys'[h] = deploys[h]
      /\ deploys' \in Seq(DeployType) /\ n <= MaxDeploys
  BY <1>1, <1>2, <1>3, LoopAssumption DEF Accept
<1>5. n \in SwapsAccepted' /\ deploys'[n].action = decision.action
  BY <1>1, <1>2, <1>4 DEF SwapsAccepted
<1>6. Cardinality(SwapsAccepted') = Cardinality(SwapsAccepted) + 1
  <2>1. SwapsAccepted' = SwapsAccepted \cup {n} /\ n \notin SwapsAccepted
    BY <1>1, <1>2, <1>4 DEF SwapsAccepted
  <2>2. IsFiniteSet(SwapsAccepted)
    <3>1. IsFiniteSet(1..Len(deploys)) /\ SwapsAccepted \in SUBSET (1..Len(deploys))
      BY <1>1, FS_Interval DEF SwapsAccepted
    <3> QED BY <3>1, FS_Subset
  <2> QED BY <2>1, <2>2, FS_AddElement
<1>7. deploy_hash = NoHash /\ decision.action \in Swaps
      /\ store.status \in {"deciding", "executing"}
  BY <1>1, <1>3 DEF CycleInv, Submitting
<1> DEFINE hist == store.decision_history
<1>8. ASSUME NEW i \in 1..Len(hist), hist[i].deploy_hash # NoHash
      PROVE  /\ hist[i].deploy_hash \in SwapsAccepted'
             /\ deploys'[hist[i].deploy_hash].action = hist[i].action
             /\ hist[i].deploy_hash <= store.last_tx_hash
  BY <1>1, <1>2, <1>3, <1>8, HashedStays DEF HashInv
<1>9. HashInv'
  <2>1. store.last_tx_hash \in Nat /\ store.last_tx_hash < n /\ store.last_tx_hash <= n
    BY <1>1, LoopAssumption DEF HashInv, LoopTypeOK, StoreType, Hashes, NoHash
  <2>2. store.actions_taken + 1 <= Cardinality(SwapsAccepted')
    <3>1. store.actions_taken \in Nat /\ store.actions_taken <= Cardinality(SwapsAccepted)
      BY <1>1, <1>7, LoopAssumption DEF HashInv, LoopTypeOK, StoreType
    <3>2. Cardinality(SwapsAccepted) \in Nat
      BY <1>1, <1>2, <1>3, DeploysGrow
    <3> QED BY <1>6, <3>1, <3>2
  <2>3. \A i, j \in 1..Len(hist) :
          (i # j /\ hist[i].deploy_hash # NoHash) => hist[i].deploy_hash # hist[j].deploy_hash
    BY <1>1 DEF HashInv
  <2> HIDE DEF n
  <2> QED BY <1>1, <1>3, <1>4, <1>5, <1>8, <2>1, <2>2, <2>3 DEF HashInv, Hashed, NoHash
<1>10. LoopTypeOK'
  <2>1. deploy_hash' \in Hashes
    BY <1>1, <1>4 DEF Hashes
  <2> QED BY <1>1, <1>3, <1>4, <2>1 DEF LoopTypeOK, InLoop, Submitting
<1>11. CycleInv'
  <2>1. deploy_hash' # NoHash /\ decision'.action # "HOLD"
    BY <1>1, <1>3, <1>4, <1>7 DEF NoHash, Swaps
  <2> QED BY <1>1, <1>3, <1>7, <2>1 DEF CycleInv, Submitting
<1> QED BY <1>9, <1>10, <1>11 DEF LoopInv

\* A log_action deploy is well typed.
LEMMA LogDeployType ==
    ASSUME LoopTypeOK PROVE LogDeploy \in DeployType
  BY DEF LoopTypeOK, LogDeploy, DeployType, VoteTallies, Fates

\* The swaps accepted are as many as the deploys at most.
LEMMA SwapsCounted ==
    ASSUME LoopTypeOK
    PROVE  /\ IsFiniteSet(SwapsAccepted) /\ Cardinality(SwapsAccepted) \in Nat
           /\ Cardinality(SwapsAccepted) <= MaxDeploys
<1>1. ASSUME NEW n \in Nat PROVE IsFiniteSet(1..n) /\ Cardinality(1..n) = n
  <2>1. IsFiniteSet(1..n) /\ Cardinality(1..n) = IF 1 > n THEN 0 ELSE n - 1 + 1
    BY FS_Interval
  <2> QED BY <2>1
<1>2. Len(deploys) \in Nat /\ Len(deploys) <= MaxDeploys /\ MaxDeploys \in Nat
  BY LoopAssumption DEF LoopTypeOK
<1>3. SwapsAccepted \in SUBSET (1..Len(deploys))
  BY DEF SwapsAccepted
<1>4. /\ IsFiniteSet(SwapsAccepted) /\ Cardinality(SwapsAccepted) \in Nat
      /\ Cardinality(SwapsAccepted) <= Len(deploys)
  <2>1. IsFiniteSet(1..Len(deploys)) /\ Cardinality(1..Len(deploys)) = Len(deploys)
    BY <1>1, <1>2
  <2> QED BY <1>3, <2>1, FS_Subset, FS_CardinalityType
<1> QED BY <1>2, <1>4

\* What record_decision makes of the store, field by field.
LEMMA RecordedType ==
    ASSUME LoopInv, pc = "logging"
    PROVE  LET e == [action |-> decision.action, deploy_hash |-> deploy_hash] IN
           /\ e \in Entries
           /\ Recorded \in StoreType
           /\ Recorded.decision_history
                = Latest(Append(store.decision_history, e), HISTORY_LIMIT)
           /\ Len(Recorded.decision_history) <= HISTORY_LIMIT
           /\ Recorded.last_tx_hash
                = IF deploy_hash # NoHash THEN deploy_hash ELSE store.last_tx_hash
           /\ Recorded.actions_taken
                = store.actions_taken + (IF deploy_hash = NoHash THEN 0 ELSE 1)
<1> DEFINE e == [action |-> decision.action, deploy_hash |-> deploy_hash]
           hist == Latest(Append(store.decision_history, e), HISTORY_LIMIT)
           last == IF Moved THEN deploy_hash ELSE store.last_tx_hash
           taken == IF Moved THEN store.actions_taken + 1 ELSE store.actions_taken
           cspr == IF Moved /\ decision.action = "SWAP"
                     THEN Less(store.balance_cspr, decision.amount) ELSE store.balance_cspr
           scspr == CASE ~Moved -> store.scspr_balance_cspr
                      [] Moved /\ decision.action = "SWAP"
                           -> store.scspr_balance_cspr + decision.amount_out
                      [] OTHER -> Less(store.scspr_balance_cspr, decision.amount)
<1>1. LoopTypeOK /\ HashInv /\ store \in StoreType
  BY DEF LoopInv, LoopTypeOK
<1>2. e \in Entries
  BY <1>1 DEF LoopTypeOK, Entries
<1>3. hist \in Seq(Entries) /\ Len(hist) <= HISTORY_LIMIT
  <2>1. /\ store.decision_history \in Seq(Entries)
        /\ Len(store.decision_history) <= HISTORY_LIMIT /\ HISTORY_LIMIT \in Nat \ {0}
    BY <1>1, LoopAssumption DEF LoopTypeOK, StoreType, Entries
  <2> DEFINE t == Append(store.decision_history, e)
  <2>2. hist = Latest(t, HISTORY_LIMIT) /\ t = Append(store.decision_history, e)
    OBVIOUS
  <2> HIDE DEF e, hist, t
  <2> QED BY <1>2, <2>1, <2>2, LatestOfAppend
<1>4. last \in Hashes \cup {NoHash}
  BY <1>1 DEF LoopTypeOK, StoreType, Moved
<1>5. taken \in 0..MaxDeploys
        /\ taken = store.actions_taken + (IF deploy_hash = NoHash THEN 0 ELSE 1)
  <2>1. Cardinality(SwapsAccepted) \in Nat /\ Cardinality(SwapsAccepted) <= MaxDeploys
    BY <1>1, SwapsCounted
  <2>2. store.actions_taken \in Nat /\ MaxDeploys \in Nat
    BY <1>1, LoopAssumption DEF StoreType
  <2>3. store.actions_taken + (IF deploy_hash = NoHash THEN 0 ELSE 1)
          <= Cardinality(SwapsAccepted)
    BY <1>1 DEF HashInv
  <2> QED BY <2>1, <2>2, <2>3 DEF Moved
<1>6. cspr \in Nat /\ scspr \in Nat
  BY <1>1 DEF LoopTypeOK, StoreType, Less
<1>7. Recorded = [store EXCEPT !.last_tx_hash = last, !.actions_taken = taken,
                               !.balance_cspr = cspr, !.scspr_balance_cspr = scspr,
                               !.decision_history = hist, !.last_swarm_result = votes]
  BY DEF Recorded
<1>8. votes \in VoteTallies
  BY <1>1 DEF LoopTypeOK
<1> HIDE DEF hist, taken, cspr, scspr
<1>9. last = IF deploy_hash # NoHash THEN deploy_hash ELSE store.last_tx_hash
  BY DEF Moved
<1> HIDE DEF last
<1>10. /\ Recorded \in StoreType /\ Recorded.decision_history = hist
       /\ Recorded.last_tx_hash = last /\ Recorded.actions_taken = taken
  BY <1>1, <1>3, <1>4, <1>5, <1>6, <1>7, <1>8 DEF StoreType, Entries
<1> QED BY <1>2, <1>3, <1>5, <1>9, <1>10 DEF hist

\* An entry is appended whose hash, if any, is beyond those of the entries kept.
LEMMA RecordKeepsInv ==
    ASSUME LoopInv, LogAndRecord
    PROVE  LoopInv'
<1> DEFINE s == store.decision_history
           e == [action |-> decision.action, deploy_hash |-> deploy_hash]
           r == store'.decision_history
<1>1. LoopTypeOK /\ CycleInv /\ HashInv
  BY DEF LoopInv
<1>2. /\ pc = "logging" /\ EndCycle(Recorded) /\ cached_balance' = cached_balance
      /\ deploys' = deploys \/ \E d \in DeployType : Accept(d)
  BY <1>1, LogDeployType DEF LogAndRecord
<1>3. /\ e \in Entries /\ Recorded \in StoreType
      /\ Len(Recorded.decision_history) <= HISTORY_LIMIT
      /\ Recorded.decision_history = Latest(Append(s, e), HISTORY_LIMIT)
  BY <1>2, RecordedType
<1>4. /\ store' = [Recorded EXCEPT !.status = "running"] /\ deploy_hash' = NoHash
  BY <1>2 DEF EndCycle
<1>5. /\ r = Latest(Append(s, e), HISTORY_LIMIT)
      /\ store'.last_tx_hash
           = IF deploy_hash # NoHash THEN deploy_hash ELSE store.last_tx_hash
      /\ store'.actions_taken
           = store.actions_taken + (IF deploy_hash = NoHash THEN 0 ELSE 1)
  BY <1>2, <1>3, <1>4, RecordedType, StatusType DEF Statuses
<1>6. /\ s \in Seq(Entries) /\ Len(s) <= HISTORY_LIMIT /\ Len(s) \in Nat
      /\ HISTORY_LIMIT \in Nat \ {0}
      /\ store.last_tx_hash \in Nat /\ deploy_hash \in Nat
  BY <1>1, LoopAssumption DEF LoopTypeOK, StoreType, Entries, Hashes, NoHash
<1> DEFINE cut == IF Len(s) < HISTORY_LIMIT THEN 0 ELSE 1
           At(k) == IF k = Len(s) + 1 THEN e ELSE s[k]
<1>7. \A i \in 1..Len(r) : i + cut \in 1..(Len(s) + 1) /\ r[i] = At(i + cut)
  <2> DEFINE t == Append(s, e)
  <2>1. /\ s \in Seq(Entries) /\ e \in Entries /\ HISTORY_LIMIT \in Nat \ {0}
        /\ Len(s) <= HISTORY_LIMIT /\ r = Latest(t, HISTORY_LIMIT)
    BY <1>3, <1>5, <1>6
  <2>2. t = Append(s, e)
    OBVIOUS
  <2> HIDE DEF s, e, r, t
  <2>3. EndsWith(r, s, e, HISTORY_LIMIT)
    BY <2>1, <2>2, LatestOfAppend
  <2> QED BY <2>3 DEF EndsWith
<1>8. Len(r) \in Nat
  <2> HIDE DEF s, e, r
  <2> QED BY <1>3, <1>5, <1>6, LatestOfAppend
<1>9. \A k \in 1..(Len(s) + 1) : At(k) = IF k = Len(s) + 1 THEN e ELSE s[k]
  OBVIOUS
<1>cut. cut \in {0, 1}
  OBVIOUS
<1> HIDE DEF s, r, cut, At
<1>10. deploy_hash # NoHash =>
        /\ deploy_hash \in SwapsAccepted' /\ deploys'[deploy_hash].action = decision.action
        /\ store.last_tx_hash < deploy_hash
  BY <1>1, <1>2, HashedStays DEF HashInv
<1>11. ASSUME NEW k \in 1..Len(s), s[k].deploy_hash # NoHash
       PROVE  /\ s[k].deploy_hash \in SwapsAccepted'
              /\ deploys'[s[k].deploy_hash].action = s[k].action
              /\ s[k].deploy_hash <= store.last_tx_hash
              /\ s[k].deploy_hash \in Nat
  <2>1. Hashed(s[k].deploy_hash, s[k].action) /\ s[k].deploy_hash <= store.last_tx_hash
    BY <1>1, <1>11 DEF HashInv, s
  <2>2. s[k].deploy_hash \in Nat
    <3>1. s[k] \in Entries
      BY <1>6
    <3> QED BY <3>1, LoopAssumption DEF Entries, Hashes, NoHash
  <2> QED BY <1>1, <1>2, <2>1, <2>2, HashedStays
<1>12. \A i, j \in 1..Len(s) :
         (i # j /\ s[i].deploy_hash # NoHash) => s[i].deploy_hash # s[j].deploy_hash
  BY <1>1 DEF HashInv, s
<1>13. ASSUME NEW k \in 1..(Len(s) + 1), At(k).deploy_hash # NoHash
       PROVE  /\ At(k).deploy_hash \in SwapsAccepted'
              /\ deploys'[At(k).deploy_hash].action = At(k).action
              /\ At(k).deploy_hash <= store'.last_tx_hash
  <2>1. CASE k = Len(s) + 1
    BY <1>5, <1>6, <1>9, <1>10, <1>13, <2>1
  <2>2. CASE k \in 1..Len(s)
    <3>1. At(k) = s[k]
      BY <1>6, <1>9, <2>2
    <3>2. CASE deploy_hash = NoHash
      BY <1>5, <1>11, <1>13, <2>2, <3>1, <3>2
    <3>3. CASE deploy_hash # NoHash
      BY <1>5, <1>6, <1>10, <1>11, <1>13, <2>2, <3>1, <3>3
    <3> QED BY <3>2, <3>3
  <2> QED BY <1>6, <2>1, <2>2
<1>14. ASSUME NEW k \in 1..(Len(s) + 1), NEW l \in 1..(Len(s) + 1), k # l,
              At(k).deploy_hash # NoHash
       PROVE  At(k).deploy_hash # At(l).deploy_hash
  <2>1. CASE k \in 1..Len(s) /\ l \in 1..Len(s)
    BY <1>6, <1>9, <1>12, <1>14, <2>1
  <2>2. CASE k = Len(s) + 1 /\ l \in 1..Len(s)
    <3>1. At(k).deploy_hash = deploy_hash /\ At(l) = s[l]
      BY <1>6, <1>9, <2>2
    <3>2. CASE s[l].deploy_hash # NoHash
      BY <1>6, <1>10, <1>11, <1>14, <2>2, <3>1, <3>2
    <3>3. CASE s[l].deploy_hash = NoHash
      BY <1>14, <3>1, <3>3
    <3> QED BY <3>2, <3>3
  <2>3. CASE k \in 1..Len(s) /\ l = Len(s) + 1
    <3>1. At(l).deploy_hash = deploy_hash /\ At(k) = s[k]
      BY <1>6, <1>9, <2>3
    <3>2. CASE deploy_hash # NoHash
      BY <1>6, <1>10, <1>11, <1>14, <2>3, <3>1, <3>2
    <3>3. CASE deploy_hash = NoHash
      BY <1>14, <3>1, <3>3
    <3> QED BY <3>2, <3>3
  <2> QED BY <1>6, <1>14, <2>1, <2>2, <2>3
<1>15. /\ \A i \in 1..Len(r) : r[i].deploy_hash # NoHash =>
            /\ r[i].deploy_hash \in SwapsAccepted'
            /\ deploys'[r[i].deploy_hash].action = r[i].action
            /\ r[i].deploy_hash <= store'.last_tx_hash
       /\ \A i, j \in 1..Len(r) : (i # j /\ r[i].deploy_hash # NoHash) =>
            r[i].deploy_hash # r[j].deploy_hash
  <2>1. ASSUME NEW i \in 1..Len(r), r[i].deploy_hash # NoHash
        PROVE  /\ r[i].deploy_hash \in SwapsAccepted'
               /\ deploys'[r[i].deploy_hash].action = r[i].action
               /\ r[i].deploy_hash <= store'.last_tx_hash
    BY <1>7, <1>13, <2>1
  <2>2. ASSUME NEW i \in 1..Len(r), NEW j \in 1..Len(r), i # j, r[i].deploy_hash # NoHash
        PROVE  r[i].deploy_hash # r[j].deploy_hash
    <3>1. /\ i + cut \in 1..(Len(s) + 1) /\ r[i] = At(i + cut)
          /\ j + cut \in 1..(Len(s) + 1) /\ r[j] = At(j + cut)
      BY <1>7
    <3>2. i + cut # j + cut
      BY <1>cut, <1>8, <2>2
    <3> HIDE DEF e
    <3> QED BY <1>14, <2>2, <3>1, <3>2
  <2> QED BY <2>1, <2>2
<1>16. HashInv'
  <2>1. store'.last_tx_hash <= Len(deploys')
    <3>1. store.last_tx_hash <= Len(deploys) /\ Len(deploys) <= Len(deploys')
          /\ Len(deploys) \in Nat /\ Len(deploys') \in Nat
      BY <1>1, <1>2, DeploysGrow DEF HashInv
    <3>2. deploy_hash # NoHash => deploy_hash <= Len(deploys)
      BY <1>1 DEF HashInv, Hashed, SwapsAccepted
    <3> QED BY <1>5, <1>6, <3>1, <3>2
  <2>2. store'.actions_taken \in Nat /\ store'.actions_taken <= Cardinality(SwapsAccepted')
    <3>1. /\ Cardinality(SwapsAccepted) <= Cardinality(SwapsAccepted')
          /\ Cardinality(SwapsAccepted) \in Nat /\ Cardinality(SwapsAccepted') \in Nat
      BY <1>1, <1>2, DeploysGrow
    <3>2. store.actions_taken \in Nat
      BY <1>1, LoopAssumption DEF LoopTypeOK, StoreType
    <3>3. store'.actions_taken \in Nat /\ store'.actions_taken <= Cardinality(SwapsAccepted)
      BY <1>1, <1>5, <3>2 DEF HashInv
    <3> QED BY <3>1, <3>3
  <2>3. store'.actions_taken + (IF deploy_hash' = NoHash THEN 0 ELSE 1)
          <= Cardinality(SwapsAccepted')
    BY <1>4, <2>2
  <2> QED BY <1>4, <1>15, <2>1, <2>3 DEF HashInv, r, Hashed
<1> QED BY <1>2, <1>3, <1>16, EndCycleKeepsInv DEF LoopInv

\* A restart empties the published state; the deploys stay on the chain.
LEMMA RestartKeepsInv ==
    ASSUME LoopInv, ProcessRestart
    PROVE  LoopInv'
<1>1. LoopTypeOK
  BY DEF LoopInv
<1>2. /\ pc' = "connecting" /\ cached_balance' = Unread /\ market_balance' = 0
      /\ votes' = NoVotes /\ decision' = NoDecision /\ deploy_hash' = NoHash
      /\ store' = Starting(FreshStore) /\ deploys' = deploys
  BY DEF ProcessRestart
<1>3. /\ store' \in StoreType /\ store'.decision_history = <<>>
      /\ store'.last_tx_hash = NoHash /\ store'.actions_taken = 0
  BY <1>2, FreshTypes DEF Starting, FreshStore
<1>4. LoopTypeOK'
  BY <1>1, <1>2, <1>3, FreshTypes, LoopAssumption DEF LoopTypeOK, Connecting, Decisions
<1>5. CycleInv'
  BY <1>2 DEF CycleInv, Submitting
<1>6. HashInv'
  <2>1. Cardinality(SwapsAccepted') \in Nat /\ Len(deploys') \in Nat
    BY <1>1, <1>2, DeploysGrow
  <2>2. 1..Len(<<>>) = {}
    OBVIOUS
  <2> QED BY <1>2, <1>3, <2>1, <2>2 DEF HashInv, NoHash
<1> QED BY <1>4, <1>5, <1>6 DEF LoopInv

-----------------------------------------------------------------------------
\* A fresh process has the invariant.
LEMMA LoopInitInv == LoopInit => LoopInv
<1> SUFFICES ASSUME LoopInit PROVE LoopInv
  OBVIOUS
<1>1. /\ pc = "connecting" /\ cached_balance = Unread /\ market_balance = 0
      /\ votes = NoVotes /\ decision = NoDecision /\ deploy_hash = NoHash
      /\ store = Starting(FreshStore) /\ deploys = <<>>
  BY DEF LoopInit
<1>2. /\ store \in StoreType /\ store.decision_history = <<>>
      /\ store.last_tx_hash = NoHash /\ store.actions_taken = 0
  BY <1>1, FreshTypes DEF Starting, FreshStore
<1>3. deploys \in Seq(DeployType) /\ Len(deploys) = 0
  BY <1>1
<1>4. LoopTypeOK
  BY <1>1, <1>2, <1>3, FreshTypes, LoopAssumption DEF LoopTypeOK, Connecting, Decisions
<1>5. CycleInv
  BY <1>1 DEF CycleInv, Submitting
<1>6. HashInv
  <2>1. Cardinality(SwapsAccepted) \in Nat
    BY <1>4, SwapsCounted
  <2>2. 1..Len(<<>>) = {}
    OBVIOUS
  <2> QED BY <1>1, <1>2, <1>3, <2>1, <2>2 DEF HashInv, NoHash
<1> QED BY <1>4, <1>5, <1>6 DEF LoopInv

\* Every step keeps the invariant, whatever balance is read.
LEMMA LoopStepsKeepInv ==
    ASSUME LoopInv,
           \/ TimedStep \/ SubmissionStep \/ \E b \in Nat : ReadBalance(b)
           \/ Shutdown \/ ProcessRestart \/ UNCHANGED loopVars
    PROVE  LoopInv'
<1>1. CASE TimedStep
  <2>1. CASE Connect \/ ConnectRefused \/ ConnectBreaks \/ Retry \/ SupervisorRestart
               \/ NextCycle
    BY <2>1, ConnectionKeepsInv
  <2>2. CASE ReadNoPurse \/ ReadCached
    BY <2>2, ObservationKeepsInv
  <2>3. CASE MarketFails \/ SkipCycle \/ QuoteFails \/ \E answers \in Answers : VoteRaises(answers)
    BY <2>3, FailuresKeepInv
  <2>4. CASE \/ MarketRead
             \/ \E answers \in Answers : VoteSwap(answers) \/ VoteHold(answers)
             \/ \E q \in Quotes : QuoteRead(q)
    BY <2>4, DecidingKeepsInv
  <2> QED BY <1>1, <2>1, <2>2, <2>3, <2>4 DEF TimedStep
<1>2. CASE SubmissionStep
  BY <1>2, SubmitKeepsInv, FailuresKeepInv, RecordKeepsInv DEF SubmissionStep
<1>3. CASE \E b \in Nat : ReadBalance(b)
  BY <1>3, ObservationKeepsInv
<1>4. CASE Shutdown
  BY <1>4, ConnectionKeepsInv
<1>5. CASE ProcessRestart
  BY <1>5, RestartKeepsInv
<1>6. CASE UNCHANGED loopVars
  BY <1>6 DEF loopVars, cycleVars, LoopInv, LoopTypeOK, CycleInv, HashInv, Hashed,
              SwapsAccepted
<1> QED BY <1>1, <1>2, <1>3, <1>4, <1>5, <1>6

\* So does every step of the loop alone.
LEMMA LoopNextInv == LoopInv /\ [LoopNext]_loopVars => LoopInv'
  BY LoopStepsKeepInv, LoopAssumption DEF LoopNext, LoopStep

\* What is believed of the balance comes from a node.
LEMMA ReadingsStay == ReadingsInv /\ [LoopNext]_loopVars => ReadingsInv'
<1> SUFFICES ASSUME ReadingsInv, [LoopNext]_loopVars PROVE ReadingsInv'
  OBVIOUS
<1>1. CASE UNCHANGED <<cached_balance, market_balance>>
  BY <1>1 DEF ReadingsInv
<1>2. CASE market_balance' = 0 /\ cached_balance' \in {cached_balance, Unread}
  BY <1>2 DEF ReadingsInv
<1>3. CASE UNCHANGED market_balance /\ cached_balance' = Unread
  BY <1>3 DEF ReadingsInv
<1>4. CASE ReadNoPurse \/ ReadCached \/ \E b \in Balances : ReadBalance(b)
  BY <1>4 DEF ReadNoPurse, ReadCached, ReadBalance, BalanceRead, ReadingsInv
<1>5. CASE Connect \/ ConnectRefused \/ ConnectBreaks \/ Retry \/ NextCycle \/ Shutdown
  BY <1>1, <1>5 DEF Connect, ConnectRefused, ConnectBreaks, Retry, NextCycle, Shutdown,
                    BeginCycle, cycleVars
<1>6. CASE MarketFails \/ SkipCycle \/ QuoteFails \/ SubmitRaises \/ LogAndRecord
  BY <1>2, <1>6 DEF MarketFails, SkipCycle, QuoteFails, SubmitRaises, LogAndRecord,
                    FailCycle, EndCycle
<1>7. CASE \E answers \in Answers :
             VoteRaises(answers) \/ VoteSwap(answers) \/ VoteHold(answers)
  BY <1>1, <1>2, <1>7 DEF VoteRaises, VoteSwap, VoteHold, FailCycle, EndCycle
<1>8. CASE MarketRead \/ SubmitSwap \/ (\E q \in Quotes : QuoteRead(q)) \/ UNCHANGED loopVars
  BY <1>1, <1>8 DEF MarketRead, SubmitSwap, QuoteRead, loopVars, cycleVars
<1>9. CASE SupervisorRestart \/ ProcessRestart
  BY <1>2, <1>3, <1>9 DEF SupervisorRestart, ProcessRestart, cycleVars
<1> QED BY <1>4, <1>5, <1>6, <1>7, <1>8, <1>9
        DEF LoopNext, LoopStep, TimedStep, SubmissionStep

\* Both hold in every state.
LEMMA LoopInvHolds == LoopSpec => [](LoopInv /\ ReadingsInv)
<1>1. LoopInit => LoopInv /\ ReadingsInv
  BY LoopInitInv DEF LoopInit, ReadingsInv
<1>2. LoopInv /\ [LoopNext]_loopVars => LoopInv'
  BY LoopNextInv
<1>3. ReadingsInv /\ [LoopNext]_loopVars => ReadingsInv'
  BY ReadingsStay
<1> QED BY <1>1, <1>2, <1>3, PTL DEF LoopSpec

\* Whatever the nodes, the quotes and the specialists answer, and however often
\* the process is restarted, the published state (store.py) is well typed: neither
\* the history nor the errors outgrow their limits, and no amount is negative.
THEOREM LoopTypeOKHolds == LoopSpec => []LoopTypeOK
<1>1. LoopInv => LoopTypeOK
  BY DEF LoopInv
<1> QED BY <1>1, LoopInvHolds, PTL

\* The invariant says more than the property.
LEMMA HistoryFromInv ==
    ASSUME LoopInv
    PROVE  HistoryMatchesDeploys
<1>1. LoopTypeOK /\ HashInv
  BY DEF LoopInv
<1>2. store.actions_taken <= Cardinality(SwapsAccepted)
  <2>1. store.actions_taken \in Nat /\ Cardinality(SwapsAccepted) \in Nat
    BY <1>1, SwapsCounted, LoopAssumption DEF LoopTypeOK, StoreType
  <2> QED BY <1>1, <2>1 DEF HashInv
<1> QED BY <1>1, <1>2 DEF HashInv, HistoryMatchesDeploys, Hashed

\* The decision history of /status never shows a hash that is not that of a swap
\* a node accepted for that very entry, nor one twice, and the counter of actions
\* (agent_loop.py, record_decision) never exceeds the swaps accepted.
THEOREM HistoryMatchesDeploysHolds == LoopSpec => []HistoryMatchesDeploys
  BY HistoryFromInv, LoopInvHolds, PTL

-----------------------------------------------------------------------------
(* The loop implements AgentFeed. *)

\* What Feed!accepted stands for.
AcceptedSwaps == {[hash |-> h, action |-> deploys[h].action] : h \in SwapsAccepted}

FeedVars == <<Published, AcceptedSwaps>>

\* The deploys the feed knows of change with a swap only.
LEMMA SwapAccepted ==
    ASSUME LoopInv, pc = "swapping", Accept(SwapDeploy)
    PROVE  Feed!DeployChange
<1> DEFINE n == Len(deploys) + 1
<1>1. /\ deploys \in Seq(DeployType) /\ Len(deploys) \in Nat /\ n \in Hashes
      /\ decision.action \in Swaps
  BY LoopAssumption DEF LoopInv, LoopTypeOK, CycleInv, Submitting, Accept, Hashes
<1>2. /\ SwapDeploy.entry_point = "execute_swap" /\ SwapDeploy.action = decision.action
      /\ deploys' = Append(deploys, SwapDeploy)
      /\ SwapDeploy \in DeployType
  BY DEF SwapDeploy, Accept, LoopInv, LoopTypeOK, DeployType, VoteTallies, Fates
<1>3. /\ Len(deploys') = n /\ deploys'[n] = SwapDeploy
      /\ \A h \in 1..Len(deploys) : deploys'[h] = deploys[h]
  BY <1>1, <1>2
<1>4. SwapsAccepted' = SwapsAccepted \cup {n} /\ n \notin SwapsAccepted
  BY <1>1, <1>2, <1>3 DEF SwapsAccepted
<1>5. \A h \in SwapsAccepted : deploys'[h] = deploys[h]
  BY <1>3 DEF SwapsAccepted
<1>6. AcceptedSwaps' = AcceptedSwaps \cup {[hash |-> n, action |-> decision.action]}
  BY <1>2, <1>3, <1>4, <1>5 DEF AcceptedSwaps
<1>7. \A d \in AcceptedSwaps : d.hash # n
  BY <1>4 DEF AcceptedSwaps
<1>8. Feed!Accepted(n, decision.action)
  BY <1>6, <1>7 DEF Feed!Accepted, AcceptedSwaps
<1>9. decision.action \in Feed!Swaps
  BY <1>1 DEF Feed!Swaps, Feed!Actions, Swaps
<1> QED BY <1>1, <1>6, <1>7, <1>9 DEF Feed!DeployChange, Feed!Accepted, AcceptedSwaps

\* A status and maybe an error.
LEMMA FeedMoves ==
    ASSUME LoopInv, NEW s \in Statuses \ {"deciding"},
           NEW state \in {store, WithError(store)},
           store' = [state EXCEPT !.status = s],
           s = "executing" => store.status \in {"deciding", "executing"}
    PROVE  Feed!FeedChange
<1>1. store \in StoreType
  BY DEF LoopInv, LoopTypeOK
<1> DEFINE errors == IF store'.errors = 0 THEN "none" ELSE "some"
<1>2. /\ state \in StoreType /\ state.errors \in Nat /\ store.errors \in Nat
      /\ store.errors <= state.errors
      /\ state = [store EXCEPT !.errors = state.errors]
  <2>1. CASE state = store
    BY <1>1, <2>1, LoopAssumption DEF StoreType
  <2>2. CASE state = WithError(store)
    <3> DEFINE n == IF store.errors < ERROR_LIMIT THEN store.errors + 1 ELSE store.errors
    <3>1. n \in 0..ERROR_LIMIT /\ n \in Nat /\ store.errors <= n /\ store.errors \in Nat
      BY <1>1, LoopAssumption DEF StoreType
    <3>2. state = [store EXCEPT !.errors = n]
      BY <2>2 DEF WithError
    <3> HIDE DEF n
    <3>3. state.errors = n
      BY <1>1, <3>2 DEF StoreType
    <3> QED BY <1>1, <2>2, <3>1, <3>2, <3>3, WithErrorType
  <2> QED BY <2>1, <2>2
<1>3. store' = [store EXCEPT !.errors = state.errors, !.status = s]
  BY <1>1, <1>2 DEF StoreType
<1>4. store'.errors = state.errors /\ (Published.errors = "some" => errors = "some")
  BY <1>1, <1>2, <1>3 DEF Published, StoreType
<1>5. Published' = [Published EXCEPT !.status = s, !.errors = errors]
  <2>1. /\ store'.status = s /\ store'.balance_cspr = store.balance_cspr
        /\ store'.last_market_data = store.last_market_data
        /\ store'.scspr_balance_cspr = store.scspr_balance_cspr
        /\ store'.actions_taken = store.actions_taken
        /\ store'.last_tx_hash = store.last_tx_hash
        /\ store'.decision_history = store.decision_history
        /\ store'.last_swarm_result = store.last_swarm_result
    BY <1>1, <1>3 DEF StoreType
  <2> HIDE DEF errors
  <2>2. Published' = [status |-> s, errors |-> errors, balance |-> store.balance_cspr,
                      observed |-> store.last_market_data,
                      position |-> store.scspr_balance_cspr,
                      actions_taken |-> store.actions_taken,
                      last_tx_hash |-> store.last_tx_hash,
                      history |-> store.decision_history,
                      swarm |-> store.last_swarm_result]
    BY <2>1 DEF Published, errors
  <2>3. Published = [status |-> store.status, errors |-> Published.errors,
                     balance |-> store.balance_cspr, observed |-> store.last_market_data,
                     position |-> store.scspr_balance_cspr,
                     actions_taken |-> store.actions_taken,
                     last_tx_hash |-> store.last_tx_hash,
                     history |-> store.decision_history,
                     swarm |-> store.last_swarm_result]
    BY DEF Published
  <2> DEFINE R == [Published EXCEPT !.status = s, !.errors = errors]
  <2>4. /\ DOMAIN R = {"status", "errors", "balance", "observed", "position", "actions_taken",
                     "last_tx_hash", "history", "swarm"}
        /\ R.status = s /\ R.errors = errors /\ R.balance = store.balance_cspr
        /\ R.observed = store.last_market_data
        /\ R.position = store.scspr_balance_cspr
        /\ R.actions_taken = store.actions_taken /\ R.last_tx_hash = store.last_tx_hash
        /\ R.history = store.decision_history /\ R.swarm = store.last_swarm_result
    BY <2>3
  <2>5. R = [k \in DOMAIN R |-> R[k]]
    BY <2>3
  <2> HIDE DEF R
  <2>6. R = Published'
    BY <2>2, <2>4, <2>5
  <2> QED BY <2>6 DEF R
<1>6. Feed!Moved(s, errors)
  BY <1>4, <1>5 DEF Feed!Moved, Feed!Deciding, Published
<1>7. s \in Feed!Waiting \cup {"executing"} /\ errors \in Feed!Errors
  BY DEF Feed!Errors, Feed!Waiting, Statuses
<1> QED BY <1>6, <1>7 DEF Feed!FeedChange

\* A step that changes neither.
LEMMA FeedStutters ==
    ASSUME UNCHANGED <<store, deploys>>
    PROVE  UNCHANGED FeedVars
  BY DEF FeedVars, Published, AcceptedSwaps, SwapsAccepted

\* Without a new deploy the accepted swaps stay.
LEMMA AcceptedKept ==
    ASSUME UNCHANGED deploys
    PROVE  UNCHANGED AcceptedSwaps
  BY DEF AcceptedSwaps, SwapsAccepted

\* Publishing the market data is an observation of the feed.
LEMMA FeedObserves ==
    ASSUME LoopInv, ReadingsInv, MarketRead
    PROVE  Feed!FeedChange /\ UNCHANGED AcceptedSwaps
<1>1. store \in StoreType /\ market_balance \in Balances
  BY DEF LoopInv, LoopTypeOK, ReadingsInv, MarketRead
<1>2. store' = [store EXCEPT !.balance_cspr = market_balance, !.status = "deciding",
                             !.last_market_data = market_balance]
  BY DEF MarketRead
<1>3. Published' = [Published EXCEPT !.status = "deciding", !.balance = market_balance,
                                     !.observed = market_balance]
  <2>1. /\ store'.status = "deciding" /\ store'.balance_cspr = market_balance
        /\ store'.last_market_data = market_balance
        /\ store'.scspr_balance_cspr = store.scspr_balance_cspr
        /\ store'.actions_taken = store.actions_taken
        /\ store'.last_tx_hash = store.last_tx_hash
        /\ store'.errors = store.errors
        /\ store'.decision_history = store.decision_history
        /\ store'.last_swarm_result = store.last_swarm_result
    BY <1>1, <1>2 DEF StoreType
  <2>2. Published' = [status |-> "deciding", errors |-> Published.errors,
                      balance |-> market_balance, observed |-> market_balance,
                      position |-> store.scspr_balance_cspr,
                      actions_taken |-> store.actions_taken,
                      last_tx_hash |-> store.last_tx_hash,
                      history |-> store.decision_history,
                      swarm |-> store.last_swarm_result]
    BY <2>1 DEF Published
  <2>3. Published = [status |-> store.status, errors |-> Published.errors,
                     balance |-> store.balance_cspr, observed |-> store.last_market_data,
                     position |-> store.scspr_balance_cspr,
                     actions_taken |-> store.actions_taken,
                     last_tx_hash |-> store.last_tx_hash,
                     history |-> store.decision_history,
                     swarm |-> store.last_swarm_result]
    BY DEF Published
  <2> DEFINE R == [Published EXCEPT !.status = "deciding", !.balance = market_balance,
                                    !.observed = market_balance]
  <2>4. /\ DOMAIN R = {"status", "errors", "balance", "observed", "position", "actions_taken",
                     "last_tx_hash", "history", "swarm"}
        /\ R.status = "deciding" /\ R.errors = Published.errors
        /\ R.balance = market_balance /\ R.observed = market_balance
        /\ R.position = store.scspr_balance_cspr
        /\ R.actions_taken = store.actions_taken /\ R.last_tx_hash = store.last_tx_hash
        /\ R.history = store.decision_history /\ R.swarm = store.last_swarm_result
    BY <2>3
  <2>5. R = [k \in DOMAIN R |-> R[k]]
    BY <2>3
  <2> HIDE DEF R
  <2>6. R = Published'
    BY <2>2, <2>4, <2>5
  <2> QED BY <2>6 DEF R
<1>4. Feed!Observed(market_balance)
  BY <1>3 DEF Feed!Observed
<1>5. UNCHANGED AcceptedSwaps
  BY AcceptedKept DEF MarketRead
<1> QED BY <1>1, <1>4, <1>5 DEF Feed!FeedChange

\* An entry is booked with what was voted, and a swap with the deploy it led to.
LEMMA FeedBooks ==
    ASSUME LoopInv, LogAndRecord
    PROVE  Feed!FeedChange /\ UNCHANGED AcceptedSwaps
<1> DEFINE a == decision.action
           h == deploy_hash
           b == store'.balance_cspr
           p == store'.scspr_balance_cspr
           e == [action |-> a, deploy_hash |-> h]
           t == Append(store.decision_history, e)
<1>1. /\ LoopTypeOK /\ CycleInv /\ HashInv /\ store \in StoreType
      /\ pc = "logging" /\ decision \in Decisions /\ votes \in VoteTallies
      /\ h \in Hashes \cup {NoHash} /\ store.balance_cspr \in Nat
      /\ store.scspr_balance_cspr \in Nat
  BY DEF LoopInv, LoopTypeOK, LogAndRecord, Decisions, StoreType
<1>2. /\ EndCycle(Recorded)
      /\ deploys' = deploys \/ Accept(LogDeploy)
  BY DEF LogAndRecord
<1>3. store' = [Recorded EXCEPT !.status = "running"]
  BY <1>2 DEF EndCycle
<1>4. /\ a \in Actions /\ (a = "SWAP" <=> votes.SWAP >= VoteThreshold)
      /\ a = "SWAP" => decision.amount_out \in Quotes
      /\ (h = NoHash <=> a = "HOLD") /\ store.status \in {"deciding", "executing"}
  BY <1>1 DEF CycleInv, Submitting, Decisions
<1>5. h # NoHash =>
        [hash |-> h, action |-> a] \in AcceptedSwaps /\ store.last_tx_hash < h
  BY <1>1 DEF HashInv, Hashed, AcceptedSwaps
<1>6. /\ b = IF a = "SWAP" THEN Less(store.balance_cspr, decision.amount)
                           ELSE store.balance_cspr
      /\ p = CASE a = "HOLD" -> store.scspr_balance_cspr
               [] a = "SWAP" -> store.scspr_balance_cspr + decision.amount_out
               [] OTHER -> Less(store.scspr_balance_cspr, decision.amount)
  BY <1>1, <1>3, <1>4 DEF Recorded, Moved, StoreType
<1>7. /\ b \in 0..store.balance_cspr
      /\ a # "SWAP" => b = store.balance_cspr
      /\ a = "HOLD" => p = store.scspr_balance_cspr
      /\ a = "SWAP" => p = store.scspr_balance_cspr + decision.amount_out
      /\ a = "SWAP_BACK" => p \in 0..store.scspr_balance_cspr
  BY <1>1, <1>4, <1>6 DEF Less, Decisions
<1>8. Latest(t, HISTORY_LIMIT) = IF Len(t) <= HISTORY_LIMIT THEN t ELSE Tail(t)
  <2>1. /\ store.decision_history \in Seq(Entries) /\ e \in Entries
        /\ Len(store.decision_history) <= HISTORY_LIMIT /\ HISTORY_LIMIT \in Nat \ {0}
    BY <1>1, LoopAssumption DEF LoopTypeOK, StoreType, Entries, Decisions
  <2> DEFINE r == Latest(t, HISTORY_LIMIT)
  <2>2. r = Latest(t, HISTORY_LIMIT) /\ t = Append(store.decision_history, e)
    OBVIOUS
  <2> HIDE DEF e, t, r
  <2>3. Trimmed(r, t, HISTORY_LIMIT)
    BY <2>1, <2>2, LatestOfAppend
  <2> QED BY <2>3 DEF r, Trimmed
<1>9. Published' =
        [Published EXCEPT
           !.status = "running", !.balance = b, !.position = p,
           !.actions_taken = IF h # NoHash THEN store.actions_taken + 1 ELSE store.actions_taken,
           !.last_tx_hash = IF h # NoHash THEN h ELSE store.last_tx_hash,
           !.history = Latest(t, HISTORY_LIMIT),
           !.swarm = votes]
  <2>1. /\ store'.status = "running" /\ store'.errors = store.errors
        /\ store'.last_market_data = store.last_market_data
        /\ store'.actions_taken
             = IF h # NoHash THEN store.actions_taken + 1 ELSE store.actions_taken
        /\ store'.last_tx_hash = IF h # NoHash THEN h ELSE store.last_tx_hash
        /\ store'.decision_history = Latest(t, HISTORY_LIMIT)
        /\ store'.last_swarm_result = votes
    BY <1>1, <1>3 DEF Recorded, Moved, StoreType
  <2> HIDE DEF t
  <2>2. Published' = [status |-> "running", errors |-> Published.errors,
                      balance |-> b, observed |-> store.last_market_data, position |-> p,
                      actions_taken |-> IF h # NoHash THEN store.actions_taken + 1
                                                      ELSE store.actions_taken,
                      last_tx_hash |-> IF h # NoHash THEN h ELSE store.last_tx_hash,
                      history |-> Latest(t, HISTORY_LIMIT),
                      swarm |-> votes]
    BY <2>1 DEF Published
  <2>3. Published = [status |-> store.status, errors |-> Published.errors,
                     balance |-> store.balance_cspr, observed |-> store.last_market_data,
                     position |-> store.scspr_balance_cspr,
                     actions_taken |-> store.actions_taken,
                     last_tx_hash |-> store.last_tx_hash,
                     history |-> store.decision_history,
                     swarm |-> store.last_swarm_result]
    BY DEF Published
  <2> DEFINE R == [Published EXCEPT
         !.status = "running", !.balance = b, !.position = p,
         !.actions_taken = IF h # NoHash THEN store.actions_taken + 1 ELSE store.actions_taken,
         !.last_tx_hash = IF h # NoHash THEN h ELSE store.last_tx_hash,
         !.history = Latest(t, HISTORY_LIMIT),
         !.swarm = votes]
  <2>4. /\ DOMAIN R = {"status", "errors", "balance", "observed", "position", "actions_taken",
                     "last_tx_hash", "history", "swarm"}
        /\ R.status = "running" /\ R.errors = Published.errors
        /\ R.balance = b /\ R.observed = store.last_market_data /\ R.position = p
        /\ R.actions_taken = IF h # NoHash THEN store.actions_taken + 1
                                           ELSE store.actions_taken
        /\ R.last_tx_hash = IF h # NoHash THEN h ELSE store.last_tx_hash
        /\ R.history = Latest(t, HISTORY_LIMIT) /\ R.swarm = votes
    BY <2>3
  <2>5. R = [k \in DOMAIN R |-> R[k]]
    BY <2>3
  <2> HIDE DEF R
  <2>6. R = Published'
    BY <2>2, <2>4, <2>5
  <2> QED BY <2>6 DEF R
<1>10. UNCHANGED AcceptedSwaps
  <2>1. CASE deploys' = deploys
    BY <2>1, AcceptedKept
  <2>2. CASE Accept(LogDeploy)
    <3>1. /\ deploys \in Seq(DeployType) /\ deploys' = Append(deploys, LogDeploy)
          /\ Len(deploys) \in Nat /\ LogDeploy.entry_point # "execute_swap"
      BY <1>1, <2>2 DEF LoopTypeOK, Accept, LogDeploy
    <3>2. /\ LogDeploy \in DeployType
          /\ Len(deploys') = Len(deploys) + 1 /\ deploys'[Len(deploys) + 1] = LogDeploy
          /\ \A k \in 1..Len(deploys) : deploys'[k] = deploys[k]
      BY <1>1, <3>1, LogDeployType
    <3>3. SwapsAccepted' = SwapsAccepted
      BY <3>1, <3>2 DEF SwapsAccepted
    <3>4. \A k \in SwapsAccepted : deploys'[k] = deploys[k]
      BY <3>2 DEF SwapsAccepted
    <3> QED BY <3>3, <3>4 DEF AcceptedSwaps
  <2> QED BY <1>2, <2>1, <2>2
<1>11. /\ a \in Feed!Actions
       /\ (a \in Feed!Swaps <=> h # NoHash)
       /\ Feed!NoHash = NoHash
  BY <1>4 DEF Feed!Actions, Feed!Swaps, Actions, NoHash, Feed!NoHash
<1>12. Published.history = store.decision_history /\ Published.balance = store.balance_cspr
       /\ Published.position = store.scspr_balance_cspr
       /\ Published.actions_taken = store.actions_taken
       /\ Published.last_tx_hash = store.last_tx_hash
       /\ Published.status = store.status
  BY DEF Published
<1> HIDE DEF a, h, b, p
<1>13. p \in 0..store.scspr_balance_cspr \cup {store.scspr_balance_cspr + q : q \in Quotes}
       /\ (a = "SWAP" => p - store.scspr_balance_cspr \in Quotes)
       /\ (a = "SWAP_BACK" => p <= store.scspr_balance_cspr)
  <2>1. CASE a = "SWAP"
    <3>1. decision.amount_out \in Quotes /\ p = store.scspr_balance_cspr + decision.amount_out
      BY <1>4, <1>7, <2>1
    <3>2. decision.amount_out \in Nat /\ store.scspr_balance_cspr \in Nat
      BY <1>1, <3>1, LoopAssumption
    <3>3. p - store.scspr_balance_cspr = decision.amount_out
      BY <3>1, <3>2
    <3> QED BY <2>1, <3>1, <3>3
  <2>2. CASE a # "SWAP"
    <3>1. a \in {"HOLD", "SWAP_BACK"}
      BY <1>4, <2>2 DEF Actions
    <3> QED BY <1>1, <1>7, <2>2, <3>1
  <2> QED BY <2>1, <2>2
<1>14. store.last_tx_hash \in Nat /\ h \in Nat
  BY <1>1, LoopAssumption DEF StoreType, Hashes, NoHash
<1>15. /\ Published.status \in Feed!Deciding
       /\ a \in Feed!Swaps => [hash |-> h, action |-> a] \in AcceptedSwaps
                              /\ h > Published.last_tx_hash
       /\ a = "SWAP" => b <= Published.balance /\ p - Published.position \in Quotes
       /\ a = "SWAP_BACK" => b = Published.balance /\ p <= Published.position
       /\ a = "HOLD" => h = Feed!NoHash /\ b = Published.balance /\ p = Published.position
  BY <1>1, <1>4, <1>5, <1>7, <1>11, <1>12, <1>13, <1>14 DEF Feed!Deciding
<1>16. Published' = [Published EXCEPT
         !.status = "running", !.balance = b, !.position = p,
         !.actions_taken = IF a \in Feed!Swaps THEN @ + 1 ELSE @,
         !.last_tx_hash = IF a \in Feed!Swaps THEN h ELSE @,
         !.history = IF Len(t) <= HISTORY_LIMIT THEN t ELSE Tail(t),
         !.swarm = votes]
  <2> HIDE DEF t
  <2> QED BY <1>8, <1>9, <1>11, <1>12
<1>17. Feed!Booked(a, h, b, p, votes)
  BY <1>4, <1>12, <1>15, <1>16 DEF Feed!Booked, AcceptedSwaps
<1>18. Feed!FeedChange
  BY <1>1, <1>7, <1>11, <1>12, <1>13, <1>17 DEF Feed!FeedChange
<1> QED BY <1>10, <1>18

\* Every step of the loop is a step of the feed, or one it does not show.
LEMMA LoopStepsAreFeedSteps ==
    ASSUME LoopInv, ReadingsInv, [LoopNext]_loopVars
    PROVE  Feed!FeedNext \/ UNCHANGED FeedVars
<1>1. store \in StoreType /\ CycleInv
  BY DEF LoopInv, LoopTypeOK
<1>2. CASE Connect \/ NextCycle
  <2>1. store' = [store EXCEPT !.status = "observing"] /\ deploys' = deploys
    BY <1>2 DEF Connect, NextCycle, BeginCycle
  <2>2. Feed!FeedChange /\ UNCHANGED AcceptedSwaps
    BY <2>1, FeedMoves, AcceptedKept DEF Statuses
  <2> QED BY <2>2 DEF Feed!FeedNext, AcceptedSwaps
<1>3. CASE ConnectRefused
  <2>1. store' = [WithError(store) EXCEPT !.status = "waiting_mcp"] /\ deploys' = deploys
    BY <1>1, <1>3 DEF ConnectRefused, WithError, StoreType
  <2>2. Feed!FeedChange /\ UNCHANGED AcceptedSwaps
    BY <2>1, FeedMoves, AcceptedKept DEF Statuses
  <2> QED BY <2>2 DEF Feed!FeedNext, AcceptedSwaps
<1>4. CASE \/ ConnectBreaks \/ Retry \/ ReadNoPurse \/ ReadCached
           \/ \E b \in Balances : ReadBalance(b)
           \/ \E answers \in Answers : VoteSwap(answers)
           \/ UNCHANGED loopVars
  BY <1>4, FeedStutters
  DEF ConnectBreaks, Retry, ReadNoPurse, ReadCached, ReadBalance, BalanceRead, VoteSwap,
      loopVars
<1>5. CASE SupervisorRestart
  <2>1. store' = [store EXCEPT !.status = "connecting"] /\ deploys' = deploys
    BY <1>5 DEF SupervisorRestart, Starting
  <2>2. Feed!FeedChange /\ UNCHANGED AcceptedSwaps
    BY <2>1, FeedMoves, AcceptedKept DEF Statuses
  <2> QED BY <2>2 DEF Feed!FeedNext, AcceptedSwaps
<1>6. CASE \/ MarketFails \/ SkipCycle \/ QuoteFails \/ SubmitRaises
           \/ \E answers \in Answers : VoteRaises(answers)
  <2>1. /\ store' = [WithError(store) EXCEPT !.status = "running"]
        /\ deploys' = deploys \/ (pc = "swapping" /\ Accept(SwapDeploy))
    BY <1>6 DEF MarketFails, SkipCycle, QuoteFails, SubmitRaises, VoteRaises, FailCycle,
                EndCycle
  <2>2. Feed!FeedChange
    BY <2>1, FeedMoves DEF Statuses
  <2>3. UNCHANGED AcceptedSwaps \/ Feed!DeployChange
    BY <2>1, AcceptedKept, SwapAccepted
  <2> QED BY <2>2, <2>3 DEF Feed!FeedNext, AcceptedSwaps
<1>7. CASE MarketRead
  <2>1. Feed!FeedChange /\ UNCHANGED AcceptedSwaps
    BY <1>7, FeedObserves
  <2> QED BY <2>1 DEF Feed!FeedNext, AcceptedSwaps
<1>8. CASE \/ \E answers \in Answers : VoteHold(answers)
           \/ \E q \in Quotes : QuoteRead(q)
  <2>1. /\ deploys' = deploys /\ pc \in {"voting", "quoting"}
        /\ store' = store \/ store' = [store EXCEPT !.status = "executing"]
    BY <1>8 DEF VoteHold, QuoteRead
  <2>2. CASE store' = store
    BY <2>1, <2>2, FeedStutters
  <2>3. CASE store' = [store EXCEPT !.status = "executing"]
    <3>1. Feed!FeedChange /\ UNCHANGED AcceptedSwaps
      BY <1>1, <2>1, <2>3, FeedMoves, AcceptedKept DEF Statuses, CycleInv
    <3> QED BY <3>1 DEF Feed!FeedNext, AcceptedSwaps
  <2> QED BY <2>1, <2>2, <2>3
<1>9. CASE SubmitSwap
  <2>1. Feed!DeployChange /\ UNCHANGED Published
    BY <1>9, SwapAccepted DEF SubmitSwap, Published
  <2> QED BY <2>1 DEF Feed!FeedNext
<1>10. CASE LogAndRecord
  <2>1. Feed!FeedChange /\ UNCHANGED AcceptedSwaps
    BY <1>10, FeedBooks
  <2> QED BY <2>1 DEF Feed!FeedNext, AcceptedSwaps
<1>11. CASE Shutdown
  <2>1. CASE pc \in InLoop
    <3>1. store' = [store EXCEPT !.status = "stopped"] /\ deploys' = deploys
      BY <1>11, <2>1 DEF Shutdown
    <3>2. Feed!FeedChange /\ UNCHANGED AcceptedSwaps
      BY <3>1, FeedMoves, AcceptedKept DEF Statuses
    <3> QED BY <3>2 DEF Feed!FeedNext, AcceptedSwaps
  <2>2. CASE pc \notin InLoop
    BY <1>11, <2>2, FeedStutters DEF Shutdown
  <2> QED BY <2>1, <2>2
<1>12. CASE ProcessRestart
  <2>1. store' = Starting(FreshStore) /\ deploys' = deploys
    BY <1>12 DEF ProcessRestart
  <2>2. Feed!Restarted
    BY <2>1 DEF Feed!Restarted, Feed!FreshFeed, Published, Starting, FreshStore, NoHash,
                NoReading, NoVotes, Feed!NoHash, Feed!NoReading, Feed!NoVotes
  <2>3. UNCHANGED AcceptedSwaps
    BY <2>1, AcceptedKept
  <2> QED BY <2>2, <2>3 DEF Feed!FeedNext, Feed!FeedChange, AcceptedSwaps
<1> QED
  BY <1>2, <1>3, <1>4, <1>5, <1>6, <1>7, <1>8, <1>9, <1>10, <1>11, <1>12
  DEF LoopNext, LoopStep, TimedStep, SubmissionStep

\* A fresh process is a fresh feed.
LEMMA FeedStarts == LoopInit => Feed!FeedInit
<1> SUFFICES ASSUME LoopInit PROVE Feed!FeedInit
  OBVIOUS
<1>1. SwapsAccepted = {}
  <2>1. 1..Len(deploys) = {}
    BY DEF LoopInit
  <2> QED BY <2>1 DEF SwapsAccepted
<1> QED
  BY <1>1
  DEF LoopInit, Feed!FeedInit, Feed!FreshFeed, Published, Starting, FreshStore, NoHash,
      NoReading, NoVotes, Feed!NoHash, Feed!NoReading, Feed!NoVotes

\* Whatever fails on the way (agent_loop.py, executor.py, swarm.py), the readers of
\* /status see a state of AgentFeed: decided after it is observed, swaps booked with
\* the votes they need and the deploy a node took for them, no hash twice.
THEOREM LoopImplementsFeed == LoopSpec => ImplementsFeed
<1>1. LoopInit => Feed!FeedInit
  BY FeedStarts
<1>2. LoopInv /\ ReadingsInv /\ [LoopNext]_loopVars => [Feed!FeedNext]_FeedVars
  BY LoopStepsAreFeedSteps
<1>3. [Feed!FeedNext]_FeedVars <=>
        [Feed!FeedNext]_<<Published,
           {[hash |-> h, action |-> deploys[h].action] : h \in SwapsAccepted}>>
  BY DEF FeedVars, AcceptedSwaps
<1> QED BY <1>1, <1>2, <1>3, LoopInvHolds, PTL DEF LoopSpec, ImplementsFeed, Feed!FeedSpec

=============================================================================
