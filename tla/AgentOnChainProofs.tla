------------------------- MODULE AgentOnChainProofs -------------------------
(***************************************************************************)
(* The agent, the chain and the other accounts together inherit what was    *)
(* proved of the loop and of the vault: every step is a step of both.  And  *)
(* the swap trail is the agent's: with one agent, and a threshold that is a *)
(* majority, its CSPR swaps were voted for by most of the specialists.      *)
(***************************************************************************)
EXTENDS AgentOnChain, AgentLoopProofs, VaultDeploymentProofs

\* The setters are offered no agent but the signer.
OneAgent == Delegates \subseteq {Signer}

\* SWARM_VOTE_THRESHOLD, as it is by default: 2 of 3.
Majority == 2 * VoteThreshold > Cardinality(Specialists)

Executed == {h \in SwapsAccepted : deploys[h].fate = "executed"}

\* The trail is as long as the agent's executed swaps are many, because nobody
\* else is the agent, and no SWAP was sent without its votes.
VotedInv ==
    /\ agent = Signer
    /\ swap_count = Cardinality(Executed)
    /\ \A h \in SwapsAccepted : deploys[h].action = "SWAP" => deploys[h].backers >= VoteThreshold

-----------------------------------------------------------------------------
(* A step of the whole, seen from the loop and from the vault. *)

\* Nothing but its fate changes of a deploy that is settled.
LEMMA SettledDeploys ==
    ASSUME LoopInv, NEW h \in 1..Len(deploys), NEW fate \in Fates, Settle(h, fate)
    PROVE  /\ deploys' \in Seq(DeployType) /\ Len(deploys') = Len(deploys)
           /\ \A g \in 1..Len(deploys) :
                /\ deploys'[g].entry_point = deploys[g].entry_point
                /\ deploys'[g].action = deploys[g].action
                /\ deploys'[g].backers = deploys[g].backers
                /\ deploys'[g].fate = IF g = h THEN fate ELSE deploys[g].fate
           /\ deploys[h].fate = "pending"
           /\ SwapsAccepted' = SwapsAccepted
           /\ UNCHANGED <<pc, cached_balance, cycleVars, store>>
<1>1. /\ deploys \in Seq(DeployType) /\ Len(deploys) \in Nat
      /\ deploys[h] \in DeployType
  BY DEF LoopInv, LoopTypeOK
<1>2. /\ deploys[h].fate = "pending"
      /\ deploys' = [deploys EXCEPT ![h].fate = fate]
      /\ UNCHANGED <<pc, cached_balance, cycleVars, store>>
  BY DEF Settle
<1> DEFINE d == [deploys[h] EXCEPT !.fate = fate]
<1>3. d \in DeployType /\ d.entry_point = deploys[h].entry_point /\ d.fate = fate
      /\ d.action = deploys[h].action /\ d.backers = deploys[h].backers
  BY <1>1 DEF DeployType
<1>4. deploys' = [deploys EXCEPT ![h] = d]
  BY <1>2
<1> HIDE DEF d
<1>5. /\ deploys' \in Seq(DeployType) /\ Len(deploys') = Len(deploys)
      /\ \A g \in 1..Len(deploys) : deploys'[g] = IF g = h THEN d ELSE deploys[g]
  BY <1>1, <1>3, <1>4
<1> QED BY <1>2, <1>3, <1>5 DEF SwapsAccepted

\* So the loop does not notice.
LEMMA SettleKeepsLoopInv ==
    ASSUME LoopInv, NEW h \in 1..Len(deploys), NEW fate \in Fates, Settle(h, fate)
    PROVE  LoopInv'
<1>1. /\ deploys' \in Seq(DeployType) /\ Len(deploys') = Len(deploys)
      /\ \A g \in 1..Len(deploys) : deploys'[g].action = deploys[g].action
      /\ SwapsAccepted' = SwapsAccepted
      /\ UNCHANGED <<pc, cached_balance, cycleVars, store>>
  BY SettledDeploys
<1>2. LoopTypeOK'
  BY <1>1 DEF LoopInv, LoopTypeOK, cycleVars
<1>3. CycleInv'
  BY <1>1 DEF LoopInv, CycleInv, cycleVars
<1>4. \A g, action : Hashed(g, action)' <=> Hashed(g, action)
  BY <1>1 DEF Hashed, SwapsAccepted
<1>5. HashInv'
  BY <1>1, <1>4 DEF LoopInv, HashInv, cycleVars
<1> QED BY <1>2, <1>3, <1>5 DEF LoopInv

\* The call in a deploy is a call of the vault.
LEMMA DeployIsCall ==
    ASSUME LoopInv, NEW h \in 1..Len(deploys), VaultCall(deploys[h])
    PROVE  AnyCall
<1>1. /\ deploys[h] \in DeployType
      /\ Signer \in Accounts /\ CSPR \in Texts /\ SCSPR \in Texts /\ Actions \subseteq Texts
  BY SignerAssumption, VaultConstants DEF LoopInv, LoopTypeOK
<1>2. deploys[h].action \in Texts /\ deploys[h].amount_in \in Nat /\ deploys[h].amount_out \in Nat
  BY <1>1 DEF DeployType
<1>3. CASE deploys[h].entry_point = "execute_swap"
  BY <1>1, <1>2, <1>3, AgentStepCases DEF VaultCall
<1>4. CASE deploys[h].entry_point = "log_action"
  BY <1>1, <1>2, <1>4 DEF VaultCall, AnyCall, CallBy
<1> QED BY <1>3, <1>4 DEF VaultCall

\* What becomes of a deploy.
LEMMA FateCases ==
    ASSUME ChainStep
    PROVE  \E h \in 1..Len(deploys) :
             \/ Settle(h, "executed") /\ VaultCall(deploys[h])
             \/ Settle(h, "reverted") /\ UNCHANGED vars
             \/ Settle(h, "expired") /\ UNCHANGED vars
  BY DEF ChainStep, Execute, Revert, Expire

\* For the vault a step of the whole is a call or none.
LEMMA ChainNextIsCall ==
    ASSUME LoopInv, [ChainNext]_chainVars
    PROVE  [AnyCall]_vars
<1>1. CASE AgentStep
  BY <1>1 DEF AgentStep
<1>2. CASE ChainStep
  BY <1>2, FateCases, DeployIsCall
<1>3. CASE OthersStep
  BY <1>3, VaultStepCases DEF OthersStep, VaultNext
<1>4. CASE UNCHANGED chainVars
  BY <1>4 DEF chainVars
<1> QED BY <1>1, <1>2, <1>3, <1>4 DEF ChainNext

\* For the loop it is one of its steps, or keeps its invariant.
LEMMA ChainNextKeepsLoopInv ==
    ASSUME VaultInv, LoopInv, [ChainNext]_chainVars
    PROVE  LoopInv'
<1>1. CASE AgentStep
  <2>1. purse[Vault] \in Nat
    BY VaultConstants DEF VaultInv, TypeOK, PoolTypeOK
  <2> QED BY <1>1, <2>1, LoopStepsKeepInv DEF AgentStep
<1>2. CASE ChainStep
  <2>1. {"executed", "reverted", "expired"} \subseteq Fates
    BY DEF Fates
  <2> QED BY <1>2, <2>1, FateCases, SettleKeepsLoopInv
<1>3. CASE OthersStep \/ UNCHANGED chainVars
  BY <1>3, LoopStepsKeepInv DEF OthersStep, chainVars
<1> QED BY <1>1, <1>2, <1>3 DEF ChainNext

-----------------------------------------------------------------------------
(* The theorems of the parts, of the whole. *)

\* The invariants of both hold side by side.
LEMMA ChainInvHolds == ChainSpec => [](VaultInv /\ TrailInv /\ LoopInv)
<1>1. ChainInit => VaultInv /\ TrailInv /\ LoopInv
  BY DeployedGivesInv, LoopInitInv DEF ChainInit
<1>2. VaultInv /\ TrailInv /\ LoopInv /\ [ChainNext]_chainVars
        => VaultInv' /\ TrailInv' /\ LoopInv'
  BY ChainNextIsCall, ChainNextKeepsLoopInv, CallIsNext, NextKeepsInv, StutterKeepsInv,
     TrailInvIsInductive
<1> QED BY <1>1, <1>2, PTL DEF ChainSpec

\* Whatever becomes of the agent's deploys and whatever others call, the vault
\* has the cash it books, and the history the agent publishes is of its deploys.
THEOREM ChainSafe == ChainSpec => [](VaultSolvent /\ HistoryMatchesDeploys)
<1>1. LoopInv => HistoryMatchesDeploys
  BY HistoryFromInv
<1>2. VaultInv => VaultSolvent
  BY DEF VaultInv
<1> QED BY <1>1, <1>2, ChainInvHolds, PTL

\* No deploy of the agent, however late, touches a claim without payment, takes
\* CSPR out of the vault without a record, or moves a thing while it is paused.
THEOREM ChainKeepsFunds ==
    ChainSpec => ClaimsChangeAgainstPayment /\ CashLeavesAgainstRecord /\ PausedMeansFrozen
<1>1. VaultInv /\ LoopInv /\ [ChainNext]_chainVars =>
        [\A a \in Addresses :
           balances'[a] # balances[a] =>
             balances'[a] - balances[a] = purse[a] - purse'[a]]_vars
  BY ChainNextIsCall, CallIsNext, ClaimStep
<1>2. VaultInv /\ LoopInv /\ [ChainNext]_chainVars =>
        [LET left == purse[Vault] - purse'[Vault] IN
         left > 0 =>
           \/ \E a \in Accounts : /\ balances[a] - balances'[a] = left
                                  /\ purse'[a] - purse[a] = left
           \/ /\ pool_address \in Pools
              /\ purse'[pool_address] - purse[pool_address] = left
              /\ swap_count' = swap_count + 1
              /\ swaps'[swap_count].amount_in = left
              /\ swaps'[swap_count].agent = agent]_vars
  BY ChainNextIsCall, CallIsNext, CashStep
<1>3. VaultInv /\ LoopInv /\ [ChainNext]_chainVars =>
        [paused => /\ UNCHANGED <<fundVars, actionVars, swapVars>>
                   /\ purse'[Vault] >= purse[Vault]]_vars
  BY ChainNextIsCall, CallIsNext, PausedStep
<1> QED BY <1>1, <1>2, <1>3, ChainInvHolds, PTL
        DEF ChainSpec, ClaimsChangeAgainstPayment, CashLeavesAgainstRecord, PausedMeansFrozen

\* Together they keep the vault's promises to the depositors.
THEOREM ChainImplementsFundLedger == ChainSpec => ImplementsFundLedger
<1>1. ChainInit => Ledger!LedgerInit
  BY DEF ChainInit, DeployedInit, VaultFresh, Ledger!LedgerInit
<1>2. VaultInv /\ LoopInv /\ [ChainNext]_chainVars
        => [Ledger!LedgerNext]_<<balances, total_locked, paused>>
  BY ChainNextIsCall, CallIsNext, StepRefinesLedger DEF vars, vaultVars, fundVars
<1> QED BY <1>1, <1>2, ChainInvHolds, PTL
        DEF ChainSpec, ImplementsFundLedger, Ledger!LedgerSpec, Ledger!ledgerVars

\* With one pool the books of the contracts agree to the mote whatever the agent
\* sends, its trail explains the position, and its trades yield nothing.
THEOREM ChainBooksAgree ==
    ASSUME OnePool
    PROVE  ChainSpec => [](BooksAgree /\ NoYieldFromOwnTrades /\ SwapTrailExplainsPosition)
<1>1. ChainInit => PositionInv /\ SwapTrailExplainsPosition
  BY DeployedGivesInv, ExplainedAtFirst DEF ChainInit
<1>2. /\ VaultInv /\ VaultInv' /\ TrailInv /\ LoopInv /\ [ChainNext]_chainVars
      /\ PositionInv /\ SwapTrailExplainsPosition
      => PositionInv' /\ SwapTrailExplainsPosition'
  BY ChainNextIsCall, PositionIsInductive, ExplanationIsInductive
<1>3. VaultInv /\ PositionInv => BooksAgree /\ NoYieldFromOwnTrades
  BY BooksForbidYield DEF PositionInv
<1> QED BY <1>1, <1>2, <1>3, ChainInvHolds, PTL DEF ChainSpec

-----------------------------------------------------------------------------
(* The trail is the agent's. *)

\* What the loop does to the list of deploys: a swap is sent at one place, where
\* a SWAP has its votes.
LEMMA AgentDeploys ==
    ASSUME LoopInv, AgentStep
    PROVE  \/ deploys' = deploys
           \/ pc = "swapping" /\ Accept(SwapDeploy)
           \/ Accept(LogDeploy)
<1>1. CASE TimedStep
  <2>1. CASE \E answers \in Answers :
               VoteRaises(answers) \/ VoteSwap(answers) \/ VoteHold(answers)
    BY <2>1 DEF VoteRaises, VoteSwap, VoteHold
  <2>2. CASE QuoteFails \/ (\E q \in Quotes : QuoteRead(q)) \/ NextCycle
    BY <2>2 DEF QuoteFails, QuoteRead, NextCycle
  <2>3. CASE ReadNoPurse \/ ReadCached \/ MarketFails \/ SkipCycle \/ MarketRead
    BY <2>3 DEF ReadNoPurse, ReadCached, BalanceRead, MarketFails, SkipCycle, MarketRead
  <2>4. CASE Connect \/ ConnectRefused \/ ConnectBreaks \/ Retry \/ SupervisorRestart
    BY <2>4 DEF Connect, ConnectRefused, ConnectBreaks, Retry, SupervisorRestart
  <2> QED BY <1>1, <2>1, <2>2, <2>3, <2>4 DEF TimedStep
<1>2. CASE SubmissionStep
  BY <1>2 DEF SubmissionStep, SubmitSwap, SubmitRaises, LogAndRecord
<1>3. CASE ReadBalance(purse[Vault]) \/ Shutdown \/ ProcessRestart
  BY <1>3 DEF ReadBalance, BalanceRead, Shutdown, ProcessRestart
<1> QED BY <1>1, <1>2, <1>3 DEF AgentStep

\* A step of the agent sends nothing but such swaps, and executes nothing.
LEMMA AgentKeepsVotedInv ==
    ASSUME LoopInv, VotedInv, AgentStep
    PROVE  VotedInv'
<1>1. agent' = agent /\ swap_count' = swap_count
  BY DEF AgentStep, vars, vaultVars, roleVars, swapVars
<1>2. deploys \in Seq(DeployType) /\ Len(deploys) \in Nat
  BY DEF LoopInv, LoopTypeOK
<1>3. CASE deploys' = deploys
  BY <1>1, <1>3 DEF VotedInv, Executed, SwapsAccepted
<1>4. ASSUME NEW d, Accept(d), d.fate = "pending",
             d.entry_point = "execute_swap" /\ d.action = "SWAP" => d.backers >= VoteThreshold
      PROVE  VotedInv'
  <2>1. /\ Len(deploys') = Len(deploys) + 1
        /\ \A h \in 1..Len(deploys) : deploys'[h] = deploys[h]
        /\ deploys'[Len(deploys) + 1] = d
    BY <1>2, <1>4 DEF Accept
  <2>2. 1..Len(deploys') = 1..Len(deploys) \cup {Len(deploys) + 1}
    BY <1>2, <2>1
  <2>3. Executed' = Executed
    BY <1>4, <2>1, <2>2 DEF Executed, SwapsAccepted
  <2>4. \A h \in SwapsAccepted' :
          deploys'[h].action = "SWAP" => deploys'[h].backers >= VoteThreshold
    BY <1>4, <2>1, <2>2 DEF VotedInv, SwapsAccepted
  <2> QED BY <1>1, <2>3, <2>4 DEF VotedInv
<1>5. CASE pc = "swapping" /\ Accept(SwapDeploy)
  <2>1. decision.action = "SWAP" => votes.SWAP >= VoteThreshold
    BY <1>5 DEF LoopInv, CycleInv, Submitting
  <2>2. /\ SwapDeploy.fate = "pending" /\ SwapDeploy.action = decision.action
        /\ SwapDeploy.backers = votes.SWAP
    BY DEF SwapDeploy
  <2> QED BY <1>4, <1>5, <2>1, <2>2
<1>6. CASE Accept(LogDeploy)
  <2>1. LogDeploy.fate = "pending" /\ LogDeploy.entry_point = "log_action"
    BY DEF LogDeploy
  <2> QED BY <1>4, <1>6, <2>1
<1> QED BY <1>3, <1>5, <1>6, AgentDeploys

\* An executed swap is one more on the trail; any other fate is none.
LEMMA FateKeepsVotedInv ==
    ASSUME VaultInv, LoopInv, VotedInv, ChainStep
    PROVE  VotedInv'
<1>1. PICK h \in 1..Len(deploys) :
        \/ Settle(h, "executed") /\ VaultCall(deploys[h])
        \/ Settle(h, "reverted") /\ UNCHANGED vars
        \/ Settle(h, "expired") /\ UNCHANGED vars
  BY FateCases
<1>2. PICK fate \in Fates :
        /\ Settle(h, fate)
        /\ IF fate = "executed" THEN VaultCall(deploys[h]) ELSE UNCHANGED vars
  BY <1>1 DEF Fates
<1>3. /\ \A g \in 1..Len(deploys) :
           /\ deploys'[g].action = deploys[g].action
           /\ deploys'[g].backers = deploys[g].backers
           /\ deploys'[g].fate = IF g = h THEN fate ELSE deploys[g].fate
      /\ deploys[h].fate = "pending"
      /\ SwapsAccepted' = SwapsAccepted
  BY <1>2, SettledDeploys
<1>4. SwapsAccepted \subseteq 1..Len(deploys)
  BY DEF SwapsAccepted
<1>5. \A g \in SwapsAccepted' :
        deploys'[g].action = "SWAP" => deploys'[g].backers >= VoteThreshold
  BY <1>3, <1>4 DEF VotedInv
<1>6. CASE fate # "executed"
  <2>1. agent' = agent /\ swap_count' = swap_count
    BY <1>2, <1>6 DEF vars, vaultVars, roleVars, swapVars
  <2>2. Executed' = Executed
    BY <1>3, <1>4, <1>6 DEF Executed
  <2> QED BY <1>5, <2>1, <2>2 DEF VotedInv
<1>7. CASE fate = "executed" /\ deploys[h].entry_point = "execute_swap"
  <2>1. agent' = agent /\ swap_count' = swap_count + 1
    BY <1>2, <1>7 DEF VaultCall, ExecuteSwapInPool, SwapForward, SwapReverse, RecordSwap,
                      LogAction, roleVars
  <2>2. h \in SwapsAccepted /\ h \notin Executed
    BY <1>3, <1>7 DEF SwapsAccepted, Executed
  <2>3. Executed' = Executed \cup {h}
    BY <1>3, <1>4, <1>7, <2>2 DEF Executed
  <2>4. IsFiniteSet(Executed)
    <3>1. IsFiniteSet(1..Len(deploys))
      BY FS_Interval DEF LoopInv, LoopTypeOK
    <3>2. Executed \subseteq 1..Len(deploys)
      BY <1>4 DEF Executed
    <3> QED BY <3>1, <3>2, FS_Subset
  <2>5. Cardinality(Executed') = Cardinality(Executed) + 1
    BY <2>2, <2>3, <2>4, FS_AddElement
  <2> QED BY <1>5, <2>1, <2>5 DEF VotedInv
<1>8. CASE fate = "executed" /\ deploys[h].entry_point # "execute_swap"
  <2>1. agent' = agent /\ swap_count' = swap_count
    BY <1>2, <1>8 DEF VaultCall, LogAction, roleVars, swapVars
  <2>2. Executed' = Executed
    BY <1>3, <1>4, <1>8 DEF Executed, SwapsAccepted
  <2> QED BY <1>5, <2>1, <2>2 DEF VotedInv
<1> QED BY <1>6, <1>7, <1>8

\* Nobody else swaps, because nobody else is the agent.
LEMMA OthersKeepVotedInv ==
    ASSUME OneAgent, VotedInv, OthersStep
    PROVE  VotedInv'
<1>1. UNCHANGED <<SwapsAccepted, Executed, deploys>>
  BY DEF OthersStep, loopVars, SwapsAccepted, Executed
<1>2. agent' = Signer /\ swap_count' = swap_count
  <2>1. PICK caller \in Accounts :
          \/ DepositorNext(caller)
          \/ AdminNext(caller)
          \/ caller # Signer /\ AgentNext(caller)
    BY DEF OthersStep
  <2>2. CASE DepositorNext(caller)
    BY <2>2 DEF VotedInv, DepositorNext, Deposit, Withdraw, roleVars, swapVars
  <2>3. CASE AdminNext(caller)
    BY <2>3 DEF VotedInv, OneAgent, AdminNext, SetPaused, SetAgent, SetPool,
                TransferOwnership, roleVars, swapVars
  <2>4. CASE caller # Signer /\ AgentNext(caller)
    BY <2>4 DEF VotedInv, AgentNext, LogAction, ExecuteSwapInPool, ExecuteSwapAuditOnly,
                SwapAllowed, roleVars, swapVars
  <2> QED BY <2>1, <2>2, <2>3, <2>4
<1> QED BY <1>1, <1>2 DEF VotedInv

\* End to end: the vault's swap trail has exactly the agent's executed swaps, and
\* what of them went out of CSPR was voted for by most of the specialists.
THEOREM OnlyVotedSwapsOnTrailHolds ==
    ASSUME OneAgent, Majority
    PROVE  ChainSpec => []OnlyVotedSwapsOnTrail
<1>1. ChainInit => VotedInv
  <2> SUFFICES ASSUME ChainInit PROVE VotedInv
    OBVIOUS
  <2>1. agent = Signer /\ swap_count = 0 /\ deploys = <<>>
    BY DEF ChainInit, DeployedInit, VaultFresh, LoopInit
  <2>2. SwapsAccepted = {} /\ Executed = {}
    BY <2>1 DEF SwapsAccepted, Executed
  <2> QED BY <2>1, <2>2, FS_EmptySet DEF VotedInv
<1>2. VaultInv /\ LoopInv /\ VotedInv /\ [ChainNext]_chainVars => VotedInv'
  <2> SUFFICES ASSUME VaultInv, LoopInv, VotedInv, [ChainNext]_chainVars PROVE VotedInv'
    OBVIOUS
  <2>1. CASE UNCHANGED chainVars
    BY <2>1 DEF VotedInv, Executed, SwapsAccepted, chainVars, loopVars, vars, vaultVars,
                roleVars, swapVars
  <2> QED BY <2>1, AgentKeepsVotedInv, FateKeepsVotedInv, OthersKeepVotedInv DEF ChainNext
<1>3. LoopInv /\ VotedInv => OnlyVotedSwapsOnTrail
  <2> SUFFICES ASSUME LoopInv, VotedInv, NEW h \in Executed, deploys[h].action = "SWAP"
               PROVE  2 * deploys[h].backers > Cardinality(Specialists)
    BY DEF OnlyVotedSwapsOnTrail, VotedInv, Executed
  <2>1. h \in 1..Len(deploys) /\ deploys[h].backers >= VoteThreshold
    BY DEF VotedInv, Executed, SwapsAccepted
  <2>2. deploys[h].backers \in Int /\ VoteThreshold \in Int /\ Cardinality(Specialists) \in Int
    <3>1. VoteThreshold \in Int /\ Cardinality(Specialists) \in Nat
      BY SwarmAssumption, FS_CardinalityType
    <3>2. deploys[h] \in DeployType
      BY <2>1 DEF LoopInv, LoopTypeOK
    <3> QED BY <3>1, <3>2 DEF DeployType
  <2> QED BY <2>1, <2>2 DEF Majority
<1> QED BY <1>1, <1>2, <1>3, ChainInvHolds, PTL DEF ChainSpec

=============================================================================
