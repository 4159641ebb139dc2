--------------------------- MODULE ConsoleViews ---------------------------
(***************************************************************************)
(* What the pages of the dashboard (frontend/src/pages) make of one answer  *)
(* of GET /status.  A snapshot is the answer and the time it was made;      *)
(* until the first one arrives a page has NoStatus.  Colours, wording and   *)
(* number formats are left out, "—" is NoReading, NoHash or "none".         *)
(***************************************************************************)
EXTENDS AgentFeed, SequencesExt, FiniteSets

CONSTANTS RowsShown     \* rows of the reasoning feed, 5 in the code

NoStatus == [at |-> 0, feed |-> FreshFeed]
Known(s) == s.at # 0
Running(s) == Known(s) /\ s.feed.status = "running"
History(s) == IF Known(s) THEN s.feed.history ELSE <<>>

\* last_decision is the newest of the history: both are set by record_decision.
LastAction(s) == IF History(s) = <<>> THEN "none" ELSE Last(History(s)).action

-----------------------------------------------------------------------------
(* Dashboard.tsx *)

\* agentIndicator: the light in the navigation bar.
Indicator(s, loading) ==
    CASE loading -> "connecting"
      [] ~loading /\ Running(s) -> "active"
      [] ~loading /\ Known(s) /\ s.feed.status = "connecting" -> "connecting"
      [] OTHER -> "offline"

\* The card that tops the agent's panel.
Pill(s, loading) ==
    IF loading THEN "loading" ELSE IF Running(s) THEN "active" ELSE "stopped"

FooterGreen(s) == Running(s)

IssueBox(s) == Known(s) /\ ~Running(s) /\ s.feed.errors = "some"

\* "Total vault balance" with the sCSPR beside it: in the hero, on the vault's
\* panel, in the footer and in the scanner.
HeroBalance(s) == [cspr |-> IF Known(s) THEN s.feed.balance ELSE 0,
                   scspr |-> IF Known(s) THEN s.feed.position ELSE 0]
FooterBalance(s) == IF Known(s) THEN s.feed.balance ELSE 0

\* The figures of the agent's panel, whose balance is the market data's.
AgentPanel(s) == [balance |-> IF Known(s) THEN s.feed.observed ELSE NoReading,
                  executed_swaps |-> IF Known(s) THEN s.feed.actions_taken ELSE 0,
                  last_decision |-> LastAction(s)]

\* The panel of the swarm: what was voted, and what was made of it.
SwarmPanel(s) == [votes |-> IF Known(s) THEN s.feed.swarm ELSE NoVotes,
                  final_action |-> LastAction(s)]

\* A swap back is drawn as a HOLD.  The list of the store is oldest first.
BarOf(d) == IF d.action = "SWAP" THEN "SWAP" ELSE "HOLD"
DecisionBars(s) == [i \in DOMAIN History(s) |-> BarOf(Reverse(History(s))[i])]
SwapCount(s) == Cardinality({i \in DOMAIN DecisionBars(s) : DecisionBars(s)[i] = "SWAP"})

\* Mutated form of RowOf: the badge goes by the decision alone.
RowOfDecision(d) ==
    [title |-> d.action, deploy_hash |-> d.deploy_hash,
     badge |-> IF d.action # "HOLD" THEN "SWAP ON-CHAIN" ELSE "HOLD"]

\* A row of the reasoning feed; the first of them says "Just now".
RowOf(d) ==
    [title |-> d.action, deploy_hash |-> d.deploy_hash,
     badge |-> CASE d.action = "SWAP" /\ d.deploy_hash # NoHash -> "SWAP ON-CHAIN"
                 [] d.action = "SWAP" /\ d.deploy_hash = NoHash -> "SWAP"
                 [] OTHER -> "HOLD"]

DecisionRows(s) ==
    IF History(s) = <<>> THEN <<RowOf([action |-> "HOLD", deploy_hash |-> NoHash])>>
    ELSE [i \in {i \in DOMAIN History(s) : i <= RowsShown} |-> RowOf(History(s)[i])]

\* An opened row links to the explorer, a row without hash to no deploy at all.
RowLink(row) == row.deploy_hash

\* The one pool of the opportunity scanner, and the sheet a click on it opens.
ScannerRow(s) == [staked |-> LastAction(s) = "SWAP",
                  apy_known |-> Known(s) /\ s.feed.observed # NoReading,
                  position |-> FooterBalance(s)]
PoolDetail(sheet) == sheet.row

-----------------------------------------------------------------------------
(* AuditLogs.tsx *)

AuditEntries(s) ==
    [i \in DOMAIN History(s) |->
        [action |-> History(s)[i].action, hash |-> History(s)[i].deploy_hash,
         status |-> IF History(s)[i].deploy_hash # NoHash THEN "Success" ELSE "Observation"]]

SwapEntries(s) == {i \in DOMAIN AuditEntries(s) : AuditEntries(s)[i].action = "SWAP"}

\* In percent; "—" where there is no swap.
RateShown(s) == SwapEntries(s) # {}
SuccessRate(s) ==
    LET successful == {i \in SwapEntries(s) : AuditEntries(s)[i].hash # NoHash}
    IN (100 * Cardinality(successful)) \div Cardinality(SwapEntries(s))

AvgGasShown(s) == \E i \in DOMAIN AuditEntries(s) : AuditEntries(s)[i].hash # NoHash

\* A search for a hash or for an action; SWAP finds SWAP_BACK as well.
Finds(needle, e) ==
    \/ needle = "all"
    \/ needle = "swap" /\ e.action \in Swaps
    \/ needle = "hold" /\ e.action = "HOLD"
AuditTable(s, needle) ==
    {AuditEntries(s)[i] : i \in {i \in DOMAIN AuditEntries(s) : Finds(needle, AuditEntries(s)[i])}}
AuditLinks(s, needle) == {e \in AuditTable(s, needle) : e.hash # NoHash}

-----------------------------------------------------------------------------
(* PortfolioPage.tsx and LandingPage.tsx *)

Allocation(s) == IF LastAction(s) = "SWAP" THEN [cspr |-> 79, scspr |-> 21]
                 ELSE [cspr |-> 100, scspr |-> 0]
PositionBadge(s) == CASE LastAction(s) = "none" -> "none"
                      [] LastAction(s) = "SWAP" -> "Staked"
                      [] OTHER -> "Monitoring"
PortfolioCards(s) == [assets |-> FooterBalance(s),
                      executed_swaps |-> IF Known(s) THEN s.feed.actions_taken ELSE 0]
ActivityBars(s) == [i \in DOMAIN History(s) |-> Reverse(History(s))[i].action]
RecentActivity(s) ==
    [i \in {i \in DOMAIN History(s) : i <= RowsShown} |-> History(s)[i].action]

\* "Decisions logged" is the count of swaps.
LandingStats(s) == [decisions |-> IF Known(s) THEN s.feed.actions_taken ELSE 0,
                    live |-> Running(s)]

=============================================================================
