------------------------------ MODULE Console ------------------------------
(***************************************************************************)
(* The dashboard in one browser tab (frontend/src/pages, hooks): the page   *)
(* that is open, what its hooks hold, and the requests in flight.  A page   *)
(* polls GET /status when it is mounted and every 30 s, without waiting for *)
(* the answer to the last poll, and asks GET /config once; leaving it drops *)
(* its state and whatever was still to come.                               *)
(***************************************************************************)
EXTENDS ConsoleViews, StrategyForm

CONSTANTS
    MaxUpdates,         \* bound: changes of the published state
    StatusesSeen,       \* bound: the statuses it passes through
    MaxPolls,           \* bound: polls in flight at once
    MaxClicks           \* bound: clicks on a page between two mounts

ASSUME ConsoleAssumption ==
    /\ MaxUpdates \in Nat \ {0} /\ MaxPolls \in Nat \ {0} /\ MaxClicks \in Nat

VARIABLES
    last_updated,       \* the time stamp of the published state
    page,
    status, loading,    \* useAgentStatus
    polls,              \* polls in flight, oldest first: their answers, if made
    config, asked,      \* useAgentConfig, and whether GET /config is in flight
    sheet,              \* selectedPool: a scanner row as it was when clicked
    search,             \* the search of the audit page
    form,               \* the strategy page
    clicks,
    overlapped          \* history variable: two polls were in flight since the mount

feedVars == <<feed, accepted, last_updated>>
statusVars == <<status, loading, polls, overlapped>>
configVars == <<config, asked>>
panelVars == <<sheet, search, form, clicks>>
consoleVars == <<feedVars, page, statusVars, configVars, panelVars>>

Pages == {"landing", "dashboard", "agent", "audit", "profile", "portfolio"}
StatusPages == {"landing", "dashboard", "audit", "portfolio"}
ConfigPages == {"landing", "dashboard", "agent", "portfolio"}
Needles == {"all", "swap", "hold"}
Closed == [open |-> FALSE, row |-> ScannerRow(NoStatus)]

\* A poll without answer yet.
Sent == NoStatus

-----------------------------------------------------------------------------
(* The agent, behind the API *)

\* Mutated form of Stamped: a new process starts with the clock at zero.
StampedFromZero ==
    last_updated' = IF feed' = FreshFeed THEN 1 ELSE last_updated + 1

Stamped == last_updated' = last_updated + 1

Publish ==
    /\ last_updated < MaxUpdates
    /\ FeedChange
    /\ feed' # feed
    /\ feed'.status \in StatusesSeen
    /\ Stamped
    /\ UNCHANGED <<accepted, page, statusVars, configVars, panelVars>>

SwapAccepted ==
    /\ DeployChange
    /\ UNCHANGED <<feed, last_updated, page, statusVars, configVars, panelVars>>

-----------------------------------------------------------------------------
(* Pages and polls *)

\* A page appears: fresh state, one poll sent and the configuration asked for.
Mounted(p) ==
    /\ page' = p
    /\ status' = NoStatus
    /\ loading' = TRUE
    /\ polls' = IF p \in StatusPages THEN <<Sent>> ELSE <<>>
    /\ overlapped' = FALSE
    /\ config' = "default"
    /\ asked' = (p \in ConfigPages)
    /\ sheet' = Closed
    /\ search' = "all"
    /\ form' = FreshForm
    /\ clicks' = 0

\* A link, the browser's buttons, or the redirection after connecting.
Navigate(p) == p # page /\ Mounted(p) /\ UNCHANGED feedVars

\* Mutated form of PollTick: the interval outlives the page.
PollTickUncleared ==
    /\ Len(polls) < MaxPolls
    /\ polls' = Append(polls, Sent)
    /\ overlapped' = (overlapped \/ polls # <<>>)
    /\ UNCHANGED <<feedVars, page, status, loading, configVars, panelVars>>

PollTick ==
    /\ page \in StatusPages
    /\ Len(polls) < MaxPolls
    /\ polls' = Append(polls, Sent)
    /\ overlapped' = (overlapped \/ polls # <<>>)
    /\ UNCHANGED <<feedVars, page, status, loading, configVars, panelVars>>

\* The API answers with a copy of the state as it is now.
PollAnswered(i) ==
    /\ polls[i] = Sent
    /\ polls' = [polls EXCEPT ![i] = [at |-> last_updated, feed |-> feed]]
    /\ UNCHANGED <<feedVars, page, status, loading, overlapped, configVars, panelVars>>

\* Mutated form of PollDelivered: the loading flag is left to the first failure.
PollDeliveredLoading(i) ==
    /\ polls[i] # Sent
    /\ status' = polls[i]
    /\ polls' = RemoveAt(polls, i)
    /\ UNCHANGED <<feedVars, page, loading, overlapped, configVars, panelVars>>

PollDelivered(i) ==
    /\ polls[i] # Sent
    /\ status' = polls[i]
    /\ loading' = FALSE
    /\ polls' = RemoveAt(polls, i)
    /\ UNCHANGED <<feedVars, page, overlapped, configVars, panelVars>>

\* What was shown stays.
PollFails(i) ==
    /\ loading' = FALSE
    /\ polls' = RemoveAt(polls, i)
    /\ UNCHANGED <<feedVars, page, status, overlapped, configVars, panelVars>>

\* Mutated form of ConfigServed: the effect does not depend on the answer.
ConfigServedUnsynced ==
    /\ asked
    /\ config' = "served"
    /\ asked' = FALSE
    /\ UNCHANGED <<feedVars, page, statusVars, panelVars>>

ConfigServed ==
    /\ asked
    /\ config' = "served"
    /\ asked' = FALSE
    /\ form' = IF page = "agent" THEN SyncForm(form, "served") ELSE form
    /\ UNCHANGED <<feedVars, page, statusVars, sheet, search, clicks>>

ConfigFails ==
    /\ asked
    /\ asked' = FALSE
    /\ UNCHANGED <<feedVars, page, statusVars, config, panelVars>>

-----------------------------------------------------------------------------
(* Clicks *)

Click(p) ==
    /\ page = p
    /\ clicks < MaxClicks
    /\ clicks' = clicks + 1
    /\ UNCHANGED <<feedVars, page, statusVars, configVars>>

OpenSheet ==
    /\ Click("dashboard")
    /\ sheet' = [open |-> TRUE, row |-> ScannerRow(status)]
    /\ UNCHANGED <<search, form>>

CloseSheet ==
    /\ sheet.open
    /\ sheet' = Closed
    /\ UNCHANGED <<feedVars, page, statusVars, configVars, search, form, clicks>>

SearchAudit(needle) ==
    /\ Click("audit")
    /\ search' = needle
    /\ UNCHANGED <<sheet, form>>

EditForm(next) ==
    /\ Click("agent")
    /\ form' = next
    /\ UNCHANGED <<sheet, search>>

StrategyClick ==
    \/ \E p \in Profiles : EditForm(ApplyProfile(form, p, config))
    \/ \E f \in Sliders : EditForm(Slide(form, f))
    \/ EditForm(ResetForm(form, config))
    \/ EditForm(Save(form))

SavedLabelGoes ==
    /\ page = "agent"
    /\ form.saved > 0
    /\ form' = SavedTimer(form)
    /\ UNCHANGED <<feedVars, page, statusVars, configVars, sheet, search, clicks>>

UserClick ==
    \/ \E p \in Pages : Navigate(p)
    \/ OpenSheet \/ CloseSheet
    \/ \E n \in Needles : SearchAudit(n)
    \/ StrategyClick

InFlight == DOMAIN polls

Deliver == \E i \in InFlight : PollDelivered(i)
Answer == \E i \in InFlight : PollAnswered(i)

ConsoleInit ==
    /\ FeedInit
    /\ last_updated = 1
    /\ page \in Pages
    /\ status = NoStatus
    /\ loading = TRUE
    /\ polls = IF page \in StatusPages THEN <<Sent>> ELSE <<>>
    /\ overlapped = FALSE
    /\ config = "default"
    /\ asked = (page \in ConfigPages)
    /\ sheet = Closed
    /\ search = "all"
    /\ form = FreshForm
    /\ clicks = 0

ConsoleNext ==
    \/ Publish \/ SwapAccepted
    \/ PollTick \/ Answer \/ Deliver \/ \E i \in InFlight : PollFails(i)
    \/ ConfigServed \/ ConfigFails
    \/ UserClick \/ SavedLabelGoes

ConsoleSpec == ConsoleInit /\ [][ConsoleNext]_consoleVars

\* The interval fires; not every poll gets lost, neither on its way nor back.  An
\* API that a submission of the agent holds for ever (VaultPanel) loses them all.
FairConsoleSpec ==
    /\ ConsoleSpec
    /\ WF_consoleVars(PollTick) /\ SF_consoleVars(Answer) /\ SF_consoleVars(Deliver)

-----------------------------------------------------------------------------
Decisions == [action : Actions, deploy_hash : Hashes \cup {NoHash}]
Snapshots == [at : 0..MaxUpdates,
              feed : [status : Deciding \cup Waiting, errors : Errors,
                      balance : Nat, observed : Nat, position : Nat,
                      actions_taken : Nat, last_tx_hash : Hashes \cup {NoHash},
                      history : Seq(Decisions), swarm : Tallies \cup {NoVotes}]]

ConsoleTypeOK ==
    /\ [at |-> last_updated, feed |-> feed] \in Snapshots
    /\ accepted \subseteq [hash : Hashes, action : Swaps]
    /\ page \in Pages
    /\ status \in Snapshots
    /\ loading \in BOOLEAN
    /\ polls \in Seq(Snapshots) /\ Len(polls) <= MaxPolls
    /\ page \notin StatusPages => polls = <<>> /\ status = NoStatus
    /\ config \in Configs
    /\ asked \in BOOLEAN
    /\ sheet \in [open : BOOLEAN,
                 row : [staked : BOOLEAN, apy_known : BOOLEAN, position : Nat]]
    /\ search \in Needles
    /\ FormTypeOK(form)
    /\ clicks \in 0..MaxClicks
    /\ overlapped \in BOOLEAN

IsAccepted(hash, action) == [hash |-> hash, action |-> action] \in accepted

\* Nothing on any page claims a swap that no node took, however old the answer it
\* shows: the links of the audit table, the rows marked ON-CHAIN, and "Staked"
\* in the scanner, in its sheet, in the portfolio and in the allocation.  Nor does
\* the panel of the swarm show a SWAP with fewer votes than it takes.
ClaimsAreBacked ==
    /\ \A e \in AuditLinks(status, search) : IsAccepted(e.hash, e.action)
    /\ \A i \in DOMAIN DecisionRows(status) :
         LET row == DecisionRows(status)[i] IN
         row.badge = "SWAP ON-CHAIN" => IsAccepted(RowLink(row), "SWAP")
    /\ (\/ ScannerRow(status).staked
        \/ sheet.open /\ PoolDetail(sheet).staked
        \/ PositionBadge(status) = "Staked"
        \/ Allocation(status).scspr > 0) => \E h \in Hashes : IsAccepted(h, "SWAP")
    /\ LET swarm == SwarmPanel(status) IN
       (swarm.final_action = "SWAP") <=> (swarm.votes.SWAP >= VoteThreshold)

SwapsAmong(bars) == Cardinality({b \in DOMAIN bars : bars[b] = "SWAP"})

\* The panels of the console tell one story.  A light is green in all places or
\* in none and never beside the trouble box; no page draws or lists more swaps
\* than it counts, whatever the history has dropped; the balance of the agent's
\* panel parts from the vault's only after a swap that no reading of the vault
\* followed yet.  The success rate of the audit page cannot show a failure, for
\* a swap that no node took never gets into the history.
PanelsAgree ==
    /\ Known(status) => ~loading
    /\ (Indicator(status, loading) = "active") <=> FooterGreen(status)
    /\ (Pill(status, loading) = "active") <=> LandingStats(status).live
    /\ Indicator(status, loading) = "active" => ~IssueBox(status)
    /\ SwapCount(status) <= AgentPanel(status).executed_swaps
    /\ SwapsAmong(ActivityBars(status)) <= LandingStats(status).decisions
    /\ SwapsAmong(RecentActivity(status)) <= PortfolioCards(status).executed_swaps
    /\ AgentPanel(status).balance # HeroBalance(status).cspr
         => ScannerRow(status).staked /\ AgentPanel(status).last_decision = "SWAP"
    /\ RateShown(status) => AvgGasShown(status) /\ SuccessRate(status) = 100

\* What is shown goes back in time only if two polls were in flight at once.
RegressNeedsOverlap ==
    [][(page' = page /\ status'.at < status.at) => overlapped]_consoleVars

\* Once the configuration of the agent is there, no field that stands for it goes
\* on showing the default of the hook, whatever was clicked before and after.
NoDefaultAfterServed ==
    (page = "agent" /\ config = "served") =>
        /\ \A f \in Sliders : EffectivePolicy(form)[f] # "default"

\* A page that stays open comes to show the published state, once that rests.
EventuallyCurrent ==
    \/ []<><<page' # page>>_consoleVars
    \/ <>[](page \notin StatusPages)
    \/ <>[](status = [at |-> last_updated, feed |-> feed] /\ ~loading)

=============================================================================
