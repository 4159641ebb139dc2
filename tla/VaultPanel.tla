----------------------------- MODULE VaultPanel -----------------------------
(***************************************************************************)
(* The vault's panel of the dashboard and what its button sets off.          *)
(*   deposit           POST /deposit (server.py), which runs deposit_py in a *)
(*                     process of its own and waits 120 s for it            *)
(*   withdraw, swap    a transfer that the user's wallet signs              *)
(* An order is one press of the button with an action and an amount chosen; *)
(* nothing keeps the button from being pressed again.                       *)
(*                                                                         *)
(* The API shares one event loop with the agent's own task (AgentLoop), and *)
(* pycspr submits that task's deploys with a blocking call and no time      *)
(* limit: until the node answers no handler runs and no timer fires.        *)
(***************************************************************************)
EXTENDS Naturals, Sequences, FiniteSets

CONSTANTS
    Keys,               \* the accounts of the user's wallet
    NoKey,
    MotesPerCspr,
    Amounts,            \* what the user may enter, in motes
    MaxOrders           \* bound: orders

ASSUME PanelAssumption ==
    /\ MotesPerCspr \in Nat \ {0}
    /\ Amounts \subseteq Nat \ {0}
    /\ NoKey \notin Keys
    /\ MaxOrders \in Nat

VARIABLES
    account,            \* the account the page shows (WalletSession), or NoKey
    agent,              \* the agent's process: "up", "blocked" (its loop) or "down"
    orders,             \* the orders, with what became of each
    deploys             \* external: what the nodes accepted, oldest first

panelVars == <<account, agent, orders, deploys>>

PanelActions == {"deposit", "withdraw", "swap"}

\* shown   the alert of the page
\* api     the handler of POST /deposit; "direct" where there is none
\* script  deposit_py, or the page's own transfer
\* pem     the key file that the handler writes for the script
Order(action, amount) ==
    [action |-> action, amount |-> amount, shown |-> "nothing",
     from |-> IF action = "deposit" THEN NoKey ELSE account,
     api |-> IF action = "deposit" THEN "coming" ELSE "direct",
     script |-> IF action = "deposit" THEN "none" ELSE "signing",
     pem |-> FALSE]

\* Mutated form of Floor: rounded to the nearest.
FloorRounded(amount) ==
    ((amount + MotesPerCspr \div 2) \div MotesPerCspr) * MotesPerCspr

\* str(int(amount_cspr)): whole CSPR.
Floor(amount) == (amount \div MotesPerCspr) * MotesPerCspr

Set(n, o) == orders' = [orders EXCEPT ![n] = o]

-----------------------------------------------------------------------------
(* The button: executeAction *)

\* No amount, or zero, is an alert; so is a transfer without wallet.
Execute(action, amount) ==
    /\ Len(orders) < MaxOrders
    /\ action # "deposit" => account # NoKey
    /\ orders' = Append(orders, Order(action, amount))
    /\ UNCHANGED <<account, agent, deploys>>

\* The browser gives up on a request: it never arrives, is answered by nobody, or
\* its answer gets lost.
RequestFails(n) ==
    /\ orders[n].api # "direct"
    /\ orders[n].shown = "nothing"
    /\ Set(n, [orders[n] EXCEPT !.shown = "unreachable"])
    /\ UNCHANGED <<account, agent, deploys>>

Ended == {"exit 0", "exit 1"}

\* Mutated form of Alert: whatever the script returned is a success.
AlertAnyEnd(o) == IF o.api = "timeout" THEN "failed" ELSE "hash"

Alert(o) ==
    IF o.api = "ok" \/ (o.api = "direct" /\ o.script = "exit 0") THEN "hash" ELSE "failed"

AlertShown(n) ==
    /\ orders[n].shown = "nothing"
    /\ \/ orders[n].api \in {"ok", "error", "timeout"}
       \/ orders[n].api = "direct" /\ orders[n].script \in Ended
    /\ Set(n, [orders[n] EXCEPT !.shown = Alert(orders[n])])
    /\ UNCHANGED <<account, agent, deploys>>

-----------------------------------------------------------------------------
(* The API: deposit_funds and ChainExecutor.deposit *)

Posted(n) ==
    /\ agent = "up"
    /\ orders[n].api = "coming"
    /\ Set(n, [orders[n] EXCEPT !.api = "waiting", !.script = "loading", !.pem = TRUE])
    /\ UNCHANGED <<account, agent, deploys>>

\* Mutated form of Returned: the key file is left behind.
ReturnedLeavingKey(n, api) ==
    /\ agent = "up"
    /\ orders[n].api = "waiting"
    /\ Set(n, [orders[n] EXCEPT !.api = api])
    /\ UNCHANGED <<account, agent, deploys>>

\* The key file goes in the finally clause.
Returned(n, api) ==
    /\ agent = "up"
    /\ orders[n].api = "waiting"
    /\ Set(n, [orders[n] EXCEPT !.api = api, !.pem = FALSE])
    /\ UNCHANGED <<account, agent, deploys>>

ApiReturns(n) ==
    \/ orders[n].script = "exit 0" /\ Returned(n, "ok")
    \/ orders[n].script = "exit 1" /\ Returned(n, "error")

\* Mutated form of ApiTimesOut: the script is started once more.
ApiTimesOutAndRetries(n) ==
    /\ agent = "up"
    /\ orders[n].api = "waiting"
    /\ orders[n].script \notin Ended
    /\ Set(n, [orders[n] EXCEPT !.script = "loading"])
    /\ UNCHANGED <<account, agent, deploys>>

\* wait_for gives up the wait; the script is not killed.
ApiTimesOut(n) == orders[n].script \notin Ended /\ Returned(n, "timeout")

-----------------------------------------------------------------------------
(* The agent's process: main *)

\* The agent's task submits a deploy, and its node answers or raises.
SubmissionBlocks ==
    /\ agent = "up"
    /\ agent' = "blocked"
    /\ UNCHANGED <<account, orders, deploys>>

SubmissionReturns ==
    /\ agent = "blocked"
    /\ agent' = "up"
    /\ UNCHANGED <<account, orders, deploys>>

\* Every handler ends without an answer; the scripts live on.
HandlersEnd(pem) ==
    /\ agent' = "down"
    /\ orders' = [n \in DOMAIN orders |->
                    IF orders[n].api = "waiting"
                      THEN [orders[n] EXCEPT !.api = "gone", !.pem = pem]
                      ELSE orders[n]]
    /\ UNCHANGED <<account, deploys>>

\* Ctrl+C or SIGTERM, which a blocked loop does not see: the tasks are cancelled,
\* and the finally clauses run.
ApiStops == agent = "up" /\ HandlersEnd(FALSE)

\* The process is killed: the key files stay.
ApiDies == agent # "down" /\ HandlersEnd(TRUE)

AgentStarts ==
    /\ agent = "down"
    /\ agent' = "up"
    /\ UNCHANGED <<account, orders, deploys>>

-----------------------------------------------------------------------------
(* The script, deposit_py, and the transfer of useCasperTransaction *)

Goes(n, script) ==
    /\ Set(n, [orders[n] EXCEPT !.script = script])
    /\ UNCHANGED <<account, agent, deploys>>

\* It needs the key file, the module and the configuration.
ScriptLoads(n) == orders[n].script = "loading" /\ orders[n].pem /\ Goes(n, "sending")
ScriptFails(n) == orders[n].script = "loading" /\ Goes(n, "exit 1")

Signed(n) == orders[n].script = "signing" /\ Goes(n, "sending")
SignatureRefused(n) == orders[n].script = "signing" /\ Goes(n, "exit 1")

\* deposit_py signs with the owner's key; nothing of the user's wallet is in it.
DepositDeploy(n) ==
    [order |-> n, entry_point |-> "deposit", from |-> NoKey, to |-> NoKey,
     motes |-> Floor(orders[n].amount)]

\* From the user's account to the same account.
TransferDeploy(n) ==
    [order |-> n, entry_point |-> "transfer", from |-> orders[n].from,
     to |-> orders[n].from, motes |-> orders[n].amount]

DeployOf(n) ==
    IF orders[n].action = "deposit" THEN DepositDeploy(n) ELSE TransferDeploy(n)

NodeAccepts(n) ==
    /\ orders[n].script = "sending"
    /\ deploys' = Append(deploys, DeployOf(n))
    /\ Set(n, [orders[n] EXCEPT !.script = "accepted"])
    /\ UNCHANGED <<account, agent>>

NodeRefuses(n) == orders[n].script = "sending" /\ Goes(n, "exit 1")

\* The hash arrives; or the answer is lost, which raises, or hangs for ever.
NodeAnswers(n) == orders[n].script = "accepted" /\ Goes(n, "exit 0")
AnswerLost(n) == orders[n].script = "accepted" /\ Goes(n, "exit 1")

-----------------------------------------------------------------------------
\* The connection is broken, or refused.
Unanswerable(n) == orders[n].api = "gone" \/ (orders[n].api = "coming" /\ agent = "down")

Answering(n) == AlertShown(n) \/ (Unanswerable(n) /\ RequestFails(n))
ApiStep(n) == Posted(n) \/ ApiReturns(n) \/ ApiTimesOut(n)
ScriptStep(n) ==
    \/ ScriptLoads(n) \/ ScriptFails(n) \/ Signed(n) \/ SignatureRefused(n)
    \/ NodeAccepts(n) \/ NodeRefuses(n) \/ NodeAnswers(n) \/ AnswerLost(n)

\* The wallet is connected, disconnected or switched to another account.
AccountChanges ==
    /\ \E k \in Keys \cup {NoKey} : account' = k
    /\ UNCHANGED <<agent, orders, deploys>>

PanelInit == account = NoKey /\ agent = "up" /\ orders = <<>> /\ deploys = <<>>

PanelNext ==
    \/ AccountChanges
    \/ \E a \in PanelActions, m \in Amounts : Execute(a, m)
    \/ SubmissionBlocks \/ SubmissionReturns
    \/ ApiStops \/ ApiDies \/ AgentStarts
    \/ \E n \in DOMAIN orders :
         AlertShown(n) \/ RequestFails(n) \/ ApiStep(n) \/ ScriptStep(n)

PanelSpec == PanelInit /\ [][PanelNext]_panelVars

\* As long as an order is not answered: its request arrives or is refused, the
\* wait of the API has its limit, and what the API answers, or a broken connection,
\* reaches the browser.  Strong fairness, because the handler runs only while the
\* loop is free: after the submissions of a cycle the agent's task sleeps, and
\* asyncio runs every callback that is due.  Nothing makes a submission return, and
\* no script, node or user has to do anything.
FairPanelSpec ==
    /\ PanelSpec
    /\ \A n \in 1..MaxOrders :
         SF_panelVars(/\ n \in DOMAIN orders /\ orders[n].shown = "nothing"
                      /\ ApiStep(n) \/ Answering(n))

-----------------------------------------------------------------------------
Scripts == {"none", "loading", "signing", "sending", "accepted"} \cup Ended
Apis == {"direct", "coming", "waiting", "ok", "error", "timeout", "gone"}
OrderType == [action : PanelActions, amount : Amounts, from : Keys \cup {NoKey},
              shown : {"nothing", "hash", "failed", "unreachable"},
              api : Apis, script : Scripts, pem : BOOLEAN]
DeployType == [order : 1..MaxOrders, entry_point : {"deposit", "transfer"},
               from : Keys \cup {NoKey}, to : Keys \cup {NoKey}, motes : Nat]

PanelTypeOK ==
    /\ account \in Keys \cup {NoKey}
    /\ agent \in {"up", "blocked", "down"}
    /\ orders \in Seq(OrderType) /\ Len(orders) <= MaxOrders
    /\ deploys \in Seq(DeployType)
    /\ \A n \in DOMAIN orders :
         /\ orders[n].api = "waiting" => orders[n].pem
         /\ orders[n].pem => orders[n].api \in {"waiting", "gone"}

DeploysOf(n) == {d \in DOMAIN deploys : deploys[d].order = n}

\* However often the button is pressed and whatever times out, dies or gets lost,
\* an order makes one deploy at most.  A deposit is of whole CSPR, no more than
\* was asked for and less than one CSPR short of it; a withdrawal or a swap never
\* reaches the vault and takes nothing out of the account that ordered it.
NoMoreThanOrdered ==
    /\ \A n \in DOMAIN orders : Cardinality(DeploysOf(n)) <= 1
    /\ \A d \in DOMAIN deploys :
         LET o == orders[deploys[d].order] IN
         IF o.action = "deposit"
           THEN /\ deploys[d].entry_point = "deposit"
                /\ deploys[d].motes <= o.amount
                /\ o.amount < deploys[d].motes + MotesPerCspr
           ELSE /\ deploys[d].entry_point = "transfer"
                /\ deploys[d].from # NoKey /\ deploys[d].to = deploys[d].from

\* A hash is shown for what a node accepted.  A failure that is shown is one,
\* unless the script outlived the wait or lost the node's answer: then the
\* deposit may have been made, or be made later.
AlertsTellTheTruth ==
    \A n \in DOMAIN orders :
        /\ orders[n].shown = "hash" => DeploysOf(n) # {}
        /\ (orders[n].shown = "failed" /\ DeploysOf(n) # {}) =>
              \/ orders[n].api = "timeout"
              \/ orders[n].script = "exit 1"

\* A deposit that was ordered is answered by some alert, though the script or the
\* node it talks to hangs, the agent's loop is blocked again and again, or its
\* process is stopped or killed, with or without a new start.  The exception: a
\* submission of the agent's own that never returns holds the API for ever, the
\* time limit of the handler with it, and the page sets none.
DepositIsAnswered ==
    \/ <>[](agent = "blocked")
    \/ \A n \in 1..MaxOrders :
         (n \in DOMAIN orders /\ orders[n].action = "deposit")
             ~> (n \in DOMAIN orders /\ orders[n].shown # "nothing")

=============================================================================
