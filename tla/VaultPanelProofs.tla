-------------------------- MODULE VaultPanelProofs --------------------------
(***************************************************************************)
(* For any accounts, amounts and number of orders: an order makes one       *)
(* deploy at most and none for more than was asked, and what the page says  *)
(* of it is true, the time-out and the lost answer excepted.                *)
(***************************************************************************)
EXTENDS VaultPanel, SequenceTheorems, FiniteSetTheorems, TLAPS

\* Scripts that a node answered with a hash; and those it may have taken from.
Hashed == {"accepted", "exit 0"}
Taken == Hashed \cup {"exit 1"}

\* An order by itself: what the page shows and the handler returned follows from
\* how the script ended, unless the handler did not wait for that.
OrderInv(o) ==
    /\ o \in OrderType
    /\ o.api = "waiting" => o.pem
    /\ o.pem => o.api \in {"waiting", "gone"}
    /\ o.action # "deposit" => o.from # NoKey
    /\ o.api = "coming" => o.script = "none"
    /\ o.api = "ok" => o.script = "exit 0"
    /\ o.api = "error" => o.script = "exit 1"
    /\ o.shown = "hash" => o.script = "exit 0"
    /\ o.shown = "failed" => o.api = "timeout" \/ o.script = "exit 1"

\* Orders and deploys: a deploy is that of its order, which got as far as a node,
\* no other deploy has the same one, and an order with a hash has a deploy.
DeployInv(d) ==
    /\ deploys[d].order \in DOMAIN orders
    /\ deploys[d] = DeployOf(deploys[d].order)
    /\ orders[deploys[d].order].script \in Taken

DeploysInv ==
    /\ \A d \in DOMAIN deploys : DeployInv(d)
    /\ \A c, d \in DOMAIN deploys : deploys[c].order = deploys[d].order => c = d
    /\ \A n \in DOMAIN orders :
         orders[n].script \in Hashed => \E d \in DOMAIN deploys : deploys[d].order = n

PanelInv ==
    /\ account \in Keys \cup {NoKey}
    /\ agent \in {"up", "blocked", "down"}
    /\ orders \in Seq(OrderType) /\ Len(orders) <= MaxOrders
    /\ deploys \in Seq(DeployType)
    /\ \A n \in DOMAIN orders : OrderInv(orders[n])
    /\ DeploysInv

\* What no step does to an order that is there: change what was ordered, undo a
\* submission, or make a hash of nothing.
Advance(o, p) ==
    /\ p.action = o.action /\ p.amount = o.amount /\ p.from = o.from
    /\ o.script \in Taken => p.script \in Taken
    /\ p.script \in Hashed => o.script \in Hashed

-----------------------------------------------------------------------------
\* Whole CSPR, rounded down, miss the amount by less than one CSPR.
LEMMA FloorBounds ==
    ASSUME NEW a \in Nat
    PROVE  Floor(a) \in Nat /\ Floor(a) <= a /\ a < Floor(a) + MotesPerCspr
<1> DEFINE q == a \div MotesPerCspr
           r == a % MotesPerCspr
<1>1. MotesPerCspr \in Nat \ {0}
  BY PanelAssumption
<1>2. q \in Nat /\ r \in 0..(MotesPerCspr - 1)
  BY <1>1
<1>3. a = MotesPerCspr * q + r
  BY <1>1
<1>4. Floor(a) = q * MotesPerCspr
  BY DEF Floor
<1> HIDE DEF q, r
<1>5. q * MotesPerCspr = MotesPerCspr * q /\ MotesPerCspr * q \in Nat
  BY <1>1, <1>2
<1> QED BY <1>1, <1>2, <1>3, <1>4, <1>5

\* The deploy of an order is well typed.
LEMMA DeployOfType ==
    ASSUME NEW n \in DOMAIN orders, OrderInv(orders[n]), n \in 1..MaxOrders
    PROVE  DeployOf(n) \in DeployType /\ DeployOf(n).order = n
<1>1. orders[n].amount \in Nat /\ orders[n].from \in Keys \cup {NoKey}
  BY PanelAssumption DEF OrderInv, OrderType
<1>2. Floor(orders[n].amount) \in Nat
  BY <1>1, FloorBounds
<1> QED BY <1>1, <1>2 DEF DeployOf, DepositDeploy, TransferDeploy, DeployType

-----------------------------------------------------------------------------
\* Orders that advance while no node takes anything keep the invariant.
LEMMA OrdersAdvance ==
    ASSUME PanelInv,
           account' \in Keys \cup {NoKey}, agent' \in {"up", "blocked", "down"},
           orders' \in Seq(OrderType), Len(orders') = Len(orders),
           \A n \in DOMAIN orders : OrderInv(orders'[n]) /\ Advance(orders[n], orders'[n]),
           deploys' = deploys
    PROVE  PanelInv'
<1>1. DOMAIN orders' = DOMAIN orders
  BY LenProperties DEF PanelInv
<1>2. \A n \in DOMAIN orders : DeployOf(n)' = DeployOf(n)
  BY DEF DeployOf, DepositDeploy, TransferDeploy, Advance
<1>3. DeploysInv'
  BY <1>1, <1>2 DEF PanelInv, DeploysInv, DeployInv, Advance
<1>4. (\A n \in DOMAIN orders : OrderInv(orders[n]))'
  BY <1>1
<1> QED BY <1>3, <1>4 DEF PanelInv

\* The same of a step that touches one order.
LEMMA OneOrderAdvances ==
    ASSUME PanelInv, NEW n \in DOMAIN orders, NEW o,
           OrderInv(o), Advance(orders[n], o), Set(n, o),
           UNCHANGED <<account, agent, deploys>>
    PROVE  PanelInv'
<1>1. orders \in Seq(OrderType) /\ o \in OrderType /\ n \in 1..Len(orders)
  BY LenProperties DEF PanelInv, OrderInv
<1>2. orders' \in Seq(OrderType) /\ Len(orders') = Len(orders)
      /\ \A m \in 1..Len(orders) : orders'[m] = IF m = n THEN o ELSE orders[m]
  BY <1>1, ExceptSeq DEF Set
<1>3. \A m \in DOMAIN orders : OrderInv(orders'[m]) /\ Advance(orders[m], orders'[m])
  BY <1>1, <1>2, LenProperties DEF PanelInv, Advance
<1> QED BY <1>2, <1>3, OrdersAdvance DEF PanelInv

-----------------------------------------------------------------------------
\* A fresh panel has the invariant.
LEMMA InitInv == PanelInit => PanelInv
<1> SUFFICES ASSUME PanelInit PROVE PanelInv
  OBVIOUS
<1>1. /\ account = NoKey /\ agent = "up"
      /\ orders \in Seq(OrderType) /\ Len(orders) = 0 /\ DOMAIN orders = {}
      /\ deploys \in Seq(DeployType) /\ DOMAIN deploys = {}
  BY EmptySeq DEF PanelInit
<1> QED BY <1>1, PanelAssumption DEF PanelInv, DeploysInv

\* A new order has nothing behind it yet.
LEMMA ExecuteKeepsInv ==
    ASSUME PanelInv, NEW a \in PanelActions, NEW m \in Amounts, Execute(a, m)
    PROVE  PanelInv'
<1> DEFINE o == Order(a, m)
<1>1. OrderInv(o) /\ o.script \notin Taken
  <2>1. account \in Keys \cup {NoKey} /\ (a # "deposit" => account # NoKey)
    BY DEF PanelInv, Execute
  <2>2. o \in OrderType
    BY <2>1 DEF Order, OrderType, Apis, Scripts, Ended
  <2>3. CASE a = "deposit"
    BY <2>2, <2>3 DEF OrderInv, Order, Taken, Hashed
  <2>4. CASE a # "deposit"
    BY <2>1, <2>2, <2>4 DEF OrderInv, Order, Taken, Hashed
  <2> QED BY <2>3, <2>4
<1> HIDE DEF o
<1>2. /\ orders \in Seq(OrderType) /\ Len(orders) < MaxOrders
      /\ orders' = Append(orders, o) /\ UNCHANGED <<account, agent, deploys>>
      /\ o \in OrderType
  BY <1>1 DEF PanelInv, Execute, o, OrderInv
<1>3. /\ orders' \in Seq(OrderType) /\ Len(orders') = Len(orders) + 1
      /\ Len(orders) \in Nat
      /\ \A n \in 1..Len(orders) : orders'[n] = orders[n]
      /\ orders'[Len(orders) + 1] = o
  BY <1>2
<1>4. /\ DOMAIN orders = 1..Len(orders)
      /\ DOMAIN orders' = 1..(Len(orders) + 1)
  BY <1>2, <1>3, LenProperties
<1>5. Len(orders') <= MaxOrders
  BY <1>2, <1>3, PanelAssumption
<1>6. \A n \in DOMAIN orders : n \in DOMAIN orders' /\ DeployOf(n)' = DeployOf(n)
  BY <1>3, <1>4 DEF DeployOf, DepositDeploy, TransferDeploy
<1>7. \A n \in DOMAIN orders' : n \in DOMAIN orders \/ orders'[n] = o
  BY <1>3, <1>4
<1>8. (\A n \in DOMAIN orders : OrderInv(orders[n]))'
  BY <1>1, <1>3, <1>4, <1>7 DEF PanelInv
<1>9. DeploysInv'
  <2>1. ASSUME NEW d \in DOMAIN deploys PROVE DeployInv(d)'
    <3>1. DeployInv(d)
      BY DEF PanelInv, DeploysInv
    <3>2. \A n \in DOMAIN orders : orders'[n] = orders[n]
      BY <1>3, <1>4
    <3> QED BY <1>2, <1>6, <3>1, <3>2 DEF DeployInv
  <2>2. \A n \in DOMAIN orders' : orders'[n].script \in Hashed =>
          \E d \in DOMAIN deploys : deploys[d].order = n
    BY <1>1, <1>3, <1>4, <1>7 DEF PanelInv, DeploysInv, Taken
  <2> QED BY <1>2, <2>1, <2>2 DEF PanelInv, DeploysInv
<1> QED BY <1>2, <1>3, <1>5, <1>8, <1>9 DEF PanelInv

\* The handlers of the API end together, whether or not their key files go.
LEMMA HandlersEndKeepsInv ==
    ASSUME PanelInv, NEW pem \in BOOLEAN, HandlersEnd(pem)
    PROVE  PanelInv'
<1>1. orders \in Seq(OrderType) /\ DOMAIN orders = 1..Len(orders) /\ Len(orders) \in Nat
  BY LenProperties DEF PanelInv
<1>2. /\ DOMAIN orders' = DOMAIN orders
      /\ \A n \in DOMAIN orders :
           orders'[n] = IF orders[n].api = "waiting"
                          THEN [orders[n] EXCEPT !.api = "gone", !.pem = pem]
                          ELSE orders[n]
      /\ orders' = [n \in DOMAIN orders |-> orders'[n]]
  BY DEF HandlersEnd
<1>3. ASSUME NEW n \in DOMAIN orders
      PROVE  OrderInv(orders'[n]) /\ Advance(orders[n], orders'[n])
  <2>1. OrderInv(orders[n])
    BY DEF PanelInv
  <2>2. CASE orders[n].api = "waiting"
    BY <1>2, <2>1, <2>2 DEF OrderInv, OrderType, Apis, Advance
  <2>3. CASE orders[n].api # "waiting"
    BY <1>2, <2>1, <2>3 DEF Advance
  <2> QED BY <2>2, <2>3
<1>4. orders' \in Seq(OrderType) /\ Len(orders') = Len(orders)
  <2>1. orders' \in [1..Len(orders) -> OrderType]
    BY <1>1, <1>2, <1>3 DEF OrderInv
  <2> QED BY <1>1, <2>1
<1> QED
  BY <1>3, <1>4, OrdersAdvance DEF HandlersEnd, PanelInv

\* What the browser does to an order.
LEMMA AnsweringKeepsInv ==
    ASSUME PanelInv, NEW n \in DOMAIN orders, AlertShown(n) \/ RequestFails(n)
    PROVE  PanelInv'
<1>1. OrderInv(orders[n])
  BY DEF PanelInv
<1>2. PICK s \in {"hash", "failed", "unreachable"} :
        /\ s = "hash" => orders[n].script = "exit 0"
        /\ s = "failed" => orders[n].api = "timeout" \/ orders[n].script = "exit 1"
        /\ Set(n, [orders[n] EXCEPT !.shown = s])
        /\ UNCHANGED <<account, agent, deploys>>
  <2>1. CASE RequestFails(n)
    BY <2>1 DEF RequestFails
  <2>2. CASE AlertShown(n)
    BY <1>1, <2>2 DEF AlertShown, Alert, OrderInv, Ended
  <2> QED BY <2>1, <2>2
<1> DEFINE o == [orders[n] EXCEPT !.shown = s]
<1>3. OrderInv(o) /\ Advance(orders[n], o)
  BY <1>1, <1>2 DEF OrderInv, OrderType, Advance
<1> QED BY <1>2, <1>3, OneOrderAdvances

\* What the handler does to an order.
LEMMA ApiStepKeepsInv ==
    ASSUME PanelInv, NEW n \in DOMAIN orders, ApiStep(n)
    PROVE  PanelInv'
<1>1. OrderInv(orders[n])
  BY DEF PanelInv
<1>2. CASE Posted(n)
  <2> DEFINE o == [orders[n] EXCEPT !.api = "waiting", !.script = "loading", !.pem = TRUE]
  <2>1. orders[n].api = "coming" /\ Set(n, o) /\ UNCHANGED <<account, agent, deploys>>
    BY <1>2 DEF Posted
  <2>2. OrderInv(o) /\ Advance(orders[n], o)
    BY <1>1, <2>1 DEF OrderInv, OrderType, Apis, Scripts, Ended, Advance, Taken, Hashed
  <2> QED BY <2>1, <2>2, OneOrderAdvances
<1>3. ASSUME NEW api \in {"ok", "error", "timeout"}, Returned(n, api),
             api = "ok" => orders[n].script = "exit 0",
             api = "error" => orders[n].script = "exit 1"
      PROVE  PanelInv'
  <2> DEFINE o == [orders[n] EXCEPT !.api = api, !.pem = FALSE]
  <2>1. orders[n].api = "waiting" /\ Set(n, o) /\ UNCHANGED <<account, agent, deploys>>
    BY <1>3 DEF Returned
  <2>2. OrderInv(o) /\ Advance(orders[n], o)
    BY <1>1, <1>3, <2>1 DEF OrderInv, OrderType, Apis, Advance
  <2> QED BY <2>1, <2>2, OneOrderAdvances
<1> QED BY <1>2, <1>3 DEF ApiStep, ApiReturns, ApiTimesOut

\* What the script or the wallet does to an order, the acceptance of a node excepted.
LEMMA GoesKeepsInv ==
    ASSUME PanelInv, NEW n \in DOMAIN orders, NEW s \in Scripts, Goes(n, s),
           orders[n].script \notin Ended \cup {"none"}, s # "none",
           s \in Hashed => orders[n].script \in Hashed,
           orders[n].script \in Taken => s \in Taken
    PROVE  PanelInv'
<1> DEFINE o == [orders[n] EXCEPT !.script = s]
<1>1. OrderInv(orders[n])
  BY DEF PanelInv
<1>2. OrderInv(o) /\ Advance(orders[n], o)
  BY <1>1 DEF OrderInv, OrderType, Advance, Ended
<1> QED BY <1>2, OneOrderAdvances DEF Goes

\* The one step that lengthens the list of deploys.
LEMMA NodeAcceptsKeepsInv ==
    ASSUME PanelInv, NEW n \in DOMAIN orders, NodeAccepts(n)
    PROVE  PanelInv'
<1> DEFINE o == [orders[n] EXCEPT !.script = "accepted"]
<1>1. /\ OrderInv(orders[n]) /\ orders[n].script = "sending"
      /\ orders \in Seq(OrderType) /\ n \in 1..Len(orders) /\ Len(orders) <= MaxOrders
      /\ DOMAIN orders = 1..Len(orders) /\ Len(orders) \in Nat
      /\ deploys \in Seq(DeployType) /\ account \in Keys \cup {NoKey}
  BY LenProperties DEF PanelInv, NodeAccepts
<1>2. /\ orders' = [orders EXCEPT ![n] = o] /\ UNCHANGED <<account, agent>>
      /\ deploys' = Append(deploys, DeployOf(n))
  BY DEF NodeAccepts, Set
<1>3. OrderInv(o) /\ o \in OrderType
  BY <1>1 DEF OrderInv, OrderType, Scripts
<1> HIDE DEF o
<1>4. /\ orders' \in Seq(OrderType) /\ Len(orders') = Len(orders)
      /\ DOMAIN orders' = DOMAIN orders
      /\ \A m \in DOMAIN orders : orders'[m] = IF m = n THEN o ELSE orders[m]
  BY <1>1, <1>2, <1>3, ExceptSeq, LenProperties
<1>5. DeployOf(n) \in DeployType /\ DeployOf(n).order = n
  <2>1. n \in 1..MaxOrders
    BY <1>1, PanelAssumption
  <2> QED BY <1>1, <2>1, DeployOfType
<1> DEFINE dep == DeployOf(n)
<1> HIDE DEF dep
<1>6. /\ deploys' \in Seq(DeployType) /\ Len(deploys) \in Nat
      /\ DOMAIN deploys = 1..Len(deploys)
      /\ DOMAIN deploys' = 1..(Len(deploys) + 1)
      /\ \A d \in DOMAIN deploys : deploys'[d] = deploys[d]
      /\ deploys'[Len(deploys) + 1] = dep
  BY <1>1, <1>2, <1>5 DEF dep
<1>7. \A m \in DOMAIN orders : DeployOf(m)' = DeployOf(m)
  <2>1. \A m \in DOMAIN orders : /\ orders'[m].action = orders[m].action
                                 /\ orders'[m].amount = orders[m].amount
                                 /\ orders'[m].from = orders[m].from
    BY <1>1, <1>4 DEF o, OrderInv, OrderType
  <2> QED BY <2>1 DEF DeployOf, DepositDeploy, TransferDeploy
<1>8. \A d \in DOMAIN deploys : deploys[d].order \in DOMAIN orders /\ deploys[d].order # n
  BY <1>1 DEF PanelInv, DeploysInv, DeployInv, Taken, Hashed
<1>9. o.script = "accepted"
  BY <1>1 DEF o, OrderInv, OrderType
<1>10. ASSUME NEW d \in DOMAIN deploys' PROVE DeployInv(d)'
  <2>1. PICK m \in DOMAIN orders :
          /\ deploys'[d] = DeployOf(m) /\ deploys'[d].order = m
          /\ orders'[m].script \in Taken
    <3>1. CASE d \in DOMAIN deploys
      <4>1. DeployInv(d)
        BY <3>1 DEF PanelInv, DeploysInv
      <4> QED BY <1>4, <1>6, <1>8, <3>1, <4>1 DEF DeployInv
    <3>2. CASE d = Len(deploys) + 1
      <4>1. deploys'[d] = DeployOf(n) /\ deploys'[d].order = n
        BY <1>5, <1>6, <3>2 DEF dep
      <4> QED BY <1>4, <1>9, <4>1 DEF Taken, Hashed
    <3> QED BY <1>6, <3>1, <3>2
  <2> QED BY <1>4, <1>7, <2>1 DEF DeployInv
<1>11. \A c, d \in DOMAIN deploys' : deploys'[c].order = deploys'[d].order => c = d
  <2>1. dep.order = n
    BY <1>5 DEF dep
  <2>2. \A c, d \in DOMAIN deploys : deploys[c].order = deploys[d].order => c = d
    BY DEF PanelInv, DeploysInv
  <2>3. \A d \in DOMAIN deploys' : d \in DOMAIN deploys \/ d = Len(deploys) + 1
    BY <1>6
  <2> QED BY <1>6, <1>8, <2>1, <2>2, <2>3
<1>12. \A m \in DOMAIN orders' : orders'[m].script \in Hashed =>
         \E d \in DOMAIN deploys' : deploys'[d].order = m
  <2>1. ASSUME NEW m \in DOMAIN orders, orders'[m].script \in Hashed
        PROVE  \E d \in DOMAIN deploys' : deploys'[d].order = m
    <3>1. CASE m = n
      BY <1>5, <1>6, <3>1 DEF dep
    <3>2. CASE m # n
      <4>1. PICK d \in DOMAIN deploys : deploys[d].order = m
        BY <1>4, <2>1, <3>2 DEF PanelInv, DeploysInv
      <4> QED BY <1>6, <4>1
    <3> QED BY <3>1, <3>2
  <2> QED BY <1>4, <2>1
<1>13. DeploysInv'
  BY <1>10, <1>11, <1>12 DEF DeploysInv
<1>14. (\A m \in DOMAIN orders : OrderInv(orders[m]))'
  BY <1>3, <1>4 DEF PanelInv
<1> QED BY <1>1, <1>2, <1>4, <1>6, <1>13, <1>14 DEF PanelInv

\* Every step keeps the invariant.
LEMMA NextInv == PanelInv /\ [PanelNext]_panelVars => PanelInv'
<1> SUFFICES ASSUME PanelInv, [PanelNext]_panelVars PROVE PanelInv'
  OBVIOUS
<1>1. CASE AccountChanges
  BY <1>1, OrdersAdvance DEF AccountChanges, PanelInv, Advance
<1>2. ASSUME NEW a \in PanelActions, NEW m \in Amounts, Execute(a, m) PROVE PanelInv'
  BY <1>2, ExecuteKeepsInv
<1>3. CASE ApiStops \/ ApiDies
  BY <1>3, HandlersEndKeepsInv DEF ApiStops, ApiDies
<1>4. ASSUME NEW n \in DOMAIN orders, AlertShown(n) \/ RequestFails(n) \/ ApiStep(n)
      PROVE  PanelInv'
  BY <1>4, AnsweringKeepsInv, ApiStepKeepsInv
<1>5. ASSUME NEW n \in DOMAIN orders, ScriptStep(n) PROVE PanelInv'
  <2>1. CASE NodeAccepts(n)
    BY <2>1, NodeAcceptsKeepsInv
  <2>2. CASE ScriptLoads(n) \/ ScriptFails(n) \/ Signed(n) \/ SignatureRefused(n) \/ NodeRefuses(n)
    <3>1. PICK s \in {"sending", "exit 1"} :
            Goes(n, s) /\ orders[n].script \in {"loading", "signing", "sending"}
      BY <2>2 DEF ScriptLoads, ScriptFails, Signed, SignatureRefused, NodeRefuses
    <3> QED BY <3>1, GoesKeepsInv DEF Scripts, Ended, Taken, Hashed
  <2>3. CASE NodeAnswers(n) \/ AnswerLost(n)
    <3>1. PICK s \in {"exit 0", "exit 1"} : Goes(n, s) /\ orders[n].script = "accepted"
      BY <2>3 DEF NodeAnswers, AnswerLost
    <3> QED BY <3>1, GoesKeepsInv DEF Scripts, Ended, Taken, Hashed
  <2> QED BY <1>5, <2>1, <2>2, <2>3 DEF ScriptStep
<1>6. CASE SubmissionBlocks \/ SubmissionReturns \/ AgentStarts
  BY <1>6, OrdersAdvance
  DEF SubmissionBlocks, SubmissionReturns, AgentStarts, PanelInv, Advance
<1>7. CASE UNCHANGED panelVars
  BY <1>7, OrdersAdvance DEF panelVars, PanelInv, Advance
<1> QED BY <1>1, <1>2, <1>3, <1>4, <1>5, <1>6, <1>7 DEF PanelNext

\* The invariant holds in every state.
LEMMA PanelInvHolds == PanelSpec => []PanelInv
  BY InitInv, NextInv, PTL DEF PanelSpec

-----------------------------------------------------------------------------
\* The types of the panel's state; a key file is there while its handler waits,
\* and afterwards only if the handler was killed waiting.
THEOREM PanelTypeOKHolds == PanelSpec => []PanelTypeOK
<1>1. PanelInv => PanelTypeOK
  BY DEF PanelInv, PanelTypeOK, OrderInv
<1> QED BY <1>1, PanelInvHolds, PTL

\* An order makes at most one deploy, a deposit's in whole CSPR and never above
\* what was entered; a transfer goes back to the account that sends it.
THEOREM NoMoreThanOrderedHolds == PanelSpec => []NoMoreThanOrdered
<1>1. ASSUME PanelInv PROVE NoMoreThanOrdered
  <2>1. ASSUME NEW n \in DOMAIN orders PROVE Cardinality(DeploysOf(n)) <= 1
    <3>1. CASE DeploysOf(n) = {}
      BY <3>1, FS_EmptySet
    <3>2. CASE DeploysOf(n) # {}
      <4>1. PICK d \in DeploysOf(n) : TRUE
        BY <3>2
      <4>2. DeploysOf(n) = {d}
        BY <1>1, <4>1 DEF PanelInv, DeploysInv, DeploysOf
      <4> QED BY <4>2, FS_Singleton
    <3> QED BY <3>1, <3>2
  <2>2. ASSUME NEW d \in DOMAIN deploys
        PROVE  LET o == orders[deploys[d].order] IN
               IF o.action = "deposit"
                 THEN /\ deploys[d].entry_point = "deposit"
                      /\ deploys[d].motes <= o.amount
                      /\ o.amount < deploys[d].motes + MotesPerCspr
                 ELSE /\ deploys[d].entry_point = "transfer"
                      /\ deploys[d].from # NoKey /\ deploys[d].to = deploys[d].from
    <3> DEFINE n == deploys[d].order
    <3>1. n \in DOMAIN orders /\ deploys[d] = DeployOf(n) /\ OrderInv(orders[n])
      BY <1>1 DEF PanelInv, DeploysInv, DeployInv
    <3>2. orders[n].amount \in Nat /\ (orders[n].action # "deposit" => orders[n].from # NoKey)
      BY <3>1, PanelAssumption DEF OrderInv, OrderType
    <3> HIDE DEF n
    <3>3. CASE orders[n].action = "deposit"
      BY <3>1, <3>2, <3>3, FloorBounds DEF DeployOf, DepositDeploy, n
    <3>4. CASE orders[n].action # "deposit"
      BY <3>1, <3>2, <3>4 DEF DeployOf, TransferDeploy, n
    <3> QED BY <3>3, <3>4 DEF n
  <2> QED BY <2>1, <2>2 DEF NoMoreThanOrdered
<1> QED BY <1>1, PanelInvHolds, PTL

\* A hash is shown only of a deploy that a node took, and a failure beside a
\* deploy only after a time-out or a lost answer.
THEOREM AlertsTellTheTruthHolds == PanelSpec => []AlertsTellTheTruth
<1>1. ASSUME PanelInv PROVE AlertsTellTheTruth
  <2>1. ASSUME NEW n \in DOMAIN orders, orders[n].shown = "hash"
        PROVE  DeploysOf(n) # {}
    <3>1. orders[n].script \in Hashed
      BY <1>1, <2>1 DEF PanelInv, OrderInv, Hashed
    <3> QED BY <1>1, <3>1 DEF PanelInv, DeploysInv, DeploysOf
  <2>2. ASSUME NEW n \in DOMAIN orders, orders[n].shown = "failed"
        PROVE  orders[n].api = "timeout" \/ orders[n].script = "exit 1"
    BY <1>1, <2>2 DEF PanelInv, OrderInv
  <2> QED BY <2>1, <2>2 DEF AlertsTellTheTruth
<1> QED BY <1>1, PanelInvHolds, PTL

=============================================================================
