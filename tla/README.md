# A TLA+ model of Casper Yield Agent

Casper Yield Agent is a vault contract on Casper (Rust, Odra), an automated
market maker the vault trades with, and an agent (Python) that reads the
vault's balance, lets a swarm of language-model specialists vote, and sends
the vault's swaps as deploys. A React dashboard shows what the agent publishes
and takes deposits; Node.js scripts deploy and upgrade the contracts.

This directory models the contracts, the agent, the dashboard and the deploy
scripts in TLA+, checks them with TLC and proves the main facts about the
contracts, their deployment, the agent, alone and with the chain, the dashboard,
its wallet and panel and the deploy scripts with TLAPS. Paths below are relative to `src/`.

## 1. The system and its parts

| Component | State it keeps | Operations | Talks to |
|---|---|---|---|
| `SimplePool` (`smart-contract/src/pool.rs`) | owner, CSPR reserve (real), sCSPR reserve (a figure), its purse | `seed_cspr`, `swap_cspr_for_scspr`, `swap_scspr_for_cspr`, queries | called by anyone, and by the vault inside a vault call |
| `YieldVault` (`vault.rs`) | balances, `total_locked`, sCSPR position, action trail, swap trail, owner, agent, pool address, paused, its purse | `deposit`, `withdraw`, `log_action`, `execute_swap`, `pause`/`unpause`, `set_agent`, `set_pool`, `transfer_ownership`, queries | depositors, agent, owner; calls the pool |
| Deploy and upgrade scripts (`scripts/deploy_esteban.mjs`, `upgrade_contracts.mjs`) | the key names seen so far, the packages detected, the transaction waited for | snapshot the keys, install pool, detect it, install vault, detect it, `set_pool`, seed; `--seed-only`; upgrade both | the node |
| Agent loop (`agent/src/agent_loop.py`) | locals of a cycle | connect with retry; observe, decide, execute, log, record, sleep | balance reader, quotes, swarm, executor, store |
| Supervisor (`agent/main.py`) | two tasks | restart after a crash, cancel on a signal | agent loop, API |
| Swarm (`llm/swarm.py`) | - | three votes in parallel, tally, decision | the model provider |
| Balance reader (`mcp_clients/casper_client.py`) | cached balance, MCP session | `connect`, `get_vault_total_locked` | MCP server, two RPC nodes |
| Quotes (`mcp_clients/trade_client.py`) | - | `get_quote`, `estimate_scspr_apy` | api.cspr.trade |
| Executor, signer (`chain/executor.py`, `pycspr_signer.py`) | - | `execute_swap`, `log_action`, `deposit` | a node; the deposit script |
| Store (`state/store.py`, `models.py`) | the published `AgentState` | `update_status`, `update_market_data`, `record_decision`, `record_error` | written by the loop, read by the API |
| API (`api/server.py`) | per request: a key file and a process | `/status`, `/config`, `/health`, `/deposit` | store, executor |
| Deposit script (`chain/deposit_py.py`) | - | load key and module, submit, print the hash, exit | a node |
| Pages and hooks (`frontend/src/pages`, `hooks`) | per page, dropped on leaving it: last status, config, open sheet, search, form | a poll every 30 s, one configuration request, clicks | API |
| Wallet session (`context/AgentWalletContext.tsx`, `components/WalletConnect.tsx`) | connected, address, loading | check on load, connect, disconnect, three window events | the wallet extension |
| Vault's panel (`pages/Dashboard.tsx`, `hooks/useCasperTransaction.ts`) | action, amount, alert | deposit, "withdraw", "swap" | API; wallet and node |

What is hard here:

* **Money in two sets of books.** The vault books its cash (`total_locked`), its
  position and everyone's claim; the pool books its reserves; the purses hold
  the CSPR. They change in one transaction, across a contract call, with fees
  and floors in between.
* **Strangers.** Anyone may trade with the pool between two swaps of the agent,
  and the vault passes no minimum.
* **Deploys are not executions.** A node that returns a hash has executed
  nothing. A deploy lives half an hour, several are pending at once, they are
  executed in any order, reverted or dropped, and nothing tells the agent.
  An answer may get lost although the node took the deploy.
* **A memory that dies.** The agent's picture of its position is in memory.
* **Partial failure.** Each specialist, node, quote, submission and log may
  fail alone, in every cycle, and the loop must go on.
* **Time-outs with a survivor.** The API gives up on the deposit script after
  120 s and does not kill it; the deploy script gives up on a transaction that
  may be executed minutes later, under the next run.
* **One event loop.** The API and the agent's task share it, and a submission
  blocks it without a time limit: handlers, timers and signals wait.
* **Half a deployment.** Four transactions and two detections by key name; a run
  may stop after each of them, and a key name can be taken over.
* **Answers out of order.** Polls overlap; an answer of the wallet may be
  overtaken by the event of a change; what a click copied is not refreshed.
* **Limits.** Trails, history and errors are bounded; sums and products are
  checked against the width of U512.

What makes each component correct is stated as the properties of section 4.

## 2. Modules

```
AmmMath
   │
SimplePool ──────── YieldVault ── VaultDeployment ──┐
   │                    │ implements                ├── AgentOnChain
AmmQuotes       FundLedger, AuditLog    AgentLoop ──┘
                                          │      └── SwarmVote
                                          │ implements
                                       AgentFeed ── ConsoleViews ── Console
                                                     StrategyForm ──┘
WalletSession      VaultPanel      DeployScripts
```

| Module | Models | Correspondence |
|---|---|---|
| `AmmMath` | the two price formulas | `AmountInWithFee`, `AmountOut`, `GetAmountOut`: pool.rs; `AmmQuote`: `_amm_quote`. Integers with floored division, as U512 and Python's `//` |
| `SimplePool` | every pool deployed, and all purses | an action per entry point; a transfer moves `purse` |
| `AmmQuotes` | orders of all sizes against the reserves a pool can reach | carries the properties that relate the two formulas |
| `YieldVault` | the vault, composed with its pools | `execute_swap` conjoins the pool's action, because the contract calls the pool inside its own transaction |
| `VaultDeployment` | the state a finished deployment leaves | `PrivateSpec`: nobody but the vault trades with the pool |
| `FundLedger` | abstract: claims, cash, a manager, a freeze | what the vault promises depositors |
| `AuditLog` | abstract: an append-only bounded log | what each trail promises |
| `SwarmVote` | answers to a decision | tally, threshold, amount |
| `AgentLoop` | loop, supervisor, store, deploys sent | `pc` names the await the task waits in; an action is everything from one await of the network or a timer to the next, with the store writes in between |
| `AgentFeed` | abstract: the published state | what the loop promises to readers of `/status`; the agent as `Console` sees it |
| `AgentOnChain` | agent, chain and other accounts together | `Execute`, `Revert`, `Expire` decide the fate of a deploy; `OthersStep` is everybody else |
| `ConsoleViews` | what the pages make of one answer | an operator per panel |
| `StrategyForm` | the strategy page | a field holds a value of some origin: the hook's default, the served one, a preset, the user |
| `Console` | one browser tab: page, hooks, requests in flight | `Mounted` is what a page's first render sets up; an action per timer, answer and click |
| `WalletSession` | wallet extension, events in flight, the context | an action per event, and per resumption of a flow that awaits the wallet |
| `VaultPanel` | orders, from the button to the node; the process that serves them | per order: the alert, the API's handler, its key file, the script; of the agent's process whether it runs, is blocked by a submission or is down |
| `DeployScripts` | both scripts, one run after the other, and the account's keys | `pc` names the step; `Send`, `Wait` and the detections are the helpers of the scripts |
| `ContractProofs`, `VaultDeploymentProofs`, `AgentLoopProofs`, `AgentOnChainProofs`, `WalletSessionProofs`, `VaultPanelProofs`, `ConsoleProofs`, `DeployScriptsProofs` | the proofs | section 6 |

Operators whose comment says *mutated form* are faulty variants of the
definition that follows them. Nothing uses them; putting one in place of its
original must break a named property, which is how each property is known to
depend on the code (`PROJECT.json`, "mutants").

### The abstractions

* **Atomicity of an entry point.** The Casper VM runs a call to its end or
  reverts every effect of it. An entry point is one action and a call that
  reverts is no step. Every `revert` and every checked operation of the code is
  a conjunct of the guard.
* **Purses** are external: a payable call moves the attached CSPR with the call,
  a transfer reverts when the payer is short. Gas is left out: it is paid from
  funds outside the amounts of the model.
* **Addresses and texts.** An address or a token name is a member of a small
  set. Of a text the contract reads its length, its equality with another one
  and with `"CSPR"`. `params` and time stamps of the trails are not kept.
* **`MaxU512`** is the width: every checked sum and product must stay within it.
* **Floating point.** The agent computes in CSPR as a float and sends motes. The
  model has motes throughout; `MotesPerCspr` is there for the minimum of one
  CSPR in `max(1.0, balance * 0.5)` and for the whole CSPR of a deposit.
* **Awaits.** Between two awaits of the network or a timer nothing else runs in
  the agent's event loop, and the store's lock is never held over one, so
  nobody ever waits for it. A submission is a blocking call inside `async`
  code: the task cannot be cancelled during it, and the API, which
  shares the loop, serves nobody (`agent = "blocked"` in `VaultPanel`).
* **Statuses and errors.** The status is a constant per form of text; of the
  errors `AgentLoop` keeps the number and `AgentFeed` whether there are any.
* **React.** The setters that run in one turn of the browser's event loop take
  effect together. Leaving a page drops its state and all it was waiting for.
* **A poll** is answered by the API at one time (`PollAnswered`) and delivered at
  another; it may fail at any time. A failed poll is no different from one whose
  answer is lost.
* **Forms** hold origins of values instead of values: the property is about
  which of several sources a field ends up showing.
* **External**: the chain and its nodes, the wallet extension, the browser's
  timers. They are modelled from how the code uses them and are as free as that
  use allows.
* **Left out because it cannot run:** the reconnection of `agent_loop.py:191-197`.
  Only `_call` raises `MCPConnectionError` after the connection, and no step of
  a cycle uses `_call`: the balance is read over plain RPC.

## 3. Runs and their bounds

All contract runs have two accounts, which is enough for owner and agent to be
one account or two, for a depositor who is not the agent or not the owner, and
for one depositor's claim to be paid from another's cash. They use a fee of 1/10
instead of 3/1000 so that amounts below ten feel both the fee and the floors.
Accounts are symmetric where no liveness is checked.

| Run | Question | Bounds |
|---|---|---|
| `simple_pool` | can a pool be drained, and who does rounding favour? | 1 pool, reserve 9, amounts 1, 4, 7, minimum 0 or 3, `MaxU512` 90, so that the product of a quote and the sums of the sCSPR side overflow; quotes for orders up to 12 at every reserve reached |
| `vault_funds` | are claims and cash safe before, during and after a pool is set, with strangers trading in it? | amounts and purses of 4, 2 swaps; pause, pool and seed at any time |
| `vault_roles` | are the trails sound whoever owns the vault? | no money; 2 actions, 2 swaps, texts of length 0, 8 and 9 with a limit of 8, a pool address that is no pool |
| `vault_private` | do the two contracts' books agree? | seed 8, amounts 1, 3, 6, purses of 9, 4 swaps: two round trips of different sizes |
| `loop_store` | does the loop go on, does the published state match the deploys, and is it what `AgentFeed` promises? | balances 0 and 6, quotes 0 and 2, 2 deploys; history of 2 and error list of 1, so that both are trimmed; crashes, shutdown and restart |
| `chain_votes` | is every swap on the trail the agent's own, and every investment voted for? | 2 deploys, one depositor, one pool; history 1, no errors kept |
| `console` | do the pages tell the truth, and one story, whatever overlaps? | 4 changes of the state, 2 polls in flight, 1 click between two mounts; one balance, quote and hash; history of 2 with one row shown, so that the feed does not show all |
| `wallet_session` | can the page end up with an account the wallet does not offer? | 2 accounts, 3 changes in the wallet, 2 flows at once |
| `vault_panel` | what becomes of an order, whatever becomes of the agent's process? | 2 orders, 1 and 3 motes at 2 motes a CSPR, 2 accounts: an amount below one CSPR and one above |
| `deploy_scripts` | what may a run leave behind, and what can the next one make of it? | 8 transactions, 4 runs: two complete deployments, or several broken ones and an upgrade |
| `chain_swap_back`, `chain_hold` | does what a comment says of SWAP_BACK and of HOLD hold? | as `chain_votes` with history 2, 1 error and 3 deploys; each ends in a counterexample (section 5) |

The limits of the code are larger (10 000 entries a trail, texts of 16 to 512
bytes, history 10, errors 20, 5 rows in the feed); three specialists and a
threshold of two are kept. The bounds are chosen so that each limit is reached
and passed within a run: a full trail, a trimmed history, a purse too
small, an overflow, a second poll, a second order. The theorems of section 6
hold for all values.

`CHECK_DEADLOCK FALSE` is set where a behaviour really may end: in the contract
runs when the trails are full, in `AgentOnChain` after a shutdown or with
`MaxDeploys` sent, and in the four runs of the dashboard and the scripts at their
bounds on changes, orders and transactions. `loop_store` has deadlock checking
on: in every state of the loop something can happen next. The bound on deploys
stops nothing there, for a submission may always raise without a deploy.

### Assumptions about the environment

* `AgentOnChain`: the agent's key is used by the agent alone for the entry points
  only the agent may call, and the owner replaces neither the agent nor the pool
  nor itself (no address is offered to the setters). That same account may still
  deposit, withdraw and pause, and the depositor may call everything of the vault
  at any time. Strangers in the pool are the subject of `vault_funds`: together
  with the agent they exceed what TLC can enumerate in minutes.
* The deploy script gives the deployer all three roles, and the agent signs with
  that key (`vault_owner_secret_key`), hence `owner = Signer`.
* Any of the three specialists may answer anything or fail in every cycle; any
  node and api.cspr.trade may fail in every cycle; the balance reader sees the
  vault's purse as it is at that moment.
* `Console`: the agent is any behaviour of `AgentFeed`, which `AgentLoop`
  implements. What `/config` serves is told apart from the defaults of the hook.
* `WalletSession`: the wallet answers a call with its state at some time after
  the call, and sends the event of a change in the order of the changes.
* `DeployScripts`: one script at a time, from one account; an accepted
  transaction is executed or fails at any later time, in any order.

### Fairness

* `FairLoopSpec`: weak fairness of the steps behind a timer (`asyncio.sleep`) or a
  call with a time limit (the connection's `wait_for`, the RPC and REST clients'
  `timeout`, the model client's own), as one disjunction: the task has one
  program counter, so at any time one of them is enabled, and the event loop
  resumes the task. There is no fairness between outcomes (a source may fail in
  every cycle), of the connection succeeding (the MCP server may refuse for
  ever), of submissions (pycspr uses synchronous requests without a time limit,
  `deposit_py.py:263`, `pycspr_signer.py:134`, so a node that never answers holds
  the task for ever) or of a restart after the process ended. `KeepsObserving`
  has these as its exceptions, each as narrow as it can be: of an agent whose
  attempts to connect all fail it still asks that the attempts go on, from the
  retry and from the supervisor's restart alike, so that a loop that stays in
  `retrying` or `crashed` violates it.
* `FairConsoleSpec`: `setInterval` fires (weak fairness of `PollTick`), and not
  every poll gets lost, on its way or back (strong fairness of `Answer` and
  `Deliver`; weak fairness would not do, since each poll may fail).
  `EventuallyCurrent` excepts a user who never stays on a page. An API that is
  held for ever (below) answers no poll and is outside this assumption.
* `FairPanelSpec`: per order that is not answered yet, strong fairness of the
  request's arrival (or its refusal, with the agent's process down), the
  handler's return, its `wait_for(120 s)` and the arrival of the answer or of the
  broken connection. Strong, because the handlers share the event loop with the
  agent's task, whose submissions block it (`SubmissionBlocks`): a handler's step
  is enabled only in between. It is justified because the task sleeps after the
  submissions of a cycle, when asyncio runs every callback that is due. Nothing
  makes a submission return, and nobody starts the process again; neither script,
  node nor user has to do anything. With the loop blocked for ever no time limit
  of the API fires, and `agentApi.ts` sets none of its own: `DepositIsAnswered`
  excepts exactly that (`<>[](agent = "blocked")`), and fails without the
  exception. That the process dies with its machine, so that not even a broken
  connection reaches the browser, is left out.

## 4. What is checked

**Pool.** `ReserveBacked`: the CSPR a pool books is in its purse.
`ProductNeverDrops`: no step lowers x*y. `LiquidityIsForever`: no swap empties a
side. For the formulas: `SettlesAtMostTheQuote` (the contract never pays more
than the agent was quoted) and `RoundTripNeverProfits`.

**Vault.** `VaultSolvent`: cash booked is cash held.
`ClaimsChangeAgainstPayment`: a claim moves only against the holder's money.
`CashLeavesAgainstRecord`: CSPR leaves to a depositor against a claim or to the
configured pool in a recorded swap of that amount. `PausedMeansFrozen`.
`WholeUntilPooled`: without a pool everyone can withdraw everything.
`ImplementsFundLedger`, `ImplementsActionLog`, `ImplementsSwapLog`: refinement of
the abstract specifications. `AuditTrailReadable`.

**Vault and pool.** `BooksAgree`: what claims exceed the cash by is what the pool
holds beyond its seed, to the mote. `NoYieldFromOwnTrades`: trading alone never
lifts the cash above the claims. `SwapTrailExplainsPosition`: the position is the
sum of the trail. `RecordNeverBeatsQuote`: a record never flatters a trade.

**Agent.** `KeepsObserving` (liveness): the loop observes again and again, or tries
again and again to connect, unless it is stopped or a submission never returns.
`HistoryMatchesDeploys`: the hash beside a
decision is that of a swap deploy for that very decision, no hash shows twice,
and no more actions are counted than swaps were accepted. `ImplementsFeed`: under
all failures, crashes and restarts a reader of the state sees it observed, decided
and recorded in that order, a SWAP with the votes it takes, and hashes of swaps
that were accepted.

**Agent and chain.** `OnlyVotedSwapsOnTrail`: whatever is delayed, lost,
reordered, restarted or called by others, the vault's swap trail has exactly the
agent's executed deploys, and every CSPR swap among them was voted for by a
majority of all the specialists, the failed ones counted against it.

**Dashboard.** `ClaimsAreBacked`: however old the answer, no page shows a swap no
node took, or a SWAP without its votes. `PanelsAgree`: the lights, counters, bars
and balances of different panels are compatible; where two panels show the same
field of the same answer there is nothing to check, and nothing is. `NoDefaultAfterServed`.
`RegressNeedsOverlap`: the page goes back in time only if polls overlapped.
`EventuallyCurrent` (liveness): a page left open comes to show a state that rests.

**Wallet.** `OnlyOvertakenAnswersMislead`: with its events handled, a page shows a
wrong account only through an answer that a later change had overtaken.

**Vault's panel.** `NoMoreThanOrdered`: an order makes one deploy at most, for no
more than was entered. `AlertsTellTheTruth`: a hash shown is of an accepted
deploy; a failure shown may be a deposit only after a time-out or a lost answer.
`DepositIsAnswered` (liveness): an alert comes although the script or its node
hangs, the agent's loop is blocked for a while, or its process is stopped or
killed; it does not come when a submission of the agent never returns.

**Deploy scripts.** `CompletedStaysWired`: nothing undoes a deployment reported
complete. `RerunsCannotFinish`: what a failed run left behind blocks the next
one. `UpgradeReachesThePair`: when an upgrade may miss the contracts in use.

## 5. Where code and words disagree

Two are runs that end in a counterexample; `PROJECT.json` ("findings") quotes the
lines.

| Run | The words | The code |
|---|---|---|
| `chain_swap_back` | `agent_loop.py:131`, `store.py:45`: SWAP_BACK sells the position | it is sent with `amount_out` zero, which the vault refuses; the store books the sale |
| `chain_hold` | `agent_loop.py:131`: HOLD with sCSPR in the vault leaves the position | the store is asked, not the vault; it forgets at a restart and never learns of a swap whose answer was lost |

Others were met while modelling and can be read off the definitions.

Contracts:

* `tests/test_accounting.rs:9` states "total_locked == suma de todos los balances
  individuales". That holds until a pool is set (`WholeUntilPooled`); a CSPR swap
  lowers `total_locked` and no balance (`SwapForward`). `BooksAgree` says where the
  difference is.
* `vault.rs:159-160` say that `"sCSPR"` runs the reverse swap; every `token_in` but
  `"CSPR"` does (`SwapReverse`).
* `deploy_esteban.mjs`'s header lists seeding as a step of its own after the
  deployment; `main` seeds already.

Agent:

* `swarm.py:157` says `decide` never raises into the main loop; a vote SWAP_BACK,
  valid for the enum, has no place in the tally and raises a `KeyError` at 175.
* `agent_loop.py:156` and `README.md:21` say the decision is always logged on
  chain; a quote (128) or a submission (153) that raises skips it.
* `casper_client.py:130` says zero is returned only if there is no prior read; an
  answer without the purse is zero at once (`ReadNoPurse`), neither the second
  node nor the cache is asked.

Dashboard:

* The panel says "only real YieldVault entry points" (`Dashboard.tsx:1220`).
  Withdraw and swap are native transfers from the user's account to itself
  (`TransferDeploy`); a deposit is paid by the owner's key and needs no wallet
  (`DepositDeploy`). Its alert quotes the amount entered, although a fraction of a
  CSPR is floored away, so that 0.5 CSPR becomes a deposit of nothing.
* A comment at `Dashboard.tsx:139` has no answer fall back to offline; the last
  answer stays shown for ever (`PollFails`). Statuses other than running and
  connecting count as offline (`Indicator`), and the footer says CONNECTED
  before the first answer.
* The reasoning feed shows the oldest rows of the history and dates the first
  of them "Just now" (`DecisionRows`); SWAP_BACK appears as HOLD there. The comment
  on the order of the bars at `Dashboard.tsx:601` has it the other way round.
* The allocation is 79/21 after any SWAP, whatever the amounts (`Allocation`); "Decisions logged"
  of the landing page counts swaps; the success rate cannot fall below 100
  (`PanelsAgree`); the profile page is always connected.
* The sheet a click opens keeps the row it was opened with (`OpenSheet`): it goes on
  saying Staked after the position was left.
* Saving a strategy sends nothing (`Save`), and the preset highlighted may differ
  from the values that were served.

## 6. What is proved

For every value of the constants that meets the `ASSUME`s: any accounts, pools,
amounts, fee, limits and width; any specialists, threshold and quotes.

* `ContractProofs`, the formulas and the pool. With `f` the input after the
  fee, the floor `q` of `y*f/(x+f)` is the largest number with `q*(x+f) <= y*f`
  (`DivIsFloor`, `DivIsLargest`, `AmountOutIsFloor`); everything follows from it
  by nonlinear arithmetic in small steps: `AmountOutBelowReserve`, `ProductGrows`,
  `QuoteBoundsSettlement`, `RoundTrip`, `LargerOrderGetsNoLess`. Then `PoolSafe`
  (types, `ReserveBacked`), `ProductNeverDropsHolds`, `LiquidityIsForeverHolds`. The
  invariant is `PoolInv == PoolTypeOK /\ ReserveBacked`; one lemma per entry point,
  also used by the vault's proofs, because the vault calls the same actions with
  itself as the caller. From the types and the formulas:
  `SettlesAtMostTheQuoteHolds` and `RoundTripNeverProfitsHolds`.
* `ContractProofs`, the vault. The invariant `VaultInv` is the types, `ReserveBacked` and
  `VaultSolvent`. Solvency is not inductive by itself: a reverse swap books what
  the pool returned, and that this really arrives in the vault's purse needs the
  pool to be able to pay, which is `ReserveBacked`, which needs the types. On it
  rest `VaultSafe` and the action properties `PausedMeansFrozenHolds`,
  `ClaimsChangeAgainstPaymentHolds` and `CashLeavesAgainstRecordHolds`, and the
  refinements `VaultImplementsFundLedger` (a step of a depositor is PayIn or
  PayOut, a swap is Invest, Divest or a stutter, a pause is SetFrozen, all else
  stutters), `VaultImplementsActionLog` and `VaultImplementsSwapLog`. The trails
  need `TrailInv` (entries below the counter carry their own id, nothing is
  stored at or above it), from which `AuditTrailReadableHolds` follows. What is
  proved of a step is proved of `AnyNext`, which lets a swap have any amount: the
  agent's amounts follow the balance it read, and are not those TLC enumerates.
* `VaultDeploymentProofs` - what speaks of sums over accounts and over records. A
  sum is a fold of the community modules, a `CHOOSE` of a function that satisfies
  its recursive equation; the module proves once that such a function exists on a
  finite set, by the well-foundedness of `<` on `Nat` (`SetInduction`), and from it
  that a sum may be taken apart at any element (`SumTakeAny`), moves with one of its
  terms (`SumChange`) and is a natural number. `WholeUntilPooledHolds`: without a
  pool a deposit or withdrawal moves one claim and the total by the same amount.
  The others hold of the deployment, `PrivateSpec`, under the hypothesis `OnePool`:
  the setters are offered no pool but the deployed one (with two pools the position
  could be carried from one to the other, which is not what `BooksAgree` says).
  `PositionInv` is: the vault calls no pool but the deployed one, `BooksAgree`, the
  product of the reserves and the CSPR reserve are at least what the seed made them.
  The pool holds at least the seed because the product cannot drop while the sCSPR
  reserve cannot pass its seed (`BooksAgree`); hence `NoYieldFromOwnTradesHolds`.
  `SwapTrailExplainsPositionHolds` needs that the trail is complete up to its
  counter (`TrailInv`); `RecordNeverBeatsQuoteHolds` is `QuoteBoundsSettlement` at
  the reserves a swap found.
* `AgentLoopProofs` - `LoopTypeOKHolds`, `HistoryMatchesDeploysHolds`,
  `LoopImplementsFeed`, from `LoopAssumption` and `SwarmAssumption`. `LoopInv` is
  the types, `CycleInv` and `HashInv`, and is kept whatever balance is read; that a
  balance believed is one a node reports (`ReadingsInv`) is needed for the
  refinement only. `CycleInv` is what the program counter
  tells of the cycle: a state past the observation was published as such, SWAP is
  the action exactly if the votes reach the threshold, its amount was quoted, and
  there is a hash to log exactly after a swap. `HashInv` is what makes the history
  inductive: hashes in it are of swaps accepted for their entry, all different and
  none larger than `last_tx_hash`; the hash of the running cycle is larger still,
  so that recording it keeps them different; and the counter, with the swap yet
  to be recorded, is at most the number of swaps accepted. In the refinement a
  status step is the feed's `Moved`, a reading `Observed`, a submission a
  `DeployChange`, one whose answer is lost both a move and a `DeployChange`, the
  record `Booked`, a new process `Restarted`; all else stutters.
* `AgentOnChainProofs` - agent, chain and other accounts together. Every step is a
  call of the vault or none (`ChainNextIsCall`), and a step of the loop, a change of
  a deploy's fate, or none: so both invariants hold side by side (`ChainInvHolds`)
  and the theorems of the parts hold of the whole: `ChainSafe`, `ChainKeepsFunds`,
  `ChainImplementsFundLedger`, and under `OnePool` `ChainBooksAgree`.
  `OnlyVotedSwapsOnTrailHolds` has two hypotheses: the setters are offered no agent
  but the signer (`OneAgent`; another agent's swaps would be on the same trail), and
  the threshold is a majority (`Majority`; 2 of 3 by default, but
  `SWARM_VOTE_THRESHOLD` may be set to less). Its invariant `VotedInv` says that the
  signer is the agent, that the counter of swaps is the number of executed swap
  deploys, and that a SWAP was sent with at least the threshold's votes, which
  `CycleInv` gives at the place where it is sent. The conjunct of `Revert` that uses
  `ENABLED` is not needed: a revert changes nothing of the vault.
* `WalletSessionProofs` - `SessionTypeOKHolds`, `OnlyOvertakenAnswersMisleadHolds`.
  The invariant `SessionInv` adds to the types that the newest event in flight
  tells the wallet as it is and that a "connected" event carries a key: so when
  the last event has been handled, the page can be wrong only if it was so before
  or became so through an answer.
* `VaultPanelProofs` - `PanelTypeOKHolds`, `NoMoreThanOrderedHolds`,
  `AlertsTellTheTruthHolds`. The invariant relates, per order, the states of
  handler, script and alert (`OrderInv`); every deploy is the one of its order,
  whose script got as far as a node, no two belong to one order, and an order with
  a hash has one (`DeploysInv`).
* `ConsoleProofs` - `ConsoleTypeOKHolds`, `ClaimsAreBackedHolds`, `PanelsAgreeHolds`,
  `NoDefaultAfterServedHolds`, `RegressNeedsOverlapHolds`. The agent is any behaviour
  of `AgentFeed`, of which a snapshot, when published, is `Truthful`: its swaps were
  accepted for their entries, no more are shown than are counted, and its last
  entry is a SWAP exactly if its votes are. That survives every later step, because
  an accepted swap is never taken back. So the invariant (`AnswersInv`) is that every
  snapshot in flight or shown is truthful now, and the panels are functions of one
  truthful snapshot. `TimeInv` orders a snapshot shown, those in flight and the agent's present;
  without two polls in flight at once the answer to come is not older than the one
  shown. `FieldsInv` is which values a field of the strategy page can have.
* `DeployScriptsProofs` - `CompletedStaysWiredHolds`, `RerunsCannotFinishHolds`,
  `UpgradeReachesThePairHolds`. A detection takes a key name that was not there
  before, and a name once bound is never new again: so at most one vault is ever
  detected, and every `set_pool` sent is for that one pair. `ScriptsInv` says this of
  the chain (`ChainInv`), of the transactions pending or executed (`WireInv`), and
  step by step of the two scripts (`DeployInv`, `UpgradeInv`).

The assumptions, each named and evaluated by TLC in the runs, say that the constants
are of their types, that limits and thresholds are positive where the code's are,
and that the set of addresses is finite (`VaultAssumption`).

**Checked by TLC only:**
* liveness (`KeepsObserving`, `EventuallyCurrent`, `DepositIsAnswered`): fairness and
  `ENABLED` are out of the provers' reach. Every invariant and action property that
  a passing run checks is also a theorem.

## 7. What is not modelled

* **Node.js submission** (`node_tx.py`, `node_signer.mjs`), **single-model engines**
  (`groq.py`, `gemini.py`): used by nothing.
* **Operator scripts** other than deploy and upgrade (`set_pool.py`, `bin/cli.rs`,
  `test_*.py`): each sends one call `YieldVault` has.
* **`/health`**: reads two fields.
* **Dashboard**: countdown, language, time range of the chart, profile form,
  component library, layout, wording and the look of charts.
* **Prompts, parsing of model answers beyond their outcome, signing and encoding,
  the WASM of the deposit proxy, events of the contracts, logs.**
* **Vendored code** (the RPC client of the Rust command line).

## 8. Plan

Done: the contracts, their deployment and upgrade, the agent, both together, the
dashboard, its wallet and its panel; the proofs of section 6.

Open, in this order:

1. Two pools, with the position carried from one to the other by `set_pool`.
2. `VaultPanel` composed with `YieldVault`, so that a deposit that an alert called
   failed is followed to the claims.
