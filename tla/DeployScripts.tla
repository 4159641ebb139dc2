---------------------------- MODULE DeployScripts ----------------------------
(***************************************************************************)
(* deploy_esteban.mjs and upgrade_contracts.mjs, run one after the other    *)
(* from one account.  Installing a contract binds a named key of the         *)
(* account to its package; the scripts learn the package of what they        *)
(* installed from the keys that are new to them.  A transaction whose        *)
(* script gave up on it may still be executed.                              *)
(***************************************************************************)
EXTENDS Naturals, Sequences, FiniteSets

CONSTANTS
    MaxTx,              \* bound: transactions accepted by the node
    MaxRuns             \* bound: runs of the scripts

ASSUME ScriptsAssumption == MaxTx \in Nat /\ MaxRuns \in Nat

VARIABLES
    txs,                \* external: accepted transactions; a package is the
                        \* index of the transaction that installed it
    named_keys,         \* external: the account's keys, by contract
    pool_address,       \* external: what set_pool left in a vault
    seeds,              \* external: deposits of 200 CSPR in a pool
    versions,           \* external: the version of a package
    runs,
    script, pc,         \* the script under way, and its step
    tx,                 \* the transaction it waits for
    known,              \* the key names it has seen (knownBefore, knownAfterPool)
    pool, vault,        \* the packages it detected
    at_start,           \* history variable: the key names when the run started
    snapshot_lost,      \* history variable: the first query got an error for answer
    completed           \* history variable: the deployments reported complete

chainVars == <<txs, named_keys, pool_address, seeds, versions>>
runVars == <<runs, script, at_start, snapshot_lost>>
detectedVars == <<known, pool, vault>>
deployVars == <<chainVars, runVars, pc, tx, detectedVars, completed>>

None == 0
Packages == 1..MaxTx
Names == {"SimplePool", "YieldVault2"}
Bound == {n \in Names : named_keys[n] # None}

DeployInit ==
    /\ txs = <<>>
    /\ named_keys = [n \in Names |-> None]
    /\ pool_address = [p \in Packages |-> None]
    /\ seeds = [p \in Packages |-> 0]
    /\ versions = [p \in Packages |-> 0]
    /\ runs = 0 /\ script = "none" /\ pc = "idle" /\ tx = None
    /\ known = {} /\ pool = None /\ vault = None
    /\ at_start = {} /\ snapshot_lost = FALSE
    /\ completed = {}

-----------------------------------------------------------------------------
(* The chain *)

Kind(p) == IF p = None THEN "none" ELSE txs[p].kind
Executed(t) == txs[t].fate = "executed"

\* allow_key_override: an installation takes over a name that is already bound.
Install(t, name) ==
    /\ named_keys' = [named_keys EXCEPT ![name] = t]
    /\ versions' = [versions EXCEPT ![t] = 1]
    /\ UNCHANGED <<pool_address, seeds>>

\* is_upgrade: the package is the one the name is bound to.
Upgrade(name) ==
    /\ named_keys[name] # None
    /\ versions' = [versions EXCEPT ![named_keys[name]] = @ + 1]
    /\ UNCHANGED <<named_keys, pool_address, seeds>>

Effect(t) ==
    \/ txs[t].kind = "pool" /\ Install(t, "SimplePool")
    \/ txs[t].kind = "vault" /\ Install(t, "YieldVault2")
    \/ txs[t].kind = "upgrade_pool" /\ Upgrade("SimplePool")
    \/ txs[t].kind = "upgrade_vault" /\ Upgrade("YieldVault2")
    \/ /\ txs[t].kind = "set_pool" /\ Kind(txs[t].package) = "vault"
       /\ pool_address' = [pool_address EXCEPT ![txs[t].package] = txs[t].arg]
       /\ UNCHANGED <<named_keys, seeds, versions>>
    \/ /\ txs[t].kind = "seed" /\ Kind(txs[t].package) = "pool"
       /\ seeds' = [seeds EXCEPT ![txs[t].package] = @ + 1]
       /\ UNCHANGED <<named_keys, pool_address, versions>>

Fate(t, fate) ==
    /\ txs[t].fate = "pending"
    /\ txs' = [txs EXCEPT ![t].fate = fate]
    /\ UNCHANGED <<runVars, pc, tx, detectedVars, completed>>

Execute(t) == Fate(t, "executed") /\ Effect(t)

\* It runs out of gas, or finds no such contract.
Fail(t) == Fate(t, "failed") /\ UNCHANGED <<named_keys, pool_address, seeds, versions>>

-----------------------------------------------------------------------------
(* The steps the scripts are made of *)

\* Any error that is not caught ends the script: FATAL.
Stop == pc' = "idle" /\ script' = "none"

Abort ==
    /\ pc \notin {"idle", "summary", "upgraded"}
    /\ Stop
    /\ UNCHANGED <<chainVars, runs, at_start, snapshot_lost, tx, detectedVars, completed>>

\* putTransaction: accepted, with the answer received or lost.
Send(here, next, kind, package, arg) ==
    /\ pc = here
    /\ Len(txs) < MaxTx
    /\ txs' = Append(txs, [kind |-> kind, package |-> package, arg |-> arg,
                           fate |-> "pending"])
    /\ \/ pc' = next /\ tx' = Len(txs') /\ UNCHANGED script
       \/ Stop /\ UNCHANGED tx
    /\ UNCHANGED <<named_keys, pool_address, seeds, versions, runs, at_start,
                   snapshot_lost, detectedVars, completed>>

\* Mutated form of Confirmed: in a block is good enough.
ConfirmedInBlock(t) == txs[t].fate # "pending"

\* waitForTx: errors of the node are swallowed until the time is up (Abort).
Confirmed(t) == Executed(t)

Wait(here, next) ==
    /\ pc = here
    /\ Confirmed(tx)
    /\ pc' = next
    /\ UNCHANGED <<chainVars, runVars, tx, detectedVars, completed>>

\* Mutated form of NewNames: every key of the account will do.
NewNamesAll == Bound

\* pollForNewKeys, until the time is up (Abort).
NewNames == Bound \ known

\* findHash: the first of the new keys whose name matches; keys come sorted.
Detected(preferred) ==
    IF preferred \in NewNames THEN named_keys[preferred]
    ELSE named_keys[CHOOSE n \in NewNames : TRUE]

-----------------------------------------------------------------------------
(* deploy_esteban.mjs *)

Started(name, first) ==
    /\ pc = "idle"
    /\ runs < MaxRuns
    /\ runs' = runs + 1
    /\ script' = name
    /\ pc' = first
    /\ at_start' = Bound
    /\ snapshot_lost' = FALSE
    /\ tx' = None /\ known' = {}
    /\ UNCHANGED <<chainVars, completed>>

StartDeploy == Started("deploy", "snapshot") /\ pool' = None /\ vault' = None

\* The pool is given on the command line.
StartSeedOnly ==
    \E p \in {t \in DOMAIN txs : Kind(t) = "pool" /\ Executed(t)} :
        Started("seed_only", "send seed") /\ pool' = p /\ vault' = None

\* An error in place of the account reads as an account without keys.
Snapshot ==
    /\ pc = "snapshot"
    /\ known' \in {Bound, {}}
    /\ snapshot_lost' = (known' # Bound)
    /\ pc' = "send pool"
    /\ UNCHANGED <<chainVars, runs, script, at_start, tx, pool, vault, completed>>

DetectPool ==
    /\ pc = "poll pool"
    /\ NewNames # {}
    /\ pool' = Detected("SimplePool")
    /\ known' = Bound
    /\ pc' = "send vault"
    /\ UNCHANGED <<chainVars, runVars, tx, vault, completed>>

DetectVault ==
    /\ pc = "poll vault"
    /\ NewNames # {}
    /\ vault' = Detected("YieldVault2")
    /\ pc' = "send set_pool"
    /\ UNCHANGED <<chainVars, runVars, tx, pool, known, completed>>

\* The summary that main prints; seedOnly and the upgrade print theirs.
Finish ==
    /\ pc \in {"summary", "upgraded"}
    /\ completed' = IF script = "deploy"
                      THEN completed \cup {[pool |-> pool, vault |-> vault]} ELSE completed
    /\ Stop
    /\ UNCHANGED <<chainVars, runs, at_start, snapshot_lost, tx, detectedVars>>

PoolStep ==
    \/ Send("send pool", "wait pool", "pool", None, None)
    \/ Wait("wait pool", "poll pool")
    \/ DetectPool

VaultStep ==
    \/ Send("send vault", "wait vault", "vault", None, None)
    \/ Wait("wait vault", "poll vault")
    \/ DetectVault

SetPoolStep ==
    \/ Send("send set_pool", "wait set_pool", "set_pool", vault, pool)
    \/ Wait("wait set_pool", "send seed")

\* The last step of a deployment, and the only one of --seed-only.
SeedStep ==
    \/ Send("send seed", "wait seed", "seed", pool, None)
    \/ Wait("wait seed", "summary")

DeployStep ==
    \/ StartDeploy \/ StartSeedOnly
    \/ Snapshot \/ PoolStep \/ VaultStep \/ SetPoolStep \/ SeedStep \/ Finish

-----------------------------------------------------------------------------
(* upgrade_contracts.mjs *)

StartUpgrade == Started("upgrade", "send pool upgrade") /\ UNCHANGED <<pool, vault>>

\* UPGRADE COMPLETE.
UpgradeStep ==
    \/ StartUpgrade
    \/ Send("send pool upgrade", "wait pool upgrade", "upgrade_pool", None, None)
    \/ Wait("wait pool upgrade", "send vault upgrade")
    \/ Send("send vault upgrade", "wait vault upgrade", "upgrade_vault", None, None)
    \/ Wait("wait vault upgrade", "upgraded")

DeployNext ==
    \/ DeployStep \/ UpgradeStep \/ Abort
    \/ \E t \in DOMAIN txs : Execute(t) \/ Fail(t)

DeploySpec == DeployInit /\ [][DeployNext]_deployVars

-----------------------------------------------------------------------------
\* What was reported complete is complete and stays so: the vault it names calls
\* the pool it names, which was seeded; no transaction that a script gave up on and
\* no later run, finished or not, takes any of it back.
CompletedStaysWired ==
    \A d \in completed :
        /\ Kind(d.pool) = "pool" /\ Kind(d.vault) = "vault"
        /\ pool_address[d.vault] = d.pool
        /\ seeds[d.pool] > 0

\* A deployment that got as far as the vault cannot be repeated, and one that got
\* as far as the pool only by a query that failed: the installation goes through
\* and is paid for, but its key is not new, and the script waits for it in vain.
RerunsCannotFinish ==
    (script = "deploy" /\ pc = "summary") =>
        /\ "YieldVault2" \notin at_start
        /\ "SimplePool" \in at_start => snapshot_lost

InstalledBesides(p) == \E t \in DOMAIN txs : t # p /\ Kind(t) = Kind(p) /\ Executed(t)

\* A complete upgrade reaches the vault and the pool it calls, unless another one
\* was installed besides, by a run that failed: then the key may lead to a contract
\* that nobody uses.
UpgradeReachesThePair ==
    pc = "upgraded" =>
        \A d \in completed : \A p \in {d.pool, d.vault} :
            versions[p] > 1 \/ InstalledBesides(p)

=============================================================================
