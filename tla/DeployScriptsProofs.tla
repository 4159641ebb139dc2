------------------------ MODULE DeployScriptsProofs ------------------------
(***************************************************************************)
(* For any number of transactions and of runs: what a deployment reported   *)
(* complete stays wired, a deployment that was once done cannot be done     *)
(* again, and a complete upgrade reaches the pair in use or finds another   *)
(* contract installed beside it.                                            *)
(***************************************************************************)
EXTENDS DeployScripts, SequenceTheorems, TLAPS

Kinds == {"pool", "vault", "upgrade_pool", "upgrade_vault", "set_pool", "seed"}
Fates == {"pending", "executed", "failed"}
KindOf == [n \in Names |-> IF n = "SimplePool" THEN "pool" ELSE "vault"]

\* What a package may refer to: a transaction, or nothing.
Refs == {None} \cup DOMAIN txs
Transactions == [kind : Kinds, package : Nat, arg : Nat, fate : Fates]

PoolSteps == {"send pool", "wait pool", "poll pool"}
VaultSteps == {"send vault", "wait vault", "poll vault"}
SeedSteps == {"send seed", "wait seed", "summary"}
WireSteps == {"send set_pool", "wait set_pool"} \cup SeedSteps
UpgradeSteps == {"send pool upgrade", "wait pool upgrade", "send vault upgrade",
                 "wait vault upgrade", "upgraded"}

DeployTypes ==
    /\ txs \in Seq(Transactions) /\ Len(txs) <= MaxTx
    /\ \A t \in DOMAIN txs : txs[t].package \in Refs
    /\ named_keys \in [Names -> Nat]
    /\ pool_address \in [Packages -> Nat]
    /\ seeds \in [Packages -> Nat]
    /\ versions \in [Packages -> Nat]
    /\ tx \in Refs /\ pool \in Refs /\ vault \in Refs
    /\ known \subseteq Names /\ at_start \subseteq Bound
    /\ snapshot_lost \in BOOLEAN
    /\ \A d \in completed : d.pool \in DOMAIN txs /\ d.vault \in DOMAIN txs
    /\ \/ pc = "idle"
       \/ script = "deploy" /\ pc \in {"snapshot"} \cup PoolSteps \cup VaultSteps \cup WireSteps
       \/ script = "seed_only" /\ pc \in SeedSteps
       \/ script = "upgrade" /\ pc \in UpgradeSteps

\* What an execution has left on the chain.
Done(t) ==
    /\ txs[t].kind = "pool" => "SimplePool" \in Bound /\ versions[t] > 0
    /\ txs[t].kind = "vault" => "YieldVault2" \in Bound /\ versions[t] > 0
    /\ txs[t].kind = "set_pool" => pool_address[txs[t].package] = txs[t].arg
    /\ txs[t].kind = "seed" => txs[t].package \in DOMAIN txs /\ seeds[txs[t].package] > 0

\* A name is bound to an executed installation of its kind.
ChainInv ==
    /\ \A n \in Bound : /\ named_keys[n] \in DOMAIN txs /\ Executed(named_keys[n])
                        /\ txs[named_keys[n]].kind = KindOf[n]
    /\ \A t \in DOMAIN txs : Executed(t) => Done(t)

Wires == {t \in DOMAIN txs : txs[t].kind = "set_pool"}
Wire(p, v) == \A t \in Wires : txs[t].package = v /\ txs[t].arg = p
Installed(p, kind) == p \in DOMAIN txs /\ txs[p].kind = kind /\ Executed(p)
Pair(p, v) == Installed(p, "pool") /\ Installed(v, "vault")

\* One vault at most is ever detected, so every call of set_pool is for the same
\* pair: the name of the vault is bound from then on, hence never new again.
WireInv ==
    /\ Wires # {} => "YieldVault2" \in Bound
    /\ completed # {} => "YieldVault2" \in Bound
    /\ \A t, u \in Wires : txs[t].package = txs[u].package /\ txs[t].arg = txs[u].arg
    /\ \A d \in completed : /\ Pair(d.pool, d.vault) /\ Wire(d.pool, d.vault)
                            /\ pool_address[d.vault] = d.pool /\ seeds[d.pool] > 0

NothingWired == Wires = {} /\ completed = {}
PoolWasNew == ~snapshot_lost => "SimplePool" \notin at_start

\* What a deployment has established when it is at its step.
DeployInv ==
    script = "deploy" =>
        /\ pc \in PoolSteps => (~snapshot_lost => at_start \subseteq known)
        /\ pc = "wait pool" => tx \in DOMAIN txs /\ txs[tx].kind = "pool"
        /\ pc = "poll pool" => "SimplePool" \in Bound
        /\ pc \in VaultSteps =>
             /\ "SimplePool" \in known /\ at_start \subseteq known
             /\ "YieldVault2" \notin known =>
                  NothingWired /\ Installed(pool, "pool") /\ PoolWasNew
        /\ pc \in WireSteps =>
             /\ Pair(pool, vault) /\ Wire(pool, vault) /\ "YieldVault2" \in Bound
             /\ "YieldVault2" \notin at_start /\ PoolWasNew
        /\ pc = "send set_pool" => NothingWired
        /\ pc = "wait set_pool" => tx \in Wires
        /\ pc \in SeedSteps => pool_address[vault] = pool
        /\ pc = "wait seed" => /\ tx \in DOMAIN txs
                               /\ txs[tx].kind = "seed" /\ txs[tx].package = pool
        /\ pc = "summary" => seeds[pool] > 0

Reached(p) == versions[p] > 1 \/ InstalledBesides(p)
PoolReached == \A d \in completed : Reached(d.pool)
VaultReached == \A d \in completed : Reached(d.vault)

\* What an upgrade has reached when it is at its step.
UpgradeInv ==
    script = "upgrade" =>
        /\ pc = "wait pool upgrade" =>
             /\ tx \in DOMAIN txs /\ txs[tx].kind = "upgrade_pool"
             /\ Executed(tx) => PoolReached
        /\ pc \in {"send vault upgrade", "wait vault upgrade", "upgraded"} => PoolReached
        /\ pc = "wait vault upgrade" =>
             /\ tx \in DOMAIN txs /\ txs[tx].kind = "upgrade_vault"
             /\ Executed(tx) => VaultReached
        /\ pc = "upgraded" => VaultReached

ScriptsInv == DeployTypes /\ ChainInv /\ WireInv /\ DeployInv /\ UpgradeInv

-----------------------------------------------------------------------------
\* Transactions are numbered from one; none of them is None.
LEMMA Numbered ==
    ASSUME DeployTypes
    PROVE  /\ Len(txs) \in Nat /\ DOMAIN txs = 1..Len(txs) /\ DOMAIN txs \subseteq Packages
           /\ None \notin DOMAIN txs
           /\ \A t \in DOMAIN txs : txs[t] \in Transactions
  BY ScriptsAssumption DEF DeployTypes, Packages, None

\* What it takes for the chain to be as it was, but for more of it.
Grown ==
    /\ DOMAIN txs \subseteq DOMAIN txs'
    /\ \A u \in DOMAIN txs : /\ txs'[u].kind = txs[u].kind
                             /\ txs'[u].package = txs[u].package /\ txs'[u].arg = txs[u].arg
                             /\ Executed(u) => txs'[u].fate = "executed"
    /\ \A p \in Packages : seeds[p] > 0 => seeds'[p] > 0
    /\ \A p \in DOMAIN txs : Executed(p) /\ versions[p] > 1 => versions'[p] > 1

\* An installed contract stays installed, and what was reached stays reached.
LEMMA GrownKeeps ==
    ASSUME Grown, NEW p \in DOMAIN txs, None \notin DOMAIN txs
    PROVE  /\ p \in DOMAIN txs'
           /\ Executed(p) => Executed(p)'
           /\ \A kind \in Kinds : Installed(p, kind) => Installed(p, kind)'
           /\ Executed(p) /\ Reached(p) => Reached(p)'
<1>1. \A u \in DOMAIN txs : /\ u \in DOMAIN txs' /\ txs'[u].kind = txs[u].kind
                            /\ Executed(u) => Executed(u)'
  BY DEF Grown, Executed
<1>2. ASSUME NEW kind \in Kinds, Installed(p, kind) PROVE Installed(p, kind)'
  BY <1>1, <1>2 DEF Installed
<1>3. ASSUME Executed(p), Reached(p) PROVE Reached(p)'
  <2>1. CASE versions[p] > 1
    BY <1>3, <2>1 DEF Grown, Reached
  <2>2. CASE InstalledBesides(p)
    <3>1. PICK t \in DOMAIN txs : t # p /\ Kind(t) = Kind(p) /\ Executed(t)
      BY <2>2 DEF InstalledBesides
    <3>2. \A u \in DOMAIN txs : u # None
      OBVIOUS
    <3>3. \A u \in DOMAIN txs : Kind(u)' = Kind(u)
      BY <1>1, <3>2 DEF Kind
    <3>4. Kind(t)' = Kind(p)' /\ t \in DOMAIN txs' /\ Executed(t)'
      BY <1>1, <3>1, <3>3
    <3>5. InstalledBesides(p)'
      BY <3>1, <3>4 DEF InstalledBesides
    <3> QED BY <3>5 DEF Reached
  <2> QED BY <1>3, <2>1, <2>2 DEF Reached
<1> QED BY <1>1, <1>2, <1>3

-----------------------------------------------------------------------------
(* Execution *)

\* What a transaction's fate changes: its fate.
LEMMA FateStep ==
    ASSUME DeployTypes, NEW t \in DOMAIN txs, NEW fate \in Fates, Fate(t, fate)
    PROVE  /\ txs' \in Seq(Transactions) /\ Len(txs') = Len(txs) /\ DOMAIN txs' = DOMAIN txs
           /\ \A u \in DOMAIN txs : /\ txs'[u].kind = txs[u].kind
                                    /\ txs'[u].package = txs[u].package
                                    /\ txs'[u].arg = txs[u].arg
                                    /\ u # t => txs'[u].fate = txs[u].fate
           /\ txs'[t].fate = fate /\ ~Executed(t)
           /\ UNCHANGED <<script, pc, tx, known, pool, vault, at_start, snapshot_lost,
                          completed>>
<1>1. /\ txs \in Seq(Transactions) /\ t \in 1..Len(txs) /\ DOMAIN txs = 1..Len(txs)
      /\ \A u \in DOMAIN txs : txs[u] \in Transactions
  BY Numbered DEF DeployTypes
<1>2. /\ txs[t].fate = "pending" /\ txs' = [txs EXCEPT ![t].fate = fate]
      /\ UNCHANGED <<script, pc, tx, known, pool, vault, at_start, snapshot_lost, completed>>
  BY DEF Fate, runVars, detectedVars
<1> DEFINE e == [txs[t] EXCEPT !.fate = fate]
<1>3. /\ e \in Transactions /\ e.kind = txs[t].kind /\ e.package = txs[t].package
      /\ e.arg = txs[t].arg /\ e.fate = fate
  BY <1>1 DEF Transactions
<1>4. txs' = [txs EXCEPT ![t] = e]
  BY <1>2
<1> HIDE DEF e
<1>5. /\ txs' \in Seq(Transactions) /\ Len(txs') = Len(txs) /\ DOMAIN txs' = DOMAIN txs
      /\ \A u \in DOMAIN txs : txs'[u] = IF u = t THEN e ELSE txs[u]
  BY <1>1, <1>3, <1>4, ExceptSeq
<1> QED BY <1>2, <1>3, <1>5 DEF Executed

\* What the effect of a transaction leaves of the chain's records.
Kept ==
    /\ named_keys' \in [Names -> Nat] /\ pool_address' \in [Packages -> Nat]
    /\ seeds' \in [Packages -> Nat] /\ versions' \in [Packages -> Nat]
    /\ Bound \subseteq Bound'
    /\ \A p \in Packages : seeds[p] > 0 => seeds'[p] > 0
    /\ \A p, v \in DOMAIN txs : Wire(p, v) /\ pool_address[v] = p => pool_address'[v] = p

\* An installation binds its name, and resets the version of nothing executed.
LEMMA InstallStep ==
    ASSUME ScriptsInv, NEW t \in DOMAIN txs, Fate(t, "executed"), NEW n \in Names,
           Install(t, n), txs[t].kind = KindOf[n]
    PROVE  Grown /\ Kept /\ ChainInv'
<1>1. /\ txs' \in Seq(Transactions) /\ Len(txs') = Len(txs) /\ DOMAIN txs' = DOMAIN txs
      /\ \A u \in DOMAIN txs : /\ txs'[u].kind = txs[u].kind
                               /\ txs'[u].package = txs[u].package
                               /\ txs'[u].arg = txs[u].arg
                               /\ u # t => txs'[u].fate = txs[u].fate
      /\ txs'[t].fate = "executed" /\ ~Executed(t)
  BY FateStep DEF ScriptsInv, Fates
<1>2. /\ named_keys \in [Names -> Nat] /\ versions \in [Packages -> Nat]
      /\ pool_address \in [Packages -> Nat] /\ seeds \in [Packages -> Nat]
      /\ t \in Packages /\ t # None /\ t \in Nat /\ DOMAIN txs \subseteq Packages
  BY Numbered DEF ScriptsInv, DeployTypes
<1>3. /\ named_keys' \in [Names -> Nat] /\ versions' \in [Packages -> Nat]
      /\ named_keys'[n] = t /\ \A m \in Names : m # n => named_keys'[m] = named_keys[m]
      /\ versions'[t] = 1 /\ \A p \in Packages : p # t => versions'[p] = versions[p]
      /\ UNCHANGED <<pool_address, seeds>>
  BY <1>2 DEF Install
<1>4. Bound \subseteq Bound' /\ n \in Bound' /\ \A m \in Bound' : m = n \/ m \in Bound
  BY <1>2, <1>3 DEF Bound
<1>5. Grown
  BY <1>1, <1>2, <1>3 DEF Grown, Executed
<1>6. Kept
  BY <1>2, <1>3, <1>4 DEF Kept
<1>7. \A m \in Bound' : /\ named_keys'[m] \in DOMAIN txs' /\ Executed(named_keys[m])'
                        /\ txs'[named_keys'[m]].kind = KindOf[m]
  <2> TAKE m \in Bound'
  <2>1. CASE m = n
    BY <1>1, <1>3, <2>1 DEF Executed
  <2>2. CASE m # n
    <3>1. m \in Bound /\ m \in Names
      BY <1>4, <2>2 DEF Bound
    <3>2. named_keys[m] \in DOMAIN txs /\ Executed(named_keys[m])
          /\ txs[named_keys[m]].kind = KindOf[m]
      BY <3>1 DEF ScriptsInv, ChainInv
    <3>3. named_keys'[m] = named_keys[m] /\ named_keys[m] # t
      BY <1>1, <1>3, <2>2, <3>1, <3>2
    <3> QED BY <1>1, <3>2, <3>3 DEF Executed
  <2> QED BY <2>1, <2>2
<1>8. ASSUME NEW u \in DOMAIN txs', Executed(u)' PROVE Done(u)'
  <2>1. CASE u = t
    <3>1. txs'[u].kind = KindOf[n] /\ KindOf[n] \in {"pool", "vault"}
          /\ (KindOf[n] = "pool" => n = "SimplePool")
          /\ (KindOf[n] = "vault" => n = "YieldVault2")
      BY <1>1, <2>1 DEF KindOf, Names
    <3> QED BY <1>3, <1>4, <2>1, <3>1 DEF Done
  <2>2. CASE u # t
    <3>1. Executed(u) /\ u \in DOMAIN txs /\ u \in Packages
      BY <1>1, <1>2, <1>8, <2>2 DEF Executed
    <3>2. Done(u)
      BY <3>1 DEF ScriptsInv, ChainInv
    <3> QED BY <1>1, <1>3, <1>4, <2>2, <3>1, <3>2 DEF Done
  <2> QED BY <2>1, <2>2
<1> QED BY <1>5, <1>6, <1>7, <1>8 DEF ChainInv

\* An upgrade adds a version to the package its name is bound to.
LEMMA VersionStep ==
    ASSUME ScriptsInv, NEW t \in DOMAIN txs, Fate(t, "executed"), NEW n \in Names,
           Upgrade(n), txs[t].kind \in {"upgrade_pool", "upgrade_vault"}
    PROVE  /\ Grown /\ Kept /\ ChainInv'
           /\ \A p \in DOMAIN txs : Installed(p, KindOf[n]) => Reached(p)'
<1>1. /\ txs' \in Seq(Transactions) /\ Len(txs') = Len(txs) /\ DOMAIN txs' = DOMAIN txs
      /\ \A u \in DOMAIN txs : /\ txs'[u].kind = txs[u].kind
                               /\ txs'[u].package = txs[u].package
                               /\ txs'[u].arg = txs[u].arg
                               /\ u # t => txs'[u].fate = txs[u].fate
      /\ txs'[t].fate = "executed" /\ ~Executed(t)
  BY FateStep DEF ScriptsInv, Fates
<1>2. /\ named_keys \in [Names -> Nat] /\ versions \in [Packages -> Nat]
      /\ pool_address \in [Packages -> Nat] /\ seeds \in [Packages -> Nat]
      /\ t \in Packages /\ DOMAIN txs \subseteq Packages /\ None \notin DOMAIN txs
  BY Numbered DEF ScriptsInv, DeployTypes
<1>3. n \in Bound
  BY DEF Upgrade, Bound
<1>4. PICK q \in DOMAIN txs : /\ q = named_keys[n] /\ q \in Packages
                              /\ Executed(q) /\ txs[q].kind = KindOf[n]
  BY <1>2, <1>3 DEF ScriptsInv, ChainInv
<1>5. /\ versions' = [versions EXCEPT ![q] = versions[q] + 1]
      /\ UNCHANGED <<named_keys, pool_address, seeds>>
  BY <1>4 DEF Upgrade
<1>6. /\ versions' \in [Packages -> Nat] /\ versions'[q] = versions[q] + 1
      /\ \A p \in Packages : p # q => versions'[p] = versions[p]
      /\ \A p \in Packages : versions[p] \in Nat /\ versions'[p] >= versions[p]
  BY <1>2, <1>4, <1>5
<1>7. Bound' = Bound
  BY <1>5 DEF Bound
<1>8. Grown
  <2>1. \A p \in DOMAIN txs : Executed(p) /\ versions[p] > 1 => versions'[p] > 1
    BY <1>2, <1>6
  <2> QED BY <1>1, <1>5, <2>1 DEF Grown, Executed
<1>9. Kept
  BY <1>2, <1>5, <1>6, <1>7 DEF Kept
<1>10. \A u \in DOMAIN txs' : Executed(u)' => Done(u)'
  <2> SUFFICES ASSUME NEW u \in DOMAIN txs', Executed(u)' PROVE Done(u)'
    OBVIOUS
  <2>1. CASE u = t
    BY <1>1, <2>1 DEF Done
  <2>2. CASE u # t
    <3>1. Executed(u) /\ u \in DOMAIN txs /\ u \in Packages
      BY <1>1, <1>2, <2>2 DEF Executed
    <3>2. Done(u)
      BY <3>1 DEF ScriptsInv, ChainInv
    <3> QED BY <1>1, <1>5, <1>6, <1>7, <3>1, <3>2 DEF Done
  <2> QED BY <2>1, <2>2
<1>11. \A m \in Bound' : /\ named_keys'[m] \in DOMAIN txs' /\ Executed(named_keys[m])'
                         /\ txs'[named_keys'[m]].kind = KindOf[m]
  <2> TAKE m \in Bound'
  <2>1. named_keys[m] \in DOMAIN txs /\ Executed(named_keys[m])
        /\ txs[named_keys[m]].kind = KindOf[m]
    BY <1>7 DEF ScriptsInv, ChainInv
  <2> QED BY <1>1, <1>5, <2>1 DEF Executed
<1>12. ASSUME NEW p \in DOMAIN txs, Installed(p, KindOf[n]) PROVE Reached(p)'
  <2>1. CASE p = q
    <3>1. KindOf[n] \in {"pool", "vault"}
      BY DEF KindOf
    <3>2. versions[q] > 0
      BY <1>4, <3>1 DEF ScriptsInv, ChainInv, Done
    <3>3. versions'[q] > 1
      BY <1>4, <1>6, <3>2
    <3> QED BY <2>1, <3>3 DEF Reached
  <2>2. CASE p # q
    <3>1. Kind(q)' = Kind(p)'
      BY <1>1, <1>2, <1>4, <1>12 DEF Kind, Installed
    <3>2. q \in DOMAIN txs' /\ Executed(q)'
      BY <1>1, <1>4 DEF Executed
    <3> QED BY <2>2, <3>1, <3>2 DEF Reached, InstalledBesides
  <2> QED BY <2>1, <2>2
<1> QED BY <1>8, <1>9, <1>10, <1>11, <1>12 DEF ChainInv

\* A call of set_pool leaves its argument in the vault; a deposit seeds the pool.
LEMMA CallStep ==
    ASSUME ScriptsInv, NEW t \in DOMAIN txs, Fate(t, "executed"),
           UNCHANGED <<named_keys, versions>>,
           \/ /\ txs[t].kind = "set_pool" /\ Kind(txs[t].package) = "vault"
              /\ pool_address' = [pool_address EXCEPT ![txs[t].package] = txs[t].arg]
              /\ UNCHANGED seeds
           \/ /\ txs[t].kind = "seed" /\ Kind(txs[t].package) = "pool"
              /\ seeds' = [seeds EXCEPT ![txs[t].package] = @ + 1]
              /\ UNCHANGED pool_address
    PROVE  Grown /\ Kept /\ ChainInv'
<1> DEFINE q == txs[t].package
           a == txs[t].arg
<1>1. /\ txs' \in Seq(Transactions) /\ Len(txs') = Len(txs) /\ DOMAIN txs' = DOMAIN txs
      /\ \A u \in DOMAIN txs : /\ txs'[u].kind = txs[u].kind
                               /\ txs'[u].package = txs[u].package
                               /\ txs'[u].arg = txs[u].arg
                               /\ u # t => txs'[u].fate = txs[u].fate
      /\ txs'[t].fate = "executed" /\ ~Executed(t)
  BY FateStep DEF ScriptsInv, Fates
<1>2. /\ named_keys \in [Names -> Nat] /\ versions \in [Packages -> Nat]
      /\ pool_address \in [Packages -> Nat] /\ seeds \in [Packages -> Nat]
      /\ DOMAIN txs \subseteq Packages /\ None \notin DOMAIN txs
      /\ \A u \in DOMAIN txs : txs[u].package \in Refs
      /\ \A u \in DOMAIN txs : txs[u].arg \in Nat
  BY Numbered DEF ScriptsInv, DeployTypes, Transactions
<1>3. q \in DOMAIN txs /\ q \in Packages
  BY <1>2 DEF Kind, Refs
<1>4. /\ pool_address' \in [Packages -> Nat] /\ seeds' \in [Packages -> Nat]
      /\ \A p \in Packages : seeds[p] \in Nat /\ seeds'[p] >= seeds[p]
      /\ txs[t].kind = "seed" => seeds'[q] > 0
      /\ txs[t].kind = "set_pool" => pool_address'[q] = a
      /\ txs[t].kind # "set_pool" => pool_address' = pool_address
      /\ \A p \in Packages : p # q => pool_address'[p] = pool_address[p]
  BY <1>2, <1>3
<1>5. Bound' = Bound
  BY DEF Bound
<1>6. \A u \in DOMAIN txs : txs[u].kind = "set_pool" /\ txs[t].kind = "set_pool"
                              => txs[u].package = q /\ txs[u].arg = a
  BY DEF ScriptsInv, WireInv, Wires
<1>7. \A p, v \in DOMAIN txs : Wire(p, v) /\ pool_address[v] = p => pool_address'[v] = p
  BY <1>2, <1>4 DEF Wire, Wires
<1> HIDE DEF q, a
<1>8. Grown
  <2>1. \A p \in Packages : seeds[p] > 0 => seeds'[p] > 0
    BY <1>4
  <2>2. \A p \in DOMAIN txs : Executed(p) /\ versions[p] > 1 => versions'[p] > 1
    OBVIOUS
  <2> QED BY <1>1, <2>1, <2>2 DEF Grown, Executed
<1>9. Kept
  BY <1>2, <1>4, <1>5, <1>7 DEF Kept
<1>10. \A u \in DOMAIN txs' : Executed(u)' => Done(u)'
  <2> SUFFICES ASSUME NEW u \in DOMAIN txs', Executed(u)' PROVE Done(u)'
    OBVIOUS
  <2>1. CASE u = t
    BY <1>1, <1>3, <1>4, <2>1 DEF Done, q, a
  <2>2. CASE u # t
    <3>1. Executed(u) /\ u \in DOMAIN txs /\ u \in Packages
      BY <1>1, <1>2, <2>2 DEF Executed
    <3>2. Done(u)
      BY <3>1 DEF ScriptsInv, ChainInv
    <3>3. txs[u].kind = "seed" => txs[u].package \in DOMAIN txs /\ seeds'[txs[u].package] > 0
      <4>1. txs[u].kind = "seed" => txs[u].package \in Packages
        BY <1>2, <3>1, <3>2 DEF Done
      <4> QED BY <1>4, <3>2, <4>1 DEF Done
    <3>4. txs[u].kind = "set_pool" => pool_address'[txs[u].package] = txs[u].arg
      BY <1>4, <1>6, <3>1, <3>2 DEF Done
    <3> QED BY <1>1, <1>5, <3>1, <3>2, <3>3, <3>4 DEF Done
  <2> QED BY <2>1, <2>2
<1>11. \A m \in Bound' : /\ named_keys'[m] \in DOMAIN txs' /\ Executed(named_keys[m])'
                         /\ txs'[named_keys'[m]].kind = KindOf[m]
  <2> TAKE m \in Bound'
  <2>1. named_keys[m] \in DOMAIN txs /\ Executed(named_keys[m])
        /\ txs[named_keys[m]].kind = KindOf[m]
    BY <1>5 DEF ScriptsInv, ChainInv
  <2> QED BY <1>1, <2>1 DEF Executed
<1> QED BY <1>8, <1>9, <1>10, <1>11 DEF ChainInv

\* Its fate known, the script is where it was, and so is what it established.
LEMMA ScriptKeeps ==
    ASSUME ScriptsInv, NEW t \in DOMAIN txs, NEW fate \in Fates, Fate(t, fate), Grown, Kept,
           /\ fate = "executed" /\ txs[t].kind = "upgrade_pool"
                => \A p \in DOMAIN txs : Installed(p, "pool") => Reached(p)'
           /\ fate = "executed" /\ txs[t].kind = "upgrade_vault"
                => \A p \in DOMAIN txs : Installed(p, "vault") => Reached(p)'
    PROVE  DeployTypes' /\ WireInv' /\ DeployInv' /\ UpgradeInv'
<1>1. /\ txs' \in Seq(Transactions) /\ Len(txs') = Len(txs) /\ DOMAIN txs' = DOMAIN txs
      /\ \A u \in DOMAIN txs : /\ txs'[u].kind = txs[u].kind
                               /\ txs'[u].package = txs[u].package
                               /\ txs'[u].arg = txs[u].arg
                               /\ u # t => txs'[u].fate = txs[u].fate
      /\ txs'[t].fate = fate
      /\ UNCHANGED <<script, pc, tx, known, pool, vault, at_start, snapshot_lost, completed>>
  BY FateStep DEF ScriptsInv
<1>2. None \notin DOMAIN txs /\ DOMAIN txs \subseteq Packages
  BY Numbered DEF ScriptsInv
<1>3. Refs' = Refs /\ Wires' = Wires
  BY <1>1 DEF Refs, Wires
<1>4. DeployTypes'
  BY <1>1, <1>3 DEF ScriptsInv, DeployTypes, Kept
<1>5. \A p, v : Wire(p, v) => Wire(p, v)'
  BY <1>1, <1>3 DEF Wire, Wires
<1>6. \A p \in DOMAIN txs, kind \in Kinds : Installed(p, kind) => Installed(p, kind)'
  BY <1>2, GrownKeeps
<1>7. \A p, v : Pair(p, v) => /\ p \in DOMAIN txs /\ v \in DOMAIN txs
                              /\ Pair(p, v)' /\ Installed(p, "pool") /\ Installed(v, "vault")
  BY <1>6 DEF Pair, Installed, Kinds
<1>8. \A p \in DOMAIN txs : Executed(p) /\ Reached(p) => Reached(p)'
  BY <1>2, GrownKeeps
<1>9. \A d \in completed : Pair(d.pool, d.vault)
  BY DEF ScriptsInv, WireInv
<1>10. WireInv'
  <2>1. /\ Wires # {} => "YieldVault2" \in Bound'
        /\ completed # {} => "YieldVault2" \in Bound'
    BY DEF ScriptsInv, WireInv, Kept
  <2>2. \A u, w \in Wires : txs'[u].package = txs'[w].package /\ txs'[u].arg = txs'[w].arg
    BY <1>1 DEF ScriptsInv, WireInv, Wires
  <2>3. ASSUME NEW d \in completed
        PROVE  /\ Pair(d.pool, d.vault)' /\ Wire(d.pool, d.vault)'
               /\ pool_address'[d.vault] = d.pool /\ seeds'[d.pool] > 0
    <3>1. /\ Pair(d.pool, d.vault) /\ Wire(d.pool, d.vault)
          /\ pool_address[d.vault] = d.pool /\ seeds[d.pool] > 0
      BY DEF ScriptsInv, WireInv
    <3>2. d.pool \in DOMAIN txs /\ d.vault \in DOMAIN txs /\ Pair(d.pool, d.vault)'
      BY <1>7, <3>1
    <3>3. Wire(d.pool, d.vault)'
      BY <1>5, <3>1
    <3> QED BY <1>2, <3>1, <3>2, <3>3 DEF Kept
  <2> QED BY <1>1, <1>3, <2>1, <2>2, <2>3 DEF WireInv
<1>11. DeployInv'
  <2> SUFFICES ASSUME script = "deploy" PROVE DeployInv'
    BY <1>1 DEF DeployInv
  <2>1. "SimplePool" \in Bound => "SimplePool" \in Bound'
    BY DEF Kept
  <2>2. "YieldVault2" \in Bound => "YieldVault2" \in Bound'
    BY DEF Kept
  <2>3. PoolWasNew' <=> PoolWasNew
    BY <1>1 DEF PoolWasNew
  <2>4. NothingWired' <=> NothingWired
    BY <1>1, <1>3 DEF NothingWired
  <2>5. /\ Installed(pool, "pool") => Installed(pool, "pool")'
        /\ Pair(pool, vault) => Pair(pool, vault)' /\ (Wire(pool, vault) => Wire(pool, vault)')
    <3>1. Installed(pool, "pool") => Installed(pool, "pool")'
      BY <1>1, <1>6 DEF Installed, Kinds, Executed
    <3>2. Pair(pool, vault) => Pair(pool, vault)'
      BY <1>1, <1>7 DEF Pair, Installed, Executed
    <3>3. Wire(pool, vault) => Wire(pool, vault)'
      BY <1>1, <1>3 DEF Wire, Wires
    <3> QED BY <3>1, <3>2, <3>3
  <2>6. Pair(pool, vault) /\ Wire(pool, vault) =>
          /\ pool_address[vault] = pool => pool_address'[vault] = pool
          /\ seeds[pool] > 0 => seeds'[pool] > 0
    BY <1>2, <1>7 DEF Kept
  <2>7. SeedSteps \subseteq WireSteps /\ "summary" \in SeedSteps
    BY DEF WireSteps, SeedSteps
  <2> QED BY <1>1, <1>3, <2>1, <2>2, <2>3, <2>4, <2>5, <2>6, <2>7 DEF ScriptsInv, DeployInv
<1>12. UpgradeInv'
  <2>1. PoolReached => PoolReached'
    BY <1>1, <1>7, <1>8, <1>9 DEF PoolReached, Installed
  <2>2. VaultReached => VaultReached'
    BY <1>1, <1>7, <1>8, <1>9 DEF VaultReached, Installed
  <2>3. txs[t].kind = "upgrade_pool" /\ fate = "executed" => PoolReached'
    BY <1>1, <1>7, <1>9 DEF PoolReached
  <2>4. txs[t].kind = "upgrade_vault" /\ fate = "executed" => VaultReached'
    BY <1>1, <1>7, <1>9 DEF VaultReached
  <2>5. tx \in DOMAIN txs /\ Executed(tx)' => Executed(tx) \/ (tx = t /\ fate = "executed")
    BY <1>1 DEF Executed
  <2> QED BY <1>1, <2>1, <2>2, <2>3, <2>4, <2>5 DEF ScriptsInv, UpgradeInv
<1> QED BY <1>4, <1>10, <1>11, <1>12

\* A transaction is executed: whatever the script and whichever it waits for.
LEMMA ExecuteKeeps ==
    ASSUME ScriptsInv, NEW t \in DOMAIN txs, Execute(t) PROVE ScriptsInv'
<1>1. Fate(t, "executed") /\ Effect(t) /\ "executed" \in Fates
  BY DEF Execute, Fates
<1>2. /\ "SimplePool" \in Names /\ "YieldVault2" \in Names
      /\ KindOf["SimplePool"] = "pool" /\ KindOf["YieldVault2"] = "vault"
  BY DEF Names, KindOf
<1>3. ASSUME Grown, Kept, ChainInv',
             txs[t].kind = "upgrade_pool"
               => \A p \in DOMAIN txs : Installed(p, "pool") => Reached(p)',
             txs[t].kind = "upgrade_vault"
               => \A p \in DOMAIN txs : Installed(p, "vault") => Reached(p)'
      PROVE  ScriptsInv'
  BY <1>1, <1>3, ScriptKeeps DEF ScriptsInv
<1>4. CASE txs[t].kind = "pool" /\ Install(t, "SimplePool")
  BY <1>1, <1>2, <1>3, <1>4, InstallStep
<1>5. CASE txs[t].kind = "vault" /\ Install(t, "YieldVault2")
  BY <1>1, <1>2, <1>3, <1>5, InstallStep
<1>6. CASE txs[t].kind = "upgrade_pool" /\ Upgrade("SimplePool")
  BY <1>1, <1>2, <1>3, <1>6, VersionStep
<1>7. CASE txs[t].kind = "upgrade_vault" /\ Upgrade("YieldVault2")
  BY <1>1, <1>2, <1>3, <1>7, VersionStep
<1>8. CASE /\ txs[t].kind = "set_pool" /\ Kind(txs[t].package) = "vault"
           /\ pool_address' = [pool_address EXCEPT ![txs[t].package] = txs[t].arg]
           /\ UNCHANGED <<named_keys, seeds, versions>>
  BY <1>1, <1>3, <1>8, CallStep
<1>9. CASE /\ txs[t].kind = "seed" /\ Kind(txs[t].package) = "pool"
           /\ seeds' = [seeds EXCEPT ![txs[t].package] = @ + 1]
           /\ UNCHANGED <<named_keys, pool_address, versions>>
  BY <1>1, <1>3, <1>9, CallStep
<1> QED BY <1>1, <1>4, <1>5, <1>6, <1>7, <1>8, <1>9 DEF Effect

\* It fails: nothing has changed on the chain.
LEMMA FailKeeps ==
    ASSUME ScriptsInv, NEW t \in DOMAIN txs, Fail(t) PROVE ScriptsInv'
<1>1. Fate(t, "failed") /\ UNCHANGED <<named_keys, pool_address, seeds, versions>>
      /\ "failed" \in Fates
  BY DEF Fail, Fates
<1>2. /\ DOMAIN txs' = DOMAIN txs
      /\ \A u \in DOMAIN txs : /\ txs'[u].kind = txs[u].kind
                               /\ txs'[u].package = txs[u].package
                               /\ txs'[u].arg = txs[u].arg
                               /\ u # t => txs'[u].fate = txs[u].fate
      /\ txs'[t].fate = "failed" /\ ~Executed(t)
  BY <1>1, FateStep DEF ScriptsInv
<1>3. Bound' = Bound
  BY <1>1 DEF Bound
<1>4. \A u \in DOMAIN txs : Executed(u)' <=> Executed(u)
  BY <1>2 DEF Executed
<1>5. Grown
  BY <1>1, <1>2 DEF Grown, Executed
<1>6. Kept
  BY <1>1, <1>3 DEF Kept, ScriptsInv, DeployTypes
<1>7. ChainInv'
  <2>1. \A u \in DOMAIN txs : Done(u) => Done(u)'
    BY <1>1, <1>2, <1>3 DEF Done
  <2>2. \A m \in Bound' : /\ named_keys'[m] \in DOMAIN txs' /\ Executed(named_keys[m])'
                          /\ txs'[named_keys'[m]].kind = KindOf[m]
    <3> TAKE m \in Bound'
    <3>1. named_keys[m] \in DOMAIN txs /\ Executed(named_keys[m])
          /\ txs[named_keys[m]].kind = KindOf[m]
      BY <1>3 DEF ScriptsInv, ChainInv
    <3> QED BY <1>1, <1>2, <3>1 DEF Executed
  <2> QED BY <1>2, <1>4, <2>1, <2>2 DEF ScriptsInv, ChainInv
<1> QED BY <1>1, <1>5, <1>6, <1>7, ScriptKeeps DEF ScriptsInv

-----------------------------------------------------------------------------
(* Submission *)

\* One more transaction, pending; the script waits for it or has given up.
Submitted(n, here, next, kind, package, arg) ==
    /\ txs' \in Seq(Transactions) /\ Len(txs') <= MaxTx
    /\ n \notin DOMAIN txs /\ DOMAIN txs' = DOMAIN txs \cup {n}
    /\ \A u \in DOMAIN txs : txs'[u] = txs[u]
    /\ txs'[n].kind = kind /\ txs'[n].package = package /\ txs'[n].arg = arg
    /\ txs'[n].fate = "pending"
    /\ UNCHANGED <<named_keys, pool_address, seeds, versions, known, pool, vault,
                   at_start, snapshot_lost, completed>>
    /\ pc = here
    /\ \/ pc' = next /\ tx' = n /\ script' = script
       \/ pc' = "idle" /\ script' = "none" /\ tx' = tx

\* That is what a submission does.
LEMMA SendFacts ==
    ASSUME ScriptsInv, NEW here, NEW next, NEW kind \in Kinds, NEW package \in Refs,
           NEW arg \in Nat, Send(here, next, kind, package, arg)
    PROVE  \E n \in DOMAIN txs' : Submitted(n, here, next, kind, package, arg)
<1> DEFINE e == [kind |-> kind, package |-> package, arg |-> arg, fate |-> "pending"]
           l == Len(txs) + 1
<1>1. /\ txs \in Seq(Transactions) /\ Len(txs) \in Nat /\ DOMAIN txs = 1..Len(txs)
      /\ DOMAIN txs \subseteq Packages
  BY Numbered DEF ScriptsInv, DeployTypes
<1>2. package \in Nat
  BY <1>1 DEF Refs, None
<1>3. e \in Transactions /\ e.kind = kind /\ e.package = package /\ e.arg = arg
      /\ e.fate = "pending"
  BY <1>2 DEF Transactions, Fates
<1>4. /\ txs' = Append(txs, e) /\ Len(txs) < MaxTx /\ pc = here
      /\ \/ pc' = next /\ tx' = Len(txs') /\ script' = script
         \/ pc' = "idle" /\ script' = "none" /\ tx' = tx
      /\ UNCHANGED <<named_keys, pool_address, seeds, versions, known, pool, vault,
                     at_start, snapshot_lost, completed>>
  BY DEF Send, Stop, detectedVars
<1> HIDE DEF e
<1>5. /\ txs' \in Seq(Transactions) /\ Len(txs') = l
      /\ \A u \in 1..Len(txs) : txs'[u] = txs[u]
      /\ txs'[l] = e
  BY <1>1, <1>3, <1>4, AppendProperties
<1>6. /\ l \notin DOMAIN txs /\ DOMAIN txs' = DOMAIN txs \cup {l} /\ l <= MaxTx
  BY <1>1, <1>4, <1>5, ScriptsAssumption
<1> HIDE DEF l
<1> QED BY <1>1, <1>3, <1>4, <1>5, <1>6 DEF Submitted

\* What is on the chain stays there.
LEMMA SendGrows ==
    ASSUME ScriptsInv, NEW n \in DOMAIN txs', n \notin DOMAIN txs,
           DOMAIN txs' = DOMAIN txs \cup {n}, \A u \in DOMAIN txs : txs'[u] = txs[u],
           txs'[n].fate = "pending",
           UNCHANGED <<named_keys, pool_address, seeds, versions, completed>>
    PROVE  /\ Grown /\ ChainInv' /\ Bound' = Bound /\ Refs \subseteq Refs'
           /\ Wires' = IF txs'[n].kind = "set_pool" THEN Wires \cup {n} ELSE Wires
           /\ \A p, kind : Installed(p, kind) => Installed(p, kind)'
           /\ PoolReached => PoolReached'
           /\ VaultReached => VaultReached'
<1>1. Bound' = Bound
  BY DEF Bound
<1>2. Grown
  BY DEF Grown, Executed
<1>3. \A u \in DOMAIN txs' : Executed(u)' <=> u \in DOMAIN txs /\ Executed(u)
  BY DEF Executed
<1>4. ASSUME NEW u \in DOMAIN txs, Done(u) PROVE Done(u)'
  BY <1>1, <1>4 DEF Done
<1>5. \A m \in Bound' : /\ named_keys'[m] \in DOMAIN txs' /\ Executed(named_keys[m])'
                        /\ txs'[named_keys'[m]].kind = KindOf[m]
  <2> TAKE m \in Bound'
  <2>1. named_keys[m] \in DOMAIN txs /\ Executed(named_keys[m])
        /\ txs[named_keys[m]].kind = KindOf[m]
    BY <1>1 DEF ScriptsInv, ChainInv
  <2> QED BY <2>1 DEF Executed
<1>6. ChainInv'
  BY <1>3, <1>4, <1>5 DEF ScriptsInv, ChainInv
<1>7. Wires' = IF txs'[n].kind = "set_pool" THEN Wires \cup {n} ELSE Wires
  BY DEF Wires
<1>8. \A p, kind : Installed(p, kind) => Installed(p, kind)'
  BY DEF Installed, Executed
<1>9. \A p \in DOMAIN txs : Executed(p) /\ Reached(p) => Reached(p)'
  BY <1>2, GrownKeeps, Numbered DEF ScriptsInv
<1>10. \A d \in completed : /\ d.pool \in DOMAIN txs /\ Executed(d.pool)
                            /\ d.vault \in DOMAIN txs /\ Executed(d.vault)
  BY DEF ScriptsInv, WireInv, Pair, Installed
<1>11. (PoolReached => PoolReached') /\ (VaultReached => VaultReached')
  BY <1>9, <1>10 DEF PoolReached, VaultReached
<1> QED BY <1>1, <1>2, <1>6, <1>7, <1>8, <1>11 DEF Refs

\* The submissions of the scripts.
Submission(here, next, kind, package, arg) ==
    \/ here = "send pool" /\ next = "wait pool" /\ kind = "pool"
    \/ here = "send vault" /\ next = "wait vault" /\ kind = "vault"
    \/ /\ here = "send set_pool" /\ next = "wait set_pool" /\ kind = "set_pool"
       /\ package = vault /\ arg = pool
    \/ here = "send seed" /\ next = "wait seed" /\ kind = "seed" /\ package = pool
    \/ here = "send pool upgrade" /\ next = "wait pool upgrade" /\ kind = "upgrade_pool"
    \/ /\ here = "send vault upgrade" /\ next = "wait vault upgrade"
       /\ kind = "upgrade_vault"

\* A submission: what the script established before it is still so.
LEMMA SendKeeps ==
    ASSUME ScriptsInv, NEW here, NEW next, NEW kind \in Kinds, NEW package \in Refs,
           NEW arg \in Nat, Send(here, next, kind, package, arg),
           Submission(here, next, kind, package, arg)
    PROVE  ScriptsInv'
<1>1. PICK n \in DOMAIN txs' : Submitted(n, here, next, kind, package, arg)
  BY SendFacts
<1> USE DEF Submitted
<1>2. /\ Grown /\ ChainInv' /\ Bound' = Bound /\ Refs \subseteq Refs'
      /\ Wires' = IF kind = "set_pool" THEN Wires \cup {n} ELSE Wires
      /\ \A p, k : Installed(p, k) => Installed(p, k)'
      /\ PoolReached => PoolReached'
      /\ VaultReached => VaultReached'
  BY <1>1, SendGrows
<1>3. \A p, v : Pair(p, v) => Pair(p, v)'
  BY <1>2 DEF Pair
<1>3a. \A u \in Wires : u \in DOMAIN txs /\ txs'[u] = txs[u]
  BY <1>1 DEF Wires
<1>4. kind # "set_pool" => /\ \A p, v : Wire(p, v) => Wire(p, v)'
                           /\ NothingWired => NothingWired'
                           /\ Wires' = Wires
  BY <1>1, <1>2, <1>3a DEF Wire, NothingWired
<1>5. kind = "set_pool" => NothingWired /\ script = "deploy" /\ pc = "send set_pool"
  BY <1>1 DEF Submission, ScriptsInv, DeployInv, DeployTypes, SeedSteps, UpgradeSteps
<1>6. kind = "set_pool" => /\ Wires' = {n} /\ completed' = {} /\ Wire(pool, vault)'
                           /\ txs'[n].package = vault /\ txs'[n].arg = pool
  BY <1>1, <1>2, <1>5 DEF Submission, Wire, NothingWired
<1>7. DeployTypes'
  <2>1. \A t \in DOMAIN txs' : txs'[t].package \in Refs'
    BY <1>1, <1>2 DEF ScriptsInv, DeployTypes
  <2>2. tx' \in Refs' /\ pool' \in Refs' /\ vault' \in Refs'
    BY <1>1, <1>2 DEF ScriptsInv, DeployTypes, Refs
  <2>3. \/ pc' = "idle"
        \/ /\ script' = "deploy"
           /\ pc' \in {"snapshot"} \cup PoolSteps \cup VaultSteps \cup WireSteps
        \/ script' = "seed_only" /\ pc' \in SeedSteps
        \/ script' = "upgrade" /\ pc' \in UpgradeSteps
    BY <1>1 DEF Submission, ScriptsInv, DeployTypes, PoolSteps, VaultSteps, WireSteps,
                SeedSteps, UpgradeSteps
  <2>4. /\ named_keys' \in [Names -> Nat] /\ pool_address' \in [Packages -> Nat]
        /\ seeds' \in [Packages -> Nat] /\ versions' \in [Packages -> Nat]
        /\ known' \subseteq Names /\ at_start' \subseteq Bound' /\ snapshot_lost' \in BOOLEAN
        /\ \A d \in completed' : d.pool \in DOMAIN txs' /\ d.vault \in DOMAIN txs'
    BY <1>1, <1>2 DEF ScriptsInv, DeployTypes
  <2> QED BY <1>1, <2>1, <2>2, <2>3, <2>4 DEF DeployTypes
<1>8. WireInv'
  <2>1. CASE kind = "set_pool"
    <3>1. "YieldVault2" \in Bound
      BY <1>5, <2>1 DEF ScriptsInv, DeployInv, WireSteps
    <3> QED BY <1>2, <1>6, <2>1, <3>1 DEF WireInv
  <2>2. CASE kind # "set_pool"
    <3>1. \A u, w \in Wires : txs'[u].package = txs'[w].package /\ txs'[u].arg = txs'[w].arg
      BY <1>3a DEF ScriptsInv, WireInv
    <3>2. \A d \in completed : /\ Pair(d.pool, d.vault)' /\ Wire(d.pool, d.vault)'
                               /\ pool_address[d.vault] = d.pool /\ seeds[d.pool] > 0
      BY <1>3, <1>4, <2>2 DEF ScriptsInv, WireInv
    <3> QED BY <1>1, <1>2, <1>4, <2>2, <3>1, <3>2 DEF ScriptsInv, WireInv
  <2> QED BY <2>1, <2>2
<1>9. DeployInv'
  <2> SUFFICES ASSUME script' = "deploy" PROVE DeployInv'
    BY DEF DeployInv
  <2>1. pc' = next /\ tx' = n /\ script = "deploy" /\ pc = here
    BY <1>1
  <2>2. PoolWasNew' <=> PoolWasNew
    BY <1>1 DEF PoolWasNew
  <2>3. /\ Pair(pool, vault) => Pair(pool, vault)'
        /\ Installed(pool, "pool") => Installed(pool, "pool")'
    <3>2. Pair(pool, vault) => Pair(pool, vault)'
      BY <1>1, <1>2 DEF Pair, Installed, Executed
    <3>3. Installed(pool, "pool") => Installed(pool, "pool")'
      BY <1>1, <1>2 DEF Installed, Executed
    <3> QED BY <3>2, <3>3
  <2>4. kind # "set_pool" => (Wire(pool, vault) => Wire(pool, vault)')
    <3>1. pool' = pool /\ vault' = vault
      BY <1>1
    <3> QED BY <1>4, <1>3a, <3>1 DEF Wire
  <2>5. CASE here = "send pool"
    BY <1>1, <2>1, <2>5
       DEF Submission, ScriptsInv, DeployInv, PoolSteps, VaultSteps, WireSteps, SeedSteps
  <2>6. CASE here = "send vault"
    BY <1>1, <1>4, <2>1, <2>2, <2>3, <2>6
       DEF Submission, ScriptsInv, DeployInv, PoolSteps, VaultSteps, WireSteps, SeedSteps
  <2>7. CASE here = "send set_pool"
    BY <1>1, <1>2, <1>6, <2>1, <2>2, <2>3, <2>7
       DEF Submission, ScriptsInv, DeployInv, PoolSteps, VaultSteps, WireSteps, SeedSteps
  <2>8. CASE here = "send seed"
    BY <1>1, <1>2, <2>1, <2>2, <2>3, <2>4, <2>8
       DEF Submission, ScriptsInv, DeployInv, PoolSteps, VaultSteps, WireSteps, SeedSteps
  <2>9. CASE here \in {"send pool upgrade", "send vault upgrade"}
    BY <2>1, <2>9
       DEF Submission, ScriptsInv, DeployTypes, PoolSteps, VaultSteps, WireSteps, SeedSteps
  <2> QED BY <2>5, <2>6, <2>7, <2>8, <2>9 DEF Submission
<1>10. UpgradeInv'
  <2>1. ~Executed(n)'
    BY <1>1 DEF Executed
  <2>2. script' = "upgrade" => /\ pc' = next /\ tx' = n /\ script = "upgrade" /\ pc = here
                               /\ ~Executed(tx)'
    BY <1>1 DEF Executed
  <2> QED BY <1>1, <1>2, <2>2 DEF Submission, ScriptsInv, UpgradeInv
<1> QED BY <1>2, <1>7, <1>8, <1>9, <1>10 DEF ScriptsInv

-----------------------------------------------------------------------------
(* The steps that send nothing *)

\* With the chain as it was, so is all that is said of it.
LEMMA ChainStays ==
    ASSUME UNCHANGED <<chainVars>>
    PROVE  /\ UNCHANGED <<txs, named_keys, pool_address, seeds, versions>>
           /\ Bound' = Bound /\ Refs' = Refs /\ Wires' = Wires
           /\ ChainInv => ChainInv'
           /\ \A p, kind : Installed(p, kind) => Installed(p, kind)'
           /\ \A p, v : Pair(p, v) => Pair(p, v)'
           /\ \A p, v : Wire(p, v) => Wire(p, v)'
           /\ \A t : Executed(t)' <=> Executed(t)
           /\ \A p : Reached(p) => Reached(p)'
<1>1. UNCHANGED <<txs, named_keys, pool_address, seeds, versions>>
  BY DEF chainVars
<1>2. Bound' = Bound /\ Refs' = Refs /\ Wires' = Wires
  BY <1>1 DEF Bound, Refs, Wires
<1>3. \A t : Executed(t)' <=> Executed(t)
  BY <1>1 DEF Executed
<1>4. \A p, kind : Installed(p, kind) => Installed(p, kind)'
  BY <1>1 DEF Installed, Executed
<1>5. \A p, v : Wire(p, v) => Wire(p, v)'
  BY <1>1, <1>2 DEF Wire
<1>6. \A p : Reached(p) => Reached(p)'
  BY <1>1 DEF Reached, InstalledBesides, Kind, Executed
<1>7. ASSUME ChainInv PROVE ChainInv'
  <2>1. \A m \in Bound' : /\ named_keys'[m] \in DOMAIN txs' /\ Executed(named_keys[m])'
                          /\ txs'[named_keys'[m]].kind = KindOf[m]
    BY <1>1, <1>2, <1>7 DEF ChainInv, Executed
  <2>2. \A t \in DOMAIN txs' : Executed(t)' => Done(t)'
    BY <1>1, <1>2, <1>3, <1>7 DEF ChainInv, Done
  <2> QED BY <2>1, <2>2 DEF ChainInv
<1> QED BY <1>1, <1>2, <1>3, <1>4, <1>5, <1>6, <1>7 DEF Pair

\* A step of the script alone, by what it has to establish.
LEMMA QuietKeeps ==
    ASSUME ScriptsInv, UNCHANGED <<chainVars, completed>>,
           tx' \in Refs, pool' \in Refs, vault' \in Refs, known' \subseteq Names,
           at_start' \subseteq Bound, snapshot_lost' \in BOOLEAN,
           \/ pc' = "idle"
           \/ /\ script' = "deploy"
              /\ pc' \in {"snapshot"} \cup PoolSteps \cup VaultSteps \cup WireSteps
           \/ script' = "seed_only" /\ pc' \in SeedSteps
           \/ script' = "upgrade" /\ pc' \in UpgradeSteps,
           DeployInv', UpgradeInv'
    PROVE  ScriptsInv'
<1>1. UNCHANGED chainVars /\ completed' = completed
  OBVIOUS
<1>2. UNCHANGED <<txs, named_keys, pool_address, seeds, versions>>
  BY <1>1, ChainStays
<1>3. Bound' = Bound /\ Refs' = Refs /\ Wires' = Wires /\ ChainInv'
  BY <1>1, ChainStays DEF ScriptsInv
<1>4. DeployTypes'
  BY <1>1, <1>2, <1>3 DEF ScriptsInv, DeployTypes
<1>5. WireInv'
  <2>1. \A d \in completed : /\ Pair(d.pool, d.vault) /\ Wire(d.pool, d.vault)
                             /\ pool_address[d.vault] = d.pool /\ seeds[d.pool] > 0
    BY DEF ScriptsInv, WireInv
  <2>2. \A d \in completed : Pair(d.pool, d.vault)' /\ Wire(d.pool, d.vault)'
    BY <1>1, <2>1, ChainStays
  <2> QED BY <1>1, <1>2, <1>3, <2>1, <2>2 DEF ScriptsInv, WireInv
<1> QED BY <1>3, <1>4, <1>5 DEF ScriptsInv

\* A run starts, from whatever the last one left.
LEMMA StartKeeps ==
    ASSUME ScriptsInv, StartDeploy \/ StartSeedOnly \/ StartUpgrade PROVE ScriptsInv'
<1>1. /\ UNCHANGED <<chainVars, completed>> /\ tx' = None /\ known' = {}
      /\ at_start' = Bound /\ snapshot_lost' = FALSE
  BY DEF StartDeploy, StartSeedOnly, StartUpgrade, Started
<1>2. pool' \in Refs /\ vault' \in Refs
  BY DEF StartDeploy, StartSeedOnly, StartUpgrade, ScriptsInv, DeployTypes, Refs
<1>3. \/ script' = "deploy" /\ pc' = "snapshot"
      \/ script' = "seed_only" /\ pc' = "send seed"
      \/ script' = "upgrade" /\ pc' = "send pool upgrade"
  BY DEF StartDeploy, StartSeedOnly, StartUpgrade, Started
<1>4. DeployInv' /\ UpgradeInv'
  BY <1>3 DEF DeployInv, UpgradeInv, PoolSteps, VaultSteps, WireSteps, SeedSteps
<1> QED BY <1>1, <1>2, <1>3, <1>4, QuietKeeps DEF Refs, SeedSteps, UpgradeSteps

\* A script that ends leaves the chain as it is.
LEMMA AbortKeeps == ASSUME ScriptsInv, Abort PROVE ScriptsInv'
<1>1. /\ UNCHANGED <<chainVars, completed>> /\ UNCHANGED <<tx, known, pool, vault>>
      /\ UNCHANGED <<at_start, snapshot_lost>> /\ pc' = "idle" /\ script' = "none"
  BY DEF Abort, Stop, detectedVars
<1>2. DeployInv' /\ UpgradeInv'
  BY <1>1 DEF DeployInv, UpgradeInv
<1>3. /\ tx \in Refs /\ pool \in Refs /\ vault \in Refs /\ known \subseteq Names
      /\ at_start \subseteq Bound /\ snapshot_lost \in BOOLEAN
  BY DEF ScriptsInv, DeployTypes
<1> QED BY <1>1, <1>2, <1>3, QuietKeeps

\* The summary: what is reported complete has been established.
LEMMA FinishKeeps == ASSUME ScriptsInv, Finish PROVE ScriptsInv'
<1>1. /\ UNCHANGED chainVars /\ UNCHANGED <<tx, known, pool, vault>>
      /\ UNCHANGED <<at_start, snapshot_lost>> /\ pc' = "idle" /\ script' = "none"
      /\ pc \in {"summary", "upgraded"}
      /\ completed' = IF script = "deploy"
                        THEN completed \cup {[pool |-> pool, vault |-> vault]} ELSE completed
  BY DEF Finish, Stop, detectedVars
<1>2. UNCHANGED <<txs, named_keys, pool_address, seeds, versions>>
  BY <1>1, ChainStays
<1>3. /\ Bound' = Bound /\ Refs' = Refs /\ Wires' = Wires /\ ChainInv'
      /\ \A p, v : Pair(p, v) => Pair(p, v)'
      /\ \A p, v : Wire(p, v) => Wire(p, v)'
  BY <1>1, ChainStays DEF ScriptsInv
<1>4. script = "deploy" => pc = "summary"
  BY <1>1 DEF ScriptsInv, DeployTypes, PoolSteps, VaultSteps, WireSteps, SeedSteps
<1>5. \A d \in completed' : /\ Pair(d.pool, d.vault) /\ Wire(d.pool, d.vault)
                            /\ pool_address[d.vault] = d.pool /\ seeds[d.pool] > 0
                            /\ "YieldVault2" \in Bound
  <2>1. CASE script = "deploy"
    <3> DEFINE d == [pool |-> pool, vault |-> vault]
    <3>1. /\ Pair(pool, vault) /\ Wire(pool, vault) /\ "YieldVault2" \in Bound
          /\ pool_address[vault] = pool /\ seeds[pool] > 0
      BY <1>4, <2>1 DEF ScriptsInv, DeployInv, WireSteps, SeedSteps
    <3>2. d.pool = pool /\ d.vault = vault
      OBVIOUS
    <3>3. completed' = completed \cup {d}
      BY <1>1, <2>1
    <3> HIDE DEF d
    <3> QED BY <3>1, <3>2, <3>3 DEF ScriptsInv, WireInv
  <2>2. CASE script # "deploy"
    BY <1>1, <2>2 DEF ScriptsInv, WireInv
  <2> QED BY <2>1, <2>2
<1>6. WireInv'
  <2>1. \A d \in completed' : Pair(d.pool, d.vault)' /\ Wire(d.pool, d.vault)'
    BY <1>3, <1>5
  <2> QED BY <1>2, <1>3, <1>5, <2>1 DEF ScriptsInv, WireInv
<1>7. DeployTypes'
  <2>1. \A d \in completed' : d.pool \in DOMAIN txs /\ d.vault \in DOMAIN txs
    BY <1>5 DEF Pair, Installed
  <2> QED BY <1>1, <1>2, <1>3, <2>1 DEF ScriptsInv, DeployTypes
<1>8. DeployInv' /\ UpgradeInv'
  BY <1>1 DEF DeployInv, UpgradeInv
<1> QED BY <1>3, <1>6, <1>7, <1>8 DEF ScriptsInv

\* The first query, answered or not.
LEMMA SnapshotKeeps == ASSUME ScriptsInv, Snapshot PROVE ScriptsInv'
<1>1. /\ UNCHANGED <<chainVars, completed>> /\ UNCHANGED <<script, tx, pool, vault, at_start>>
      /\ pc = "snapshot" /\ pc' = "send pool" /\ known' \in {Bound, {}}
      /\ snapshot_lost' = (known' # Bound)
  BY DEF Snapshot
<1>2. script' = "deploy"
  BY <1>1 DEF ScriptsInv, DeployTypes, SeedSteps, UpgradeSteps
<1>3. /\ tx \in Refs /\ pool \in Refs /\ vault \in Refs /\ at_start \subseteq Bound
      /\ Bound \subseteq Names
  BY DEF ScriptsInv, DeployTypes, Bound
<1>4. ~snapshot_lost' => known' = Bound
  BY <1>1, Zenon
<1>5. snapshot_lost' \in BOOLEAN
  <2>1. (known' # Bound) \in BOOLEAN
    OBVIOUS
  <2> QED BY <1>1, <2>1
<1>6. DeployInv'
  BY <1>1, <1>3, <1>4 DEF DeployInv, PoolSteps, VaultSteps, WireSteps, SeedSteps
<1>7. UpgradeInv'
  BY <1>2 DEF UpgradeInv
<1>8. known' \subseteq Names /\ at_start' \subseteq Bound
  BY <1>1, <1>3
<1>9. pc' \in PoolSteps
  BY <1>1 DEF PoolSteps
<1> QED BY <1>1, <1>2, <1>3, <1>5, <1>6, <1>7, <1>8, <1>9, QuietKeeps

\* A new key is taken for the pool's; the vault's may be among them.
LEMMA DetectPoolKeeps == ASSUME ScriptsInv, DetectPool PROVE ScriptsInv'
<1>1. /\ UNCHANGED <<chainVars, completed>>
      /\ UNCHANGED <<script, tx, vault, at_start, snapshot_lost>>
      /\ pc = "poll pool" /\ pc' = "send vault" /\ known' = Bound /\ NewNames # {}
      /\ pool' = Detected("SimplePool")
  BY DEF DetectPool, runVars
<1>2. script = "deploy"
  BY <1>1 DEF ScriptsInv, DeployTypes, SeedSteps, UpgradeSteps
<1>3. /\ ~snapshot_lost => at_start \subseteq known
      /\ "SimplePool" \in Bound
  BY <1>1, <1>2 DEF ScriptsInv, DeployInv, PoolSteps
<1>4. \A n \in Bound : /\ named_keys[n] \in DOMAIN txs /\ Executed(named_keys[n])
                       /\ txs[named_keys[n]].kind = KindOf[n]
  BY DEF ScriptsInv, ChainInv
<1>5. pool' \in Refs
  <2>1. \E n \in NewNames : pool' = named_keys[n]
    <3>1. (CHOOSE n \in NewNames : TRUE) \in NewNames
      BY <1>1
    <3> QED BY <1>1, <3>1 DEF Detected
  <2> QED BY <1>4, <2>1 DEF NewNames, Refs
<1>6. ASSUME "YieldVault2" \notin Bound
      PROVE  NothingWired /\ Installed(pool', "pool") /\ PoolWasNew
  <2>1. NothingWired
    BY <1>6 DEF ScriptsInv, WireInv, NothingWired
  <2>2. "SimplePool" \in NewNames /\ "SimplePool" \notin known
    BY <1>1, <1>6 DEF NewNames, Bound, Names
  <2>3. pool' = named_keys["SimplePool"] /\ KindOf["SimplePool"] = "pool"
    BY <1>1, <2>2 DEF Detected, KindOf, Names
  <2> QED BY <1>3, <1>4, <2>1, <2>2, <2>3 DEF Installed, PoolWasNew
<1>7. /\ "SimplePool" \in known' /\ at_start' \subseteq known'
      /\ "YieldVault2" \notin known' =>
           NothingWired' /\ Installed(pool, "pool")' /\ PoolWasNew'
  <2>1. "SimplePool" \in known' /\ at_start' \subseteq known'
    BY <1>1, <1>3 DEF ScriptsInv, DeployTypes
  <2>2. NothingWired => NothingWired'
    BY <1>1, ChainStays DEF NothingWired
  <2>3. PoolWasNew => PoolWasNew'
    BY <1>1 DEF PoolWasNew
  <2>4. Installed(pool', "pool") => Installed(pool, "pool")'
    BY <1>1 DEF Installed, Executed, chainVars
  <2> QED BY <1>1, <1>6, <2>1, <2>2, <2>3, <2>4
<1>8. DeployInv'
  BY <1>1, <1>7 DEF DeployInv, PoolSteps, VaultSteps, WireSteps, SeedSteps
<1>9. UpgradeInv'
  BY <1>1, <1>2 DEF UpgradeInv
<1>10. /\ tx' \in Refs /\ vault' \in Refs /\ at_start' \subseteq Bound
       /\ snapshot_lost' \in BOOLEAN /\ known' \subseteq Names
  BY <1>1 DEF ScriptsInv, DeployTypes, Bound
<1>11. script' = "deploy" /\ pc' \in VaultSteps
  BY <1>1, <1>2 DEF VaultSteps
<1> QED BY <1>1, <1>5, <1>8, <1>9, <1>10, <1>11, QuietKeeps

\* The vault's key is new: no vault had been detected before.
LEMMA DetectVaultKeeps == ASSUME ScriptsInv, DetectVault PROVE ScriptsInv'
<1>1. /\ UNCHANGED <<chainVars, completed>>
      /\ UNCHANGED <<script, tx, pool, known, at_start, snapshot_lost>>
      /\ pc = "poll vault" /\ pc' = "send set_pool" /\ NewNames # {}
      /\ vault' = Detected("YieldVault2")
  BY DEF DetectVault, runVars
<1>2. script = "deploy"
  BY <1>1 DEF ScriptsInv, DeployTypes, SeedSteps, UpgradeSteps
<1>3. /\ "SimplePool" \in known /\ at_start \subseteq known
      /\ "YieldVault2" \notin known => NothingWired /\ Installed(pool, "pool") /\ PoolWasNew
  BY <1>1, <1>2 DEF ScriptsInv, DeployInv, VaultSteps
<1>4. "YieldVault2" \in NewNames /\ "YieldVault2" \in Bound /\ "YieldVault2" \notin known
  BY <1>1, <1>3 DEF NewNames, Bound, Names
<1>5. vault' = named_keys["YieldVault2"] /\ KindOf["YieldVault2"] = "vault"
  BY <1>1, <1>4 DEF Detected, KindOf, Names
<1>6. Installed(vault', "vault")
  BY <1>4, <1>5 DEF ScriptsInv, ChainInv, Installed
<1>7. Pair(pool, vault)'
  BY <1>1, <1>3, <1>4, <1>6 DEF Pair, Installed, Executed, chainVars
<1>8. NothingWired'
  BY <1>1, <1>3, <1>4, ChainStays DEF NothingWired
<1>9. Wire(pool, vault)'
  BY <1>8 DEF NothingWired, Wire
<1>10. DeployInv'
  <2>1. "YieldVault2" \notin at_start' /\ PoolWasNew'
    BY <1>1, <1>3, <1>4 DEF PoolWasNew
  <2>2. "YieldVault2" \in Bound'
    BY <1>1, <1>4, ChainStays
  <2> QED BY <1>1, <1>7, <1>8, <1>9, <2>1, <2>2
          DEF DeployInv, PoolSteps, VaultSteps, WireSteps, SeedSteps
<1>11. UpgradeInv'
  BY <1>1, <1>2 DEF UpgradeInv
<1>12. /\ tx' \in Refs /\ pool' \in Refs /\ at_start' \subseteq Bound
       /\ snapshot_lost' \in BOOLEAN /\ known' \subseteq Names
  BY <1>1 DEF ScriptsInv, DeployTypes
<1>13. vault' \in Refs
  BY <1>6 DEF Installed, Refs
<1>14. script' = "deploy" /\ pc' \in WireSteps
  BY <1>1, <1>2 DEF WireSteps
<1> QED BY <1>1, <1>10, <1>11, <1>12, <1>13, <1>14, QuietKeeps

\* The waits of the scripts.
Waiting(here, next) ==
    \/ here = "wait pool" /\ next = "poll pool"
    \/ here = "wait vault" /\ next = "poll vault"
    \/ here = "wait set_pool" /\ next = "send seed"
    \/ here = "wait seed" /\ next = "summary"
    \/ here = "wait pool upgrade" /\ next = "send vault upgrade"
    \/ here = "wait vault upgrade" /\ next = "upgraded"

\* The transaction waited for is executed: its effect is on the chain.
LEMMA WaitKeeps ==
    ASSUME ScriptsInv, NEW here, NEW next, Waiting(here, next), Wait(here, next)
    PROVE  ScriptsInv'
<1>1. /\ UNCHANGED <<chainVars, completed>>
      /\ UNCHANGED <<script, tx, pool, vault, known, at_start, snapshot_lost>>
      /\ pc = here /\ pc' = next /\ Executed(tx)
  BY DEF Wait, runVars, detectedVars, Confirmed
<1>2. UNCHANGED <<txs, named_keys, pool_address, seeds, versions>>
      /\ Bound' = Bound /\ Wires' = Wires
  BY <1>1, ChainStays
<1>3. \A t \in DOMAIN txs : Executed(t) => Done(t)
  BY DEF ScriptsInv, ChainInv
<1>4. /\ PoolWasNew' <=> PoolWasNew
      /\ NothingWired' <=> NothingWired
  BY <1>1, <1>2 DEF PoolWasNew, NothingWired
<1>5. /\ Installed(pool, "pool") => Installed(pool, "pool")'
      /\ Pair(pool, vault) => Pair(pool, vault)'
      /\ Wire(pool, vault) => Wire(pool, vault)'
  BY <1>1, <1>2 DEF Installed, Executed, Pair, Wire
<1>6. (PoolReached => PoolReached') /\ (VaultReached => VaultReached')
  <2>1. \A p : Reached(p) => Reached(p)'
    BY <1>1, ChainStays
  <2> QED BY <1>1, <2>1 DEF PoolReached, VaultReached
<1>7. CASE here \in {"wait pool", "wait vault", "wait set_pool"}
  <2>1. script = "deploy"
    BY <1>1, <1>7 DEF ScriptsInv, DeployTypes, SeedSteps, UpgradeSteps
  <2>2. here = "wait pool" => "SimplePool" \in Bound
    BY <1>1, <1>3, <2>1 DEF ScriptsInv, DeployInv, Done
  <2>3. here = "wait set_pool" => pool_address[vault] = pool
    BY <1>1, <1>3, <2>1 DEF ScriptsInv, DeployInv, Done, Wire, Wires, WireSteps
  <2>4. DeployInv'
    BY <1>1, <1>2, <1>4, <1>5, <1>7, <2>1, <2>2, <2>3
       DEF Waiting, ScriptsInv, DeployInv, PoolSteps, VaultSteps, WireSteps, SeedSteps
  <2>5. UpgradeInv'
    BY <1>1, <2>1 DEF UpgradeInv
  <2>6. pc' \in PoolSteps \cup VaultSteps \cup WireSteps
    BY <1>1, <1>7 DEF Waiting, PoolSteps, VaultSteps, WireSteps, SeedSteps
  <2>7. /\ tx' \in Refs /\ pool' \in Refs /\ vault' \in Refs /\ at_start' \subseteq Bound
        /\ snapshot_lost' \in BOOLEAN /\ known' \subseteq Names /\ script' = "deploy"
    BY <1>1, <2>1 DEF ScriptsInv, DeployTypes
  <2> QED BY <1>1, <2>4, <2>5, <2>6, <2>7, QuietKeeps
<1>8. CASE here = "wait seed"
  <2>1. script \in {"deploy", "seed_only"} /\ pc' = "summary"
    BY <1>1, <1>8 DEF Waiting, ScriptsInv, DeployTypes, UpgradeSteps
  <2>2. script = "deploy" => seeds[pool] > 0
    BY <1>1, <1>3, <1>8 DEF ScriptsInv, DeployInv, Done
  <2>3. DeployInv'
    BY <1>1, <1>2, <1>4, <1>5, <1>8, <2>1, <2>2
       DEF ScriptsInv, DeployInv, PoolSteps, VaultSteps, WireSteps, SeedSteps
  <2>4. UpgradeInv'
    BY <1>1, <2>1 DEF UpgradeInv
  <2>5. pc' \in SeedSteps /\ pc' \in WireSteps
    BY <2>1 DEF WireSteps, SeedSteps
  <2>6. /\ tx' \in Refs /\ pool' \in Refs /\ vault' \in Refs /\ at_start' \subseteq Bound
        /\ snapshot_lost' \in BOOLEAN /\ known' \subseteq Names /\ script' = script
    BY <1>1 DEF ScriptsInv, DeployTypes
  <2> QED BY <1>1, <2>1, <2>3, <2>4, <2>5, <2>6, QuietKeeps
<1>9. CASE here \in {"wait pool upgrade", "wait vault upgrade"}
  <2>1. script = "upgrade"
    BY <1>1, <1>9 DEF ScriptsInv, DeployTypes, PoolSteps, VaultSteps, WireSteps, SeedSteps
  <2>2. DeployInv'
    BY <1>1, <2>1 DEF DeployInv
  <2>3. UpgradeInv'
    BY <1>1, <1>6, <1>9, <2>1 DEF Waiting, ScriptsInv, UpgradeInv
  <2>4. pc' \in UpgradeSteps
    BY <1>1, <1>9 DEF Waiting, UpgradeSteps
  <2>5. /\ tx' \in Refs /\ pool' \in Refs /\ vault' \in Refs /\ at_start' \subseteq Bound
        /\ snapshot_lost' \in BOOLEAN /\ known' \subseteq Names /\ script' = "upgrade"
    BY <1>1, <2>1 DEF ScriptsInv, DeployTypes
  <2> QED BY <1>1, <2>2, <2>3, <2>4, <2>5, QuietKeeps
<1> QED BY <1>7, <1>8, <1>9 DEF Waiting

-----------------------------------------------------------------------------
\* Before the first run the chain is empty.
LEMMA ScriptsInitOK == DeployInit => ScriptsInv
<1> SUFFICES ASSUME DeployInit PROVE ScriptsInv
  OBVIOUS
<1>1. /\ txs = <<>> /\ txs \in Seq(Transactions) /\ Len(txs) = 0 /\ DOMAIN txs = {}
      /\ Bound = {} /\ Wires = {}
  BY DEF DeployInit, Bound, Wires, Names
<1>2. DeployTypes
  <2>1. /\ named_keys \in [Names -> Nat] /\ pool_address \in [Packages -> Nat]
        /\ seeds \in [Packages -> Nat] /\ versions \in [Packages -> Nat]
    BY DEF DeployInit, None
  <2>2. /\ tx = None /\ pool = None /\ vault = None /\ known = {} /\ at_start = {}
        /\ snapshot_lost = FALSE /\ completed = {} /\ pc = "idle"
    BY DEF DeployInit
  <2>3. Len(txs) <= MaxTx /\ None \in Refs
    BY <1>1, ScriptsAssumption DEF Refs
  <2>4. /\ \A t \in DOMAIN txs : txs[t].package \in Refs
        /\ known \subseteq Names /\ at_start \subseteq Bound /\ snapshot_lost \in BOOLEAN
        /\ \A d \in completed : d.pool \in DOMAIN txs /\ d.vault \in DOMAIN txs
    BY <1>1, <2>2
  <2> QED BY <1>1, <2>1, <2>2, <2>3, <2>4 DEF DeployTypes
<1>3. ChainInv /\ WireInv
  BY <1>1 DEF DeployInit, ChainInv, WireInv
<1>4. DeployInv /\ UpgradeInv
  BY DEF DeployInit, DeployInv, UpgradeInv
<1> QED BY <1>2, <1>3, <1>4 DEF ScriptsInv

\* Every step, of the scripts or of the chain, keeps the invariant.
LEMMA ScriptsStep == ScriptsInv /\ [DeployNext]_deployVars => ScriptsInv'
<1> SUFFICES ASSUME ScriptsInv, [DeployNext]_deployVars PROVE ScriptsInv'
  OBVIOUS
<1>1. /\ pool \in Refs /\ vault \in Refs /\ None \in Refs /\ pool \in Nat /\ None \in Nat
      /\ {"pool", "vault", "set_pool", "seed", "upgrade_pool", "upgrade_vault"} \subseteq Kinds
  BY Numbered DEF ScriptsInv, DeployTypes, Refs, None, Kinds
<1>2. ASSUME Send("send pool", "wait pool", "pool", None, None) PROVE ScriptsInv'
  BY <1>1, <1>2, SendKeeps DEF Submission
<1>3. ASSUME Send("send vault", "wait vault", "vault", None, None) PROVE ScriptsInv'
  BY <1>1, <1>3, SendKeeps DEF Submission
<1>4. ASSUME Send("send set_pool", "wait set_pool", "set_pool", vault, pool) PROVE ScriptsInv'
  BY <1>1, <1>4, SendKeeps DEF Submission
<1>5. ASSUME Send("send seed", "wait seed", "seed", pool, None) PROVE ScriptsInv'
  BY <1>1, <1>5, SendKeeps DEF Submission
<1>6. ASSUME Send("send pool upgrade", "wait pool upgrade", "upgrade_pool", None, None)
      PROVE  ScriptsInv'
  BY <1>1, <1>6, SendKeeps DEF Submission
<1>7. ASSUME Send("send vault upgrade", "wait vault upgrade", "upgrade_vault", None, None)
      PROVE  ScriptsInv'
  BY <1>1, <1>7, SendKeeps DEF Submission
<1>8. CASE StartDeploy \/ StartSeedOnly \/ StartUpgrade
  BY <1>8, StartKeeps
<1>9. CASE Abort \/ Finish
  BY <1>9, AbortKeeps, FinishKeeps
<1>10. CASE Snapshot \/ DetectPool \/ DetectVault
  BY <1>10, SnapshotKeeps, DetectPoolKeeps, DetectVaultKeeps
<1>11. CASE \/ Wait("wait pool", "poll pool") \/ Wait("wait vault", "poll vault")
            \/ Wait("wait set_pool", "send seed") \/ Wait("wait seed", "summary")
            \/ Wait("wait pool upgrade", "send vault upgrade")
            \/ Wait("wait vault upgrade", "upgraded")
  BY <1>11, WaitKeeps DEF Waiting
<1>12. CASE \E t \in DOMAIN txs : Execute(t) \/ Fail(t)
  BY <1>12, ExecuteKeeps, FailKeeps
<1>13. CASE UNCHANGED deployVars
  <2>1. /\ UNCHANGED <<chainVars, completed>> /\ UNCHANGED chainVars
        /\ UNCHANGED <<script, pc, tx, pool, vault, known, at_start, snapshot_lost>>
    BY <1>13 DEF deployVars, runVars, detectedVars
  <2>2. UNCHANGED <<txs, named_keys, pool_address, seeds, versions>>
        /\ Bound' = Bound /\ Refs' = Refs /\ Wires' = Wires
    BY <2>1, ChainStays
  <2>3. DeployInv'
    BY <2>1, <2>2 DEF ScriptsInv, DeployInv, Installed, Pair, Wire, Executed, NothingWired,
                      PoolWasNew
  <2>4. UpgradeInv'
    BY <2>1, <2>2 DEF ScriptsInv, UpgradeInv, Executed, PoolReached, VaultReached, Reached,
                      InstalledBesides, Kind
  <2>5. /\ tx' \in Refs /\ pool' \in Refs /\ vault' \in Refs /\ at_start' \subseteq Bound
        /\ snapshot_lost' \in BOOLEAN /\ known' \subseteq Names
        /\ \/ pc' = "idle"
           \/ /\ script' = "deploy"
              /\ pc' \in {"snapshot"} \cup PoolSteps \cup VaultSteps \cup WireSteps
           \/ script' = "seed_only" /\ pc' \in SeedSteps
           \/ script' = "upgrade" /\ pc' \in UpgradeSteps
    BY <2>1 DEF ScriptsInv, DeployTypes
  <2> QED BY <2>1, <2>3, <2>4, <2>5, QuietKeeps
<1> QED BY <1>2, <1>3, <1>4, <1>5, <1>6, <1>7, <1>8, <1>9, <1>10, <1>11, <1>12, <1>13
        DEF DeployNext, DeployStep, UpgradeStep, PoolStep, VaultStep, SetPoolStep, SeedStep

\* Whatever the scripts are run for and wherever they end: names lead to installed
\* contracts, every call of set_pool is for one pair, and each step of a script
\* stands on what its earlier steps established.
THEOREM ScriptsSafe == DeploySpec => []ScriptsInv
  BY ScriptsInitOK, ScriptsStep, PTL DEF DeploySpec

\* What was reported complete is complete and stays so: the vault it names calls the
\* pool it names, which was seeded, whatever is run or executed later.
THEOREM CompletedStaysWiredHolds == DeploySpec => []CompletedStaysWired
<1>1. ScriptsInv => CompletedStaysWired
  <2> SUFFICES ASSUME ScriptsInv, NEW d \in completed
               PROVE  /\ Kind(d.pool) = "pool" /\ Kind(d.vault) = "vault"
                      /\ pool_address[d.vault] = d.pool /\ seeds[d.pool] > 0
    BY DEF CompletedStaysWired
  <2>1. /\ Installed(d.pool, "pool") /\ Installed(d.vault, "vault")
        /\ pool_address[d.vault] = d.pool /\ seeds[d.pool] > 0
    BY DEF ScriptsInv, WireInv, Pair
  <2>2. None \notin DOMAIN txs
    BY Numbered DEF ScriptsInv
  <2> QED BY <2>1, <2>2 DEF Installed, Kind
<1> QED BY <1>1, ScriptsSafe, PTL

\* A deployment that got as far as the vault cannot be repeated, and one that got as
\* far as the pool only by a first query that failed.
THEOREM RerunsCannotFinishHolds == DeploySpec => []RerunsCannotFinish
<1>1. ScriptsInv => RerunsCannotFinish
  <2> SUFFICES ASSUME ScriptsInv, script = "deploy", pc = "summary"
               PROVE  /\ "YieldVault2" \notin at_start
                      /\ "SimplePool" \in at_start => snapshot_lost
    BY DEF RerunsCannotFinish
  <2> QED BY DEF ScriptsInv, DeployInv, PoolWasNew, WireSteps, SeedSteps
<1> QED BY <1>1, ScriptsSafe, PTL

\* A complete upgrade reaches the vault and the pool it calls, unless another one was
\* installed besides, by a run that failed.
THEOREM UpgradeReachesThePairHolds == DeploySpec => []UpgradeReachesThePair
<1>1. ScriptsInv => UpgradeReachesThePair
  <2> SUFFICES ASSUME ScriptsInv, pc = "upgraded" PROVE UpgradeReachesThePair
    BY DEF UpgradeReachesThePair
  <2>1. script = "upgrade"
    BY DEF ScriptsInv, DeployTypes, PoolSteps, VaultSteps, WireSteps, SeedSteps
  <2>2. PoolReached /\ VaultReached
    BY <2>1 DEF ScriptsInv, UpgradeInv
  <2> QED BY <2>2 DEF PoolReached, VaultReached, Reached, UpgradeReachesThePair
<1> QED BY <1>1, ScriptsSafe, PTL

=============================================================================
