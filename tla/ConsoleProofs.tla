---------------------------- MODULE ConsoleProofs ----------------------------
(***************************************************************************)
(* For any balances, quotes, tallies, history length, threshold and number  *)
(* of polls: whatever the age and the order of the answers a page shows, no *)
(* panel claims a swap that no node took, the panels tell one story, what   *)
(* is shown goes back in time only by overlapping polls, and no field of    *)
(* the strategy page keeps the hook's default beside the served             *)
(* configuration.                                                           *)
(***************************************************************************)
EXTENDS Console, FunctionTheorems, FiniteSetTheorems, SequenceTheorems, TLAPS

LastIsSwap(f) == f.history # <<>> /\ f.history[Len(f.history)].action = "SWAP"
SwapsIn(h) == {i \in DOMAIN h : h[i].action = "SWAP"}

Entry(d, acc) == IF d.action = "HOLD" THEN d.deploy_hash = NoHash
                 ELSE [hash |-> d.deploy_hash, action |-> d.action] \in acc

\* A published state that can be relied on: the balance parts from what was
\* observed only by a swap, an entry of the history is a HOLD without hash or a
\* swap a node accepted, its swaps were counted, and the votes fit the decision.
Truthful(f, acc) ==
    /\ f.status \in Deciding => f.balance = f.observed
    /\ f.balance # f.observed => LastIsSwap(f)
    /\ \A i \in DOMAIN f.history : Entry(f.history[i], acc)
    /\ Cardinality(SwapsIn(f.history)) <= f.actions_taken
    /\ LastIsSwap(f) <=> f.swarm.SWAP >= VoteThreshold

\* Everything a page holds was truthful when it was published.
AnswersInv ==
    /\ Truthful(feed, accepted)
    /\ Truthful(status.feed, accepted)
    /\ \A i \in DOMAIN polls : Truthful(polls[i].feed, accepted)
    /\ sheet.open /\ sheet.row.staked => \E h \in Hashes : IsAccepted(h, "SWAP")
    /\ Known(status) => ~loading

\* Nothing shown or on its way is from the future; and without overlap there is
\* one poll at most, whose answer is no older than what is shown.
TimeInv ==
    /\ last_updated > 0
    /\ status.at <= last_updated
    /\ \A i \in DOMAIN polls : polls[i].at <= last_updated
    /\ ~overlapped => /\ Len(polls) <= 1
                      /\ \A i \in DOMAIN polls : polls[i] # Sent => status.at <= polls[i].at

\* The allocation has no default to show, and a synced field none once served.
FieldsInv ==
    /\ form.field["alloc"] # "default"
    /\ page = "agent" /\ config = "served" => \A f \in Synced : form.field[f] # "default"

ConsoleInv == ConsoleTypeOK /\ AnswersInv /\ TimeInv /\ FieldsInv

FeedType == [status : Deciding \cup Waiting, errors : Errors,
             balance : Nat, observed : Nat, position : Nat,
             actions_taken : Nat, last_tx_hash : Hashes \cup {NoHash},
             history : Seq(Decisions), swarm : Tallies \cup {NoVotes}]

-----------------------------------------------------------------------------
\* What the constants are, as the leaves use it.
LEMMA ConsoleConstants ==
    /\ Balances \subseteq Nat /\ Quotes \subseteq Nat
    /\ Hashes \subseteq Nat /\ NoHash \notin Hashes /\ NoHash \in Nat
    /\ \A t \in Tallies \cup {NoVotes} : t.SWAP \in Nat
    /\ VoteThreshold \in Nat \ {0} /\ HISTORY_LIMIT \in Nat \ {0}
    /\ MaxUpdates \in Nat \ {0} /\ MaxPolls \in Nat \ {0} /\ MaxClicks \in Nat
  BY FeedAssumption, ConsoleAssumption DEF NoHash, NoVotes

\* A snapshot is a time and a feed.
LEMMA SnapshotParts ==
    /\ \A s \in Snapshots : s.at \in 0..MaxUpdates /\ s.feed \in FeedType
    /\ \A t \in 0..MaxUpdates, f \in FeedType : [at |-> t, feed |-> f] \in Snapshots
  BY DEF Snapshots, FeedType

\* An entry that was backed stays backed.
LEMMA TruthStays ==
    ASSUME NEW f, NEW acc, NEW more, acc \subseteq more, Truthful(f, acc)
    PROVE  Truthful(f, more)
  BY DEF Truthful, Entry

\* The state of a new process claims nothing.
LEMMA FreshIsTruthful ==
    ASSUME NEW acc
    PROVE  FreshFeed \in FeedType /\ Truthful(FreshFeed, acc)
<1>1. FreshFeed \in FeedType
  BY DEF FreshFeed, FeedType, Waiting, Errors, NoReading
<1>2. SwapsIn(<<>>) = {} /\ Cardinality({}) = 0
  BY FS_EmptySet DEF SwapsIn
<1>3. ~LastIsSwap(FreshFeed) /\ ~(FreshFeed.swarm.SWAP >= VoteThreshold)
  BY ConsoleConstants DEF LastIsSwap, FreshFeed, NoVotes
<1>4. /\ FreshFeed.status = "connecting" /\ FreshFeed.balance = 0 /\ FreshFeed.observed = 0
      /\ FreshFeed.history = <<>> /\ FreshFeed.actions_taken = 0
  BY DEF FreshFeed, NoReading
<1>5. Cardinality(SwapsIn(<<>>)) = 0
  BY <1>2, Zenon
<1>6. \A i \in DOMAIN FreshFeed.history : Entry(FreshFeed.history[i], acc)
  BY <1>4
<1>7. FreshFeed.status \notin Deciding
  BY <1>4 DEF Deciding
<1>8. Cardinality(SwapsIn(FreshFeed.history)) <= FreshFeed.actions_taken
  BY <1>4, <1>5
<1> QED BY <1>1, <1>3, <1>4, <1>6, <1>7, <1>8 DEF Truthful

-----------------------------------------------------------------------------
\* The history after a decision: the new entry is the last one, the others were
\* there before, and it has one swap more at most.
LEMMA HistoryStep ==
    ASSUME NEW h \in Seq(Decisions), NEW d \in Decisions
    PROVE  LET all == Append(h, d)
               kept == IF Len(all) <= HISTORY_LIMIT THEN all ELSE Tail(all)
           IN /\ kept \in Seq(Decisions) /\ kept # <<>> /\ kept[Len(kept)] = d
              /\ \A i \in DOMAIN kept : kept[i] = d \/ \E j \in DOMAIN h : kept[i] = h[j]
              /\ Cardinality(SwapsIn(h)) \in Nat
              /\ Cardinality(SwapsIn(kept)) <=
                   Cardinality(SwapsIn(h)) + (IF d.action = "SWAP" THEN 1 ELSE 0)
<1> DEFINE all == Append(h, d)
           n == Len(h)
           C == Cardinality(SwapsIn(h))
<1>1. /\ n \in Nat /\ DOMAIN h = 1..n
      /\ all \in Seq(Decisions) /\ Len(all) = n + 1 /\ DOMAIN all = 1..(n + 1)
      /\ \A i \in 1..n : all[i] = h[i]
      /\ all[n + 1] = d
  OBVIOUS
<1>2. IsFiniteSet(SwapsIn(h)) /\ C \in Nat
  <2>1. SwapsIn(h) \subseteq 1..n /\ IsFiniteSet(1..n)
    BY <1>1, FS_Interval DEF SwapsIn
  <2> QED BY <2>1, FS_Subset, FS_CardinalityType
<1>3. /\ IsFiniteSet(SwapsIn(all))
      /\ Cardinality(SwapsIn(all)) \in Nat
      /\ Cardinality(SwapsIn(all)) <= C + (IF d.action = "SWAP" THEN 1 ELSE 0)
  <2>1. CASE d.action = "SWAP"
    <3>1. SwapsIn(all) = SwapsIn(h) \cup {n + 1}
      BY <1>1, <2>1 DEF SwapsIn
    <3>2. n + 1 \notin SwapsIn(h)
      BY <1>1 DEF SwapsIn
    <3>3. IsFiniteSet(SwapsIn(h) \cup {n + 1})
          /\ Cardinality(SwapsIn(h) \cup {n + 1}) = C + 1
      BY <1>2, <3>2, FS_AddElement
    <3> QED BY <1>2, <2>1, <3>1, <3>3
  <2>2. CASE d.action # "SWAP"
    <3>1. SwapsIn(all) = SwapsIn(h)
      BY <1>1, <2>2 DEF SwapsIn
    <3> QED BY <1>2, <2>2, <3>1
  <2> QED BY <2>1, <2>2
<1> HIDE DEF all, n, C
<1>4. CASE Len(all) <= HISTORY_LIMIT
  BY <1>1, <1>2, <1>3, <1>4 DEF all, n, C
<1>5. CASE ~(Len(all) <= HISTORY_LIMIT)
  <2> DEFINE kept == Tail(all)
  <2>1. /\ n # 0
        /\ kept \in Seq(Decisions) /\ Len(kept) = n
        /\ \A i \in 1..n : kept[i] = all[i + 1]
    BY <1>1, <1>5, ConsoleConstants, HeadTailProperties
  <2>2. DOMAIN kept = 1..n
    BY <2>1
  <2> HIDE DEF kept
  <2>3. kept # <<>> /\ kept[Len(kept)] = d
    BY <1>1, <2>1, <2>2
  <2>4. \A i \in DOMAIN kept : kept[i] = d \/ \E j \in DOMAIN h : kept[i] = h[j]
    <3> SUFFICES ASSUME NEW i \in 1..n PROVE kept[i] = d \/ \E j \in DOMAIN h : kept[i] = h[j]
      BY <2>2
    <3>1. CASE i = n
      BY <1>1, <2>1, <3>1
    <3>2. CASE i # n
      <4>1. i + 1 \in 1..n
        BY <1>1, <3>2
      <4> QED BY <1>1, <2>1, <4>1
    <3> QED BY <3>1, <3>2
  <2>5. Cardinality(SwapsIn(kept)) <= Cardinality(SwapsIn(all))
    <3> DEFINE g == [i \in SwapsIn(kept) |-> i + 1]
    <3>1. \A i \in SwapsIn(kept) : i \in Int /\ i + 1 \in SwapsIn(all)
      BY <1>1, <2>1, <2>2 DEF SwapsIn
    <3>2. g \in Injection(SwapsIn(kept), SwapsIn(all))
      BY <3>1, Fun_IsInj
    <3> QED BY <1>3, <3>2, FS_Injection
  <2>6. Cardinality(SwapsIn(kept)) \in Nat
    <3>1. SwapsIn(kept) \subseteq 1..n /\ IsFiniteSet(1..n)
      BY <1>1, <2>2, FS_Interval DEF SwapsIn
    <3> QED BY <3>1, FS_Subset, FS_CardinalityType
  <2>7. Cardinality(SwapsIn(kept)) <= C + (IF d.action = "SWAP" THEN 1 ELSE 0)
    BY <1>2, <1>3, <2>5, <2>6
  <2> QED BY <1>2, <1>5, <2>1, <2>3, <2>4, <2>7 DEF all, n, C, kept
<1> QED BY <1>4, <1>5

-----------------------------------------------------------------------------
\* Whatever the agent does next, what it then publishes can be relied on.
LEMMA FeedStep ==
    ASSUME feed \in FeedType, Truthful(feed, accepted), FeedChange
    PROVE  feed' \in FeedType /\ Truthful(feed', accepted)
<1>1. ASSUME NEW s \in Waiting \cup {"executing"}, NEW e \in Errors, Moved(s, e)
      PROVE  feed' \in FeedType /\ Truthful(feed', accepted)
  <2>1. feed' = [feed EXCEPT !.status = s, !.errors = e]
        /\ (s = "executing" => feed.status \in Deciding)
    BY <1>1 DEF Moved
  <2>2. feed' \in FeedType
    BY <1>1, <2>1 DEF FeedType, Deciding
  <2>3. /\ feed'.status = s /\ feed'.balance = feed.balance
        /\ feed'.observed = feed.observed /\ feed'.history = feed.history
        /\ feed'.actions_taken = feed.actions_taken /\ feed'.swarm = feed.swarm
    BY <2>1 DEF FeedType
  <2>4. s \in Deciding => feed.status \in Deciding
    BY <1>1, <2>1 DEF Waiting, Deciding
  <2>5. LastIsSwap(feed') <=> LastIsSwap(feed)
    BY <2>3 DEF LastIsSwap
  <2> QED BY <2>2, <2>3, <2>4, <2>5 DEF Truthful
<1>2. ASSUME NEW b \in Balances, Observed(b)
      PROVE  feed' \in FeedType /\ Truthful(feed', accepted)
  <2>1. feed' = [feed EXCEPT !.status = "deciding", !.balance = b, !.observed = b]
    BY <1>2 DEF Observed
  <2>2. feed' \in FeedType
    BY <1>2, <2>1, ConsoleConstants DEF FeedType, Deciding
  <2>3. /\ feed'.balance = feed'.observed /\ feed'.history = feed.history
        /\ feed'.actions_taken = feed.actions_taken /\ feed'.swarm = feed.swarm
    BY <2>1 DEF FeedType
  <2>4. LastIsSwap(feed') <=> LastIsSwap(feed)
    BY <2>3 DEF LastIsSwap
  <2> QED BY <2>2, <2>3, <2>4 DEF Truthful
<1>3. ASSUME NEW a \in Actions, NEW v \in Tallies, NEW h \in Hashes \cup {NoHash},
             NEW b \in 0..feed.balance,
             NEW p \in 0..feed.position \cup {feed.position + q : q \in Quotes},
             Booked(a, h, b, p, v)
      PROVE  feed' \in FeedType /\ Truthful(feed', accepted)
  <2> DEFINE d == [action |-> a, deploy_hash |-> h]
             all == Append(feed.history, d)
             kept == IF Len(all) <= HISTORY_LIMIT THEN all ELSE Tail(all)
             counted == IF a \in Swaps THEN feed.actions_taken + 1 ELSE feed.actions_taken
             newest == IF a \in Swaps THEN h ELSE feed.last_tx_hash
  <2>1. feed' = [feed EXCEPT !.status = "running", !.balance = b, !.position = p,
                             !.actions_taken = counted, !.last_tx_hash = newest,
                             !.history = kept, !.swarm = v]
    BY <1>3 DEF Booked
  <2>2. d \in Decisions /\ d.action = a /\ d.deploy_hash = h
    BY <1>3 DEF Decisions
  <2>3. feed.history \in Seq(Decisions) /\ feed.actions_taken \in Nat
        /\ feed.position \in Nat /\ feed.balance \in Nat
    BY DEF FeedType
  <2>4. /\ kept \in Seq(Decisions) /\ kept # <<>> /\ kept[Len(kept)] = d
        /\ \A i \in DOMAIN kept : kept[i] = d \/ \E j \in DOMAIN feed.history :
                                                      kept[i] = feed.history[j]
        /\ Cardinality(SwapsIn(feed.history)) \in Nat
        /\ Cardinality(SwapsIn(kept)) <=
             Cardinality(SwapsIn(feed.history)) + (IF d.action = "SWAP" THEN 1 ELSE 0)
    BY <2>2, <2>3, HistoryStep
  <2> HIDE DEF d, all, kept
  <2>5. b \in Nat /\ p \in Nat /\ counted \in Nat
    BY <1>3, <2>3, ConsoleConstants
  <2>6. newest \in Hashes \cup {NoHash}
    BY <1>3 DEF FeedType
  <2> HIDE DEF counted, newest
  <2>7. feed' \in FeedType
    BY <1>3, <2>1, <2>4, <2>5, <2>6 DEF FeedType, Waiting
  <2>8. /\ feed'.status = "running" /\ feed'.balance = b
        /\ feed'.observed = feed.observed /\ feed'.history = kept
        /\ feed'.actions_taken = counted /\ feed'.swarm = v
    BY <2>1 DEF FeedType
  <2>9. LastIsSwap(feed') <=> a = "SWAP"
    BY <2>2, <2>4, <2>8 DEF LastIsSwap
  <2>10. a = "SWAP" <=> v.SWAP >= VoteThreshold
    BY <1>3 DEF Booked
  <2>11. a # "SWAP" => b = feed.observed
    BY <1>3 DEF Booked, Actions, Truthful
  <2>12. Entry(d, accepted)
    BY <1>3, <2>2 DEF Booked, Entry, Swaps
  <2>13. \A i \in DOMAIN kept : Entry(kept[i], accepted)
    BY <2>4, <2>12 DEF Truthful
  <2>14. Cardinality(SwapsIn(kept)) <= counted
    <3>1. Cardinality(SwapsIn(kept)) \in Int
      <4>1. SwapsIn(kept) \subseteq 1..Len(kept) /\ Len(kept) \in Nat
        BY <2>4 DEF SwapsIn
      <4>2. \A k \in Nat : IsFiniteSet(1..k)
        BY FS_Interval
      <4>3. IsFiniteSet(SwapsIn(kept))
        BY <4>1, <4>2, FS_Subset
      <4>4. Cardinality(SwapsIn(kept)) \in Nat
        BY <4>3, FS_CardinalityType
      <4> QED BY <4>4
    <3>2. Cardinality(SwapsIn(feed.history)) <= feed.actions_taken
      BY DEF Truthful
    <3> QED BY <2>2, <2>3, <2>4, <3>1, <3>2 DEF counted, Swaps, Actions
  <2>15. "running" \notin Deciding
    BY DEF Deciding
  <2> QED BY <2>7, <2>8, <2>9, <2>10, <2>11, <2>13, <2>14, <2>15 DEF Truthful
<1>4. ASSUME Restarted PROVE feed' \in FeedType /\ Truthful(feed', accepted)
  BY <1>4, FreshIsTruthful DEF Restarted
<1> QED BY <1>1, <1>2, <1>3, <1>4 DEF FeedChange

\* An element taken out of a sequence: the others stay, and nothing comes.
LEMMA Removed ==
    ASSUME NEW S, NEW s \in Seq(S), NEW i \in DOMAIN s
    PROVE  /\ RemoveAt(s, i) \in Seq(S) /\ Len(RemoveAt(s, i)) = Len(s) - 1
           /\ \A j \in DOMAIN RemoveAt(s, i) : \E k \in DOMAIN s : RemoveAt(s, i)[j] = s[k]
<1> DEFINE n == Len(s)
           a == SubSeq(s, 1, i - 1)
           b == SubSeq(s, i + 1, n)
<1>1. n \in Nat /\ DOMAIN s = 1..n /\ i \in 1..n /\ \A k \in 1..n : s[k] \in S
  OBVIOUS
<1>2. /\ a \in Seq(S) /\ Len(a) = i - 1 /\ \A k \in 1..(i - 1) : a[k] = s[k]
  BY <1>1, SubSeqProperties
<1>3. /\ b \in Seq(S) /\ Len(b) = n - i /\ \A k \in 1..(n - i) : b[k] = s[i + k]
  BY <1>1, SubSeqProperties
<1> HIDE DEF a, b, n
<1>4. /\ a \o b \in Seq(S) /\ Len(a \o b) = n - 1 /\ DOMAIN (a \o b) = 1..(n - 1)
      /\ \A j \in 1..(n - 1) : (a \o b)[j] = IF j <= i - 1 THEN a[j] ELSE b[j - (i - 1)]
  <2>1. a \o b \in Seq(S) /\ Len(a \o b) = Len(a) + Len(b)
        /\ \A j \in 1..(Len(a) + Len(b)) :
             (a \o b)[j] = IF j <= Len(a) THEN a[j] ELSE b[j - Len(a)]
    BY <1>2, <1>3, ConcatProperties
  <2>2. Len(a) + Len(b) = n - 1
    BY <1>1, <1>2, <1>3
  <2>3. DOMAIN (a \o b) = 1..Len(a \o b)
    BY <2>1
  <2> QED BY <1>2, <2>1, <2>2, <2>3
<1>5. \A j \in 1..(n - 1) : \E k \in 1..n : (a \o b)[j] = s[k]
  <2> TAKE j \in 1..(n - 1)
  <2>1. CASE j <= i - 1
    BY <1>1, <1>2, <1>4, <2>1
  <2>2. CASE ~(j <= i - 1)
    <3>1. j - (i - 1) \in 1..(n - i) /\ i + (j - (i - 1)) = j + 1 /\ j + 1 \in 1..n
      BY <1>1, <2>2
    <3> QED BY <1>3, <1>4, <2>2, <3>1
  <2> QED BY <2>1, <2>2
<1>6. RemoveAt(s, i) = a \o b
  BY DEF RemoveAt, a, b, n
<1> QED BY <1>1, <1>4, <1>5, <1>6 DEF n

-----------------------------------------------------------------------------
\* The conjuncts of the type invariant, with the parts of the snapshots.
LEMMA TypeParts ==
    ASSUME ConsoleTypeOK
    PROVE  /\ last_updated \in 0..MaxUpdates /\ feed \in FeedType
           /\ status \in Snapshots /\ status.at \in Nat
           /\ Len(polls) \in Nat /\ DOMAIN polls = 1..Len(polls)
           /\ \A i \in DOMAIN polls : polls[i] \in Snapshots /\ polls[i].at \in Nat
<1>1. /\ [at |-> last_updated, feed |-> feed] \in Snapshots
      /\ status \in Snapshots /\ polls \in Seq(Snapshots)
  BY DEF ConsoleTypeOK
<1>2. \A s \in Snapshots : s.at \in Nat
  BY SnapshotParts, ConsoleConstants
<1>3. last_updated \in 0..MaxUpdates /\ feed \in FeedType
  <2> DEFINE now == [at |-> last_updated, feed |-> feed]
  <2>1. now.at \in 0..MaxUpdates /\ now.feed \in FeedType
    BY <1>1, SnapshotParts
  <2> QED BY <2>1
<1> QED BY <1>1, <1>2, <1>3

\* Before the first answer: a snapshot of time 0 whose feed claims nothing.
LEMMA BeforeAnswer ==
    /\ NoStatus \in Snapshots /\ NoStatus.at = 0 /\ ~Known(NoStatus)
    /\ \A acc : Truthful(NoStatus.feed, acc)
  BY FreshIsTruthful, SnapshotParts, ConsoleConstants DEF NoStatus, Known

\* What the scanner makes of a snapshot is a row.
LEMMA RowIsTyped ==
    ASSUME NEW s \in Snapshots
    PROVE  ScannerRow(s) \in [staked : BOOLEAN, apy_known : BOOLEAN, position : Nat]
<1>1. s.feed \in FeedType
  BY SnapshotParts
<1>2. FooterBalance(s) \in Nat
  BY <1>1 DEF FooterBalance, FeedType
<1> QED BY <1>2 DEF ScannerRow

\* The form that a page opens with.
LEMMA FreshFormIsTyped == FormTypeOK(FreshForm) /\ FreshForm.field["alloc"] # "default"
  BY DEF FormTypeOK, FreshForm, Profiles, Origins, Configs, Sliders, Synced

\* When a page opens, all of it is fresh.
LEMMA MountedFresh ==
    ASSUME NEW p \in Pages
    PROVE  LET sent == IF p \in StatusPages THEN <<Sent>> ELSE <<>> IN
           /\ sent \in Seq(Snapshots) /\ Len(sent) <= 1 /\ Len(sent) <= MaxPolls
           /\ \A i \in DOMAIN sent : sent[i] = Sent
           /\ Closed \in [open : BOOLEAN,
                          row : [staked : BOOLEAN, apy_known : BOOLEAN, position : Nat]]
           /\ ~Closed.open
<1>1. Sent \in Snapshots
  BY BeforeAnswer DEF Sent
<1>2. ScannerRow(NoStatus) \in [staked : BOOLEAN, apy_known : BOOLEAN, position : Nat]
  BY BeforeAnswer, RowIsTyped
<1>3. /\ <<Sent>> \in Seq(Snapshots) /\ Len(<<Sent>>) = 1 /\ DOMAIN <<Sent>> = {1}
      /\ <<Sent>>[1] = Sent
  BY <1>1
<1>4. <<>> \in Seq(Snapshots) /\ Len(<<>>) = 0 /\ DOMAIN <<>> = {}
  OBVIOUS
<1> QED BY <1>2, <1>3, <1>4, ConsoleConstants DEF Closed

\* A tab that has just been opened.
LEMMA ConsoleInitOK == ConsoleInit => ConsoleInv
<1> SUFFICES ASSUME ConsoleInit PROVE ConsoleInv
  OBVIOUS
<1> USE DEF ConsoleInit
<1>1. /\ feed = FreshFeed /\ accepted = {} /\ last_updated = 1 /\ status = NoStatus
      /\ page \in Pages
  BY DEF FeedInit
<1>2. [at |-> last_updated, feed |-> feed] \in Snapshots
  BY <1>1, FreshIsTruthful, SnapshotParts, ConsoleConstants
<1>3. /\ polls \in Seq(Snapshots) /\ Len(polls) <= 1 /\ Len(polls) <= MaxPolls
      /\ \A i \in DOMAIN polls : polls[i] = NoStatus
      /\ sheet \in [open : BOOLEAN,
                    row : [staked : BOOLEAN, apy_known : BOOLEAN, position : Nat]]
      /\ ~sheet.open
  BY <1>1, MountedFresh DEF Sent
<1>4. ConsoleTypeOK
  <2>1. config \in Configs /\ search \in Needles /\ clicks \in 0..MaxClicks
    BY ConsoleConstants DEF Configs, Needles
  <2>2. FormTypeOK(form)
    BY FreshFormIsTyped
  <2>3. status \in Snapshots
    BY <1>1, BeforeAnswer
  <2>4. page \notin StatusPages => polls = <<>> /\ status = NoStatus
    BY <1>1
  <2>5. loading \in BOOLEAN /\ asked \in BOOLEAN /\ overlapped \in BOOLEAN
    <3>1. loading = TRUE /\ overlapped = FALSE /\ asked = (page \in ConfigPages)
      OBVIOUS
    <3> HIDE DEF ConsoleInit
    <3>2. (page \in ConfigPages) \in BOOLEAN
      OBVIOUS
    <3> QED BY <3>1, <3>2
  <2>6. accepted \subseteq [hash : Hashes, action : Swaps]
    BY <1>1
  <2> HIDE DEF ConsoleInit
  <2> QED BY <1>1, <1>2, <1>3, <2>1, <2>2, <2>3, <2>4, <2>5, <2>6 DEF ConsoleTypeOK
<1>5. AnswersInv
  BY <1>1, <1>3, BeforeAnswer, FreshIsTruthful DEF AnswersInv
<1>6. TimeInv
  BY <1>1, <1>3, BeforeAnswer DEF TimeInv, Sent
<1>7. FieldsInv
  BY FreshFormIsTyped DEF FieldsInv
<1> QED BY <1>4, <1>5, <1>6, <1>7 DEF ConsoleInv

-----------------------------------------------------------------------------
(* The agent *)

\* The published state moves; the pages keep what they hold.
LEMMA PublishKeeps == ASSUME ConsoleInv, Publish PROVE ConsoleInv'
<1> USE DEF feedVars, statusVars, configVars, panelVars
<1>1. /\ feed' \in FeedType /\ Truthful(feed', accepted)
      /\ last_updated' = last_updated + 1 /\ last_updated' \in 0..MaxUpdates
      /\ last_updated \in Nat
  <2>1. feed \in FeedType /\ Truthful(feed, accepted) /\ FeedChange
    BY TypeParts DEF ConsoleInv, AnswersInv, Publish
  <2>2. feed' \in FeedType /\ Truthful(feed', accepted)
    BY <2>1, FeedStep
  <2>3. last_updated \in 0..MaxUpdates /\ last_updated < MaxUpdates
        /\ last_updated' = last_updated + 1
    BY TypeParts DEF ConsoleInv, Publish, Stamped
  <2> QED BY <2>2, <2>3, ConsoleConstants
<1>2. UNCHANGED <<accepted, page, status, loading, polls, overlapped, config, asked,
                  sheet, search, form, clicks>>
  BY DEF Publish
<1>3. [at |-> last_updated', feed |-> feed'] \in Snapshots
  BY <1>1, SnapshotParts
<1>4. ConsoleTypeOK'
  BY <1>2, <1>3 DEF ConsoleInv, ConsoleTypeOK
<1>5. AnswersInv'
  BY <1>1, <1>2 DEF ConsoleInv, AnswersInv, IsAccepted
<1>6. TimeInv'
  <2>1. status.at \in Nat /\ \A i \in DOMAIN polls : polls[i].at \in Nat
    BY TypeParts DEF ConsoleInv
  <2> QED BY <1>1, <1>2, <2>1 DEF ConsoleInv, TimeInv
<1>7. FieldsInv'
  BY <1>2 DEF ConsoleInv, FieldsInv
<1> QED BY <1>4, <1>5, <1>6, <1>7 DEF ConsoleInv

\* A node takes a swap: whatever was backed still is.
LEMMA AcceptedKeeps == ASSUME ConsoleInv, SwapAccepted PROVE ConsoleInv'
<1> USE DEF feedVars, statusVars, configVars, panelVars
<1>1. UNCHANGED <<feed, last_updated, page, status, loading, polls, overlapped, config,
                  asked, sheet, search, form, clicks>>
  BY DEF SwapAccepted
<1>2. /\ accepted \subseteq accepted'
      /\ accepted \subseteq [hash : Hashes, action : Swaps]
           => accepted' \subseteq [hash : Hashes, action : Swaps]
  BY DEF SwapAccepted, DeployChange, Accepted
<1>3. ConsoleTypeOK'
  BY <1>1, <1>2 DEF ConsoleInv, ConsoleTypeOK
<1>4. AnswersInv'
  <2>1. \A f : Truthful(f, accepted) => Truthful(f, accepted')
    BY <1>2, TruthStays
  <2> QED BY <1>1, <1>2, <2>1 DEF ConsoleInv, AnswersInv, IsAccepted
<1>5. TimeInv' /\ FieldsInv'
  BY <1>1 DEF ConsoleInv, TimeInv, FieldsInv
<1> QED BY <1>3, <1>4, <1>5 DEF ConsoleInv

-----------------------------------------------------------------------------
(* Pages and polls *)

\* Another page opens, with nothing left of the last one.
LEMMA NavigateKeeps ==
    ASSUME ConsoleInv, NEW p \in Pages, Navigate(p) PROVE ConsoleInv'
<1> USE DEF feedVars
<1>1. /\ UNCHANGED <<feed, accepted, last_updated>>
      /\ page' = p /\ status' = NoStatus /\ loading' = TRUE /\ overlapped' = FALSE
      /\ config' = "default" /\ asked' \in BOOLEAN /\ search' = "all"
      /\ form' = FreshForm /\ clicks' = 0
  BY DEF Navigate, Mounted
<1>2. /\ polls' \in Seq(Snapshots) /\ Len(polls') <= 1 /\ Len(polls') <= MaxPolls
      /\ \A i \in DOMAIN polls' : polls'[i] = NoStatus
      /\ p \notin StatusPages => polls' = <<>>
      /\ sheet' \in [open : BOOLEAN,
                     row : [staked : BOOLEAN, apy_known : BOOLEAN, position : Nat]]
      /\ ~sheet'.open
  BY MountedFresh DEF Sent, Navigate, Mounted
<1>3. ConsoleTypeOK'
  <2>1. config' \in Configs /\ search' \in Needles /\ clicks' \in 0..MaxClicks
    BY <1>1, ConsoleConstants DEF Configs, Needles
  <2>2. FormTypeOK(form')
    BY <1>1, FreshFormIsTyped
  <2>3. status' \in Snapshots
    BY <1>1, BeforeAnswer
  <2>4. page' \notin StatusPages => polls' = <<>> /\ status' = NoStatus
    BY <1>1, <1>2
  <2> QED BY <1>1, <1>2, <2>1, <2>2, <2>3, <2>4 DEF ConsoleInv, ConsoleTypeOK
<1>4. AnswersInv'
  BY <1>1, <1>2, BeforeAnswer DEF ConsoleInv, AnswersInv
<1>5. TimeInv'
  <2>1. last_updated \in Nat
    BY TypeParts, ConsoleConstants DEF ConsoleInv
  <2> QED BY <1>1, <1>2, <2>1, BeforeAnswer DEF ConsoleInv, TimeInv, Sent
<1>6. FieldsInv'
  BY <1>1, FreshFormIsTyped DEF FieldsInv
<1> QED BY <1>3, <1>4, <1>5, <1>6 DEF ConsoleInv

\* One more poll; if others are in flight, they overlap.
LEMMA TickKeeps == ASSUME ConsoleInv, PollTick PROVE ConsoleInv'
<1> USE DEF feedVars, configVars, panelVars
<1>1. UNCHANGED <<feed, accepted, last_updated, page, status, loading, config, asked,
                  sheet, search, form, clicks>>
  BY DEF PollTick
<1>2. /\ polls \in Seq(Snapshots) /\ Len(polls) < MaxPolls /\ page \in StatusPages
      /\ polls' = Append(polls, Sent) /\ overlapped' = (overlapped \/ polls # <<>>)
      /\ Sent \in Snapshots /\ overlapped \in BOOLEAN
  BY BeforeAnswer DEF ConsoleInv, ConsoleTypeOK, PollTick, Sent
<1>3. /\ polls' \in Seq(Snapshots) /\ Len(polls') = Len(polls) + 1 /\ Len(polls) \in Nat
      /\ \A i \in DOMAIN polls' :
           polls'[i] = Sent \/ (i \in DOMAIN polls /\ polls'[i] = polls[i])
  <2>1. polls' \in Seq(Snapshots) /\ Len(polls') = Len(polls) + 1 /\ Len(polls) \in Nat
    BY <1>2, AppendProperties
  <2>2. DOMAIN polls = 1..Len(polls) /\ DOMAIN polls' = 1..(Len(polls) + 1)
    BY <1>2, <2>1
  <2>3. /\ polls'[Len(polls) + 1] = Sent
        /\ \A i \in 1..Len(polls) : polls'[i] = polls[i]
    BY <1>2, AppendProperties
  <2>4. \A i \in 1..(Len(polls) + 1) : i = Len(polls) + 1 \/ i \in 1..Len(polls)
    BY <2>1
  <2>5. \A i \in DOMAIN polls' :
          polls'[i] = Sent \/ (i \in DOMAIN polls /\ polls'[i] = polls[i])
    BY <2>2, <2>3, <2>4
  <2> QED BY <2>1, <2>5
<1>4. ConsoleTypeOK'
  <2>1. Len(polls') <= MaxPolls
    BY <1>2, <1>3, ConsoleConstants
  <2> QED BY <1>1, <1>2, <1>3, <2>1 DEF ConsoleInv, ConsoleTypeOK
<1>5. AnswersInv'
  BY <1>1, <1>3, BeforeAnswer DEF ConsoleInv, AnswersInv, IsAccepted, Sent
<1>6. TimeInv'
  <2>1. last_updated \in Nat
    BY TypeParts, ConsoleConstants DEF ConsoleInv
  <2>2. \A i \in DOMAIN polls' : polls'[i].at <= last_updated'
    BY <1>1, <1>3, <2>1, BeforeAnswer DEF ConsoleInv, TimeInv, Sent
  <2>3. ASSUME ~overlapped'
        PROVE  Len(polls') <= 1 /\ \A i \in DOMAIN polls' : polls'[i] = Sent
    <3>1. polls = <<>>
      BY <1>2, <2>3, Zenon
    <3>2. Len(polls) = 0 /\ DOMAIN polls = {}
      BY <3>1
    <3> QED BY <1>3, <3>2
  <2> QED BY <1>1, <2>2, <2>3 DEF ConsoleInv, TimeInv
<1>7. FieldsInv'
  BY <1>1 DEF ConsoleInv, FieldsInv
<1> QED BY <1>4, <1>5, <1>6, <1>7 DEF ConsoleInv

\* The answer is a copy of the published state.
LEMMA AnswerKeeps ==
    ASSUME ConsoleInv, NEW i \in InFlight, PollAnswered(i) PROVE ConsoleInv'
<1> USE DEF feedVars, configVars, panelVars
<1> DEFINE now == [at |-> last_updated, feed |-> feed]
<1>1. UNCHANGED <<feed, accepted, last_updated, page, status, loading, overlapped, config,
                  asked, sheet, search, form, clicks>>
  BY DEF PollAnswered
<1>2. /\ polls \in Seq(Snapshots) /\ now \in Snapshots /\ i \in 1..Len(polls)
      /\ polls' = [polls EXCEPT ![i] = now]
  BY DEF ConsoleInv, ConsoleTypeOK, PollAnswered, InFlight
<1>3. /\ polls' \in Seq(Snapshots) /\ Len(polls') = Len(polls)
      /\ DOMAIN polls' = DOMAIN polls
      /\ \A j \in DOMAIN polls : polls'[j] = IF j = i THEN now ELSE polls[j]
  BY <1>2, ExceptSeq
<1>4. now.at = last_updated /\ now.feed = feed
  OBVIOUS
<1> HIDE DEF now
<1>5. ConsoleTypeOK'
  <2>1. i \in DOMAIN polls /\ DOMAIN <<>> = {}
    BY <1>2
  <2> QED BY <1>1, <1>3, <2>1 DEF ConsoleInv, ConsoleTypeOK
<1>6. AnswersInv'
  BY <1>1, <1>3, <1>4 DEF ConsoleInv, AnswersInv, IsAccepted
<1>7. TimeInv'
  <2>1. last_updated \in Nat
    BY TypeParts, ConsoleConstants DEF ConsoleInv
  <2> QED BY <1>1, <1>3, <1>4, <2>1 DEF ConsoleInv, TimeInv
<1>8. FieldsInv'
  BY <1>1 DEF ConsoleInv, FieldsInv
<1> QED BY <1>5, <1>6, <1>7, <1>8 DEF ConsoleInv

\* What is in flight after one poll is done with.
LEMMA PollGone ==
    ASSUME ConsoleInv, NEW i \in InFlight, polls' = RemoveAt(polls, i)
    PROVE  /\ polls' \in Seq(Snapshots) /\ Len(polls') <= MaxPolls /\ page \in StatusPages
           /\ \A j \in DOMAIN polls' : \E k \in DOMAIN polls : polls'[j] = polls[k]
           /\ ~overlapped => Len(polls') <= 1 /\ DOMAIN polls' = {}
<1>1. polls \in Seq(Snapshots) /\ Len(polls) <= MaxPolls /\ i \in DOMAIN polls
      /\ Len(polls) \in Nat
  BY DEF ConsoleInv, ConsoleTypeOK, InFlight
<1>2. /\ polls' \in Seq(Snapshots) /\ Len(polls') = Len(polls) - 1
      /\ \A j \in DOMAIN polls' : \E k \in DOMAIN polls : polls'[j] = polls[k]
  BY <1>1, Removed
<1>3. DOMAIN polls' = 1..Len(polls') /\ Len(polls') \in Nat
  BY <1>2
<1>4. page \in StatusPages
  <2>1. polls # <<>>
    BY <1>1
  <2> QED BY <2>1 DEF ConsoleInv, ConsoleTypeOK
<1>5. ~overlapped => Len(polls) <= 1
  BY DEF ConsoleInv, TimeInv
<1> QED BY <1>1, <1>2, <1>3, <1>4, <1>5, ConsoleConstants

\* The answer is shown, whichever of the polls it is of.
LEMMA DeliveredKeeps ==
    ASSUME ConsoleInv, NEW i \in InFlight, PollDelivered(i)
    PROVE  ConsoleInv' /\ (status'.at < status.at => overlapped)
<1> USE DEF feedVars, configVars, panelVars
<1>1. UNCHANGED <<feed, accepted, last_updated, page, overlapped, config, asked, sheet,
                  search, form, clicks>>
  BY DEF PollDelivered
<1>2. /\ polls[i] # Sent /\ status' = polls[i] /\ loading' = FALSE
      /\ polls' = RemoveAt(polls, i) /\ i \in DOMAIN polls
  BY DEF PollDelivered, InFlight
<1>3. /\ polls' \in Seq(Snapshots) /\ Len(polls') <= MaxPolls /\ page \in StatusPages
      /\ \A j \in DOMAIN polls' : \E k \in DOMAIN polls : polls'[j] = polls[k]
      /\ ~overlapped => Len(polls') <= 1 /\ DOMAIN polls' = {}
  BY <1>2, PollGone
<1>4. polls[i] \in Snapshots /\ polls[i].at \in Nat /\ status.at \in Nat
  BY <1>2, TypeParts DEF ConsoleInv
<1>5. ConsoleTypeOK'
  BY <1>1, <1>2, <1>3, <1>4 DEF ConsoleInv, ConsoleTypeOK
<1>6. AnswersInv'
  BY <1>1, <1>2, <1>3 DEF ConsoleInv, AnswersInv, IsAccepted
<1>7. TimeInv'
  BY <1>1, <1>2, <1>3 DEF ConsoleInv, TimeInv
<1>8. FieldsInv'
  BY <1>1 DEF ConsoleInv, FieldsInv
<1>9. status'.at < status.at => overlapped
  BY <1>2, <1>4 DEF ConsoleInv, TimeInv
<1> QED BY <1>5, <1>6, <1>7, <1>8, <1>9 DEF ConsoleInv

\* The answer is lost.
LEMMA FailsKeeps ==
    ASSUME ConsoleInv, NEW i \in InFlight, PollFails(i) PROVE ConsoleInv'
<1> USE DEF feedVars, configVars, panelVars
<1>1. UNCHANGED <<feed, accepted, last_updated, page, status, overlapped, config, asked,
                  sheet, search, form, clicks>>
  BY DEF PollFails
<1>2. loading' = FALSE /\ polls' = RemoveAt(polls, i)
  BY DEF PollFails
<1>3. /\ polls' \in Seq(Snapshots) /\ Len(polls') <= MaxPolls /\ page \in StatusPages
      /\ \A j \in DOMAIN polls' : \E k \in DOMAIN polls : polls'[j] = polls[k]
      /\ ~overlapped => Len(polls') <= 1 /\ DOMAIN polls' = {}
  BY <1>2, PollGone
<1>4. ConsoleTypeOK'
  BY <1>1, <1>2, <1>3 DEF ConsoleInv, ConsoleTypeOK
<1>5. AnswersInv'
  BY <1>1, <1>2, <1>3 DEF ConsoleInv, AnswersInv, IsAccepted
<1>6. TimeInv'
  BY <1>1, <1>2, <1>3 DEF ConsoleInv, TimeInv
<1>7. FieldsInv'
  BY <1>1 DEF ConsoleInv, FieldsInv
<1> QED BY <1>4, <1>5, <1>6, <1>7 DEF ConsoleInv

-----------------------------------------------------------------------------
(* The configuration and the clicks: the snapshots stay where they are *)

\* Steps that touch neither the snapshots nor the polls.
LEMMA PanelStep ==
    ASSUME ConsoleInv,
           UNCHANGED <<feed, accepted, last_updated, page, status, loading, polls, overlapped>>,
           config' \in Configs, asked' \in BOOLEAN, search' \in Needles,
           FormTypeOK(form)', clicks' \in 0..MaxClicks, FieldsInv',
           sheet' \in [open : BOOLEAN,
                      row : [staked : BOOLEAN, apy_known : BOOLEAN, position : Nat]],
           sheet'.open /\ sheet'.row.staked => \E h \in Hashes : IsAccepted(h, "SWAP")
    PROVE  ConsoleInv'
<1>1. ConsoleTypeOK'
  BY DEF ConsoleInv, ConsoleTypeOK
<1>2. AnswersInv'
  BY DEF ConsoleInv, AnswersInv, IsAccepted
<1>3. TimeInv'
  BY DEF ConsoleInv, TimeInv
<1> QED BY <1>1, <1>2, <1>3 DEF ConsoleInv

\* The parts of the invariant that such a step may rely on.
LEMMA PanelParts ==
    ASSUME ConsoleInv
    PROVE  /\ config \in Configs /\ asked \in BOOLEAN /\ search \in Needles
           /\ FormTypeOK(form) /\ clicks \in 0..MaxClicks /\ FieldsInv
           /\ sheet \in [open : BOOLEAN,
                         row : [staked : BOOLEAN, apy_known : BOOLEAN, position : Nat]]
           /\ sheet.open /\ sheet.row.staked => \E h \in Hashes : IsAccepted(h, "SWAP")
  BY DEF ConsoleInv, ConsoleTypeOK, AnswersInv

\* What each step of the form leaves in its fields.
LEMMA FormSteps ==
    ASSUME NEW fm, FormTypeOK(fm), fm.field["alloc"] # "default", NEW c \in Configs
    PROVE  /\ /\ FormTypeOK(SyncForm(fm, c)) /\ SyncForm(fm, c).field["alloc"] # "default"
              /\ \A g \in Synced : SyncForm(fm, c).field[g] = c
           /\ \A p \in Profiles :
                /\ FormTypeOK(ApplyProfile(fm, p, c))
                /\ ApplyProfile(fm, p, c).field["alloc"] # "default"
                /\ \A g \in Synced : ApplyProfile(fm, p, c).field[g] \in {c, p}
           /\ \A f \in Sliders :
                /\ FormTypeOK(Slide(fm, f))
                /\ Slide(fm, f).field["alloc"] # "default"
                /\ \A g \in Synced : Slide(fm, f).field[g] \in {fm.field[g], "user"}
<1> DEFINE D == Sliders \cup {"liq"}
<1>1. /\ fm.profile \in Profiles /\ fm.field \in [D -> Origins] /\ fm.saved \in Nat
      /\ DOMAIN fm.field = D
  BY DEF FormTypeOK
<1>2. /\ "alloc" \in D /\ "alloc" \notin Synced /\ Synced \subseteq D /\ Sliders \subseteq D
      /\ "alloc" # "cycle" /\ "default" \notin Profiles
  BY DEF Sliders, Synced, Profiles
<1>3. Profiles \subseteq Origins /\ Configs \subseteq Origins /\ "user" \in Origins
  BY DEF Origins
<1>4. /\ FormTypeOK(SyncForm(fm, c)) /\ SyncForm(fm, c).field["alloc"] # "default"
      /\ \A g \in Synced : SyncForm(fm, c).field[g] = c
  <2> DEFINE F == [f \in D |-> IF f \in Synced THEN c ELSE fm.field[f]]
  <2>1. SyncForm(fm, c) = [fm EXCEPT !.field = F]
    BY <1>1 DEF SyncForm
  <2>2. F \in [D -> Origins] /\ F["alloc"] # "default" /\ \A g \in Synced : F[g] = c
    BY <1>1, <1>2, <1>3
  <2> HIDE DEF F, D
  <2> QED BY <1>1, <2>1, <2>2 DEF FormTypeOK, D
<1>5. ASSUME NEW p \in Profiles
      PROVE  /\ FormTypeOK(ApplyProfile(fm, p, c))
             /\ ApplyProfile(fm, p, c).field["alloc"] # "default"
             /\ \A g \in Synced : ApplyProfile(fm, p, c).field[g] \in {c, p}
  <2> DEFINE F == [f \in D |-> IF f = "cycle" THEN c ELSE p]
  <2>1. ApplyProfile(fm, p, c) = [fm EXCEPT !.profile = p, !.field = F]
    BY <1>1 DEF ApplyProfile
  <2>2. F \in [D -> Origins] /\ F["alloc"] # "default" /\ \A g \in Synced : F[g] \in {c, p}
    BY <1>1, <1>2, <1>3
  <2> HIDE DEF F, D
  <2> QED BY <1>1, <2>1, <2>2 DEF FormTypeOK, D
<1>6. ASSUME NEW f \in Sliders
      PROVE  /\ FormTypeOK(Slide(fm, f))
             /\ Slide(fm, f).field["alloc"] # "default"
             /\ \A g \in Synced : Slide(fm, f).field[g] \in {fm.field[g], "user"}
  <2> DEFINE F == [fm.field EXCEPT ![f] = "user"]
  <2>1. Slide(fm, f) = [fm EXCEPT !.field = F]
    BY <1>1 DEF Slide
  <2>2. /\ F \in [D -> Origins] /\ F["alloc"] # "default"
        /\ \A g \in Synced : F[g] \in {fm.field[g], "user"}
    BY <1>1, <1>2, <1>3
  <2> HIDE DEF F, D
  <2> QED BY <1>1, <2>1, <2>2 DEF FormTypeOK, D
<1> QED BY <1>4, <1>5, <1>6

\* The configuration is there: the strategy page takes it over.
LEMMA ConfigServedKeeps == ASSUME ConsoleInv, ConfigServed PROVE ConsoleInv'
<1> USE DEF feedVars, statusVars
<1>1. /\ UNCHANGED <<feed, accepted, last_updated, page, status, loading, polls, overlapped,
                     sheet, search, clicks>>
      /\ config' = "served" /\ asked' = FALSE
      /\ form' = IF page = "agent" THEN SyncForm(form, "served") ELSE form
  BY DEF ConfigServed
<1>2. FormTypeOK(form)' /\ FieldsInv'
  BY <1>1, PanelParts, FormSteps DEF FieldsInv, Configs
<1> QED BY <1>1, <1>2, PanelParts, PanelStep DEF Configs

\* It never comes: the defaults stay.
LEMMA ConfigFailsKeeps == ASSUME ConsoleInv, ConfigFails PROVE ConsoleInv'
<1> USE DEF feedVars, statusVars, panelVars
<1>1. /\ UNCHANGED <<feed, accepted, last_updated, page, status, loading, polls, overlapped,
                     config, sheet, search, form, clicks>>
      /\ asked' = FALSE
  BY DEF ConfigFails
<1>2. FormTypeOK(form)' /\ FieldsInv'
  BY <1>1, PanelParts DEF FieldsInv
<1> QED BY <1>1, <1>2, PanelParts, PanelStep

\* What a click leaves alone.
LEMMA ClickLeaves ==
    ASSUME ConsoleInv, NEW p, Click(p)
    PROVE  /\ UNCHANGED <<feed, accepted, last_updated, page, status, loading, polls,
                          overlapped, config, asked>>
           /\ clicks' \in 0..MaxClicks /\ page = p
<1>1. clicks \in 0..MaxClicks /\ clicks < MaxClicks /\ clicks' = clicks + 1
  BY PanelParts DEF Click
<1> QED BY <1>1, ConsoleConstants DEF Click, feedVars, statusVars, configVars

\* "Staked" in the scanner is backed by a swap.
LEMMA StakedIsBacked ==
    ASSUME NEW s \in Snapshots, Truthful(s.feed, accepted),
           accepted \subseteq [hash : Hashes, action : Swaps], LastAction(s) = "SWAP"
    PROVE  \E h \in Hashes : IsAccepted(h, "SWAP")
<1>1. Known(s) /\ s.feed.history # <<>> /\ s.feed.history \in Seq(Decisions)
      /\ LastAction(s) = s.feed.history[Len(s.feed.history)].action
  BY SnapshotParts DEF LastAction, History, Last, FeedType
<1> DEFINE n == Len(s.feed.history)
           d == s.feed.history[n]
<1>2. n \in DOMAIN s.feed.history
  BY <1>1
<1>3. Entry(d, accepted) /\ d.action = "SWAP"
  BY <1>1, <1>2 DEF Truthful
<1> QED BY <1>3 DEF Entry, IsAccepted

\* The sheet keeps the row of the moment it was opened.
LEMMA OpenSheetKeeps == ASSUME ConsoleInv, OpenSheet PROVE ConsoleInv'
<1>1. /\ UNCHANGED <<feed, accepted, last_updated, page, status, loading, polls, overlapped,
                     config, asked, search, form>>
      /\ clicks' \in 0..MaxClicks /\ sheet' = [open |-> TRUE, row |-> ScannerRow(status)]
  BY ClickLeaves DEF OpenSheet
<1>2. status \in Snapshots /\ Truthful(status.feed, accepted)
      /\ accepted \subseteq [hash : Hashes, action : Swaps]
  BY DEF ConsoleInv, ConsoleTypeOK, AnswersInv
<1>3. ScannerRow(status) \in [staked : BOOLEAN, apy_known : BOOLEAN, position : Nat]
  BY <1>2, RowIsTyped
<1>4. ScannerRow(status).staked <=> LastAction(status) = "SWAP"
  BY DEF ScannerRow
<1>5. sheet'.row.staked => \E h \in Hashes : IsAccepted(h, "SWAP")
  BY <1>1, <1>2, <1>4, StakedIsBacked
<1>6. FormTypeOK(form)' /\ FieldsInv'
  BY <1>1, PanelParts DEF FieldsInv
<1>7. sheet' \in [open : BOOLEAN,
                 row : [staked : BOOLEAN, apy_known : BOOLEAN, position : Nat]]
  BY <1>1, <1>3
<1> QED BY <1>1, <1>5, <1>6, <1>7, PanelParts, PanelStep

\* Closing the sheet.
LEMMA CloseSheetKeeps == ASSUME ConsoleInv, CloseSheet PROVE ConsoleInv'
<1> USE DEF feedVars, statusVars, configVars
<1>1. /\ UNCHANGED <<feed, accepted, last_updated, page, status, loading, polls, overlapped,
                     config, asked, search, form, clicks>>
      /\ sheet' = Closed
  BY DEF CloseSheet
<1>2. sheet' \in [open : BOOLEAN,
                 row : [staked : BOOLEAN, apy_known : BOOLEAN, position : Nat]]
      /\ ~sheet'.open
  <2>1. PICK p \in Pages : TRUE
    BY DEF Pages
  <2> QED BY <1>1, MountedFresh
<1>3. FormTypeOK(form)' /\ FieldsInv'
  BY <1>1, PanelParts DEF FieldsInv
<1> QED BY <1>1, <1>2, <1>3, PanelParts, PanelStep

\* Typing into the search.
LEMMA SearchKeeps ==
    ASSUME ConsoleInv, NEW n \in Needles, SearchAudit(n) PROVE ConsoleInv'
<1>1. /\ UNCHANGED <<feed, accepted, last_updated, page, status, loading, polls, overlapped,
                     config, asked, sheet, form>>
      /\ clicks' \in 0..MaxClicks /\ search' = n
  BY ClickLeaves DEF SearchAudit
<1>2. FormTypeOK(form)' /\ FieldsInv'
  BY <1>1, PanelParts DEF FieldsInv
<1> QED BY <1>1, <1>2, PanelParts, PanelStep

\* A preset, a slider, the reset and the save button of the strategy page.
LEMMA StrategyKeeps == ASSUME ConsoleInv, StrategyClick PROVE ConsoleInv'
<1> DEFINE Good(fm) == /\ FormTypeOK(fm) /\ fm.field["alloc"] # "default"
                       /\ config = "served" => \A g \in Synced : fm.field[g] # "default"
<1>1. /\ config \in Configs /\ FormTypeOK(form) /\ form.field["alloc"] # "default"
      /\ page = "agent" /\ config = "served" => \A g \in Synced : form.field[g] # "default"
  BY PanelParts DEF FieldsInv
<1>2. ASSUME NEW next, EditForm(next), page = "agent" => Good(next) PROVE ConsoleInv'
  <2>1. /\ UNCHANGED <<feed, accepted, last_updated, page, status, loading, polls,
                       overlapped, config, asked, sheet, search>>
        /\ clicks' \in 0..MaxClicks /\ form' = next /\ page = "agent"
    BY <1>2, ClickLeaves DEF EditForm
  <2>2. FormTypeOK(form)' /\ FieldsInv'
    BY <1>2, <2>1 DEF FieldsInv
  <2> QED BY <2>1, <2>2, PanelParts, PanelStep
<1>3. ASSUME NEW p \in Profiles PROVE Good(ApplyProfile(form, p, config))
  <2>1. p # "default"
    BY DEF Profiles
  <2> QED BY <1>1, <2>1, FormSteps
<1>4. ASSUME NEW f \in Sliders, page = "agent" PROVE Good(Slide(form, f))
  BY <1>1, <1>4, FormSteps
<1>5. Good(ResetForm(form, config))
  <2> DEFINE preset == ApplyProfile(form, "balanced", config)
  <2>1. FormTypeOK(preset) /\ preset.field["alloc"] # "default"
    BY <1>1, FormSteps DEF Profiles
  <2> HIDE DEF preset
  <2>2. Good(SyncForm(preset, config))
    BY <1>1, <2>1, FormSteps
  <2> QED BY <2>2 DEF ResetForm, preset
<1>6. ASSUME page = "agent" PROVE Good(Save(form))
  BY <1>1, <1>6 DEF Save, FormTypeOK
<1> HIDE DEF Good
<1> QED BY <1>2, <1>3, <1>4, <1>5, <1>6 DEF StrategyClick

\* The label of a saved strategy goes after its time.
LEMMA LabelKeeps == ASSUME ConsoleInv, SavedLabelGoes PROVE ConsoleInv'
<1> USE DEF feedVars, statusVars, configVars
<1>1. /\ UNCHANGED <<feed, accepted, last_updated, page, status, loading, polls, overlapped,
                     config, asked, sheet, search, clicks>>
      /\ form' = SavedTimer(form) /\ form.saved > 0
  BY DEF SavedLabelGoes
<1>2. FormTypeOK(form)' /\ FieldsInv'
  BY <1>1, PanelParts DEF FieldsInv, SavedTimer, FormTypeOK
<1> QED BY <1>1, <1>2, PanelParts, PanelStep

-----------------------------------------------------------------------------
\* Every step of the console keeps the invariant.
LEMMA ConsoleStep == ConsoleInv /\ [ConsoleNext]_consoleVars => ConsoleInv'
<1> SUFFICES ASSUME ConsoleInv, [ConsoleNext]_consoleVars PROVE ConsoleInv'
  OBVIOUS
<1>1. CASE Publish
  BY <1>1, PublishKeeps
<1>2. CASE SwapAccepted
  BY <1>2, AcceptedKeeps
<1>3. CASE PollTick
  BY <1>3, TickKeeps
<1>4. CASE Answer
  BY <1>4, AnswerKeeps DEF Answer
<1>5. CASE Deliver
  BY <1>5, DeliveredKeeps DEF Deliver
<1>6. CASE \E i \in InFlight : PollFails(i)
  BY <1>6, FailsKeeps
<1>7. CASE ConfigServed
  BY <1>7, ConfigServedKeeps
<1>8. CASE ConfigFails
  BY <1>8, ConfigFailsKeeps
<1>9. CASE UserClick
  <2>1. CASE \E p \in Pages : Navigate(p)
    BY <2>1, NavigateKeeps
  <2>2. CASE OpenSheet
    BY <2>2, OpenSheetKeeps
  <2>3. CASE CloseSheet
    BY <2>3, CloseSheetKeeps
  <2>4. CASE \E n \in Needles : SearchAudit(n)
    BY <2>4, SearchKeeps
  <2>5. CASE StrategyClick
    BY <2>5, StrategyKeeps
  <2> QED BY <1>9, <2>1, <2>2, <2>3, <2>4, <2>5 DEF UserClick
<1>10. CASE SavedLabelGoes
  BY <1>10, LabelKeeps
<1>11. CASE UNCHANGED consoleVars
  <2>1. /\ UNCHANGED <<feed, accepted, last_updated, page, status, loading, polls,
                       overlapped, config, asked, sheet, search, form, clicks>>
    BY <1>11 DEF consoleVars, feedVars, statusVars, configVars, panelVars
  <2>2. FormTypeOK(form)' /\ FieldsInv'
    BY <2>1, PanelParts DEF FieldsInv
  <2> QED BY <2>1, <2>2, PanelParts, PanelStep
<1> QED BY <1>1, <1>2, <1>3, <1>4, <1>5, <1>6, <1>7, <1>8, <1>9, <1>10, <1>11
        DEF ConsoleNext

\* Whatever the agent, the network and the user do, what a page holds is typed,
\* was truthful when it was published, and is in order.
THEOREM ConsoleSafe == ConsoleSpec => []ConsoleInv
  BY ConsoleInitOK, ConsoleStep, PTL DEF ConsoleSpec

\* The variables of the dashboard stay of their types.
THEOREM ConsoleTypeOKHolds == ConsoleSpec => []ConsoleTypeOK
<1>1. ConsoleInv => ConsoleTypeOK
  BY DEF ConsoleInv
<1> QED BY <1>1, ConsoleSafe, PTL

-----------------------------------------------------------------------------
(* What the pages make of a snapshot that can be relied on *)

\* The history a page shows is a history of decisions, each of them backed.
LEMMA HistoryShown ==
    ASSUME NEW s \in Snapshots, NEW acc, Truthful(s.feed, acc)
    PROVE  /\ History(s) \in Seq(Decisions)
           /\ \A i \in DOMAIN History(s) : Entry(History(s)[i], acc)
           /\ (LastAction(s) = "SWAP") <=> (Known(s) /\ LastIsSwap(s.feed))
<1>1. s.feed.history \in Seq(Decisions) /\ <<>> \in Seq(Decisions) /\ DOMAIN <<>> = {}
  BY SnapshotParts DEF FeedType
<1>2. \A i \in DOMAIN s.feed.history : Entry(s.feed.history[i], acc)
  BY DEF Truthful
<1>3. CASE Known(s)
  BY <1>1, <1>2, <1>3 DEF History, LastAction, LastIsSwap, Last
<1>4. CASE ~Known(s)
  BY <1>1, <1>4 DEF History, LastAction
<1> QED BY <1>3, <1>4

\* The claims of every panel are backed, of the sheet as of the row it was.
LEMMA BackedIfTruthful == ConsoleInv => ClaimsAreBacked
<1> SUFFICES ASSUME ConsoleInv PROVE ClaimsAreBacked
  OBVIOUS
<1>1. /\ status \in Snapshots /\ Truthful(status.feed, accepted)
      /\ accepted \subseteq [hash : Hashes, action : Swaps]
      /\ sheet.open /\ sheet.row.staked => \E h \in Hashes : IsAccepted(h, "SWAP")
  BY DEF ConsoleInv, ConsoleTypeOK, AnswersInv
<1> DEFINE H == History(status)
<1>2. /\ H \in Seq(Decisions) /\ \A i \in DOMAIN H : Entry(H[i], accepted)
      /\ (LastAction(status) = "SWAP") <=> (Known(status) /\ LastIsSwap(status.feed))
  BY <1>1, HistoryShown
<1>3. \A e \in AuditLinks(status, search) : IsAccepted(e.hash, e.action)
  <2>1. \A i \in DOMAIN H :
          H[i].deploy_hash # NoHash => IsAccepted(H[i].deploy_hash, H[i].action)
    BY <1>2 DEF Entry, IsAccepted
  <2>2. /\ DOMAIN AuditEntries(status) = DOMAIN H
        /\ \A i \in DOMAIN H : /\ AuditEntries(status)[i].hash = H[i].deploy_hash
                               /\ AuditEntries(status)[i].action = H[i].action
    BY DEF AuditEntries
  <2>3. \A e \in AuditLinks(status, search) :
          e.hash # NoHash /\ \E i \in DOMAIN H : e = AuditEntries(status)[i]
    BY <2>2 DEF AuditLinks, AuditTable
  <2> HIDE DEF H
  <2> QED BY <2>1, <2>2, <2>3
<1>4. ASSUME NEW i \in DOMAIN DecisionRows(status),
             DecisionRows(status)[i].badge = "SWAP ON-CHAIN"
      PROVE  IsAccepted(RowLink(DecisionRows(status)[i]), "SWAP")
  <2>1. \A d : RowOf(d).badge = "SWAP ON-CHAIN"
                 => d.action = "SWAP" /\ RowOf(d).deploy_hash = d.deploy_hash
    BY DEF RowOf
  <2>2. CASE H = <<>>
    <3> DEFINE d == [action |-> "HOLD", deploy_hash |-> NoHash]
    <3>1. i = 1 /\ DecisionRows(status)[i] = RowOf(d)
      BY <2>2 DEF DecisionRows
    <3>2. d.action = "SWAP"
      BY <1>4, <2>1, <3>1
    <3> QED BY <3>2
  <2>3. CASE H # <<>>
    <3>1. i \in DOMAIN H /\ DecisionRows(status)[i] = RowOf(H[i])
      BY <2>3 DEF DecisionRows
    <3>2. H[i].action = "SWAP" /\ RowLink(DecisionRows(status)[i]) = H[i].deploy_hash
      BY <1>4, <2>1, <3>1 DEF RowLink
    <3> QED BY <1>2, <3>1, <3>2 DEF Entry, IsAccepted
  <2> QED BY <2>2, <2>3
<1>5. LastAction(status) = "SWAP" => \E h \in Hashes : IsAccepted(h, "SWAP")
  BY <1>1, StakedIsBacked
<1>6. /\ ScannerRow(status).staked <=> LastAction(status) = "SWAP"
      /\ PositionBadge(status) = "Staked" => LastAction(status) = "SWAP"
      /\ Allocation(status).scspr > 0 => LastAction(status) = "SWAP"
      /\ PoolDetail(sheet) = sheet.row
  <2>1. ScannerRow(status).staked <=> LastAction(status) = "SWAP"
    BY DEF ScannerRow
  <2>2. PositionBadge(status) = "Staked" => LastAction(status) = "SWAP"
    BY DEF PositionBadge
  <2>3. Allocation(status).scspr > 0 => LastAction(status) = "SWAP"
    <3>1. LastAction(status) # "SWAP" => Allocation(status).scspr = 0
      BY DEF Allocation
    <3> QED BY <3>1
  <2> QED BY <2>1, <2>2, <2>3 DEF PoolDetail
<1>7. (SwarmPanel(status).final_action = "SWAP")
        <=> (SwarmPanel(status).votes.SWAP >= VoteThreshold)
  <2>1. CASE Known(status)
    BY <1>1, <1>2, <2>1 DEF SwarmPanel, Truthful
  <2>2. CASE ~Known(status)
    BY <1>2, <2>2, ConsoleConstants DEF SwarmPanel, NoVotes
  <2> QED BY <2>1, <2>2
<1> HIDE DEF H
<1> QED BY <1>1, <1>3, <1>4, <1>5, <1>6, <1>7 DEF ClaimsAreBacked

\* Nothing on any page claims a swap that no node took, nor does the panel of the
\* swarm show a SWAP with fewer votes than it takes.
THEOREM ClaimsAreBackedHolds == ConsoleSpec => []ClaimsAreBacked
  BY BackedIfTruthful, ConsoleSafe, PTL

-----------------------------------------------------------------------------
\* The bars are drawn in reverse, and show as many swaps as the history has.
LEMMA BarsOfHistory ==
    ASSUME NEW s \in Snapshots, History(s) \in Seq(Decisions)
    PROVE  /\ SwapCount(s) \in Nat /\ Cardinality(SwapsIn(History(s))) \in Nat
           /\ SwapCount(s) <= Cardinality(SwapsIn(History(s)))
           /\ SwapsAmong(ActivityBars(s)) = SwapCount(s)
           /\ SwapsAmong(RecentActivity(s)) \in Nat
           /\ SwapsAmong(RecentActivity(s)) <= Cardinality(SwapsIn(History(s)))
<1> DEFINE H == History(s)
           n == Len(H)
           drawn == {i \in DOMAIN DecisionBars(s) : DecisionBars(s)[i] = "SWAP"}
           g == [i \in drawn |-> n - i + 1]
           listed == {r \in DOMAIN RecentActivity(s) : RecentActivity(s)[r] = "SWAP"}
<1>1. n \in Nat /\ DOMAIN H = 1..n
  OBVIOUS
<1>2. \A i \in 1..n : Reverse(H)[i] = H[n - i + 1]
  BY <1>1 DEF Reverse
<1>3. \A d : BarOf(d) = "SWAP" <=> d.action = "SWAP"
  BY DEF BarOf
<1>4. /\ DOMAIN DecisionBars(s) = 1..n
      /\ \A i \in 1..n : DecisionBars(s)[i] = BarOf(Reverse(H)[i])
      /\ DOMAIN ActivityBars(s) = 1..n
      /\ \A i \in 1..n : ActivityBars(s)[i] = Reverse(H)[i].action
  BY <1>1 DEF DecisionBars, ActivityBars
<1>5. SwapCount(s) = Cardinality(drawn)
  BY DEF SwapCount
<1> HIDE DEF H, n
<1>6. drawn \subseteq 1..n
  BY <1>4
<1>7. \A i \in drawn : i \in Int /\ n - i + 1 \in SwapsIn(H)
  <2> TAKE i \in drawn
  <2>1. i \in 1..n /\ n - i + 1 \in 1..n
    BY <1>1, <1>6
  <2>2. H[n - i + 1].action = "SWAP"
    BY <1>2, <1>3, <1>4, <2>1
  <2> QED BY <1>1, <2>1, <2>2 DEF SwapsIn
<1>8. IsFiniteSet(drawn) /\ IsFiniteSet(SwapsIn(H))
  <2>1. IsFiniteSet(1..n)
    BY <1>1, FS_Interval
  <2>2. SwapsIn(H) \subseteq 1..n
    BY <1>1 DEF SwapsIn
  <2> QED BY <1>6, <2>1, <2>2, FS_Subset
<1>9. Cardinality(drawn) \in Nat /\ Cardinality(SwapsIn(H)) \in Nat
  BY <1>8, FS_CardinalityType
<1> HIDE DEF drawn
<1>10. g \in Injection(drawn, SwapsIn(H))
  <2>1. \A i, j \in drawn : n - i + 1 = n - j + 1 => i = j
    BY <1>1, <1>7
  <2> QED BY <1>7, <2>1, Fun_IsInj
<1>11. Cardinality(drawn) <= Cardinality(SwapsIn(H))
  BY <1>8, <1>10, FS_Injection
<1>12. SwapsAmong(ActivityBars(s)) = SwapCount(s)
  <2>1. {b \in DOMAIN ActivityBars(s) : ActivityBars(s)[b] = "SWAP"} =
          {b \in DOMAIN DecisionBars(s) : DecisionBars(s)[b] = "SWAP"}
    BY <1>3, <1>4
  <2> QED BY <2>1 DEF SwapsAmong, SwapCount
<1>13. listed \subseteq SwapsIn(H)
  BY DEF RecentActivity, SwapsIn, H
<1>14. Cardinality(listed) \in Nat /\ Cardinality(listed) <= Cardinality(SwapsIn(H))
  BY <1>8, <1>13, FS_Subset, FS_CardinalityType
<1>15. SwapsAmong(RecentActivity(s)) = Cardinality(listed)
  BY DEF SwapsAmong
<1> QED BY <1>5, <1>9, <1>11, <1>12, <1>14, <1>15 DEF H

\* Every swap of the history has a hash: no failure is there to be counted.
LEMMA RateOfHistory ==
    ASSUME NEW s \in Snapshots, NEW acc, Truthful(s.feed, acc),
           acc \subseteq [hash : Hashes, action : Swaps], RateShown(s)
    PROVE  AvgGasShown(s) /\ SuccessRate(s) = 100
<1> DEFINE H == History(s)
           E == AuditEntries(s)
           swaps == SwapEntries(s)
<1>1. H \in Seq(Decisions) /\ \A i \in DOMAIN H : Entry(H[i], acc)
  BY HistoryShown
<1>2. /\ DOMAIN E = DOMAIN H /\ swaps \subseteq DOMAIN E
      /\ \A i \in DOMAIN H : E[i].hash = H[i].deploy_hash /\ E[i].action = H[i].action
      /\ \A i \in swaps : E[i].action = "SWAP"
  BY DEF AuditEntries, SwapEntries
<1> HIDE DEF H, E
<1>3. \A i \in swaps : E[i].hash # NoHash
  <2> TAKE i \in swaps
  <2>1. [hash |-> H[i].deploy_hash, action |-> "SWAP"] \in acc
    BY <1>1, <1>2 DEF Entry
  <2>2. H[i].deploy_hash \in Hashes
    BY <2>1
  <2> QED BY <1>2, <2>2, ConsoleConstants
<1>4. {i \in swaps : E[i].hash # NoHash} = swaps
  BY <1>3
<1>5. SuccessRate(s) = (100 * Cardinality(swaps)) \div Cardinality(swaps)
  <2>1. SuccessRate(s) =
          (100 * Cardinality({i \in swaps : E[i].hash # NoHash})) \div Cardinality(swaps)
    BY DEF SuccessRate, E
  <2> QED BY <1>4, <2>1
<1>6. IsFiniteSet(swaps) /\ swaps # {}
  <2>1. DOMAIN H = 1..Len(H) /\ Len(H) \in Nat
    BY <1>1
  <2>2. IsFiniteSet(DOMAIN H)
    BY <2>1, FS_Interval
  <2>3. swaps # {}
    BY DEF RateShown
  <2> QED BY <1>2, <2>2, <2>3, FS_Subset
<1> HIDE DEF swaps
<1>7. Cardinality(swaps) \in Nat \ {0}
  BY <1>6, FS_CardinalityType, FS_EmptySet
<1>8. \A c \in Nat \ {0} : (100 * c) \div c = 100
  OBVIOUS
<1>9. SuccessRate(s) = 100
  BY <1>5, <1>7, <1>8
<1>10. AvgGasShown(s)
  BY <1>2, <1>3, <1>6 DEF AvgGasShown, E
<1> QED BY <1>9, <1>10

\* The panels of a page that shows a snapshot to be relied on tell one story.
LEMMA AgreeIfTruthful == ConsoleInv => PanelsAgree
<1> SUFFICES ASSUME ConsoleInv PROVE PanelsAgree
  OBVIOUS
<1>1. /\ status \in Snapshots /\ Truthful(status.feed, accepted) /\ loading \in BOOLEAN
      /\ accepted \subseteq [hash : Hashes, action : Swaps]
      /\ Known(status) => ~loading
  BY DEF ConsoleInv, ConsoleTypeOK, AnswersInv
<1>2. /\ History(status) \in Seq(Decisions)
      /\ (LastAction(status) = "SWAP") <=> (Known(status) /\ LastIsSwap(status.feed))
  BY <1>1, HistoryShown
<1>3. /\ (Indicator(status, loading) = "active") <=> Running(status)
      /\ (Pill(status, loading) = "active") <=> Running(status)
      /\ FooterGreen(status) <=> Running(status)
      /\ LandingStats(status).live <=> Running(status)
      /\ IssueBox(status) => ~Running(status)
  <2>1. Running(status) => ~loading
    BY <1>1 DEF Running
  <2>2. (Indicator(status, loading) = "active") <=> Running(status)
    <3>1. CASE loading
      BY <2>1, <3>1 DEF Indicator
    <3>2. CASE ~loading /\ Running(status)
      BY <3>2 DEF Indicator, Running
    <3>3. CASE ~loading /\ ~Running(status)
      BY <3>3 DEF Indicator
    <3> QED BY <3>1, <3>2, <3>3
  <2>3. (Pill(status, loading) = "active") <=> Running(status)
    BY <2>1 DEF Pill
  <2> QED BY <2>2, <2>3 DEF FooterGreen, LandingStats, IssueBox
<1>4. /\ SwapCount(status) <= AgentPanel(status).executed_swaps
      /\ SwapsAmong(RecentActivity(status)) <= AgentPanel(status).executed_swaps
  <2>1. /\ SwapCount(status) \in Nat /\ Cardinality(SwapsIn(History(status))) \in Nat
        /\ SwapCount(status) <= Cardinality(SwapsIn(History(status)))
        /\ SwapsAmong(RecentActivity(status)) \in Nat
        /\ SwapsAmong(RecentActivity(status)) <= Cardinality(SwapsIn(History(status)))
    BY <1>1, <1>2, BarsOfHistory
  <2>2. CASE Known(status)
    <3>1. Cardinality(SwapsIn(History(status))) <= status.feed.actions_taken
      BY <1>1, <2>2 DEF History, Truthful
    <3>2. status.feed.actions_taken \in Nat
      BY <1>1, SnapshotParts DEF FeedType
    <3>3. AgentPanel(status).executed_swaps = status.feed.actions_taken
      BY <2>2 DEF AgentPanel
    <3> QED BY <2>1, <3>1, <3>2, <3>3
  <2>3. CASE ~Known(status)
    <3>1. SwapsIn(History(status)) = {}
      BY <2>3 DEF History, SwapsIn
    <3>2. Cardinality(SwapsIn(History(status))) = 0
      BY <3>1, FS_EmptySet
    <3>3. AgentPanel(status).executed_swaps = 0
      BY <2>3 DEF AgentPanel
    <3> QED BY <2>1, <3>2, <3>3
  <2> QED BY <2>2, <2>3
<1>5. /\ AgentPanel(status).executed_swaps = LandingStats(status).decisions
      /\ AgentPanel(status).executed_swaps = PortfolioCards(status).executed_swaps
  BY DEF AgentPanel, LandingStats, PortfolioCards
<1>6. SwapsAmong(ActivityBars(status)) = SwapCount(status)
  BY <1>1, <1>2, BarsOfHistory
<1>7. AgentPanel(status).balance # HeroBalance(status).cspr
        => ScannerRow(status).staked /\ AgentPanel(status).last_decision = "SWAP"
  <2>1. AgentPanel(status).balance # HeroBalance(status).cspr
          => Known(status) /\ status.feed.balance # status.feed.observed
    BY DEF AgentPanel, HeroBalance, NoReading
  <2>2. Known(status) /\ status.feed.balance # status.feed.observed
          => LastAction(status) = "SWAP"
    BY <1>1, <1>2 DEF Truthful
  <2> QED BY <2>1, <2>2 DEF ScannerRow, AgentPanel
<1>8. RateShown(status) => AvgGasShown(status) /\ SuccessRate(status) = 100
  BY <1>1, RateOfHistory
<1> QED BY <1>1, <1>3, <1>4, <1>5, <1>6, <1>7, <1>8 DEF PanelsAgree

\* The panels of the console tell one story.
THEOREM PanelsAgreeHolds == ConsoleSpec => []PanelsAgree
  BY AgreeIfTruthful, ConsoleSafe, PTL

-----------------------------------------------------------------------------
\* Beside the served configuration no field of the strategy page shows a default.
THEOREM NoDefaultAfterServedHolds == ConsoleSpec => []NoDefaultAfterServed
<1>1. ConsoleInv => NoDefaultAfterServed
  BY DEF ConsoleInv, FieldsInv, NoDefaultAfterServed, EffectivePolicy, Sliders
<1> QED BY <1>1, ConsoleSafe, PTL

\* What an open page shows goes back in time only if two polls were in flight at once.
THEOREM RegressNeedsOverlapHolds == ConsoleSpec => RegressNeedsOverlap
<1>1. ASSUME ConsoleInv, [ConsoleNext]_consoleVars, page' = page, status'.at < status.at
      PROVE  overlapped
  <2> USE DEF consoleVars, feedVars, statusVars, configVars, panelVars
  <2>1. CASE Deliver
    BY <1>1, <2>1, DeliveredKeeps DEF Deliver
  <2>2. ASSUME status' = status PROVE FALSE
    <3>1. status.at \in Nat
      BY <1>1, TypeParts DEF ConsoleInv
    <3> QED BY <1>1, <2>2, <3>1
  <2>3. CASE Publish \/ SwapAccepted \/ PollTick
    BY <2>2, <2>3 DEF Publish, SwapAccepted, PollTick
  <2>4. CASE Answer \/ \E i \in InFlight : PollFails(i)
    BY <2>2, <2>4 DEF Answer, PollAnswered, PollFails
  <2>5. CASE ConfigServed \/ ConfigFails \/ SavedLabelGoes
    BY <2>2, <2>5 DEF ConfigServed, ConfigFails, SavedLabelGoes
  <2>6. CASE \E p \in Pages : Navigate(p)
    BY <1>1, <2>6 DEF Navigate, Mounted
  <2>7. CASE OpenSheet \/ CloseSheet \/ \E n \in Needles : SearchAudit(n)
    BY <2>2, <2>7 DEF OpenSheet, CloseSheet, SearchAudit, Click
  <2>8. CASE StrategyClick
    BY <2>2, <2>8 DEF StrategyClick, EditForm, Click
  <2>9. CASE UNCHANGED consoleVars
    BY <2>2, <2>9
  <2> QED BY <1>1, <2>1, <2>3, <2>4, <2>5, <2>6, <2>7, <2>8, <2>9 DEF ConsoleNext, UserClick
<1>2. ConsoleInv /\ [ConsoleNext]_consoleVars
        => [(page' = page /\ status'.at < status.at) => overlapped]_consoleVars
  BY <1>1
<1> QED BY <1>2, ConsoleSafe, PTL DEF ConsoleSpec, RegressNeedsOverlap

=============================================================================
