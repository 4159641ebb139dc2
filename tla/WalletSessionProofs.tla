------------------------ MODULE WalletSessionProofs ------------------------
(***************************************************************************)
(* For any accounts, any number of changes in the wallet and of flows on    *)
(* the page: the session is well typed, a connected page has an address, an *)
(* only an answer the wallet overtook makes the page show a wrong account.  *)
(***************************************************************************)
EXTENDS WalletSession, SequenceTheorems, TLAPS

EventTypes == {"connected", "disconnected", "activeKeyChanged"}
Events == [type : EventTypes, activeKey : Keys \cup {NoKey}]
Calls == [step : Steps, answer : Wallets \cup {NoAnswer}]

\* The window hears of every change, and the newest event is about the wallet as
\* it is now; an event "connected" always brings a key.
EventsTellTheWallet ==
    /\ events # <<>> => events[Len(events)].activeKey = ActiveKey(wallet)
    /\ \A i \in 1..Len(events) :
         events[i].type = "connected" => events[i].activeKey # NoKey

SessionInv == SessionTypeOK /\ EventsTellTheWallet

-----------------------------------------------------------------------------
\* The calls that are left after one has ended are calls.
LEMMA RemoveAtType ==
    ASSUME NEW S, NEW s \in Seq(S), NEW i \in 1..Len(s)
    PROVE  RemoveAt(s, i) \in Seq(S)
<1>1. SubSeq(s, 1, i-1) \in Seq(S)
  BY SubSeqProperties, ElementOfSeq, LenProperties
<1>2. SubSeq(s, i+1, Len(s)) \in Seq(S)
  BY SubSeqProperties, ElementOfSeq, LenProperties
<1> QED BY <1>1, <1>2, ConcatProperties DEF RemoveAt

\* A queue after its head was taken.
LEMMA HeadTailLast ==
    ASSUME NEW S, NEW s \in Seq(S), s # <<>>
    PROVE  /\ Head(s) \in S /\ Head(s) = s[1] /\ Len(s) \in Nat \ {0}
           /\ Tail(s) \in Seq(S) /\ Len(Tail(s)) = Len(s) - 1
           /\ \A i \in 1..Len(Tail(s)) : Tail(s)[i] = s[i+1]
<1>1. Len(s) \in Nat \ {0}
  BY EmptySeq
<1>2. Head(s) = s[1]
  BY <1>1
<1>3. /\ Head(s) \in S /\ Tail(s) \in Seq(S) /\ Len(Tail(s)) = Len(s) - 1
      /\ \A i \in 1..Len(Tail(s)) : Tail(s)[i] = s[i+1]
  BY HeadTailProperties
<1> QED BY <1>1, <1>2, <1>3

\* What a wallet gives away, and what linking does to it.
LEMMA WalletTypes ==
    ASSUME NEW w \in Wallets
    PROVE  /\ ActiveKey(w) \in Keys \cup {NoKey}
           /\ Link(w) \in Wallets /\ ActiveKey(Link(w)) # NoKey
           /\ Unlink(w) \in Wallets
           /\ \A k \in Keys : [w EXCEPT !.key = k] \in Wallets
  BY WalletAssumption DEF Wallets, ActiveKey, Link, Unlink

\* The answer of a call, a missing one too, gives away a key or none.
LEMMA AnswerTypes ==
    ASSUME NEW a \in Wallets \cup {NoAnswer}
    PROVE  ActiveKey(a) \in Keys \cup {NoKey}
  BY WalletTypes DEF ActiveKey, NoAnswer

-----------------------------------------------------------------------------
\* A change in the wallet reports itself.
LEMMA ChangedKeepsInv ==
    ASSUME SessionInv, NEW w \in Wallets, NEW type \in EventTypes, Changed(w, type),
           type = "connected" => ActiveKey(w) # NoKey
    PROVE  /\ wallet' \in Wallets /\ changes' \in 0..MaxChanges
           /\ events' \in Seq(Events)
           /\ events' # <<>>
           /\ EventsTellTheWallet'
<1> DEFINE e == Event(type, w)
<1>1. e \in Events /\ e.activeKey = ActiveKey(w) /\ e.type = type
  BY WalletTypes DEF Events, Event
<1>2. /\ events \in Seq(Events) /\ events' = Append(events, e)
      /\ wallet' = w /\ changes' = changes + 1 /\ changes < MaxChanges
      /\ changes \in 0..MaxChanges
  BY DEF SessionInv, SessionTypeOK, Changed, Events, EventTypes
<1>3. /\ events' \in Seq(Events)
      /\ Len(events') = Len(events) + 1 /\ Len(events) \in Nat
      /\ events'[Len(events')] = e
      /\ \A i \in 1..Len(events) : events'[i] = events[i]
  BY <1>1, <1>2
<1>4. events' # <<>>
  BY <1>3, EmptySeq
<1>5. ASSUME NEW i \in 1..Len(events'), events'[i].type = "connected"
      PROVE  events'[i].activeKey # NoKey
  <2>1. CASE i = Len(events')
    BY <2>1, <1>1, <1>3, <1>5
  <2>2. CASE i # Len(events')
    BY <2>2, <1>3, <1>5 DEF SessionInv, EventsTellTheWallet
  <2> QED BY <2>1, <2>2
<1>6. EventsTellTheWallet'
  BY <1>1, <1>2, <1>3, <1>5 DEF EventsTellTheWallet
<1> QED BY <1>2, <1>3, <1>4, <1>6, WalletAssumption

\* What the page shows of a key is a key; nothing is shown connected without one.
LEMMA HandlersKeepInv ==
    ASSUME SessionInv, NEW k \in Keys \cup {NoKey},
           HandleConnected(k) \/ HandleActiveKeyChanged(k) \/ Clear \/ Keep
    PROVE  /\ connected' \in BOOLEAN
           /\ address' \in Keys \cup {NoKey}
           /\ connected' => address' # NoKey
<1>1. /\ connected \in BOOLEAN /\ address \in Keys \cup {NoKey}
      /\ connected => address # NoKey
  BY DEF SessionInv, SessionTypeOK
<1>2. CASE Keep
  BY <1>1, <1>2 DEF Keep
<1>3. CASE Clear
  BY <1>3 DEF Clear
<1>4. CASE HandleConnected(k)
  BY <1>1, <1>4 DEF HandleConnected, Show, Keep
<1>5. CASE HandleActiveKeyChanged(k)
  BY <1>1, <1>5 DEF HandleActiveKeyChanged, Clear
<1> QED BY <1>2, <1>3, <1>4, <1>5

-----------------------------------------------------------------------------
\* A fresh page has the invariant.
LEMMA SessionInit == WalletInit => SessionInv
<1> SUFFICES ASSUME WalletInit PROVE SessionInv
  OBVIOUS
<1>1. Call("isConnected") \in Calls
  BY DEF Call, Calls, Steps
<1>2. calls \in Seq(Calls)
  BY <1>1 DEF WalletInit
<1>3. events \in Seq(Events) /\ Len(events) = 0
  BY EmptySeq DEF WalletInit
<1>4. EventsTellTheWallet
  BY <1>3 DEF WalletInit, EventsTellTheWallet
<1>5. changes \in 0..MaxChanges /\ address = NoKey
  BY WalletAssumption DEF WalletInit
<1>6. connected = FALSE /\ loading = TRUE /\ wallet \in Wallets
  BY DEF WalletInit
<1>7. connected \in BOOLEAN /\ loading \in BOOLEAN /\ ~connected
  BY <1>6
<1> QED
  BY <1>2, <1>3, <1>4, <1>5, <1>6, <1>7
  DEF SessionInv, SessionTypeOK, Calls, Events, EventTypes

\* Of the calls under way, one is replaced, one is dropped or one is new.
LEMMA CallsKeepType ==
    ASSUME SessionInv
    PROVE  /\ \A step \in Steps : Append(calls, Call(step)) \in Seq(Calls)
           /\ \A i \in DOMAIN calls :
                /\ calls[i] \in Calls
                /\ RemoveAt(calls, i) \in Seq(Calls)
                /\ \A step \in Steps : [calls EXCEPT ![i] = Call(step)] \in Seq(Calls)
                /\ \A w \in Wallets : [calls EXCEPT ![i].answer = w] \in Seq(Calls)
<1>1. calls \in Seq(Calls) /\ DOMAIN calls = 1..Len(calls)
  BY DEF SessionInv, SessionTypeOK, Calls
<1>2. \A step \in Steps : Call(step) \in Calls
  BY DEF Call, Calls
<1>3. ASSUME NEW i \in DOMAIN calls
      PROVE  /\ calls[i] \in Calls
             /\ RemoveAt(calls, i) \in Seq(Calls)
  BY <1>1, ElementOfSeq, RemoveAtType
<1>4. ASSUME NEW i \in DOMAIN calls, NEW step \in Steps
      PROVE  [calls EXCEPT ![i] = Call(step)] \in Seq(Calls)
  BY <1>1, <1>2, ExceptSeq
<1>5. ASSUME NEW i \in DOMAIN calls, NEW w \in Wallets
      PROVE  [calls EXCEPT ![i].answer = w] \in Seq(Calls)
  <2>1. [calls[i] EXCEPT !.answer = w] \in Calls
    BY <1>3 DEF Calls
  <2> QED BY <1>1, <2>1, ExceptSeq
<1> QED BY <1>1, <1>2, <1>3, <1>4, <1>5

\* Every step keeps the invariant.
LEMMA SessionNext == SessionInv /\ [WalletNext]_contextVars => SessionInv'
<1> SUFFICES ASSUME SessionInv, [WalletNext]_contextVars PROVE SessionInv'
  OBVIOUS
<1> USE DEF Calls, Events, EventTypes
<1>0. SessionTypeOK /\ EventsTellTheWallet
  BY DEF SessionInv
<1>1. CASE UserChangesWallet
  <2>1. ASSUME NEW w \in Wallets, NEW type \in EventTypes, Changed(w, type),
               type = "connected" => ActiveKey(w) # NoKey
        PROVE  SessionInv'
    BY <1>0, <1>1, <2>1, ChangedKeepsInv
    DEF SessionInv, SessionTypeOK, UserChangesWallet, sessionVars
  <2> QED BY <1>0, <1>1, <2>1, WalletTypes DEF UserChangesWallet, SessionTypeOK
<1>2. CASE HandleEvent
  <2> DEFINE e == Head(events)
  <2>1. /\ events \in Seq(Events) /\ events # <<>> /\ events' = Tail(events)
        /\ UNCHANGED <<wallet, changes, loading, calls>>
    BY <1>0, <1>2 DEF SessionTypeOK, HandleEvent, walletVars
  <2>2. /\ e \in Events /\ e = events[1]
        /\ Tail(events) \in Seq(Events)
        /\ Len(Tail(events)) = Len(events) - 1 /\ Len(events) \in Nat \ {0}
        /\ \A i \in 1..Len(Tail(events)) : Tail(events)[i] = events[i+1]
    BY <2>1, HeadTailLast
  <2>3. EventsTellTheWallet'
    <3>1. ActiveKey(wallet)' = ActiveKey(wallet)
      BY <2>1 DEF ActiveKey
    <3>2. events' # <<>> => Len(events') \in 1..Len(events')
      BY <2>1, <2>2, EmptySeq
    <3>3. events' # <<>> => events'[Len(events')] = events[Len(events)]
      BY <2>1, <2>2, <3>2
    <3>4. \A i \in 1..Len(events') : i + 1 \in 1..Len(events) /\ events'[i] = events[i+1]
      BY <2>1, <2>2
    <3> QED BY <1>0, <2>1, <3>1, <3>3, <3>4 DEF EventsTellTheWallet
  <2>4. HandleConnected(e.activeKey) \/ Clear \/ HandleActiveKeyChanged(e.activeKey)
    BY <1>2 DEF HandleEvent, HandleDisconnected
  <2>5. /\ connected' \in BOOLEAN /\ address' \in Keys \cup {NoKey}
        /\ connected' => address' # NoKey
    BY <2>2, <2>4, HandlersKeepInv
  <2> QED BY <1>0, <2>1, <2>2, <2>3, <2>5 DEF SessionInv, SessionTypeOK
<1>3. CASE PressConnect \/ PressDisconnect
  <2>1. PICK step \in Steps : Begin(step)
    BY <1>3 DEF PressConnect, PressDisconnect, Steps
  <2>2. calls' \in Seq(Calls)
    BY <2>1, CallsKeepType DEF Begin
  <2> QED
    BY <1>0, <2>1, <2>2
    DEF SessionInv, SessionTypeOK, EventsTellTheWallet, ActiveKey, Begin, walletVars, sessionVars
<1>4. ASSUME NEW i \in DOMAIN calls, Replied(i) PROVE SessionInv'
  <2>1. wallet \in Wallets
    BY <1>0 DEF SessionTypeOK
  <2>2. /\ wallet' \in Wallets /\ changes' \in 0..MaxChanges
        /\ events' \in Seq(Events) /\ EventsTellTheWallet'
    <3>1. CASE Changed(Link(wallet), "connected")
      BY <2>1, <3>1, WalletTypes, ChangedKeepsInv
    <3>2. CASE Changed(Unlink(wallet), "disconnected")
      BY <2>1, <3>2, WalletTypes, ChangedKeepsInv
    <3>3. CASE UNCHANGED <<walletVars, events>>
      BY <1>0, <3>3 DEF SessionTypeOK, EventsTellTheWallet, ActiveKey, walletVars
    <3> QED BY <1>4, <3>1, <3>2, <3>3 DEF Replied
  <2>3. calls' \in Seq(Calls)
    BY <1>4, <2>2, CallsKeepType DEF Replied
  <2> QED
    BY <1>0, <1>4, <2>2, <2>3 DEF SessionInv, SessionTypeOK, Replied, sessionVars
<1>5. ASSUME NEW i \in DOMAIN calls, Resumes(i) PROVE SessionInv'
  <2> DEFINE k == ActiveKey(calls[i].answer)
  <2>1. k \in Keys \cup {NoKey}
    BY CallsKeepType, AnswerTypes
  <2>2. /\ connected' \in BOOLEAN /\ address' \in Keys \cup {NoKey}
        /\ connected' => address' # NoKey
    <3>1. HandleConnected(k) \/ Clear \/ Keep
      BY <1>5 DEF Resumes, CheckResumes, ButtonResumes, ConnectResumes, DisconnectResumes
    <3> QED BY <2>1, <3>1, HandlersKeepInv
  <2>3. calls' \in Seq(Calls)
    BY <1>5, CallsKeepType
    DEF Resumes, CheckResumes, ButtonResumes, ConnectResumes, DisconnectResumes,
        Continue, Finish, Steps
  <2>4. loading' \in BOOLEAN
    BY <1>0, <1>5
    DEF Resumes, CheckResumes, ButtonResumes, ConnectResumes, DisconnectResumes, SessionTypeOK
  <2> QED
    BY <1>0, <1>5, <2>2, <2>3, <2>4
    DEF SessionInv, SessionTypeOK, EventsTellTheWallet, ActiveKey, Resumes, walletVars
<1>6. ASSUME NEW i \in DOMAIN calls, CallRaises(i) PROVE SessionInv'
  <2>1. /\ connected' \in BOOLEAN /\ address' \in Keys \cup {NoKey}
        /\ connected' => address' # NoKey
    <3>1. Clear \/ Keep
      BY <1>6 DEF CallRaises
    <3> QED BY <3>1, HandlersKeepInv
  <2>2. calls' \in Seq(Calls)
    BY <1>6, CallsKeepType DEF CallRaises, Finish
  <2>3. loading' \in BOOLEAN
    BY <1>0, <1>6 DEF CallRaises, SessionTypeOK
  <2> QED
    BY <1>0, <1>6, <2>1, <2>2, <2>3
    DEF SessionInv, SessionTypeOK, EventsTellTheWallet, ActiveKey, CallRaises, walletVars
<1>7. CASE UNCHANGED contextVars
  BY <1>0, <1>7
  DEF SessionInv, SessionTypeOK, EventsTellTheWallet, ActiveKey, contextVars, walletVars,
      sessionVars
<1> QED BY <1>1, <1>2, <1>3, <1>4, <1>5, <1>6, <1>7 DEF WalletNext

\* The session of any wallet is well typed, and a connected page has an address,
\* whatever order events and answers arrive in.
THEOREM SessionTypeOKHolds == WalletSpec => []SessionTypeOK
<1>1. SessionInv => SessionTypeOK
  BY DEF SessionInv
<1> QED BY <1>1, SessionInit, SessionNext, PTL DEF WalletSpec

-----------------------------------------------------------------------------
\* A step by which the page comes to be misled is the end of a flow whose answer
\* the wallet has overtaken.
LEMMA MisledByStaleAnswer ==
    ASSUME SessionInv, [WalletNext]_contextVars, ~Misled, Misled'
    PROVE  \E i \in DOMAIN calls : Stale(i) /\ calls' = RemoveAt(calls, i)
<1>0. SessionTypeOK /\ EventsTellTheWallet
  BY DEF SessionInv
<1>1. events' = <<>> /\ connected' /\ address' # ActiveKey(wallet')
  BY DEF Misled, ActiveKey
<1>2. ASSUME NEW w, NEW type, Changed(w, type) PROVE FALSE
  <2>1. events' = Append(events, Event(type, w))
    BY <1>2 DEF Changed
  <2>2. Append(events, Event(type, w)) # <<>>
    BY <1>0 DEF SessionTypeOK
  <2> QED BY <1>1, <2>1, <2>2
<1>3. ASSUME UNCHANGED <<wallet, connected, address>>, events = <<>> PROVE FALSE
  BY <1>1, <1>3 DEF Misled
<1>4. CASE UserChangesWallet
  BY <1>2, <1>4 DEF UserChangesWallet
<1>5. CASE HandleEvent
  <2> DEFINE e == Head(events)
  <2>1. events \in Seq(Events) /\ events # <<>> /\ Tail(events) = <<>> /\ wallet' = wallet
    BY <1>0, <1>1, <1>5 DEF HandleEvent, SessionTypeOK, Events, EventTypes, walletVars
  <2>2. Len(events) = 1 /\ e = events[1]
    <3>1. Head(events) = events[1] /\ Len(events) \in Nat \ {0}
          /\ Len(Tail(events)) = Len(events) - 1
      BY <2>1, HeadTailLast
    <3>2. Len(Tail(events)) = 0
      BY <2>1, EmptySeq
    <3> HIDE DEF e
    <3>3. ASSUME NEW n \in Nat \ {0}, n - 1 = 0 PROVE n = 1
      BY <3>3
    <3>4. Len(events) = 1
      BY <3>1, <3>2, <3>3
    <3> QED BY <3>1, <3>4 DEF e
  <2>3. e.activeKey = ActiveKey(wallet) /\ (e.type = "connected" => e.activeKey # NoKey)
    BY <1>0, <2>1, <2>2 DEF EventsTellTheWallet
  <2>4. CASE e.type = "connected" /\ HandleConnected(e.activeKey)
    BY <1>1, <2>1, <2>3, <2>4 DEF HandleConnected, Show
  <2>5. CASE HandleDisconnected
    BY <1>1, <2>5 DEF HandleDisconnected, Clear
  <2>6. CASE HandleActiveKeyChanged(e.activeKey)
    BY <1>1, <2>1, <2>3, <2>6 DEF HandleActiveKeyChanged, Clear
  <2> QED BY <1>5, <2>4, <2>5, <2>6 DEF HandleEvent
<1>6. CASE PressConnect \/ PressDisconnect
  BY <1>1, <1>3, <1>6 DEF PressConnect, PressDisconnect, Begin, walletVars, sessionVars
<1>7. ASSUME NEW i \in DOMAIN calls, Replied(i) PROVE FALSE
  BY <1>1, <1>2, <1>3, <1>7 DEF Replied, walletVars, sessionVars
<1>8. ASSUME NEW i \in DOMAIN calls, Resumes(i)
      PROVE  Stale(i) /\ calls' = RemoveAt(calls, i)
  <2> DEFINE k == ActiveKey(calls[i].answer)
  <2>1. calls[i].answer # NoAnswer /\ wallet' = wallet /\ events' = events
    BY <1>8 DEF Resumes, walletVars
  <2>2. ~Keep /\ ~Clear
    BY <1>1, <1>3, <2>1 DEF Keep, Clear
  <2>3. HandleConnected(k) /\ Finish(i)
    BY <1>8, <2>2
    DEF Resumes, CheckResumes, ButtonResumes, ConnectResumes, DisconnectResumes
  <2>4. address' = k
    BY <2>2, <2>3 DEF HandleConnected, Show
  <2>5. calls[i].answer # wallet
    BY <1>1, <2>1, <2>4
  <2> QED BY <2>1, <2>3, <2>5 DEF Stale, Finish
<1>9. ASSUME NEW i \in DOMAIN calls, CallRaises(i) PROVE FALSE
  BY <1>1, <1>3, <1>9 DEF CallRaises, Keep, Clear, walletVars
<1>10. CASE UNCHANGED contextVars
  BY <1>1, <1>3, <1>10 DEF contextVars, walletVars, sessionVars
<1> QED BY <1>4, <1>5, <1>6, <1>7, <1>8, <1>9, <1>10 DEF WalletNext

\* Events alone, in whatever number and order, and flows that nothing overtook
\* never bring the page to show an account the wallet does not offer: it takes an
\* answer older than the wallet's last change.
THEOREM OnlyOvertakenAnswersMisleadHolds == WalletSpec => OnlyOvertakenAnswersMislead
<1>1. SessionInv /\ [WalletNext]_contextVars =>
        [(~Misled /\ Misled') =>
            \E i \in DOMAIN calls : Stale(i) /\ calls' = RemoveAt(calls, i)]_contextVars
  BY MisledByStaleAnswer
<1> QED
  BY <1>1, SessionInit, SessionNext, PTL DEF WalletSpec, OnlyOvertakenAnswersMislead

=============================================================================
