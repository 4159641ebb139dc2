--------------------------- MODULE WalletSession ---------------------------
(***************************************************************************)
(* What a tab knows of the user's wallet (AgentWalletContext.tsx and the    *)
(* button of WalletConnect.tsx).  The wallet is a browser extension: it      *)
(* answers calls and sends events, and an answer that was made before a      *)
(* change may arrive after the event of that change.  React applies the two  *)
(* setters of a handler at once.                                            *)
(***************************************************************************)
EXTENDS Naturals, Sequences, SequencesExt

CONSTANTS
    Keys,               \* the accounts of the wallet
    NoKey,
    MaxChanges,         \* bound: what the user does in the wallet
    MaxCalls            \* bound: flows of the page under way at once

ASSUME WalletAssumption ==
    /\ NoKey \notin Keys
    /\ MaxChanges \in Nat /\ MaxCalls \in Nat

VARIABLES
    wallet,             \* external: the accounts linked to the site, the active one
    changes,            \* counts them for the bound
    events,             \* window events not handled yet, oldest first
    connected, address, loading,
    calls               \* flows awaiting the wallet: the call, and its answer

walletVars == <<wallet, changes>>
sessionVars == <<connected, address, loading>>
contextVars == <<walletVars, events, sessionVars, calls>>

Wallets == [linked : SUBSET Keys, key : Keys]
NoAnswer == [linked |-> {}, key |-> NoKey]

\* The key that a call or an event gives away.
ActiveKey(w) == IF w.key \in w.linked THEN w.key ELSE NoKey

Link(w) == [w EXCEPT !.linked = @ \cup {w.key}]
Unlink(w) == [w EXCEPT !.linked = @ \ {w.key}]

Event(type, w) == [type |-> type, activeKey |-> ActiveKey(w)]
Call(step) == [step |-> step, answer |-> NoAnswer]

WalletInit ==
    /\ wallet \in Wallets
    /\ changes = 0
    /\ events = <<>>
    /\ connected = FALSE /\ address = NoKey /\ loading = TRUE
    /\ calls = <<Call("isConnected")>>

-----------------------------------------------------------------------------
(* The wallet *)

Changed(w, type) ==
    /\ changes < MaxChanges
    /\ changes' = changes + 1
    /\ wallet' = w
    /\ events' = Append(events, Event(type, w))

\* In the extension's own window.
UserChangesWallet ==
    /\ \/ ActiveKey(wallet) = NoKey /\ Changed(Link(wallet), "connected")
       \/ ActiveKey(wallet) # NoKey /\ Changed(Unlink(wallet), "disconnected")
       \/ \E k \in Keys \ {wallet.key} :
             Changed([wallet EXCEPT !.key = k], "activeKeyChanged")
    /\ UNCHANGED <<sessionVars, calls>>

\* A request is approved or refused, which the page does not ask; a disconnection
\* is carried out or, where the wallet knows no such call, not.
Replied(i) ==
    /\ calls[i].answer = NoAnswer
    /\ \/ /\ calls[i].step \in {"request", "requestAgain"} /\ ActiveKey(wallet) = NoKey
          /\ Changed(Link(wallet), "connected")
       \/ /\ calls[i].step = "disconnect" /\ ActiveKey(wallet) # NoKey
          /\ Changed(Unlink(wallet), "disconnected")
       \/ UNCHANGED <<walletVars, events>>
    /\ calls' = [calls EXCEPT ![i].answer = wallet']
    /\ UNCHANGED sessionVars

-----------------------------------------------------------------------------
(* The page *)

Show(k) == connected' = TRUE /\ address' = k
Clear == connected' = FALSE /\ address' = NoKey
Keep == UNCHANGED <<connected, address>>

\* Mutated form of HandleConnected: connected, with or without a key.
HandleConnectedAnyKey(k) == Show(k)

HandleConnected(k) == IF k # NoKey THEN Show(k) ELSE Keep
HandleDisconnected == Clear

\* Mutated form of HandleActiveKeyChanged: an event without a key is ignored.
HandleActiveKeyOnly(k) ==
    IF k # NoKey THEN address' = k /\ UNCHANGED connected ELSE Keep

\* A key alone does not connect.
HandleActiveKeyChanged(k) ==
    IF k # NoKey THEN address' = k /\ UNCHANGED connected ELSE Clear

HandleEvent ==
    /\ events # <<>>
    /\ LET e == Head(events) IN
       \/ e.type = "connected" /\ HandleConnected(e.activeKey)
       \/ e.type = "disconnected" /\ HandleDisconnected
       \/ e.type = "activeKeyChanged" /\ HandleActiveKeyChanged(e.activeKey)
    /\ events' = Tail(events)
    /\ UNCHANGED <<walletVars, loading, calls>>

\* A button starts a flow; nothing keeps it from being pressed again.
Begin(step) ==
    /\ Len(calls) < MaxCalls
    /\ calls' = Append(calls, Call(step))
    /\ UNCHANGED <<walletVars, events, sessionVars>>

PressConnect == ~connected /\ Begin("request")
PressDisconnect == connected /\ Begin("disconnect")

Continue(i, step) == calls' = [calls EXCEPT ![i] = Call(step)]
Finish(i) == calls' = RemoveAt(calls, i)

\* checkConnection, when the page is loaded.
CheckResumes(i) ==
    LET k == ActiveKey(calls[i].answer) IN
    \/ /\ calls[i].step = "isConnected" /\ k # NoKey
       /\ Continue(i, "checkKey") /\ Keep /\ UNCHANGED loading
    \/ /\ calls[i].step = "isConnected" /\ k = NoKey
       /\ Finish(i) /\ Keep /\ loading' = FALSE
    \/ /\ calls[i].step = "checkKey"
       /\ Finish(i) /\ HandleConnected(k) /\ loading' = FALSE

\* The button asks for the connection and the key.
ButtonResumes(i) ==
    /\ \/ calls[i].step = "request" /\ Continue(i, "buttonKey")
       \/ /\ calls[i].step = "buttonKey"
          /\ IF ActiveKey(calls[i].answer) # NoKey THEN Continue(i, "requestAgain")
             ELSE Finish(i)
    /\ Keep /\ UNCHANGED loading

\* Then the context does so once more.
ConnectResumes(i) ==
    /\ \/ calls[i].step = "requestAgain" /\ Continue(i, "connectKey") /\ Keep
       \/ /\ calls[i].step = "connectKey" /\ Finish(i)
          /\ HandleConnected(ActiveKey(calls[i].answer))
    /\ UNCHANGED loading

DisconnectResumes(i) ==
    /\ calls[i].step = "disconnect"
    /\ Finish(i) /\ Clear /\ UNCHANGED loading

Resumes(i) ==
    /\ calls[i].answer # NoAnswer
    /\ \/ CheckResumes(i) \/ ButtonResumes(i)
       \/ ConnectResumes(i) \/ DisconnectResumes(i)
    /\ UNCHANGED <<walletVars, events>>

\* The wallet is not installed, or its call raises: only the finally clauses run.
CallRaises(i) ==
    /\ Finish(i)
    /\ IF calls[i].step = "disconnect" THEN Clear ELSE Keep
    /\ loading' = IF calls[i].step \in {"isConnected", "checkKey"} THEN FALSE ELSE loading
    /\ UNCHANGED <<walletVars, events>>

WalletNext ==
    \/ UserChangesWallet
    \/ HandleEvent
    \/ PressConnect \/ PressDisconnect
    \/ \E i \in DOMAIN calls : Replied(i) \/ Resumes(i) \/ CallRaises(i)

WalletSpec == WalletInit /\ [][WalletNext]_contextVars

-----------------------------------------------------------------------------
Steps == {"isConnected", "checkKey", "request", "buttonKey", "requestAgain",
          "connectKey", "disconnect"}

SessionTypeOK ==
    /\ wallet \in Wallets
    /\ changes \in 0..MaxChanges
    /\ events \in Seq([type : {"connected", "disconnected", "activeKeyChanged"},
                       activeKey : Keys \cup {NoKey}])
    /\ connected \in BOOLEAN /\ loading \in BOOLEAN
    /\ address \in Keys \cup {NoKey}
    /\ connected => address # NoKey
    /\ calls \in Seq([step : Steps, answer : Wallets \cup {NoAnswer}])

Stale(i) == calls[i].answer \notin {NoAnswer, wallet}

\* With every event handled the page shows an account the wallet does not offer.
Misled == events = <<>> /\ connected /\ address # ActiveKey(wallet)

\* Only an answer that the wallet gave before its last change, and that arrives
\* after the event of that change, brings the page to show a wrong account; no
\* order of events alone does, nor a flow that nothing overtook.
OnlyOvertakenAnswersMislead ==
    [][(~Misled /\ Misled') =>
          \E i \in DOMAIN calls : Stale(i) /\ calls' = RemoveAt(calls, i)]_contextVars

=============================================================================
