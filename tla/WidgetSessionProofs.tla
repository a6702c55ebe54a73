------------------------ MODULE WidgetSessionProofs ------------------------
(***************************************************************************)
(* Proofs about WidgetSession, for any tabs, accounts and number of tokens.*)
(***************************************************************************)
EXTENDS WidgetSession, TLAPS

----------------------------------------------------------------------------
(* The inductive invariant *)

\* Whatever names a session names one that was issued.
TokenInv ==
  /\ stored \in 0..issued
  /\ renewable \subseteq 1..issued
  /\ \A tab \in Tabs :
       /\ token[tab] \in 0..issued /\ transport[tab] \in 0..issued
       /\ refreshing[tab] \subseteq renewable
       /\ status[tab] = "authenticated" => token[tab] # 0
       /\ transport[tab] # 0 => status[tab] = "authenticated"

\* All that a tab without an overlap holds is of one account: nothing is under
\* way when it signs in or out but the answer that made it do so.
Account(tab) ==
  /\ status[tab] = "authenticated" =>
       /\ login[tab] = {}
       /\ \A s \in refreshing[tab] : owner[s] = owner[token[tab]]
       /\ timer[tab] # 0 => owner[timer[tab]] = owner[token[tab]]
       /\ transport[tab] # 0 => owner[transport[tab]] = owner[token[tab]]
  /\ status[tab] # "authenticated" => refreshing[tab] = {}
  /\ status[tab] = "checking" => login[tab] = {}
  /\ \A u, v \in login[tab] : u = v

AccountInv == \A tab \in Tabs \ overlapped : Account(tab)

Inv == TypeOK /\ TokenInv /\ AccountInv /\ StorageAgrees

----------------------------------------------------------------------------
LEMMA InvInit ==
  ASSUME Init
  PROVE  Inv
<1>1. TypeOK
  BY BoundAssumption DEF Init, TypeOK, Tokens
<1>2. TokenInv /\ AccountInv
  BY DEF Init, TokenInv, AccountInv, Account
<1>3. StorageAgrees
  BY DEF Init, StorageAgrees
<1> QED
  BY <1>1, <1>2, <1>3 DEF Inv

\* A tab keeps its account when a step leaves it alone: a token, once issued,
\* is its owner's for good.
LEMMA AccountKept ==
  ASSUME Inv, NEW tab \in Tabs \ overlapped,
         status'[tab] = status[tab], token'[tab] = token[tab],
         timer'[tab] = timer[tab], transport'[tab] = transport[tab],
         login'[tab] = login[tab], refreshing'[tab] = refreshing[tab],
         \A n \in 1..issued : owner'[n] = owner[n]
  PROVE  Account(tab)'
<1>1. Account(tab)
  BY DEF Inv, AccountInv
<1>2. token[tab] # 0 => owner'[token[tab]] = owner[token[tab]]
  BY DEF Inv, TokenInv, TypeOK
<1>3. transport[tab] # 0 => owner'[transport[tab]] = owner[transport[tab]]
  BY DEF Inv, TokenInv, TypeOK
<1>4. \A s \in refreshing[tab] : owner'[s] = owner[s]
  BY DEF Inv, TokenInv
<1>5. timer[tab] # 0 => owner'[timer[tab]] = owner[timer[tab]]
  BY DEF Inv, TokenInv, TypeOK
<1>6. status[tab] = "authenticated" => token[tab] # 0
  BY DEF Inv, TokenInv
<1> QED
  BY <1>1, <1>2, <1>3, <1>4, <1>5, <1>6 DEF Account

\* An answer's token: everything stays typed, and the tab is signed in with it.
LEMMA PersistKeeps ==
  ASSUME Inv, NEW tab \in Tabs, NEW user \in Users \cup {Nobody},
         NEW canRenew \in BOOLEAN,
         Persist(tab, user, canRenew),
         refreshing' \in [Tabs -> SUBSET Tokens], login' \in [Tabs -> SUBSET Users],
         \A t \in Tabs : refreshing'[t] \subseteq refreshing[t],
         overlapped' = overlapped
  PROVE  /\ TypeOK' /\ TokenInv' /\ StorageAgrees'
         /\ \A n \in 1..issued : owner'[n] = owner[n]
         /\ status'[tab] = "authenticated" /\ token'[tab] = issued + 1
         /\ owner'[issued + 1] = user
         /\ timer'[tab] \in {0, issued + 1}
         /\ \/ transport'[tab] = transport[tab]
            \/ transport'[tab] \in {0, issued + 1}
<1> DEFINE s == issued + 1
<1>1. s \in Tokens /\ issued \in Nat /\ s # 0
  BY BoundAssumption DEF Persist, Inv, TypeOK, Tokens
<1>2. /\ issued' = s /\ stored' = s /\ expired' = expired /\ open' = open
      /\ owner' = [owner EXCEPT ![s] = user]
      /\ renewable' = IF canRenew THEN renewable \cup {s} ELSE renewable
      /\ status' = [status EXCEPT ![tab] = "authenticated"]
      /\ token' = [token EXCEPT ![tab] = s]
      /\ timer' = [timer EXCEPT ![tab] = IF canRenew THEN s ELSE 0]
      /\ transport' = [transport EXCEPT ![tab] = ChatBody(tab, open[tab], s)]
      /\ writer' = tab
  BY DEF Persist, SignedIn, Armed
<1>3. ChatBody(tab, open[tab], s) \in {0, s, transport[tab]}
  BY DEF ChatBody
<1>4. TypeOK'
  <2>1. issued' \in 0..MaxTokens /\ stored' \in 0..MaxTokens
    BY <1>1, <1>2, BoundAssumption DEF Tokens
  <2>2. owner' \in [Tokens -> Users \cup {Nobody}]
    BY <1>1, <1>2 DEF Inv, TypeOK
  <2>3. renewable' \subseteq Tokens /\ expired' \subseteq Tokens
    BY <1>1, <1>2 DEF Inv, TypeOK
  <2>4. s \in 0..MaxTokens /\ 0 \in 0..MaxTokens
    BY <1>1, BoundAssumption DEF Tokens
  <2>5. /\ token' \in [Tabs -> 0..MaxTokens]
        /\ timer' \in [Tabs -> 0..MaxTokens]
        /\ transport' \in [Tabs -> 0..MaxTokens]
    BY <1>2, <1>3, <2>4 DEF Inv, TypeOK
  <2>6. /\ status' \in [Tabs -> {"checking", "authenticated", "unauthenticated"}]
        /\ open' \in [Tabs -> BOOLEAN]
        /\ writer' \in Tabs \cup {Nobody} /\ overlapped' \subseteq Tabs
    BY <1>2 DEF Inv, TypeOK
  <2>7. \A t \in Tabs : timer'[t] # 0 =>
          status'[t] = "authenticated" /\ timer'[t] \in renewable'
    BY <1>2 DEF Inv, TypeOK
  <2> QED
    BY <2>1, <2>2, <2>3, <2>5, <2>6, <2>7 DEF TypeOK
<1>5. TokenInv'
  <2>1. stored' \in 0..issued' /\ renewable' \subseteq 1..issued'
    BY <1>1, <1>2 DEF Inv, TokenInv
  <2> SUFFICES ASSUME NEW t \in Tabs
               PROVE  /\ token'[t] \in 0..issued' /\ transport'[t] \in 0..issued'
                      /\ refreshing'[t] \subseteq renewable'
                      /\ status'[t] = "authenticated" => token'[t] # 0
                      /\ transport'[t] # 0 => status'[t] = "authenticated"
    BY <2>1 DEF TokenInv
  <2>2. refreshing'[t] \subseteq renewable'
    BY <1>2 DEF Inv, TokenInv
  <2>3. CASE t = tab
    BY <1>1, <1>2, <1>3, <2>2, <2>3 DEF Inv, TypeOK, TokenInv
  <2>4. CASE t # tab
    BY <1>1, <1>2, <2>2, <2>4 DEF Inv, TypeOK, TokenInv
  <2> QED
    BY <2>3, <2>4
<1>6. StorageAgrees'
  BY <1>2 DEF StorageAgrees, Inv, TypeOK
<1>7. \A n \in 1..issued : owner'[n] = owner[n]
  BY <1>1, <1>2 DEF Inv, TypeOK
<1>8. /\ status'[tab] = "authenticated" /\ token'[tab] = s /\ owner'[s] = user
      /\ timer'[tab] \in {0, s}
      /\ transport'[tab] = transport[tab] \/ transport'[tab] \in {0, s}
  BY <1>1, <1>2, <1>3 DEF Inv, TypeOK
<1> QED
  BY <1>4, <1>5, <1>6, <1>7, <1>8

LEMMA LoginKeeps ==
  ASSUME Inv, NEW tab \in Tabs, NEW user \in Users, NEW canRenew \in BOOLEAN,
         LoginAnswered(tab, user, canRenew)
  PROVE  Inv'
<1>1. /\ user \in login[tab]
      /\ login' = [login EXCEPT ![tab] = @ \ {user}]
      /\ refreshing' = refreshing /\ overlapped' = overlapped
      /\ Persist(tab, user, canRenew)
  BY DEF LoginAnswered
<1>2. login' \in [Tabs -> SUBSET Users] /\ refreshing' \in [Tabs -> SUBSET Tokens]
  BY <1>1 DEF Inv, TypeOK
<1>3. /\ TypeOK' /\ TokenInv' /\ StorageAgrees'
      /\ \A n \in 1..issued : owner'[n] = owner[n]
      /\ status'[tab] = "authenticated" /\ token'[tab] = issued + 1
      /\ timer'[tab] \in {0, issued + 1}
      /\ transport'[tab] = transport[tab] \/ transport'[tab] \in {0, issued + 1}
  BY <1>1, <1>2, PersistKeeps
<1>4. AccountInv'
  <2> SUFFICES ASSUME NEW t \in Tabs \ overlapped
               PROVE  Account(t)'
    BY <1>1 DEF AccountInv
  <2>1. CASE t # tab
    BY <1>1, <1>3, <2>1, AccountKept DEF Persist, SignedIn, Inv, TypeOK
  <2>2. CASE t = tab
    <3>1. Account(tab)
      BY <2>2 DEF Inv, AccountInv
    <3>2. status[tab] # "authenticated"
      BY <1>1, <3>1 DEF Account
    <3>3. refreshing'[tab] = {} /\ transport[tab] = 0
      BY <1>1, <3>1, <3>2 DEF Account, Inv, TokenInv
    <3>4. login'[tab] = {}
      BY <1>1, <3>1 DEF Account, Inv, TypeOK
    <3> QED
      BY <1>3, <2>2, <3>3, <3>4 DEF Account
  <2> QED
    BY <2>1, <2>2
<1> QED
  BY <1>3, <1>4 DEF Inv

LEMMA RefreshKeeps ==
  ASSUME Inv, NEW tab \in Tabs, NEW s \in Tokens, RefreshAnswered(tab, s)
  PROVE  Inv'
<1>1. /\ s \in refreshing[tab]
      /\ refreshing' = [refreshing EXCEPT ![tab] = @ \ {s}]
      /\ login' = login /\ overlapped' = overlapped
      /\ Persist(tab, owner[s], TRUE)
  BY DEF RefreshAnswered
<1>2. /\ login' \in [Tabs -> SUBSET Users] /\ refreshing' \in [Tabs -> SUBSET Tokens]
      /\ \A t \in Tabs : refreshing'[t] \subseteq refreshing[t]
      /\ owner[s] \in Users \cup {Nobody}
  BY <1>1 DEF Inv, TypeOK
<1>3. /\ TypeOK' /\ TokenInv' /\ StorageAgrees'
      /\ \A n \in 1..issued : owner'[n] = owner[n]
      /\ status'[tab] = "authenticated" /\ token'[tab] = issued + 1
      /\ owner'[issued + 1] = owner[s]
      /\ timer'[tab] \in {0, issued + 1}
      /\ transport'[tab] = transport[tab] \/ transport'[tab] \in {0, issued + 1}
  BY <1>1, <1>2, PersistKeeps
<1>4. AccountInv'
  <2> SUFFICES ASSUME NEW t \in Tabs \ overlapped
               PROVE  Account(t)'
    BY <1>1 DEF AccountInv
  <2>1. CASE t # tab
    BY <1>1, <1>3, <2>1, AccountKept DEF Persist, SignedIn, Inv, TypeOK
  <2>2. CASE t = tab
    <3>1. Account(tab)
      BY <2>2 DEF Inv, AccountInv
    <3>2. /\ status[tab] = "authenticated" /\ login'[tab] = {}
          /\ \A r \in refreshing[tab] : owner[r] = owner[s]
          /\ owner[s] = owner[token[tab]]
      BY <1>1, <3>1 DEF Account
    <3>3. \A r \in refreshing'[tab] : owner'[r] = owner[s]
      BY <1>2, <1>3, <3>2 DEF Inv, TokenInv
    <3>4. transport[tab] # 0 => owner'[transport[tab]] = owner[s]
      BY <1>3, <3>1, <3>2 DEF Account, Inv, TokenInv, TypeOK
    <3> QED
      BY <1>3, <2>2, <3>2, <3>3, <3>4 DEF Account
  <2> QED
    BY <2>1, <2>2
<1> QED
  BY <1>3, <1>4 DEF Inv

\* Signing out, with whatever is still under way.
LEMMA SignOutKeeps ==
  ASSUME Inv, NEW tab \in Tabs, SignedOut(tab),
         UNCHANGED <<server, login>>,
         refreshing' \in [Tabs -> SUBSET Tokens],
         \A t \in Tabs : refreshing'[t] \subseteq refreshing[t],
         \A t \in Tabs \ {tab} : refreshing'[t] = refreshing[t],
         overlapped' = IF refreshing'[tab] # {} \/ login[tab] # {}
                       THEN overlapped \cup {tab} ELSE overlapped
  PROVE  Inv'
<1>1. /\ stored' = 0 /\ writer' = tab /\ open' = open
      /\ status' = [status EXCEPT ![tab] = "unauthenticated"]
      /\ token' = [token EXCEPT ![tab] = 0]
      /\ timer' = [timer EXCEPT ![tab] = 0]
      /\ transport' = [transport EXCEPT ![tab] = 0]
  BY DEF SignedOut, StoredCleared, TimerCleared, ChatBody
<1>2. UNCHANGED <<issued, owner, renewable, expired, login>>
  BY DEF server
<1>3. TypeOK'
  <2>1. 0 \in 0..MaxTokens
    BY BoundAssumption
  <2>2. overlapped' \subseteq Tabs
    BY DEF Inv, TypeOK
  <2> QED
    BY <1>1, <1>2, <2>1, <2>2 DEF Inv, TypeOK
<1>4. TokenInv'
  BY <1>1, <1>2 DEF Inv, TypeOK, TokenInv
<1>5. StorageAgrees'
  BY <1>1, <1>2 DEF StorageAgrees, Valid, Inv, TypeOK
<1>6. AccountInv'
  <2> SUFFICES ASSUME NEW t \in Tabs \ overlapped'
               PROVE  Account(t)'
    BY DEF AccountInv
  <2>1. t \in Tabs \ overlapped
    OBVIOUS
  <2>2. CASE t # tab
    BY <1>1, <1>2, <2>1, <2>2, AccountKept DEF Inv, TypeOK
  <2>3. CASE t = tab
    BY <1>1, <1>2, <2>3 DEF Account, Inv, TypeOK
  <2> QED
    BY <2>2, <2>3
<1> QED
  BY <1>3, <1>4, <1>5, <1>6 DEF Inv

LEMMA InvNext ==
  ASSUME Inv, [Next]_vars
  PROVE  Inv'
<1>1. ASSUME NEW tab \in Tabs, Logout(tab) PROVE Inv'
  <2>1. UNCHANGED <<server, login>> /\ refreshing' = refreshing /\ SignedOut(tab)
    BY <1>1 DEF Logout
  <2>2. overlapped' = IF refreshing'[tab] # {} \/ login[tab] # {}
                      THEN overlapped \cup {tab} ELSE overlapped
    BY <1>1, <2>1 DEF Logout, UnderWay
  <2> QED
    BY <2>1, <2>2, SignOutKeeps DEF Inv, TypeOK
<1>2. ASSUME NEW tab \in Tabs, NEW s \in Tokens, RefreshFails(tab, s) PROVE Inv'
  <2>1. /\ UNCHANGED <<server, login>> /\ SignedOut(tab)
        /\ s \in refreshing[tab]
        /\ refreshing' = [refreshing EXCEPT ![tab] = @ \ {s}]
    BY <1>2 DEF RefreshFails
  <2>2. refreshing'[tab] # {} <=> refreshing[tab] # {s}
    BY <2>1 DEF Inv, TypeOK
  <2>3. overlapped' = IF refreshing'[tab] # {} \/ login[tab] # {}
                      THEN overlapped \cup {tab} ELSE overlapped
    BY <1>2, <2>2 DEF RefreshFails
  <2>4. /\ refreshing' \in [Tabs -> SUBSET Tokens]
        /\ \A t \in Tabs : refreshing'[t] \subseteq refreshing[t]
        /\ \A t \in Tabs \ {tab} : refreshing'[t] = refreshing[t]
    BY <2>1 DEF Inv, TypeOK
  <2> QED
    BY <2>1, <2>3, <2>4, SignOutKeeps
<1>3. ASSUME NEW tab \in Tabs, NEW s \in Tokens, RefreshAnswered(tab, s) PROVE Inv'
  BY <1>3, RefreshKeeps
<1>4. ASSUME NEW tab \in Tabs, NEW user \in Users, NEW canRenew \in BOOLEAN,
             LoginAnswered(tab, user, canRenew)
      PROVE  Inv'
  BY <1>4, LoginKeeps
<1>5. ASSUME NEW tab \in Tabs, NEW user \in Users,
             Login(tab, user) \/ LoginFails(tab, user)
      PROVE  Inv'
  <2>1. UNCHANGED <<server, stored, status, token, timer, refreshing, chat, writer>>
    BY <1>5 DEF Login, LoginFails, history
  <2>2. UNCHANGED <<issued, owner, renewable, expired, open, transport>>
    BY <2>1 DEF server, chat
  <2>3. /\ login' \in [Tabs -> SUBSET Users]
        /\ \A t \in Tabs \ {tab} : login'[t] = login[t]
        /\ overlapped \subseteq overlapped' /\ overlapped' \subseteq overlapped \cup {tab}
    BY <1>5 DEF Login, LoginFails, history, Inv, TypeOK
  <2>4. TypeOK' /\ TokenInv' /\ StorageAgrees'
    BY <2>1, <2>2, <2>3 DEF Inv, TypeOK, TokenInv, StorageAgrees, Valid
  <2>5. AccountInv'
    <3> SUFFICES ASSUME NEW t \in Tabs \ overlapped'
                 PROVE  Account(t)'
      BY DEF AccountInv
    <3>1. Account(t)
      BY <2>3 DEF Inv, AccountInv
    <3>2. CASE t # tab
      BY <2>1, <2>2, <2>3, <3>1, <3>2 DEF Account
    <3>3. CASE t = tab /\ Login(tab, user)
      <4>1. login[tab] = {} /\ login'[tab] = {user} /\ status[tab] = "unauthenticated"
        BY <3>3 DEF Login, UnderWay, Inv, TypeOK
      <4> QED
        BY <2>1, <2>2, <3>1, <3>3, <4>1 DEF Account
    <3>4. CASE t = tab /\ LoginFails(tab, user)
      <4>1. login'[tab] \subseteq login[tab]
        BY <3>4 DEF LoginFails, Inv, TypeOK
      <4> QED
        BY <2>1, <2>2, <3>1, <3>4, <4>1 DEF Account
    <3> QED
      BY <1>5, <3>2, <3>3, <3>4
  <2> QED
    BY <2>4, <2>5 DEF Inv
<1>6. ASSUME NEW tab \in Tabs, Toggle(tab) PROVE Inv'
  <2>1. UNCHANGED <<issued, owner, renewable, expired, stored, status, token, timer,
                    refreshing, login, writer, overlapped>>
    BY <1>6 DEF Toggle, server, auth, history
  <2>2. /\ open' = [open EXCEPT ![tab] = ~@]
        /\ \A t \in Tabs \ {tab} : transport'[t] = transport[t]
        /\ transport'[tab] \in {0, transport[tab], token[tab]}
        /\ transport'[tab] # 0 => status[tab] = "authenticated"
        /\ transport' \in [Tabs -> 0..MaxTokens]
    BY <1>6, BoundAssumption DEF Toggle, ChatBody, Inv, TypeOK
  <2>3. TypeOK' /\ TokenInv' /\ StorageAgrees'
    BY <2>1, <2>2 DEF Inv, TypeOK, TokenInv, StorageAgrees, Valid
  <2>4. AccountInv'
    BY <2>1, <2>2 DEF Inv, AccountInv, Account
  <2> QED
    BY <2>3, <2>4 DEF Inv
<1>7. ASSUME NEW tab \in Tabs, Reload(tab) PROVE Inv'
  <2>1. UNCHANGED <<issued, owner, renewable, expired, stored, writer>>
    BY <1>7 DEF Reload, server
  <2>2. TypeOK'
    BY <1>7, <2>1, BoundAssumption DEF Reload, Inv, TypeOK
  <2>3. TokenInv' /\ StorageAgrees'
    BY <1>7, <2>1 DEF Reload, Inv, TypeOK, TokenInv, StorageAgrees, Valid
  <2>4. AccountInv'
    BY <1>7, <2>1 DEF Reload, Inv, TypeOK, AccountInv, Account
  <2> QED
    BY <2>2, <2>3, <2>4 DEF Inv
<1>8. ASSUME NEW tab \in Tabs, Boot(tab) PROVE Inv'
  <2>1. UNCHANGED <<issued, owner, renewable, expired, stored, refreshing, login,
                    writer, overlapped, open>>
    BY <1>8 DEF Boot, SignedIn, server, history, chat
  <2>2. status[tab] = "checking" /\ transport[tab] = 0
    BY <1>8 DEF Boot, Inv, TokenInv
  <2>3. CASE Valid(stored)
    <3>1. /\ status' = [status EXCEPT ![tab] = "authenticated"]
          /\ token' = [token EXCEPT ![tab] = stored]
          /\ timer' = [timer EXCEPT ![tab] = IF stored \in renewable THEN stored ELSE 0]
      BY <1>8, <2>3 DEF Boot, SignedIn, Armed
    <3>2. /\ \A t \in Tabs \ {tab} : transport'[t] = transport[t]
          /\ transport'[tab] \in {0, stored}
          /\ transport' \in [Tabs -> 0..MaxTokens]
      BY <1>8, <2>2, <2>3, BoundAssumption DEF Boot, SignedIn, ChatBody, Inv, TypeOK
    <3>3. stored # 0 /\ 0 \in 0..MaxTokens
      BY <2>3, BoundAssumption DEF Valid
    <3>4. TypeOK'
      BY <2>1, <3>1, <3>2, <3>3 DEF Inv, TypeOK
    <3>5. TokenInv'
      BY <2>1, <3>1, <3>2, <3>3 DEF Inv, TypeOK, TokenInv
    <3>6. StorageAgrees'
      BY <2>1, <3>1 DEF Inv, TypeOK, StorageAgrees, Valid
    <3>7. AccountInv'
      BY <2>1, <2>2, <3>1, <3>2 DEF Inv, TypeOK, AccountInv, Account
    <3> QED
      BY <3>4, <3>5, <3>6, <3>7 DEF Inv
  <2>4. CASE ~Valid(stored)
    <3>1. /\ status' = [status EXCEPT ![tab] = "unauthenticated"]
          /\ UNCHANGED <<token, timer, transport>>
      BY <1>8, <2>4 DEF Boot, chat
    <3>2. TypeOK' /\ TokenInv'
      BY <2>1, <2>2, <3>1 DEF Inv, TypeOK, TokenInv
    <3>3. StorageAgrees'
      BY <2>1, <2>4, <3>1 DEF Inv, TypeOK, StorageAgrees, Valid
    <3>4. AccountInv'
      BY <2>1, <2>2, <3>1 DEF Inv, TypeOK, AccountInv, Account
    <3> QED
      BY <3>2, <3>3, <3>4 DEF Inv
  <2> QED
    BY <2>3, <2>4
<1>9. ASSUME NEW tab \in Tabs, TimerFires(tab) PROVE Inv'
  <2>1. UNCHANGED <<issued, owner, renewable, expired, stored, status, token, login,
                    open, transport, writer, overlapped>>
    BY <1>9 DEF TimerFires, server, chat, history
  <2>2. /\ timer[tab] \in renewable /\ status[tab] = "authenticated"
        /\ refreshing' = [refreshing EXCEPT ![tab] = @ \cup {timer[tab]}]
        /\ timer' = [timer EXCEPT ![tab] = 0]
    BY <1>9 DEF TimerFires, Inv, TypeOK
  <2>3. TypeOK' /\ TokenInv' /\ StorageAgrees'
    BY <2>1, <2>2, BoundAssumption DEF Inv, TypeOK, TokenInv, StorageAgrees, Valid
  <2>4. AccountInv'
    BY <1>9, <2>1, <2>2 DEF TimerFires, Inv, TypeOK, AccountInv, Account
  <2> QED
    BY <2>3, <2>4 DEF Inv
<1>10. ASSUME NEW n \in Tokens, Expire(n) PROVE Inv'
  <2>1. /\ UNCHANGED <<issued, owner, renewable, stored, status, token, timer,
                       refreshing, login, open, transport, writer, overlapped>>
        /\ expired' = expired \cup {n}
    BY <1>10 DEF Expire, auth, chat, history
  <2> QED
    BY <2>1 DEF Inv, TypeOK, TokenInv, AccountInv, Account, StorageAgrees, Valid
<1>11. CASE UNCHANGED vars
  BY <1>11 DEF vars, server, auth, chat, history, Inv, TypeOK, TokenInv, AccountInv,
               Account, StorageAgrees, Valid
<1> QED
  BY <1>1, <1>2, <1>3, <1>4, <1>5, <1>6, <1>7, <1>8, <1>9, <1>10, <1>11
     DEF Next, Refreshed

LEMMA Invariance == Spec => []Inv
BY InvInit, InvNext, PTL DEF Spec

----------------------------------------------------------------------------
(* The theorems *)

\* Every variable keeps its type; no timer outlives the sign-in it is for.
THEOREM TypeCorrect == Spec => []TypeOK
<1>1. Inv => TypeOK
  BY DEF Inv
<1> QED
  BY <1>1, Invariance, PTL

\* In any number of tabs sharing a browser, the chat is asked as the account
\* that is signed in, unless the user signed in or out over a pending request.
THEOREM ChatAlwaysAsShown == Spec => []ChatAsShown
<1>1. Inv => ChatAsShown
  BY DEF Inv, TokenInv, AccountInv, Account, ChatAsShown
<1> QED
  BY <1>1, Invariance, PTL

\* localStorage is what the tab that wrote it last shows.
THEOREM StorageAlwaysAgrees == Spec => []StorageAgrees
<1>1. Inv => StorageAgrees
  BY DEF Inv
<1> QED
  BY <1>1, Invariance, PTL
=============================================================================
