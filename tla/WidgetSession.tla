---------------------------- MODULE WidgetSession ----------------------------
(***************************************************************************)
(* The widget's sign-in: the AuthProvider of each browser tab, the session *)
(* in localStorage that the tabs share, the refresh timer, and the token   *)
(* the chat's transport is made with (AuthenticatedChatWidget, useChat).   *)
(*                                                                         *)
(* The access tokens issued are numbered, 0 is none; a session is named by *)
(* its access token, and is renewable when it has a refresh token.  A      *)
(* callback and the effects its state changes run are one step.            *)
(***************************************************************************)
EXTENDS Naturals

CONSTANTS
  Tabs,
  Users,      \* the accounts, by their email
  MaxTokens,  \* bound on the tokens issued
  Nobody

ASSUME UsersAssumption == Nobody \notin Users
ASSUME BoundAssumption == MaxTokens \in Nat

VARIABLES
  \* The server
  issued,      \* how many tokens were issued
  owner,       \* each token: its account
  renewable,   \* the tokens that came with a refresh token
  expired,     \* the tokens that have expired
  \* The browser
  stored,      \* localStorage: the session saved
  status,      \* each tab: AuthContext's status
  token,       \* each tab: accessToken
  timer,       \* each tab: the session captured by the armed timer
  refreshing,  \* each tab: sessions captured by refreshes under way
  login,       \* each tab: accounts of the logins under way
  open,        \* each tab: isOpen
  transport,   \* each tab: the token ChatBody's transport was made with
  \* History, for the properties only
  writer,      \* the tab that wrote localStorage last
  overlapped   \* tabs that signed in or out with a request still under way

server == <<issued, owner, renewable, expired>>
auth == <<stored, status, token, timer, refreshing, login>>
chat == <<open, transport>>
history == <<writer, overlapped>>
vars == <<server, auth, chat, history>>

----------------------------------------------------------------------------
Tokens == 1..MaxTokens

\* isSessionValid
Valid(s) == s # 0 /\ s \notin expired

UnderWay(tab) == refreshing[tab] # {} \/ login[tab] # {}

Init ==
  /\ issued = 0
  /\ owner = [n \in Tokens |-> Nobody]
  /\ renewable = {} /\ expired = {}
  /\ stored = 0
  /\ status = [tab \in Tabs |-> "checking"]
  /\ token = [tab \in Tabs |-> 0]
  /\ timer = [tab \in Tabs |-> 0]
  /\ refreshing = [tab \in Tabs |-> {}]
  /\ login = [tab \in Tabs |-> {}]
  /\ open \in [Tabs -> BOOLEAN]   \* startOpen
  /\ transport = [tab \in Tabs |-> 0]
  /\ writer = Nobody
  /\ overlapped = {}

----------------------------------------------------------------------------
(* State changes of a tab, and the effects they run *)

\* The effect on [status, accessToken]: the old timer is cleared, and a new one
\* captures the session if it can be refreshed.
\* (Mutation: the effect runs on [status] only.)
ArmedOnSignIn(tab, s) == IF status[tab] = "authenticated" THEN timer[tab] ELSE s
Armed(tab, s) == s

\* (Mutation: the effect has no cleanup.)
TimerLeft(tab) == timer[tab]
TimerCleared(tab) == 0

\* ChatBody is there while the window is open and the user signed in; its
\* transport is made when it appears and kept until it goes.
\* (Mutation: it stays behind the sign-in form.)
ChatStays(tab, shown, s) == IF transport[tab] # 0 THEN transport[tab] ELSE s
ChatBody(tab, shown, s) ==
  IF ~shown THEN 0 ELSE IF transport[tab] # 0 THEN transport[tab] ELSE s

SignedIn(tab, s, canRenew) ==
  /\ status' = [status EXCEPT ![tab] = "authenticated"]
  /\ token' = [token EXCEPT ![tab] = s]
  /\ timer' = [timer EXCEPT ![tab] = IF canRenew THEN Armed(tab, s) ELSE 0]
  /\ transport' = [transport EXCEPT ![tab] = ChatBody(tab, open[tab], s)]
  /\ UNCHANGED open

\* (Mutation: what is stored is left there.)
StoredLeft == stored
StoredCleared == 0

SignedOut(tab) ==
  /\ stored' = StoredCleared
  /\ status' = [status EXCEPT ![tab] = "unauthenticated"]
  /\ token' = [token EXCEPT ![tab] = 0]
  /\ timer' = [timer EXCEPT ![tab] = TimerCleared(tab)]
  /\ transport' = [transport EXCEPT ![tab] = ChatBody(tab, FALSE, 0)]
  /\ writer' = tab
  /\ UNCHANGED open

\* persist, with a new token of the server's.
Persist(tab, user, canRenew) ==
  LET s == issued + 1
  IN /\ s \in Tokens
     /\ issued' = s
     /\ owner' = [owner EXCEPT ![s] = user]
     /\ renewable' = IF canRenew THEN renewable \cup {s} ELSE renewable
     /\ stored' = s
     /\ SignedIn(tab, s, canRenew)
     /\ writer' = tab
     /\ UNCHANGED expired

----------------------------------------------------------------------------
(* The user *)

\* AuthPanel is shown in the open window.
Login(tab, user) ==
  /\ status[tab] = "unauthenticated" /\ open[tab]
  /\ user \notin login[tab]
  /\ login' = [login EXCEPT ![tab] = @ \cup {user}]
  /\ overlapped' = IF UnderWay(tab) THEN overlapped \cup {tab} ELSE overlapped
  /\ UNCHANGED <<server, stored, status, token, timer, refreshing, chat, writer>>

Logout(tab) ==
  /\ status[tab] = "authenticated" /\ open[tab]
  /\ SignedOut(tab)
  /\ overlapped' = IF UnderWay(tab) THEN overlapped \cup {tab} ELSE overlapped
  /\ UNCHANGED <<server, refreshing, login>>

\* The launcher button.
Toggle(tab) ==
  /\ status[tab] # "checking"
  /\ open' = [open EXCEPT ![tab] = ~@]
  /\ transport' = [transport EXCEPT ![tab] =
       ChatBody(tab, ~open[tab] /\ status[tab] = "authenticated", token[tab])]
  /\ UNCHANGED <<server, auth, history>>

\* The page is loaded anew; whatever it was waiting for is forgotten.
Reload(tab) ==
  /\ status[tab] # "checking"
  /\ status' = [status EXCEPT ![tab] = "checking"]
  /\ token' = [token EXCEPT ![tab] = 0]
  /\ timer' = [timer EXCEPT ![tab] = 0]
  /\ refreshing' = [refreshing EXCEPT ![tab] = {}]
  /\ login' = [login EXCEPT ![tab] = {}]
  /\ \E startOpen \in BOOLEAN : open' = [open EXCEPT ![tab] = startOpen]
  /\ transport' = [transport EXCEPT ![tab] = 0]
  /\ overlapped' = overlapped \ {tab}
  /\ UNCHANGED <<server, stored, writer>>

----------------------------------------------------------------------------
(* The browser *)

\* The first effect: the stored session, if it is still valid.
Boot(tab) ==
  /\ status[tab] = "checking"
  /\ IF Valid(stored)
     THEN SignedIn(tab, stored, stored \in renewable)
     ELSE /\ status' = [status EXCEPT ![tab] = "unauthenticated"]
          /\ UNCHANGED <<token, timer, chat>>
  /\ UNCHANGED <<server, stored, refreshing, login, history>>

TimerFires(tab) ==
  /\ timer[tab] # 0
  /\ refreshing' = [refreshing EXCEPT ![tab] = @ \cup {timer[tab]}]
  /\ timer' = [timer EXCEPT ![tab] = 0]
  /\ UNCHANGED <<server, stored, status, token, login, chat, history>>

----------------------------------------------------------------------------
(* The server's answers *)

LoginAnswered(tab, user, canRenew) ==
  /\ user \in login[tab]
  /\ Persist(tab, user, canRenew)
  /\ login' = [login EXCEPT ![tab] = @ \ {user}]
  /\ UNCHANGED <<refreshing, overlapped>>

LoginFails(tab, user) ==
  /\ user \in login[tab]
  /\ login' = [login EXCEPT ![tab] = @ \ {user}]
  /\ UNCHANGED <<server, stored, status, token, timer, refreshing, chat, history>>

\* The refresh token stays the same, so the new session has it too.
RefreshAnswered(tab, s) ==
  /\ s \in refreshing[tab]
  /\ Persist(tab, owner[s], TRUE)
  /\ refreshing' = [refreshing EXCEPT ![tab] = @ \ {s}]
  /\ UNCHANGED <<login, overlapped>>

\* Refused, or not answered at all.
RefreshFails(tab, s) ==
  /\ s \in refreshing[tab]
  /\ SignedOut(tab)
  /\ refreshing' = [refreshing EXCEPT ![tab] = @ \ {s}]
  /\ overlapped' = IF refreshing[tab] # {s} \/ login[tab] # {}
                   THEN overlapped \cup {tab} ELSE overlapped
  /\ UNCHANGED <<server, login>>

Expire(n) ==
  /\ n \in 1..issued \ expired
  /\ expired' = expired \cup {n}
  /\ UNCHANGED <<issued, owner, renewable, auth, chat, history>>

----------------------------------------------------------------------------
Refreshed(tab) == \E s \in Tokens : RefreshAnswered(tab, s) \/ RefreshFails(tab, s)

Next ==
  \/ \E tab \in Tabs :
       \/ Logout(tab) \/ Toggle(tab) \/ Reload(tab)
       \/ Boot(tab) \/ TimerFires(tab) \/ Refreshed(tab)
       \/ \E user \in Users :
            \/ Login(tab, user) \/ LoginFails(tab, user)
            \/ \E canRenew \in BOOLEAN : LoginAnswered(tab, user, canRenew)
  \/ \E n \in Tokens : Expire(n)

Spec == Init /\ [][Next]_vars

\* The browser fires timers and ends every request one way or the other.
Fairness == \A tab \in Tabs : WF_vars(TimerFires(tab)) /\ WF_vars(Refreshed(tab))

FairSpec == Spec /\ Fairness

----------------------------------------------------------------------------
(* Properties *)

TypeOK ==
  /\ issued \in 0..MaxTokens
  /\ owner \in [Tokens -> Users \cup {Nobody}]
  /\ renewable \subseteq Tokens /\ expired \subseteq Tokens
  /\ stored \in 0..MaxTokens
  /\ status \in [Tabs -> {"checking", "authenticated", "unauthenticated"}]
  /\ token \in [Tabs -> 0..MaxTokens]
  /\ timer \in [Tabs -> 0..MaxTokens]
  /\ refreshing \in [Tabs -> SUBSET Tokens]
  /\ login \in [Tabs -> SUBSET Users]
  /\ open \in [Tabs -> BOOLEAN]
  /\ transport \in [Tabs -> 0..MaxTokens]
  /\ writer \in Tabs \cup {Nobody} /\ overlapped \subseteq Tabs
  \* Only a tab that is signed in has a timer, and it is for a renewable session.
  /\ \A tab \in Tabs : timer[tab] # 0 =>
       status[tab] = "authenticated" /\ timer[tab] \in renewable

\* The chat is asked as the account that is signed in, through logouts, reloads,
\* refreshes and other tabs' accounts, unless the user signed in or out over a
\* request still under way.
ChatAsShown ==
  \A tab \in Tabs : transport[tab] # 0 /\ tab \notin overlapped =>
    /\ status[tab] = "authenticated"
    /\ owner[transport[tab]] = owner[token[tab]]

\* localStorage holds what the tab that wrote it last shows, so that loading
\* that tab anew changes nothing: the same session, or none.
StorageAgrees ==
  \A tab \in Tabs : writer = tab =>
    /\ status[tab] = "authenticated" => stored = token[tab]
    /\ status[tab] = "unauthenticated" => ~Valid(stored)

\* A tab signed in with a refresh token does not stay with an expired access
\* token: it is refreshed, or signed out.
SessionKept ==
  \A tab \in Tabs :
    status[tab] = "authenticated" /\ token[tab] \in renewable \cap expired
      ~> status[tab] # "authenticated" \/ token[tab] \notin expired

\* "So a long-lived chat session never suddenly 401s mid-conversation": while
\* the tab's token is valid, so is the one its transport sends.
NoSudden401 ==
  \A tab \in Tabs : Valid(token[tab]) /\ transport[tab] # 0 => Valid(transport[tab])
=============================================================================
