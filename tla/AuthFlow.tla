------------------------------ MODULE AuthFlow ------------------------------
(***************************************************************************)
(* Login and registration: LoginViewModel and RegisterViewModel over       *)
(* FirebaseAuthManagerImpl over the Auth SDK (FIRAuth, FIRUser).           *)
(*                                                                         *)
(* Three parties share the state: the main thread (taps, callbacks, the    *)
(* screens), the SDK's global work queue (answers of the server, the       *)
(* current user) and the server (accounts).  A request is named by the     *)
(* number of the tap that made it, and so are a user object (the sign-in   *)
(* that made it) and a user name (the registration it was typed in).  The  *)
(* email and the password of a tap are the account they denote; a wrong    *)
(* password is one of the reasons for which the server refuses.            *)
(***************************************************************************)
EXTENDS Naturals, Sequences

CONSTANTS Accounts,  \* the accounts whose credentials are typed
          MaxTaps    \* bound on the taps on LOGIN and REGISTER

ASSUME AuthAssumption == MaxTaps \in Nat

Taps   == 1..MaxTaps
NoUser == 0
NoName == 0
Free   == MaxTaps + 1   \* the account is not registered

VARIABLES
  accounts,     \* server: the user name of every account, or Free
  requests,     \* every tap on LOGIN and REGISTER, in order
  currentUser,  \* FIRAuth._currentUser: the sign-in that made the object
  naming,       \* profile changes in the task queues of their users
  mainQueue,    \* blocks dispatched to the main queue
  screen,       \* the screen in front, and the flags of its view models
  signIns,      \* history: sign-ins in the order they reached _currentUser
  disturbed     \* history: requests that were not alone, or did not keep their screen

vars == <<accounts, requests, currentUser, naming, mainQueue, screen, signIns, disturbed>>

Ended == {"ok", "failed", "silent", "lost"}
Stages == Ended \cup {"sent", "signedIn", "naming", "named", "failing"}
Blocks == {"signedIn", "named", "error", "alert"}

\* call: what became of the call to the server the request last made.
\* form: the screen still shows the view model whose button was tapped.
Requests == [kind : {"login", "register"}, account : Accounts, at : Stages,
             call : {"none", "out", "good", "bad"}, target : Taps \cup {NoUser},
             form : BOOLEAN]

\* linked: the deep link has put a home screen over all of this.
Screens == [front : {"login", "register", "home"}, linked : BOOLEAN,
            goHome : BOOLEAN, loginAlert : BOOLEAN, registerAlert : BOOLEAN]

LoginScreen == [front |-> "login", linked |-> FALSE,
                goHome |-> FALSE, loginAlert |-> FALSE, registerAlert |-> FALSE]

Init ==
  /\ accounts \in [Accounts -> {Free, NoName}]
  /\ requests = <<>>
  /\ currentUser = NoUser
  /\ naming = <<>>
  /\ mainQueue = <<>>
  /\ screen = LoginScreen
  /\ signIns = <<>>
  /\ disturbed = {}

InProgress == {i \in DOMAIN requests : requests[i].at \notin Ended}

Moved(i, stage) == [requests EXCEPT ![i].at = stage]

Replaced(rs, kinds) ==
  [i \in DOMAIN rs |-> [rs[i] EXCEPT !.form = @ /\ rs[i].kind \notin kinds]]

\* LoginView.body is evaluated again after every change LoginViewModel
\* publishes, and every evaluation makes a RegisterView with a view model of
\* its own.
Republished(rs) == Replaced(rs, {"register"})

InFront(front) == screen.front = front /\ ~screen.linked /\ ~screen.loginAlert

Without(i) ==
  LET k == CHOOSE k \in DOMAIN naming : naming[k] = i
  IN  SubSeq(naming, 1, k-1) \o SubSeq(naming, k+1, Len(naming))

-----------------------------------------------------------------------------
(* Taps. *)

\* signInWithEmail:password: and createUserWithEmail:password: only start.
Send(kind, account) ==
  LET i == Len(requests) + 1 IN
  /\ i <= MaxTaps
  /\ requests' = Append(requests, [kind |-> kind, account |-> account, at |-> "sent",
                                   call |-> "out", target |-> NoUser, form |-> TRUE])
  /\ disturbed' = disturbed \cup (IF InProgress = {} THEN {} ELSE InProgress \cup {i})
  /\ UNCHANGED <<accounts, currentUser, naming, mainQueue, screen, signIns>>

TapLogin(a) ==
  /\ InFront("login")
  /\ Send("login", a)

\* Mutant of TapRegister: LoginViewModel publishes with every tap.
TapRegisterPublishes(a) ==
  /\ InFront("register") /\ ~screen.registerAlert
  /\ Len(requests) < MaxTaps
  /\ requests' = Append(requests, [kind |-> "register", account |-> a, at |-> "sent",
                                   call |-> "out", target |-> NoUser, form |-> FALSE])
  /\ disturbed' = disturbed \cup (IF InProgress = {} THEN {}
                                  ELSE InProgress \cup {Len(requests) + 1})
  /\ UNCHANGED <<accounts, currentUser, naming, mainQueue, screen, signIns>>

TapRegister(a) ==
  /\ InFront("register") /\ ~screen.registerAlert
  /\ Send("register", a)

\* LoginViewModel publishes when a link opens or closes and when its alert
\* is dismissed.
OpenRegister ==
  /\ InFront("login")
  /\ screen' = [screen EXCEPT !.front = "register"]
  /\ requests' = Republished(requests)
  /\ UNCHANGED <<accounts, currentUser, naming, mainQueue, signIns, disturbed>>

\* A login that succeeded meanwhile shows its screen now.
Behind == IF screen.goHome THEN "home" ELSE "login"

LeaveRegister ==
  /\ InFront("register") /\ ~screen.registerAlert
  /\ screen' = [screen EXCEPT !.front = Behind]
  /\ requests' = Republished(requests)
  /\ disturbed' = disturbed \cup InProgress
  /\ UNCHANGED <<accounts, currentUser, naming, mainQueue, signIns>>

LeaveHome ==
  /\ InFront("home")
  /\ screen' = [screen EXCEPT !.front = "login", !.goHome = FALSE]
  /\ requests' = Republished(requests)
  /\ UNCHANGED <<accounts, currentUser, naming, mainQueue, signIns, disturbed>>

DismissLoginAlert ==
  /\ screen.loginAlert /\ ~screen.linked
  /\ screen' = [screen EXCEPT !.loginAlert = FALSE]
  /\ requests' = Republished(requests)
  /\ UNCHANGED <<accounts, currentUser, naming, mainQueue, signIns, disturbed>>

DismissRegisterAlert ==
  /\ screen.registerAlert /\ InFront("register")
  /\ screen' = [screen EXCEPT !.registerAlert = FALSE]
  /\ UNCHANGED <<accounts, requests, currentUser, naming, mainQueue, signIns, disturbed>>

\* App.body makes the LoginView.  It only hands on the binding of its state, so
\* it may or may not be evaluated again when the link opens or closes; if it
\* is, LoginView starts over with a new view model.
Link(linked) ==
  /\ screen.linked # linked
  /\ \/ /\ screen' = [screen EXCEPT !.linked = linked]
        /\ UNCHANGED requests
     \/ /\ screen' = [LoginScreen EXCEPT !.linked = linked]
        /\ requests' = Replaced(requests, {"login", "register"})
  /\ disturbed' = disturbed \cup InProgress
  /\ UNCHANGED <<accounts, currentUser, naming, mainQueue, signIns>>

OpenURL   == Link(TRUE)
LeaveLink == Link(FALSE)

-----------------------------------------------------------------------------
(* The server.  A call may arrive long after its request ended.            *)

Serve(i, answer) ==
  /\ requests[i].call = "out"
  /\ requests' = [requests EXCEPT ![i].call = answer]
  /\ UNCHANGED <<currentUser, naming, mainQueue, screen, signIns, disturbed>>

ServeSignIn(i) ==
  /\ requests[i].kind = "login"
  /\ accounts[requests[i].account] # Free
  /\ Serve(i, "good")
  /\ UNCHANGED accounts

ServeCreate(i) ==
  /\ requests[i].kind = "register" /\ requests[i].target = NoUser
  /\ accounts[requests[i].account] = Free
  /\ Serve(i, "good")
  /\ accounts' = [accounts EXCEPT ![requests[i].account] = NoName]

AccountOf(user) == requests[user].account

ServeName(i) ==
  /\ requests[i].target # NoUser
  /\ Serve(i, "good")
  /\ accounts' = [accounts EXCEPT ![AccountOf(requests[i].target)] = i]

ServeRefuses(i) ==
  /\ Serve(i, "bad")
  /\ UNCHANGED accounts

ServeStep(i) == ServeSignIn(i) \/ ServeCreate(i) \/ ServeName(i) \/ ServeRefuses(i)

-----------------------------------------------------------------------------
(* The global work queue of the SDK.                                       *)

\* Mutant of SignedIn: a user who is signed in stays the current one.
SignedInUnlessSomebodyIs(i) ==
  /\ requests[i].at = "sent" /\ requests[i].call = "good"
  /\ requests' = [Moved(i, "signedIn") EXCEPT ![i].call = "none"]
  /\ currentUser' = IF currentUser = NoUser THEN i ELSE currentUser
  /\ signIns' = Append(signIns, i)
  /\ mainQueue' = Append(mainQueue, [of |-> i, run |-> "signedIn"])
  /\ UNCHANGED <<accounts, naming, screen, disturbed>>

\* Mutant of SignedIn: a registration signs nobody in.
SignedInByLoginOnly(i) ==
  /\ requests[i].at = "sent" /\ requests[i].call = "good"
  /\ requests' = [Moved(i, "signedIn") EXCEPT ![i].call = "none"]
  /\ currentUser' = IF requests[i].kind = "login" THEN i ELSE currentUser
  /\ signIns' = Append(signIns, i)
  /\ mainQueue' = Append(mainQueue, [of |-> i, run |-> "signedIn"])
  /\ UNCHANGED <<accounts, naming, screen, disturbed>>

\* The account is looked up, the user object made and saved, and made the
\* current user; then the callback is dispatched to the main queue.
SignedIn(i) ==
  /\ requests[i].at = "sent" /\ requests[i].call = "good"
  /\ requests' = [Moved(i, "signedIn") EXCEPT ![i].call = "none"]
  /\ currentUser' = i
  /\ signIns' = Append(signIns, i)
  /\ mainQueue' = Append(mainQueue, [of |-> i, run |-> "signedIn"])
  /\ UNCHANGED <<accounts, naming, screen, disturbed>>

\* A refusal, no answer in time, or a user that could not be looked up or
\* saved.
SignInFails(i) ==
  /\ requests[i].at = "sent"
  /\ requests' = Moved(i, "failing")
  /\ mainQueue' = Append(mainQueue, [of |-> i, run |-> "error"])
  /\ UNCHANGED <<accounts, currentUser, naming, screen, signIns, disturbed>>

\* The task queue of a user runs one profile change at a time.
IsFirstOf(i, user) ==
  \E k \in DOMAIN naming :
    /\ naming[k] = i
    /\ \A j \in 1..k-1 : requests[naming[j]].target # user

Running(i) == requests[i].at = "naming" /\ IsFirstOf(i, requests[i].target)

SendName(i) ==
  /\ Running(i) /\ requests[i].call = "none"
  /\ requests' = [requests EXCEPT ![i].call = "out"]
  /\ UNCHANGED <<accounts, currentUser, naming, mainQueue, screen, signIns, disturbed>>

\* Mutant of Named: the change counts as made once it is sent.
NamedWhenSent(i) ==
  /\ Running(i) /\ requests[i].call # "none"
  /\ naming' = Without(i)
  /\ requests' = Moved(i, "named")
  /\ mainQueue' = Append(mainQueue, [of |-> i, run |-> "named"])
  /\ UNCHANGED <<accounts, currentUser, screen, signIns, disturbed>>

Named(i) ==
  /\ Running(i) /\ requests[i].call = "good"
  /\ naming' = Without(i)
  /\ requests' = [Moved(i, "named") EXCEPT ![i].call = "none"]
  /\ mainQueue' = Append(mainQueue, [of |-> i, run |-> "named"])
  /\ UNCHANGED <<accounts, currentUser, screen, signIns, disturbed>>

\* Mutant of NamingFails: complete() is not called on the error path.
NamingFailsAndBlocks(i) ==
  /\ Running(i)
  /\ requests' = Moved(i, "failing")
  /\ mainQueue' = Append(mainQueue, [of |-> i, run |-> "error"])
  /\ UNCHANGED <<accounts, currentUser, naming, screen, signIns, disturbed>>

\* The account could not be looked up first, the change was refused or not
\* answered, or the user not saved.  When the server no longer knows the user
\* or its token, the user is signed out: signOutByForce compares the identity
\* of the uid strings, so only if the current user is that very object.
NamingFails(i) ==
  /\ Running(i)
  /\ naming' = Without(i)
  /\ requests' = Moved(i, "failing")
  /\ mainQueue' = Append(mainQueue, [of |-> i, run |-> "error"])
  /\ currentUser' \in IF requests[i].call \in {"none", "bad"} /\ currentUser = requests[i].target
                      THEN {currentUser, NoUser} ELSE {currentUser}
  /\ UNCHANGED <<accounts, screen, signIns, disturbed>>

SignInEnds(i) == SignedIn(i) \/ SignInFails(i)
NamingStep(i) == SendName(i) \/ Named(i) \/ NamingFails(i)

-----------------------------------------------------------------------------
(* The main queue.                                                         *)

Block(kind, run) ==
  /\ mainQueue # <<>>
  /\ Head(mainQueue).run = run
  /\ requests[Head(mainQueue).of].kind = kind

\* LoginViewModel.onTapLogin, onSuccess; no screen may show this view model
\* any more.  Over an open RegisterView the second link may or may not show
\* its screen at once.
LoginSucceeds ==
  /\ Block("login", "signedIn")
  /\ LET i == Head(mainQueue).of IN
       IF requests[i].form
       THEN /\ requests' = Republished(Moved(i, "ok"))
            /\ \E front \in {"home"} \cup ({screen.front} \cap {"register"}) :
                 screen' = [screen EXCEPT !.front = front, !.goHome = TRUE,
                                          !.loginAlert = FALSE]
       ELSE /\ requests' = Moved(i, "ok")
            /\ UNCHANGED screen
  /\ mainQueue' = Tail(mainQueue)
  /\ UNCHANGED <<accounts, currentUser, naming, signIns, disturbed>>

\* The completion of createUser asks for the current user only now.
StartNaming ==
  /\ Block("register", "signedIn")
  /\ LET i == Head(mainQueue).of IN
       IF currentUser = NoUser
       THEN /\ requests' = Moved(i, "silent")
            /\ UNCHANGED naming
       ELSE /\ requests' = [Moved(i, "naming") EXCEPT ![i].target = currentUser]
            /\ naming' = Append(naming, i)
  /\ mainQueue' = Tail(mainQueue)
  /\ UNCHANGED <<accounts, currentUser, screen, signIns, disturbed>>

\* onSuccess of onTapRegister dismisses the screen of the tap; for a screen
\* that was left and opened again that may or may not close the new one.
RegisterSucceeds ==
  /\ Block("register", "named")
  /\ LET i == Head(mainQueue).of IN
     \E closes \in {TRUE} \cup {requests[i].form} :
       IF closes /\ screen.front = "register"
       THEN /\ screen' = [screen EXCEPT !.front = Behind, !.registerAlert = FALSE]
            /\ requests' = Republished(Moved(i, "ok"))
       ELSE /\ requests' = Moved(i, "ok")
            /\ UNCHANGED screen
  /\ mainQueue' = Tail(mainQueue)
  /\ UNCHANGED <<accounts, currentUser, naming, signIns, disturbed>>

\* onFailure runs on the main queue and dispatches to it once more.
Fails ==
  /\ mainQueue # <<>> /\ Head(mainQueue).run = "error"
  /\ mainQueue' = Append(Tail(mainQueue), [of |-> Head(mainQueue).of, run |-> "alert"])
  /\ UNCHANGED <<accounts, requests, currentUser, naming, screen, signIns, disturbed>>

LoginAlert ==
  /\ Block("login", "alert")
  /\ LET i == Head(mainQueue).of IN
       IF requests[i].form
       THEN /\ requests' = Republished(Moved(i, "failed"))
            /\ screen' = [screen EXCEPT !.loginAlert = TRUE]
       ELSE /\ requests' = Moved(i, "failed")
            /\ UNCHANGED screen
  /\ mainQueue' = Tail(mainQueue)
  /\ UNCHANGED <<accounts, currentUser, naming, signIns, disturbed>>

RegisterAlert ==
  /\ Block("register", "alert")
  /\ LET i == Head(mainQueue).of IN
       /\ requests' = Moved(i, "failed")
       /\ screen' = [screen EXCEPT !.registerAlert =
                       @ \/ (requests[i].form /\ screen.front = "register")]
  /\ mainQueue' = Tail(mainQueue)
  /\ UNCHANGED <<accounts, currentUser, naming, signIns, disturbed>>

RunMain ==
  \/ LoginSucceeds \/ StartNaming \/ RegisterSucceeds
  \/ Fails \/ LoginAlert \/ RegisterAlert

-----------------------------------------------------------------------------

\* The process ends and the app is launched again: the user is read from the
\* keychain, everything in flight is forgotten.
Restart ==
  /\ requests' = [i \in DOMAIN requests |->
                   [requests[i] EXCEPT !.at = IF i \in InProgress THEN "lost" ELSE @,
                                       !.form = FALSE]]
  /\ naming' = <<>>
  /\ mainQueue' = <<>>
  /\ screen' = LoginScreen
  /\ UNCHANGED <<accounts, currentUser, signIns, disturbed>>

Next ==
  \/ \E a \in Accounts : TapLogin(a) \/ TapRegister(a)
  \/ OpenRegister \/ LeaveRegister \/ LeaveHome
  \/ DismissLoginAlert \/ DismissRegisterAlert
  \/ OpenURL \/ LeaveLink
  \/ \E i \in DOMAIN requests : ServeStep(i) \/ SignInEnds(i) \/ NamingStep(i)
  \/ RunMain
  \/ Restart

Spec == Init /\ [][Next]_vars

\* The two queues of the device run on, and a call that is not answered times
\* out.  Neither the server nor the user owes anything.
Fairness ==
  /\ \A i \in Taps : WF_vars(i \in DOMAIN requests /\ SignInEnds(i))
  /\ \A i \in Taps : WF_vars(i \in DOMAIN requests /\ (Named(i) \/ NamingFails(i)))
  /\ WF_vars(RunMain)

FairSpec == Spec /\ Fairness

-----------------------------------------------------------------------------
(* Properties. *)

AuthTypes ==
  /\ accounts \in [Accounts -> Taps \cup {NoName, Free}]
  /\ requests \in Seq(Requests) /\ Len(requests) <= MaxTaps
  /\ currentUser \in DOMAIN requests \cup {NoUser}
  /\ \A i \in DOMAIN requests : requests[i].target \in DOMAIN requests \cup {NoUser}
  /\ naming \in Seq(DOMAIN requests)
  /\ mainQueue \in Seq([of : DOMAIN requests, run : Blocks])
  /\ screen \in Screens
  /\ signIns \in Seq(DOMAIN requests)
  /\ disturbed \subseteq DOMAIN requests

\* A request in progress waits in one place: for the server, for its turn on
\* its user, or in the main queue; one that ended waits nowhere.
InOnePlace ==
  /\ \A k, m \in DOMAIN mainQueue : mainQueue[k].of = mainQueue[m].of => k = m
  /\ \A k, m \in DOMAIN naming : naming[k] = naming[m] => k = m
  /\ \A i \in DOMAIN requests :
       /\ (\E k \in DOMAIN naming : naming[k] = i) <=> requests[i].at = "naming"
       /\ (\E k \in DOMAIN mainQueue : mainQueue[k].of = i)
            <=> requests[i].at \in {"signedIn", "named", "failing"}
  /\ \A k \in DOMAIN mainQueue :
       mainQueue[k].run \in {"signedIn", "named"}
         => requests[mainQueue[k].of].at = mainQueue[k].run

\* Types, and where requests wait: no callback comes twice, or after a restart,
\* and none is forgotten.
AuthTypeOK == AuthTypes /\ InOnePlace

\* user was signed in no earlier than the request i.
NotBefore(i, user) ==
  \E k, m \in DOMAIN signIns : k <= m /\ signIns[k] = i /\ signIns[m] = user

\* The user name typed in a registration may go to somebody who signed in
\* while its callback waited, but never to somebody who was signed in before:
\* createUser makes its user the current one before it dispatches the
\* callback that asks for the current user.
NameNeverGoesToEarlierUser ==
  \A i \in DOMAIN requests :
    requests[i].target # NoUser => NotBefore(i, requests[i].target)

\* The guard on the current user in register returns without a word to the
\* screen: it may do so only when another request interfered.
NeverSilent ==
  \A i \in DOMAIN requests : requests[i].at = "silent" => i \in disturbed

Becomes(i, stage) ==
  i \in DOMAIN requests /\ requests[i].at # stage /\ requests'[i].at = stage

\* When a registration that nothing disturbed closes its screen, the account
\* typed bears the name typed, even if calls of earlier requests that were
\* given up, by a timeout or a restart, reach the server meanwhile.
NamedAsTyped ==
  [][\A i \in Taps :
       (/\ Becomes(i, "ok") /\ i \notin disturbed
        /\ requests[i].kind = "register")
       => accounts'[requests[i].account] = i]_vars

\* A request that fails puts up an alert, unless another request, the deep
\* link or the user leaving interfered: LoginViewModel does not republish, and with that
\* replace the view model of RegisterView, while a registration is under way.
FailureIsShown ==
  [][\A i \in Taps : Becomes(i, "failed") /\ i \notin disturbed
       => screen'.loginAlert \/ screen'.registerAlert]_vars

\* Every tap comes to an end, whatever fails: a profile change that fails
\* lets the next one of its user go on.
EveryTapEnds ==
  \A i \in Taps : i \in DOMAIN requests ~> i \in DOMAIN requests \ InProgress
=============================================================================
