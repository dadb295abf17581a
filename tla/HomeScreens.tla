---------------------------- MODULE HomeScreens ----------------------------
(***************************************************************************)
(* The life of the grocery view models and their listeners, against the    *)
(* life of the signed-in user.                                             *)
(*                                                                         *)
(* SwiftUI evaluates the bodies of GroceryApp and LoginView again and      *)
(* again; every evaluation makes a ContentView for a NavigationLink, and   *)
(* with it a GroceryViewModel that starts to listen, whoever is signed in  *)
(* at that moment and whatever screen is in front.  Nothing removes a      *)
(* listener.  All of them listen to one query, over one watch stream.      *)
(*                                                                         *)
(* Parties: the main thread; the global work queue of FIRAuth; the worker  *)
(* queue of Firestore; and the cloud, whose rules let signed-in users read *)
(* and perhaps everyone.  The list is abstracted to what a model heard.    *)
(***************************************************************************)
EXTENDS Naturals, Sequences, FiniteSets

CONSTANTS Users,       \* accounts that sign in
          Nobody,      \* no user: User::Unauthenticated
          MaxModels,   \* bound on the view models of one run of the app: see Spent
          MaxSignIns,  \* bound on sign-ins
          MaxIncidents \* bound on failures, sign-outs, new tokens and restarts

ASSUME ScreensAssumption ==
  /\ Nobody \notin Users
  /\ MaxModels \in Nat \ {0, 1} /\ MaxSignIns \in Nat /\ MaxIncidents \in Nat

VARIABLES
  everyone,    \* cloud: the rules let everyone read, not only users
  stored,      \* keychain: the user who signed in last
  currentUser, \* FIRAuth._currentUser
  loaded,      \* FIRAuth has read the keychain
  told,        \* FirebaseCredentialsProvider: current_user
  mainQueue,   \* notifications, sign-in callbacks and events of listeners
  worker,      \* Firestore's worker queue
  query,       \* EventManager's listeners of the query, and its view
  target,      \* RemoteStore: the query is one of listen_targets_
  stream,      \* the watch stream
  token,       \* the token asked for by the stream's last start
  online,      \* OnlineStateTracker
  models,      \* every GroceryViewModel of this run of the app
  screen,      \* flags of the links, and the model behind each
  signIns,     \* bounded counters
  incidents,
  signedOut    \* history: somebody was signed out since the launch

authVars == <<stored, currentUser, loaded>>
clientVars == <<query, target, stream, token, online>>
countVars == <<signIns, incidents, signedOut>>
vars == <<everyone, authVars, told, mainQueue, worker, clientVars, models, screen, countVars>>

Somebody == Users \cup {Nobody}

\* waiting: listeners that heard nothing; live: those that heard a list.
\* current: the cloud has said that the view is complete.
\* cached: the device holds documents.
NoQuery(cached) == [waiting |-> {}, live |-> {}, current |-> FALSE, cached |-> cached]

NoToken == [at |-> "none", as |-> Nobody, changed |-> FALSE]
Closed == [state |-> "closed", as |-> Nobody]
Asking == [state |-> "asking", as |-> Nobody]

\* A view model, by the user the main thread knew of when it was made.
Model(as) == [as |-> as, heard |-> "nothing"]

\* A launch, with the keychain read already or not yet.  The first bodies make
\* model 1 for the deep link (GroceryApp) and model 2 for the login (LoginView).
\* The user in the keychain counts as known, read or not: see AuthGivesToken.
FirstModels == << Model(stored), Model(stored) >>
FirstScreen == [deep |-> FALSE, home |-> FALSE, link |-> 1, login |-> 2, view |-> 1]
FirstTasks == << [do |-> "listen", model |-> 1], [do |-> "listen", model |-> 2] >>
FirstBlocks(user) == IF user = Nobody THEN <<>> ELSE << [do |-> "credentials", as |-> user] >>

Init ==
  /\ everyone \in BOOLEAN
  /\ stored \in Somebody
  /\ loaded \in BOOLEAN
  /\ currentUser = IF loaded THEN stored ELSE Nobody
  /\ told = currentUser
  /\ mainQueue = FirstBlocks(currentUser)
  /\ worker = FirstTasks
  /\ query \in {NoQuery(cached) : cached \in BOOLEAN}
  /\ target = FALSE
  /\ stream = Closed
  /\ token = NoToken
  /\ online = "unknown"
  /\ models = FirstModels
  /\ screen = FirstScreen
  /\ signIns = 0
  /\ incidents = 0
  /\ signedOut = FALSE

-----------------------------------------------------------------------------
(* The main thread: bodies, links and the text fields of the login screen. *)

\* Bound: the view models made and to be made by sign-ins on their way here; a
\* sign-in counts for one more, an incident for two.
Spent ==
  Len(models) + Cardinality({i \in DOMAIN mainQueue : mainQueue[i].do = "signedIn"})
    + signIns + 2 * incidents

Room(n) == Spent + n <= MaxModels

\* Mutant of MakesModels: a view model is freed with the view it was made for.
MakesNoModels(n) ==
  /\ UNCHANGED models
  /\ worker' = worker \o [i \in 1..n |-> [do |-> "listen", model |-> Len(models) + i]]

\* `n' more view models, each with its listener on the way to the worker.
MakesModels(n) ==
  /\ models' = models \o [i \in 1..n |-> Model(told)]
  /\ worker' = worker \o [i \in 1..n |-> [do |-> "listen", model |-> Len(models) + i]]

\* GroceryApp.body makes a LoginView with a LoginViewModel of its own, and the
\* model of the deep link; LoginView.body then makes one more.
AppBody(deep) ==
  /\ Room(2)
  /\ MakesModels(2)
  /\ screen' = [deep |-> deep, home |-> FALSE, link |-> Len(models) + 1,
                login |-> Len(models) + 2, view |-> screen.view + 1]

LoginBody(home) ==
  /\ MakesModels(1)
  /\ screen' = [screen EXCEPT !.home = home, !.login = Len(models) + 1]

OnlyScreens == UNCHANGED <<everyone, authVars, told, mainQueue, clientVars, countVars>>

\* A letter typed on the login screen: LoginViewModel publishes.
Type ==
  /\ ~screen.deep /\ ~screen.home
  /\ Room(1)
  /\ LoginBody(FALSE)
  /\ OnlyScreens

LeaveHome ==
  /\ screen.home /\ ~screen.deep
  /\ Room(1)
  /\ LoginBody(FALSE)
  /\ OnlyScreens

OpenURL ==
  /\ ~screen.deep
  /\ AppBody(TRUE)
  /\ OnlyScreens

LeaveLink ==
  /\ screen.deep
  /\ AppBody(FALSE)
  /\ OnlyScreens

-----------------------------------------------------------------------------
(* The main queue. *)

Block(do) == mainQueue # <<>> /\ Head(mainQueue).do = do

\* FIRAuthStateDidChangeInternalNotification.
RunCredentialsBlock ==
  /\ Block("credentials")
  /\ told' = Head(mainQueue).as
  /\ token' = [token EXCEPT !.changed = token.at # "none"]
  /\ worker' = Append(worker, [do |-> "credentials"])
  /\ mainQueue' = Tail(mainQueue)
  /\ UNCHANGED <<everyone, authVars, query, target, stream, online, models, screen, countVars>>

\* The callback of a sign-in.  That of a login opens the home screen, that of
\* a registration closes the registration screen; either way the LoginViewModel
\* publishes, if GroceryApp has not made another one since.
RunSignedInBlock ==
  /\ Block("signedIn")
  /\ mainQueue' = Tail(mainQueue)
  /\ IF Head(mainQueue).view # screen.view
     THEN UNCHANGED <<models, worker, screen>>
     ELSE LoginBody(screen.home \/ Head(mainQueue).home)
  /\ UNCHANGED <<everyone, authVars, told, clientVars, countVars>>

\* getAllGroceries calls `success' with the documents, or with none.
RunEventBlock ==
  /\ Block("event")
  /\ models' = [m \in DOMAIN models |->
                 IF m \in Head(mainQueue).to
                 THEN [models[m] EXCEPT !.heard = Head(mainQueue).what] ELSE models[m]]
  /\ mainQueue' = Tail(mainQueue)
  /\ UNCHANGED <<everyone, authVars, told, worker, clientVars, screen, countVars>>

-----------------------------------------------------------------------------
(* FIRAuth's work queue. *)

Becomes(user) ==
  /\ currentUser' = user
  /\ stored' = user

LoadUser ==
  /\ ~loaded
  /\ loaded' = TRUE
  /\ currentUser' = stored
  /\ mainQueue' = IF stored = Nobody THEN mainQueue
                  ELSE Append(mainQueue, [do |-> "credentials", as |-> stored])
  /\ UNCHANGED <<everyone, stored, told, worker, clientVars, models, screen, countVars>>

\* A login or a registration succeeds: the notification goes to the main
\* queue ahead of the callback.
SignIn(u) ==
  /\ loaded
  /\ signIns < MaxSignIns /\ Room(2)
  /\ signIns' = signIns + 1
  /\ Becomes(u)
  /\ \E home \in BOOLEAN :
       mainQueue' = mainQueue \o << [do |-> "credentials", as |-> u],
                                    [do |-> "signedIn", home |-> home, view |-> screen.view] >>
  /\ UNCHANGED <<everyone, loaded, told, worker, clientVars, models, screen,
                 incidents, signedOut>>

Incident ==
  /\ incidents < MaxIncidents /\ Room(2)
  /\ incidents' = incidents + 1

\* A token that the server no longer takes signs its user out.
SignOut ==
  /\ loaded /\ currentUser # Nobody
  /\ Incident
  /\ Becomes(Nobody)
  /\ signedOut' = TRUE
  /\ mainQueue' = Append(mainQueue, [do |-> "credentials", as |-> Nobody])
  /\ UNCHANGED <<everyone, loaded, told, worker, clientVars, models, screen, signIns>>

\* A token that was refreshed is notified of like a user.
TokenIsRefreshed ==
  /\ loaded /\ currentUser # Nobody
  /\ Incident
  /\ mainQueue' = Append(mainQueue, [do |-> "credentials", as |-> currentUser])
  /\ UNCHANGED <<everyone, authVars, told, worker, clientVars, models, screen,
                 signIns, signedOut>>

\* getTokenForcingRefresh runs on the work queue, behind the load of the user.
AuthGivesToken ==
  /\ loaded
  /\ token.at = "asked"
  /\ token' = [token EXCEPT !.at = "given", !.as = currentUser]
  /\ UNCHANGED <<everyone, authVars, told, mainQueue, worker, query, target, stream, online,
                 models, screen, countVars>>

\* Its callback, which may come late: if the user changed since, it asks again.
TokenCallsBack ==
  /\ token.at = "given"
  /\ IF token.changed
     THEN /\ token' = [NoToken EXCEPT !.at = "asked"]
          /\ UNCHANGED worker
     ELSE /\ token' = NoToken
          /\ worker' = Append(worker, [do |-> "open", as |-> token.as])
  /\ UNCHANGED <<everyone, authVars, told, mainQueue, query, target, stream, online, models,
                 screen, countVars>>

-----------------------------------------------------------------------------
(* Firestore's worker queue. *)

Task(do) == worker # <<>> /\ Head(worker).do = do

Listeners(q) == q.waiting \cup q.live

\* Mutant of ShouldRaiseInitialEvent: the client waits for the cloud.
WaitsForTheCloud(q, state) == q.current \/ q.cached

\* A listener gets its first event from the cloud's answer, from documents on
\* the device, or because the client is offline.
ShouldRaiseInitialEvent(q, state) == q.current \/ q.cached \/ state = "offline"

\* The view becomes `q' and the online state `state'; listeners that wait and
\* need not get their first event, on the main queue.
Raises(q, state) ==
  /\ online' = state
  /\ IF ShouldRaiseInitialEvent(q, state) /\ q.waiting # {}
     THEN /\ query' = [q EXCEPT !.live = @ \cup q.waiting, !.waiting = {}]
          /\ mainQueue' = Append(mainQueue,
                                 [do |-> "event", to |-> q.waiting, what |-> "list"])
     ELSE query' = q /\ UNCHANGED mainQueue

\* Answers to starts of the stream that were given up: the close count is
\* another one when they come.
Outdated(tasks) ==
  [i \in DOMAIN tasks |-> IF tasks[i].do = "open" THEN [do |-> "outdated"] ELSE tasks[i]]

StartsAgain(tasks) ==
  /\ stream' = Asking
  /\ token' = [NoToken EXCEPT !.at = "asked"]
  /\ worker' = Outdated(tasks)

Stops(tasks) ==
  /\ stream' = Closed
  /\ token' = NoToken
  /\ worker' = Outdated(tasks)

\* AddQueryListener: only the first listener makes a view and a target.
RunListen ==
  /\ Task("listen")
  /\ LET first == Listeners(query) = {}
     IN /\ Raises([query EXCEPT !.waiting = @ \cup {Head(worker).model}], online)
        /\ target' = TRUE
        /\ IF first /\ stream.state = "closed"
           THEN StartsAgain(Tail(worker))
           ELSE worker' = Tail(worker) /\ UNCHANGED <<stream, token>>
  /\ UNCHANGED <<everyone, authVars, told, models, screen, countVars>>

\* Mutant of RunCredentials: an open stream stays open.
CredentialsKeepStream ==
  /\ Task("credentials")
  /\ \E cached \in BOOLEAN : Raises([query EXCEPT !.cached = cached], online)
  /\ IF target /\ stream.state # "open"
     THEN StartsAgain(Tail(worker)) ELSE worker' = Tail(worker) /\ UNCHANGED <<stream, token>>
  /\ UNCHANGED <<everyone, authVars, told, target, models, screen, countVars>>

\* HandleCredentialChange: another mutation queue may show other documents, and
\* the streams restart, whether the user is another one or not.
RunCredentials ==
  /\ Task("credentials")
  /\ \E cached \in BOOLEAN : Raises([query EXCEPT !.cached = cached], "unknown")
  /\ IF target THEN StartsAgain(Tail(worker)) ELSE Stops(Tail(worker))
  /\ UNCHANGED <<everyone, authVars, told, target, models, screen, countVars>>

RunOpen ==
  /\ Task("open")
  /\ stream' = [state |-> "open", as |-> Head(worker).as]
  /\ worker' = Tail(worker)
  /\ UNCHANGED <<everyone, authVars, told, mainQueue, query, target, token, online, models,
                 screen, countVars>>

RunOutdated ==
  /\ Task("outdated")
  /\ worker' = Tail(worker)
  /\ UNCHANGED <<everyone, authVars, told, mainQueue, clientVars, models, screen, countVars>>

-----------------------------------------------------------------------------
(* The watch stream. *)

MayRead(as) == everyone \/ as # Nobody

ServerAnswers ==
  /\ stream.state = "open" /\ target
  /\ MayRead(stream.as)
  /\ \E cached \in BOOLEAN :
       Raises([query EXCEPT !.current = TRUE, !.cached = cached], "online")
  /\ UNCHANGED <<everyone, authVars, told, worker, target, stream, token, models, screen,
                 countVars>>

\* Mutant of ServerRefuses: the listeners are told and not forgotten.
RefusalKeepsListeners ==
  /\ stream.state = "open" /\ target
  /\ ~MayRead(stream.as)
  /\ target' = FALSE
  /\ mainQueue' = Append(mainQueue, [do |-> "event", to |-> Listeners(query),
                                     what |-> "refused"])
  /\ online' = "online"
  /\ UNCHANGED <<everyone, authVars, told, worker, query, stream, token, models, screen,
                 countVars>>

\* ProcessTargetError: the target is gone, every listener is told and forgotten.
ServerRefuses ==
  /\ stream.state = "open" /\ target
  /\ ~MayRead(stream.as)
  /\ target' = FALSE
  /\ query' = NoQuery(query.cached)
  /\ mainQueue' = Append(mainQueue, [do |-> "event", to |-> Listeners(query),
                                     what |-> "refused"])
  /\ online' = "online"
  /\ UNCHANGED <<everyone, authVars, told, worker, stream, token, models, screen, countVars>>

\* The timer of the online state tracker.
GivesUp ==
  /\ online = "unknown" /\ stream.state # "closed"
  /\ Raises([query EXCEPT !.current = FALSE], "offline")
  /\ UNCHANGED <<everyone, authVars, told, worker, target, stream, token, models, screen,
                 countVars>>

\* The stream ends with an error, or gets no token.
WatchFails ==
  /\ stream.state # "closed"
  /\ Incident
  /\ LET state == IF ~target \/ online = "online" THEN "unknown" ELSE "offline"
     IN Raises([query EXCEPT !.current = @ /\ state # "offline"], state)
  /\ IF target THEN StartsAgain(worker) ELSE Stops(worker)
  /\ UNCHANGED <<everyone, authVars, told, target, models, screen, signIns, signedOut>>

\* The process ends and the user launches the app again.
Restart ==
  /\ Incident
  /\ loaded' \in BOOLEAN
  /\ currentUser' = IF loaded' THEN stored ELSE Nobody
  /\ told' = currentUser'
  /\ mainQueue' = FirstBlocks(currentUser')
  /\ worker' = FirstTasks
  /\ query' \in {NoQuery(cached) : cached \in BOOLEAN}
  /\ target' = FALSE
  /\ stream' = Closed
  /\ token' = NoToken
  /\ online' = "unknown"
  /\ models' = FirstModels
  /\ screen' = FirstScreen
  /\ signedOut' = FALSE
  /\ UNCHANGED <<everyone, stored, signIns>>

-----------------------------------------------------------------------------
RunMain == RunCredentialsBlock \/ RunSignedInBlock \/ RunEventBlock
RunWorker == RunListen \/ RunCredentials \/ RunOpen \/ RunOutdated
ServerReplies == ServerAnswers \/ ServerRefuses

Next ==
  \/ Type \/ LeaveHome \/ OpenURL \/ LeaveLink
  \/ RunMain
  \/ LoadUser \/ (\E u \in Users : SignIn(u)) \/ SignOut \/ TokenIsRefreshed
  \/ AuthGivesToken \/ TokenCallsBack
  \/ RunWorker
  \/ ServerReplies \/ GivesUp \/ WatchFails
  \/ Restart

Spec == Init /\ [][Next]_vars

\* The queues run and timers fire.  The network need not work at all; but a
\* server that talks answers a listen, unless the stream ends.
Fairness ==
  /\ WF_vars(RunMain) /\ WF_vars(RunWorker)
  /\ WF_vars(LoadUser) /\ WF_vars(AuthGivesToken)
  /\ WF_vars(GivesUp)
  /\ WF_vars(online = "online" /\ ServerReplies)

FairSpec == Spec /\ Fairness

-----------------------------------------------------------------------------
(* Properties. *)

Events(m) == {i \in DOMAIN mainQueue : mainQueue[i].do = "event" /\ m \in mainQueue[i].to}

Refused(m) ==
  \/ models[m].heard = "refused"
  \/ \E i \in Events(m) : mainQueue[i].what = "refused"

\* Types; the models of the links are models.
ScreensTypeOK ==
  /\ everyone \in BOOLEAN /\ loaded \in BOOLEAN /\ target \in BOOLEAN /\ signedOut \in BOOLEAN
  /\ stored \in Somebody /\ currentUser \in Somebody /\ told \in Somebody
  /\ mainQueue \in Seq([do : {"credentials"}, as : Somebody]
                       \cup [do : {"signedIn"}, home : BOOLEAN, view : Nat]
                       \cup [do : {"event"}, to : SUBSET Nat, what : {"list", "refused"}])
  /\ worker \in Seq([do : {"listen"}, model : DOMAIN models]
                    \cup [do : {"credentials", "outdated"}] \cup [do : {"open"}, as : Somebody])
  /\ query \in [waiting : SUBSET DOMAIN models, live : SUBSET DOMAIN models,
                current : BOOLEAN, cached : BOOLEAN]
  /\ stream \in [state : {"closed", "asking", "open"}, as : Somebody]
  /\ token \in [at : {"none", "asked", "given"}, as : Somebody, changed : BOOLEAN]
  /\ online \in {"unknown", "online", "offline"}
  /\ models \in Seq([as : Somebody, heard : {"nothing", "list", "refused"}])
  /\ screen \in [deep : BOOLEAN, home : BOOLEAN, link : DOMAIN models,
                 login : DOMAIN models, view : Nat]
  /\ signIns \in 0..MaxSignIns /\ incidents \in 0..MaxIncidents

\* The home screen that opens on a sign-in, and the ones a launch makes for
\* the user in the keychain, are not refused by the cloud for being nobody's:
\* the notification overtakes the callback, and the token the load.
HomeIsAlive ==
  ~signedOut => \A m \in DOMAIN models : models[m].as # Nobody => ~Refused(m)

\* Every model's listener is on its way to the worker, waits, is live or was
\* refused, in one of these places only; those that could have their first
\* event have it; and while there is a listener its target is watched.
NoListenerIsLost ==
  /\ \A m \in DOMAIN models :
       Cardinality({i \in DOMAIN worker : worker[i].do = "listen" /\ worker[i].model = m})
       + (IF m \in query.waiting THEN 1 ELSE 0) + (IF m \in query.live THEN 1 ELSE 0)
       + (IF Refused(m) THEN 1 ELSE 0) = 1
  /\ ShouldRaiseInitialEvent(query, online) => query.waiting = {}
  /\ target = (Listeners(query) # {})
  /\ target => stream.state # "closed"

\* Unless news of the user is on its way, the stream is open as that user.
StreamIsOfTheUser ==
  \/ stream.state # "open"
  \/ stream.as = currentUser
  \/ \E i \in DOMAIN mainQueue : mainQueue[i].do = "credentials"
  \/ \E i \in DOMAIN worker : worker[i].do = "credentials"

\* Listeners of models nobody shows any more, of earlier users and of the
\* screen in front share one target; none is lost and none is served as
\* somebody else (EventManager.AddQueryListener, RemoteStore.Listen).
ListenersAreServed == NoListenerIsLost /\ StreamIsOfTheUser

\* Once the user and the failures rest, every view model has heard a list,
\* from the cloud or from the device, or that it is refused: no screen stays
\* empty for want of an event.
EveryModelHears == <>[](\A m \in DOMAIN models : models[m].heard # "nothing")
=============================================================================
