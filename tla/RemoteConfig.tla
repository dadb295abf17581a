---------------------------- MODULE RemoteConfig ----------------------------
(***************************************************************************)
(* The app bar name: FirebaseRemoteConfigManager over the Remote Config    *)
(* SDK.  Every LoginViewModel sets the default name and starts a fetch;    *)
(* every GroceryViewModel reads the name once, when it is made.            *)
(*                                                                         *)
(* Parties: the main thread; the SDK's serial queue; the database queue,   *)
(* which writes behind it; the tasks that fetch a token and talk to the    *)
(* server; and the server.  A configuration is named by the version of the *)
(* server's template it comes from, 0 for none, and so is an ETag.  Times  *)
(* are readings of the device's clock, which moves on with every stamp.    *)
(***************************************************************************)
EXTENDS Integers, Sequences, FiniteSets

CONSTANTS Titles,       \* values of mainScreenAppBarTitle
          NoTitle,      \* a template does without that key
          DefaultName,  \* "Grocery-App"
          EmptyName,    \* what a key without a value reads as
          MaxTemplates, \* bound on the templates that are published
          MaxFetches,   \* bound on the LoginViewModels that are made
          MaxIncidents  \* bound on ends of the process and clocks set back

ASSUME ConfigAssumption ==
  /\ Titles \cap {NoTitle, DefaultName, EmptyName} = {}
  /\ NoTitle # DefaultName /\ EmptyName \notin {NoTitle, DefaultName}
  /\ MaxTemplates \in Nat /\ MaxFetches \in Nat /\ MaxIncidents \in Nat

VARIABLES
  templates,    \* server: the title in every version of the template
  userDefaults, \* disk, at once: lastETag, lastETagUpdateTime, lastFetchTime
  disk,         \* disk, by db: both configuration tables and the metadata row
  db,           \* _databaseOperationQueue
  queue,        \* _queue of FIRRemoteConfig, _lockQueue of RCNConfigFetch
  main,         \* completion handlers on the main queue
  content,      \* RCNConfigContent
  settings,     \* RCNConfigSettings, and whether there is one yet
  fetches,      \* every fetch the app asked for, in order
  name,         \* appBarName of the newest GroceryViewModel
  clock,        \* the time of the last stamp
  incidents,
  torn,         \* history: see Restart
  setBack       \* history: the clock was set back

memoryVars == <<db, queue, main, content, settings, fetches, name>>
historyVars == <<incidents, torn, setBack>>
vars == <<templates, userDefaults, disk, memoryVars, clock, historyVars>>

Versions == 0..Len(templates)

Title(v) == IF v = 0 THEN NoTitle ELSE templates[v]

Unloaded == [loaded |-> FALSE, fetched |-> 0, active |-> 0, defaults |-> FALSE]

NoSettings == [made |-> FALSE, isFetchInProgress |-> FALSE, lastFetchStatus |-> "none",
               backoff |-> FALSE, lastApplyTime |-> 0, deviceContext |-> FALSE]

EmptyRow == [status |-> "none", applyTime |-> 0, context |-> FALSE]

Init ==
  /\ \E t \in Titles \cup {NoTitle} : templates = <<t>>
  /\ userDefaults = [tag |-> 0, tagTime |-> 0, fetchTime |-> 0]
  /\ disk = [fetched |-> 0, active |-> 0, row |-> EmptyRow]
  /\ db = <<>> /\ queue = <<>> /\ main = <<>>
  /\ content = Unloaded
  /\ settings = NoSettings
  /\ fetches = <<>>
  /\ name = DefaultName
  /\ clock = 0
  /\ incidents = 0 /\ torn = FALSE /\ setBack = FALSE

-----------------------------------------------------------------------------
(* The database queue.  A table is emptied by one operation and filled by    *)
(* others; each is durable by itself.                                        *)

Replaces(table, v) == << [write |-> table, version |-> 0], [write |-> table, version |-> v] >>

RowOf(s) == [status |-> s.lastFetchStatus, applyTime |-> s.lastApplyTime,
             context |-> s.deviceContext]

\* updateMetadataTable
ReplacesRow(s) == << [write |-> "drop"], [write |-> "insert", row |-> RowOf(s)] >>

\* What an operation makes of the disk.
Stored(op, d) ==
  CASE op.write = "fetched" -> [d EXCEPT !.fetched = op.version]
    [] op.write = "active"  -> [d EXCEPT !.active = op.version]
    [] op.write = "drop"    -> [d EXCEPT !.row = EmptyRow]
    [] op.write = "insert"  -> [d EXCEPT !.row = op.row]
    [] op.write = "update"  -> [d EXCEPT !.row.applyTime = op.time]

DatabaseStep ==
  /\ db # <<>>
  /\ disk' = Stored(Head(db), disk)
  /\ db' = Tail(db)
  /\ UNCHANGED <<templates, userDefaults, queue, main, content, settings, fetches,
                 name, clock, historyVars>>

-----------------------------------------------------------------------------
(* The main thread. *)

\* configValueForKey waits on the queue, and the main thread with it.
Blocked == \E i \in 1..Len(queue) : queue[i].do = "read"

Asked == [stage |-> "asked", sent |-> 0, got |-> 0]

\* LoginViewModel.init, then GroceryViewModel.init of the view it links to.
ViewModelTasks(i) == << [do |-> "defaults"], [do |-> "fetch", of |-> i], [do |-> "read"] >>

\* App.body.  The first time makes the SDK, which reads the metadata row at
\* once, has the tables loaded and is given the app's settings.
AppBody ==
  /\ ~Blocked
  /\ Len(fetches) < MaxFetches
  /\ fetches' = Append(fetches, Asked)
  /\ IF settings.made
       THEN /\ queue' = queue \o ViewModelTasks(Len(fetches'))
            /\ UNCHANGED settings
       ELSE /\ queue' = <<[do |-> "settings"]>> \o ViewModelTasks(Len(fetches'))
            /\ settings' = [NoSettings EXCEPT !.made = TRUE,
                                              !.lastFetchStatus = disk.row.status,
                                              !.lastApplyTime = disk.row.applyTime,
                                              !.deviceContext = disk.row.context]
  /\ UNCHANGED <<templates, userDefaults, disk, db, main, content, name, clock,
                 historyVars>>

\* LoginView.body builds another home screen to link to.
LoginBody ==
  /\ settings.made
  /\ ~Blocked
  /\ queue' = Append(queue, [do |-> "read"])
  /\ UNCHANGED <<templates, userDefaults, disk, db, main, content, settings, fetches,
                 name, clock, historyVars>>

\* The completion handler of fetchRemoteConfigs activates what a success brought.
FetchCompletes ==
  /\ main # <<>>
  /\ ~Blocked
  /\ queue' = IF Head(main).ok THEN Append(queue, [do |-> "activate"]) ELSE queue
  /\ main' = Tail(main)
  /\ UNCHANGED <<templates, userDefaults, disk, db, content, settings, fetches, name,
                 clock, historyVars>>

-----------------------------------------------------------------------------
(* The serial queue. *)

\* Mutant of LoadReturns: the load calls back on the main queue.
LoadReturnsOnMain ==
  /\ settings.made /\ ~content.loaded
  /\ ~Blocked
  /\ content' = [content EXCEPT !.loaded = TRUE, !.fetched = disk.fetched,
                                !.active = disk.active]
  /\ UNCHANGED <<templates, userDefaults, disk, db, queue, main, settings, fetches,
                 name, clock, historyVars>>

\* The tables are loaded before any other operation of the database queue can
\* change them, and handed over by a global queue.
LoadReturns ==
  /\ settings.made /\ ~content.loaded
  /\ content' = [content EXCEPT !.loaded = TRUE, !.fetched = disk.fetched,
                                !.active = disk.active]
  /\ UNCHANGED <<templates, userDefaults, disk, db, queue, main, settings, fetches,
                 name, clock, historyVars>>

\* The front of the queue runs; what uses the content waits for the load.
Runs(do) ==
  /\ queue # <<>>
  /\ Head(queue).do = do
  /\ do \in {"defaults", "read", "answer", "activate"} => content.loaded

Moved(i, stage) == [fetches EXCEPT ![i].stage = stage]

Reported(i, ok) ==
  /\ fetches' = Moved(i, IF ok THEN "ok" ELSE "failed")
  /\ main' = Append(main, [of |-> i, ok |-> ok])

\* setConfigSettings saves the metadata.
RunSettings ==
  /\ Runs("settings")
  /\ db' = db \o ReplacesRow(settings)
  /\ queue' = Tail(queue)
  /\ UNCHANGED <<templates, userDefaults, disk, main, content, settings, fetches,
                 name, clock, historyVars>>

RunDefaults ==
  /\ Runs("defaults")
  /\ content' = [content EXCEPT !.defaults = TRUE]
  /\ queue' = Tail(queue)
  /\ UNCHANGED <<templates, userDefaults, disk, db, main, settings, fetches, name,
                 clock, historyVars>>

\* Mutant of ConfigValue: the default is not looked up.
ActiveValue == Title(content.active)

\* configValueForKey: the active value, the default one, or nothing.
ConfigValue == CASE Title(content.active) # NoTitle -> Title(content.active)
                 [] Title(content.active) = NoTitle /\ content.defaults -> DefaultName
                 [] OTHER -> EmptyName

RunRead ==
  /\ Runs("read")
  /\ name' = ConfigValue
  /\ queue' = Tail(queue)
  /\ UNCHANGED <<templates, userDefaults, disk, db, main, content, settings, fetches,
                 clock, historyVars>>

\* fetchWithCompletionHandler looks whether the last success was on a device
\* like this one and goes to the end of the same queue again.
RunFetch ==
  /\ Runs("fetch")
  /\ queue' = Append(Tail(queue), [do |-> "begin", of |-> Head(queue).of,
                                   changed |-> ~settings.deviceContext])
  /\ UNCHANGED <<templates, userDefaults, disk, db, main, content, settings, fetches,
                 name, clock, historyVars>>

\* With a minimum interval of 0 only a clock that was set back says no.
HasMinimumFetchIntervalElapsed ==
  userDefaults.fetchTime = 0 \/ clock >= userDefaults.fetchTime

HasFetched == userDefaults.fetchTime > 0

\* The last fetch is too recent.
Cached(changed) == ~HasMinimumFetchIntervalElapsed /\ ~changed

\* Mutant of Refused: a fetch that is in progress is not looked for.
RefusedIfCached(changed) == Cached(changed)

\* The reasons for not asking the server now.
Refused(changed) == Cached(changed) \/ settings.isFetchInProgress

\* A success with what is there, or the status of the last fetch.
AnsweredLocally(changed) ==
  Cached(changed) \/ (HasFetched /\ settings.lastFetchStatus = "success")

\* shouldThrottle
MayThrottle(changed) ==
  HasFetched /\ settings.lastFetchStatus # "success" /\ settings.backoff /\ ~changed

\* fetchConfigWithExpirationDuration.  The back-off may have run out.
RunBegin ==
  /\ Runs("begin")
  /\ LET i == Head(queue).of
         changed == Head(queue).changed
     IN \/ /\ Refused(changed)
           /\ Reported(i, AnsweredLocally(changed))
           /\ UNCHANGED settings
        \/ /\ ~Refused(changed)
           /\ MayThrottle(changed)
           /\ settings' = [settings EXCEPT !.lastFetchStatus = "failure"]
           /\ Reported(i, FALSE)
        \/ /\ ~Refused(changed)
           /\ settings' = [settings EXCEPT !.isFetchInProgress = TRUE,
                                           !.backoff = @ /\ ~MayThrottle(changed)]
           /\ fetches' = Moved(i, "token")
           /\ UNCHANGED main
  /\ queue' = Tail(queue)
  /\ UNCHANGED <<templates, userDefaults, disk, db, content, name, clock, historyVars>>

\* fetchWithUserProperties sends the ETag of the last answer.
RunRequest ==
  /\ Runs("request")
  /\ fetches' = [fetches EXCEPT ![Head(queue).of].stage = "sent",
                                ![Head(queue).of].sent = userDefaults.tag]
  /\ queue' = Tail(queue)
  /\ UNCHANGED <<templates, userDefaults, disk, db, main, content, settings, name,
                 clock, historyVars>>

\* An answer with a new configuration replaces the fetched one; its ETag
\* follows in the same block.
RunAnswer ==
  /\ Runs("answer")
  /\ LET i == Head(queue).of IN
       /\ IF fetches[i].got # fetches[i].sent
            THEN /\ content' = [content EXCEPT !.fetched = fetches[i].got]
                 /\ db' = db \o Replaces("fetched", fetches[i].got)
            ELSE UNCHANGED <<content, db>>
       /\ queue' = <<[do |-> "tag", of |-> i]>> \o Tail(queue)
  /\ UNCHANGED <<templates, userDefaults, disk, main, settings, fetches, name, clock,
                 historyVars>>

\* The ETag is stored, with its time, if it is another one.
NewTag(v) == userDefaults.tag # v

RunTag ==
  /\ Runs("tag")
  /\ LET i == Head(queue).of IN
       /\ clock' = clock + 1
       /\ userDefaults' = [tag |-> IF NewTag(fetches[i].got) THEN fetches[i].got
                                                             ELSE userDefaults.tag,
                           tagTime |-> IF NewTag(fetches[i].got) THEN clock'
                                                                 ELSE userDefaults.tagTime,
                           fetchTime |-> clock']
       /\ settings' = [settings EXCEPT !.lastFetchStatus = "success",
                                       !.deviceContext = TRUE]
       /\ db' = db \o ReplacesRow(settings')
       /\ torn' = (torn /\ fetches[i].got = fetches[i].sent)
       /\ Reported(i, TRUE)
  /\ queue' = Tail(queue)
  /\ UNCHANGED <<templates, disk, content, name, incidents, setBack>>

\* No answer, or one with an error status.
RunFailure ==
  /\ Runs("failure")
  /\ settings' = [settings EXCEPT !.lastFetchStatus = "failure", !.backoff = TRUE]
  /\ db' = db \o ReplacesRow(settings')
  /\ Reported(Head(queue).of, FALSE)
  /\ queue' = Tail(queue)
  /\ UNCHANGED <<templates, userDefaults, disk, content, name, clock, historyVars>>

\* Mutant of IsApplied: a fetched configuration counts as applied if any was.
IsAppliedOnce == userDefaults.tagTime = 0 \/ settings.lastApplyTime > 0

\* What was fetched last has been activated already.
IsApplied == userDefaults.tagTime <= settings.lastApplyTime

\* Mutant of ActivationWrites: the time is written ahead of the configuration.
TimeFirst(v, t) == <<[write |-> "update", time |-> t]>> \o Replaces("active", v)

\* copyFromDictionary, then lastApplyTimeInterval.
ActivationWrites(v, t) == Replaces("active", v) \o <<[write |-> "update", time |-> t]>>

\* activateWithEitherHandler
RunActivate ==
  /\ Runs("activate")
  /\ IF userDefaults.tagTime = 0 \/ IsApplied
       THEN UNCHANGED <<db, content, settings, clock>>
       ELSE /\ content' = [content EXCEPT !.active = content.fetched]
            /\ clock' = clock + 1
            /\ settings' = [settings EXCEPT !.lastApplyTime = clock']
            /\ db' = db \o ActivationWrites(content.fetched, clock')
  /\ queue' = Tail(queue)
  /\ UNCHANGED <<templates, userDefaults, disk, main, fetches, name, historyVars>>

QueueStep == \/ RunSettings \/ RunDefaults \/ RunRead
             \/ RunFetch \/ RunBegin \/ RunRequest
             \/ RunAnswer \/ RunTag \/ RunFailure
             \/ RunActivate

-----------------------------------------------------------------------------
(* The tasks of a fetch that run elsewhere. *)

\* The installation's token and the analytics' properties are there.
TokenArrives(i) ==
  /\ fetches[i].stage = "token"
  /\ fetches' = Moved(i, "request")
  /\ queue' = Append(queue, [do |-> "request", of |-> i])
  /\ UNCHANGED <<templates, userDefaults, disk, db, main, content, settings, name,
                 clock, historyVars>>

\* The flag is cleared where the token failed, not on the queue.
TokenFails(i) ==
  /\ fetches[i].stage = "token"
  /\ settings' = [settings EXCEPT !.isFetchInProgress = FALSE]
  /\ Reported(i, FALSE)
  /\ UNCHANGED <<templates, userDefaults, disk, db, queue, content, name, clock,
                 historyVars>>

\* The server answers with its latest template, if that is another one.
ServerAnswers(i) ==
  /\ fetches[i].stage = "sent"
  /\ fetches' = [fetches EXCEPT ![i].stage = "answered", ![i].got = Len(templates)]
  /\ UNCHANGED <<templates, userDefaults, disk, db, queue, main, content, settings,
                 name, clock, historyVars>>

RequestFails(i) ==
  /\ fetches[i].stage = "sent"
  /\ fetches' = Moved(i, "refused")
  /\ UNCHANGED <<templates, userDefaults, disk, db, queue, main, content, settings,
                 name, clock, historyVars>>

\* The session calls back, one answer at a time: the flag is cleared there ...
AnswerArrives(i) ==
  /\ fetches[i].stage \in {"answered", "refused"}
  /\ \A j \in 1..Len(fetches) : fetches[j].stage \notin {"arrived", "arrivedRefused"}
  /\ fetches' = Moved(i, IF fetches[i].stage = "answered" THEN "arrived"
                                                          ELSE "arrivedRefused")
  /\ settings' = [settings EXCEPT !.isFetchInProgress = FALSE]
  /\ UNCHANGED <<templates, userDefaults, disk, db, queue, main, content, name, clock,
                 historyVars>>

\* ... and only then does the answer go to the queue.
AnswerIsQueued(i) ==
  /\ fetches[i].stage \in {"arrived", "arrivedRefused"}
  /\ queue' = Append(queue, [do |-> IF fetches[i].stage = "arrived" THEN "answer"
                                                                    ELSE "failure",
                             of |-> i])
  /\ fetches' = Moved(i, "queued")
  /\ UNCHANGED <<templates, userDefaults, disk, db, main, content, settings, name,
                 clock, historyVars>>

FetchStep == \E i \in 1..Len(fetches) :
  \/ TokenArrives(i) \/ TokenFails(i)
  \/ ServerAnswers(i) \/ RequestFails(i)
  \/ AnswerArrives(i) \/ AnswerIsQueued(i)

-----------------------------------------------------------------------------
(* The world. *)

Publish(t) ==
  /\ Len(templates) < MaxTemplates
  /\ templates' = Append(templates, t)
  /\ UNCHANGED <<userDefaults, disk, memoryVars, clock, historyVars>>

SetClockBack(t) ==
  /\ incidents < MaxIncidents
  /\ t < clock
  /\ clock' = t
  /\ incidents' = incidents + 1
  /\ setBack' = TRUE
  /\ UNCHANGED <<templates, userDefaults, disk, memoryVars, torn>>

\* A fetched configuration is not yet on disk with the ETag it belongs to.
HalfStored ==
  \/ \E k \in 1..Len(db) : db[k].write = "fetched"
  \/ queue # <<>> /\ Head(queue).do = "tag"

\* The process ends and the app is launched again, with what is on disk.
Restart ==
  /\ settings.made
  /\ incidents < MaxIncidents
  /\ incidents' = incidents + 1
  /\ torn' = (torn \/ HalfStored)
  /\ db' = <<>> /\ queue' = <<>> /\ main' = <<>>
  /\ content' = Unloaded
  /\ settings' = NoSettings
  /\ fetches' = [i \in 1..Len(fetches) |-> [Asked EXCEPT !.stage = "gone"]]
  /\ name' = DefaultName
  /\ UNCHANGED <<templates, userDefaults, disk, clock, setBack>>

Next == \/ AppBody \/ LoginBody \/ FetchCompletes
        \/ DatabaseStep \/ LoadReturns \/ QueueStep \/ FetchStep
        \/ \E t \in Titles \cup {NoTitle} : Publish(t)
        \/ \E t \in 0..clock : SetClockBack(t)
        \/ Restart

Spec == Init /\ [][Next]_vars

\* Queues are served and no task waits for ever on the network; the time-out of
\* a request sees to that.
Fairness ==
  /\ WF_vars(LoadReturns)
  /\ WF_vars(QueueStep)
  /\ WF_vars(FetchStep)
  /\ WF_vars(FetchCompletes)

FairSpec == Spec /\ Fairness

-----------------------------------------------------------------------------
(* Properties. *)

Steps == {"settings", "defaults", "read", "fetch", "begin", "request", "answer", "tag",
          "failure", "activate"}
Stages == {"asked", "token", "request", "sent", "answered", "refused", "arrived",
           "arrivedRefused", "queued", "ok", "failed", "gone"}
Rows == [status : {"none", "success", "failure"}, applyTime : Nat, context : BOOLEAN]
Writes == [write : {"fetched", "active"}, version : Versions] \cup [write : {"drop"}]
  \cup [write : {"insert"}, row : Rows]
  \cup [write : {"update"}, time : Nat]

\* Types, and the app bar always has a name: the name is read right after the
\* defaults are set and the fetch is asked for, whatever the server's template
\* holds and however far the load of the tables is.
ConfigTypeOK ==
  /\ templates \in Seq(Titles \cup {NoTitle}) /\ templates # <<>>
  /\ userDefaults \in [tag : Versions, tagTime : Nat, fetchTime : Nat]
  /\ (userDefaults.tag = 0) <=> (userDefaults.tagTime = 0)
  /\ disk \in [fetched : Versions, active : Versions, row : Rows]
  /\ db \in Seq(Writes)
  /\ \A k \in 1..Len(queue) : queue[k].do \in Steps
  /\ \A k \in 1..Len(main) : main[k].of \in 1..Len(fetches) /\ main[k].ok \in BOOLEAN
  /\ content \in [loaded : BOOLEAN, fetched : Versions, active : Versions,
                  defaults : BOOLEAN]
  /\ settings \in [made : BOOLEAN, isFetchInProgress : BOOLEAN,
                   lastFetchStatus : {"none", "success", "failure"},
                   backoff : BOOLEAN, lastApplyTime : Nat, deviceContext : BOOLEAN]
  /\ fetches \in Seq([stage : Stages, sent : Versions, got : Versions])
  /\ name \in Titles \cup {DefaultName}
  /\ clock \in Nat /\ incidents \in Nat /\ torn \in BOOLEAN /\ setBack \in BOOLEAN

\* isFetchInProgress is set on the queue and cleared on whatever thread a token
\* or an answer comes back on.  It is set exactly while one fetch is between
\* its start and its answer, so two requests are never under way together and
\* no fetch is turned away for one that is over.
OneFetchAtATime ==
  Cardinality({i \in 1..Len(fetches) :
    fetches[i].stage \in {"token", "request", "sent", "answered", "refused"}})
  = IF settings.isFetchInProgress THEN 1 ELSE 0

\* The ETag the next request sends is that of the fetched configuration, or
\* the server would answer NO_CHANGE about another one.
FetchedIsTagged ==
  content.loaded /\ ~torn /\ ~(queue # <<>> /\ Head(queue).do = "tag") =>
    Title(content.fetched) = Title(userDefaults.tag)

\* activate compares two times of the device's clock, one of them kept in the
\* database and written behind the configuration it is about.  When they say
\* that the fetched configuration was applied, the active one is that one,
\* after a restart too.
BelievedApplied ==
  content.loaded /\ ~torn /\ ~setBack
    /\ userDefaults.tagTime # 0 /\ userDefaults.tagTime <= settings.lastApplyTime
  => Title(content.active) = Title(userDefaults.tag)

\* What is on disk at once, what is written behind and what is in memory fit
\* together.
TagsAgree == FetchedIsTagged /\ BelievedApplied

\* A fetch that succeeded leaves its configuration active once its completion
\* handler and the queue have run, however many fetches overlap.
SuccessIsActivated ==
  main = <<>> /\ queue = <<>> /\ ~torn /\ ~setBack =>
    \A i \in 1..Len(fetches) :
      fetches[i].stage = "ok" /\ fetches[i].got = userDefaults.tag /\ fetches[i].got # 0
        => Title(content.active) = Title(fetches[i].got)

\* RCNConfigContent.h says of the fetched configuration that it is the latest
\* data from the server: after a fetch that reported success it would be what
\* the server answered.  The ETag is on disk before the configuration is; when
\* the process ends in between, the next success is about the configuration
\* that was lost.
FetchedIsLatest ==
  queue = <<>> =>
    \A i \in 1..Len(fetches) :
      fetches[i].stage = "ok" /\ fetches[i].got = userDefaults.tag /\ fetches[i].got # 0
        => Title(content.fetched) = Title(fetches[i].got)

\* configValueForKey blocks the main thread on the queue, and the queue waits
\* for the database: the main thread always comes back.
MainComesBack == []<>~Blocked
=============================================================================
