# Verification of the Grocery app

The program is an iOS app (SwiftUI, about a thousand lines of Swift under
`src/Grocery-App/Grocery-App/`) that shows one shared list of groceries, kept in
Cloud Firestore, and uploads pictures of them to Cloud Storage. Its own code is
thin; what makes the list right or wrong happens in the Firestore client that the
repository vendors under `src/Grocery-App/Pods/FirebaseFirestore/`. This project
models both: the app's code as it is written, and the vendored client as the app
uses it (one listener on one collection, whole-document sets and deletes). The
cloud, the storage bucket and SwiftUI are external and are modelled by what the
code relies on.

There are no tests in the repository and its own README is one line, so what the
properties say comes from the code, its comments and its doc comments.

## Inventory

| component | state it keeps | operations | how it interacts |
|---|---|---|---|
| `CloudFireStoreFirebaseApiImpl` | none of its own | `getAllGroceries`, `addGrocery`, `deleteGrocery`, `uploadImage` | calls Firestore and Storage; callbacks come back on the main queue |
| `GroceryModelImpl` | which API implementation is used | forwards | called by the view models |
| `GroceryViewModel` | `groceries`, the form's texts, `isPopOverShown`, `isShowImagePicker`, `chosenGrocery`, `appBarName` | `init` adds the listener; taps | publishes to `ContentView` |
| `ContentView`, `ImagePicker` | the rows on the screen, the sheets | taps, swipes, picker callbacks | reads and writes the view model |
| Firestore client: local store | document cache and one mutation queue per user, both on disk | accept, acknowledge, reject a write; apply a watch snapshot; change of user | only on the worker queue |
| Firestore client: sync engine, views, listeners | the view's document set, its mutated keys, whether the listener has had its first event | listen, recompute, raise, fail | worker queue in, main queue out |
| Firestore client: remote store | the write pipeline, the two streams, the online state | fill, handshake, send, answer, refuse, break, idle stop, restart | talks to the cloud; asks Auth for tokens |
| `FirebaseAuthManagerImpl`, login and register view models | the signed-in user, the screens' flags | login, register, profile change | another user swaps the mutation queues |
| `FirebaseRemoteConfigManager` over the Remote Config SDK | default, fetched and active values; ETag, times and status on disk | set defaults, fetch and activate, read | gives the view models the app bar name |
| `App.swift` | which screen is shown | deep link `home` | every evaluation of its body builds `ContentView` and `LoginView` anew |
| `FirebaseRealtimeDatabaseApiImpl` | - | the same protocol over another database | not selected by the code |
| `FirebaseAnalyticsUtils` | - | logging | - |

What is hard here:

* **three queues**: the main thread only enqueues; the worker accepts a write later;
  the event with its result comes back to the main queue later still;
* **two streams** that race: the write stream acknowledges a write, the watch stream
  brings the collection, and either may be ahead of the other;
* **answers by position**: the write stream has no request numbers;
* **timers** against answers: back-off, the idle stop, the ten seconds after which the
  client counts as offline;
* **tokens** asked for by a start that is over when they come;
* **two stores on disk**, one written at once and one behind (Remote Config), and a
  process that may end in between;
* **views made anew**: each brings a view model and a listener that nobody removes;
* **repeated sends**: a broken stream sends the whole pipeline again;
* **restarts**: the cache and the mutation queues survive, everything else does not;
* **changes of user** in the middle of all this;
* **stale and shared objects on the main thread**: row indexes, form texts and the chosen
  grocery are read when something is tapped and used when something else comes back. A
  `GroceryVO` is an object that the list, the picker and an upload share, and the upload
  changes it in place, without an event and without a publication.

What makes each component right is listed with its module below. `PROJECT.json`
lists the hazards line by line, with the properties that would notice.

## Modules

| module | what it models |
|---|---|
| `GroceryStore` | the data path, from `addGrocery` to the list the view model is given: worker queue, cache, mutation queues, view, listener, write and watch stream, the cloud's history, other devices, sign-ins, broken streams, restarts |
| `GroceryHome` | extends it with the home screen: form, rows, delete gesture, picker, upload |
| `RemoteStore` | what `GroceryStore` abstracts: the streams with their states, tokens, back-off, handshake, pipeline and idle timer, the gRPC call, the online state tracker, changes of the network. It implements `GroceryStore` |
| `AuthFlow` | login and registration: the two view models and screens, the deep link, the Auth SDK's current user and profile changes, the server's accounts |
| `HomeScreens` | grocery view models made anew and their listeners, against sign-ins, tokens, notifications and the streams' restarts |
| `RemoteConfig` | the app bar name: defaults, fetch, activation and read, over the SDK's queues and its two stores on disk |
| `GroceryStore_proofs` | lemmas on queues of writes; types, answers by position; theorems on the list: fresh, no flicker, last event shown, settled on the cloud |
| `GroceryStore_writes` | theorems on the cache, on lost writes and on their order |
| `GroceryHome_proofs` | theorems on the screen: that a picture put into a row comes with the write of that row, that the last write counts, that the rows are as intended |
| `RemoteStore_pipeline` | lemmas on the pipeline, the wire and a stream's states |
| `RemoteStore_proofs` | theorems on `RemoteStore`, and that it implements `GroceryStore` |
| `AuthFlow_proofs` | theorems on `AuthFlow` |
| `RemoteConfig_proofs` | theorems on `RemoteConfig` |
| `HomeScreens_proofs` | lemmas on the two queues by what waits in them; theorems on `HomeScreens` |
| `MCGroceryStore`, `MCGroceryHome`, `MCRemoteStore`, `MCAuthFlow`, `MCHomeScreens`, `MCRemoteConfig` | values for TLC |

How they relate: `GroceryHome` EXTENDS `GroceryStore`: a step of the screen
is one of the data path with what it does on the main thread, or leaves the data path
alone. The two meet in one place where neither is just the other's caller, the object of a row
that an upload changes in place. `RemoteStore` INSTANCEs `GroceryStore` with a refinement mapping and
implements it too (run `remote`, theorem `RemoteImplementsStore`). `AuthFlow` and `HomeScreens` look at the same sign-in from two sides: `SignIn` in
`GroceryStore` is what the data path sees of `AuthFlow`'s `SignedIn`, and `HomeScreens`
has the notification and the token between them. `RemoteConfig` touches the others
only in the name of the app bar.

### GroceryStore

The cloud is the sequence `log` of commits to the collection; *version v* is what the
first v commits left. Snapshot versions and commit versions of the real system are
totally ordered in the same way, and only their order is used.

| variable | in the code |
|---|---|
| `known[n]` | the version of the remote document cache for `n`: the commit version of an acknowledgement or the last watch snapshot, whichever is newer |
| `watched` | the last remote snapshot version |
| `pending[u]` | the mutation queue of `u` (leveldb), with `id` for the batch id |
| `commits` | answers the cloud has sent for the head of `pending[user]` and the client has not read: with them the write pipeline is exactly a prefix of the queue, so it needs no variable |
| `worker`, `mainQueue` | `worker_queue_` and the user executor |
| `listener` | `none`, `waiting` (`raised_initial_event_` false), `live`, `dead` (after `OnError`) |
| `shown`, `mutated` | the view's `document_set_` and `mutated_keys_` |
| `groceries` | `GroceryViewModel.groceries` |

The list the view model holds is changed by list events (`Deliver`) and at one other place:
`uploadImage` assigns `grocery.image` in the object it was given (`CloudFireStoreFirebaseApiImpl.swift`
line 77), and asks for the write of the same object. To the data path that is
`WriteRow`. Until the worker has accepted that write, and the event it raises has come back, the
row is ahead of the view (`IsAhead`).

The content of a document in the cache is `DocAt(known[n], n)`: a cached document
*is* the document of some version, which is what the client relies on when it lays
mutations over it. `LocalView` is `LocalDocumentsView`: cache plus pending writes; as
every mutation of this app replaces or deletes the whole document, the last write on a
name decides. `Replaced` is `View::ComputeDocumentChanges` with its rule for documents
that were acknowledged and not yet confirmed (`ShouldWaitForSyncedDocument`), `Raises`
is `QueryListener`, and `Emit` puts them together as
`EmitNewSnapshotsAndNotifyLocalStore` does. Every action that changes the cache or a
queue calls `Emit` with the names it touched, as the code does; nothing else
refreshes the view.

Only whole-app facts about the cloud are assumed: commits are ordered, answers of one
stream come in order, a watch snapshot is a consistent version of the collection, a
refused write leaves no trace, and the listen may be refused.

### GroceryHome

Main-thread state and actions over `GroceryStore`. `rendered` is the list the rows were
built from: SwiftUI redraws some time after the publication, so rows may lag behind
`groceries` (`Render`), and `outdated` tells that they were built from the objects of a list
that has been replaced.

`GroceryVO` is a class. The picker's `chosenGrocery` and an upload hold the object of the row
that was tapped, and `listed` tells whether that object is in the view model's list still: a list
event builds new objects, after which it is not (`ListPublished`, `Unlisted`). So when the URL
arrives, `DownloadURLArrives` puts the picture into the row of the list if, and only if,
the list was not replaced since the row was built, and writes the document either way, with the
fields the object has. Nothing is published; the drawn rows show the picture with the next
`Render`. A sheet covers the list (`ListInFront`). An upload is
`put` -> `url` -> `done`; its picture is named by its number. `putData` may fail or
succeed (`PutFinishes`), the URL may be missing or never come (`DownloadURLMissing`).
`AppEnds` is both the operating system's and a trap's end; `AddBadNameTapped` and
`MissingRowDeleted` are the two traps of this screen.

`intended` and `issued`/`rejected` are history variables: they are only read by
properties.

### RemoteStore

All of it is the worker queue's state and the state of the calls under it.

| variable | in the code |
|---|---|
| `ready` | the client is initialized, lazily by its first task |
| `writeStream`, `watchStream` | `Stream::state_`, and the callbacks of the credentials provider on their way: `current`, or `stale` if the stream was closed since (`close_count_`) |
| `pipeline` | `write_pipeline_` |
| `call` | the write stream's gRPC call: `handshake_complete_` (`shaken`), the idle timer, requests and answers on the wire, how the cloud ended it, and whether the client has noticed (`finishing`) |
| `online` | `OnlineStateTracker`: state, watch stream failures, timer |
| `breaks`, `lost`, `refusals` | bound and history |

Everything else is `GroceryStore`'s. The refinement mapping takes its `commits` for the
answers in `call`, and adds lost answers to its incidents: what the abstract module does
in one step, the stream breaking, is here the end of a call, the failing operation that
notices it, the status, the back-off, a token, a handshake and a new send of the whole
pipeline. Two actions of `GroceryStore`, `StreamBreaks` and `Offline`, have the form they have
because of this refinement: not every break loses an answer, and the client
gives up on the connection not only after ten seconds.

Assumptions about what is outside: requests of a broken call that the cloud has not taken
yet are gone; a stream is ended by the cloud with an error; after the handshake a
permanent error is about a request. The stream token's value is left out (it is handed
back to the server unread), and so are messages the client cannot parse.

### AuthFlow

Stands beside the data path: what it does to the data path, another signed-in user, is
`SignIn` of `GroceryStore`. Three parties take steps: the main thread, the global work
queue of the Auth SDK, and the server.

| variable | in the code |
|---|---|
| `accounts[a]` | the server: not registered (`Free`), registered without a name, or with the name typed in a registration |
| `requests[i]` | the i-th tap on LOGIN or REGISTER with its closure: `at` is how far it got, `call` what became of its call to the server, `target` the user object whose profile it changes, `form` whether a screen still shows its view model |
| `currentUser` | `FIRAuth._currentUser`; a user object is named by the sign-in that made it |
| `naming` | the tasks in the `FIRAuthSerialTaskQueue`s of all users, in order |
| `mainQueue` | blocks the SDK and the view models dispatch to the main queue |
| `screen` | which of login, register and home is in front, the deep link's home over it, and the alerts |

A request goes `sent` -> `signedIn` -> `ok` (login) or `sent` -> `signedIn` -> `naming` ->
`named` -> `ok` (registration); `failing` -> `failed` shows an alert after a second hop
through the main queue; `silent` is the early return of `register` when nobody is signed
in; `lost` is a restart. A call stays `out` until the server sees it, also when the
client has stopped waiting for it (`ServeStep`). `SignedIn` and the dispatch of its
callback are one step of the work queue, the reading of the current user (`StartNaming`)
a later one of the main thread: that is where another sign-in fits in.

Views own their view models as plain `@ObservedObject`s, so every evaluation of
`LoginView.body` makes a new one for `RegisterView` (`Republished`). Two things are
SwiftUI's business and left open: whether a link that becomes active over an open
`RegisterView` shows its screen at once, and whether `App.body` is evaluated again when
the deep link's state changes.

`signIns` and `disturbed` are history variables.

### HomeScreens

The list of groceries is abstracted to what a view model has heard: nothing, a list, or
a refusal. What stays is who listens, as whom.

| variable | in the code |
|---|---|
| `models` | every `GroceryViewModel` since the launch; `Home`'s `ContentView` is built eagerly, so each evaluation of `GroceryApp.body` or `LoginView.body` makes one |
| `screen` | the flags of the links and the model behind each; `view` tells `LoginView`s apart |
| `stored`, `currentUser`, `loaded` | keychain, `FIRAuth._currentUser`, and whether the keychain has been read |
| `told` | `current_user` of Firestore's `FirebaseCredentialsProvider` |
| `query`, `target` | the one `QueryListenersInfo`, and the target of the remote store |
| `stream`, `token`, `online` | the watch stream, the token of its last start, the online state |
| `mainQueue`, `worker` | notifications, sign-in callbacks and events; listens, credential changes and opens |

A sign-in puts the notification into the main queue ahead of its callback, so the data
path has changed user before the home screen of the login is made. The token for a
stream is read behind the load of the keychain. Both together are `HomeIsAlive`; a
user that was signed out is exempt (`signedOut`).

Assumed: the rules let signed-in users read, and perhaps everyone (`everyone`). What
the cache holds is left open at each change (`cached`). The token of a start that is over is
dropped: at once if its callback has not come (`StartsAgain`), and by its close count when it
comes to the worker (`Outdated`, `RunOutdated`). That this count tells them apart is
`TokenIsAwaited` of `RemoteStore`.

### RemoteConfig

A configuration is the version of the server's template that it came from; so is an ETag.

| variable | in the code |
|---|---|
| `userDefaults` | `lastETag`, `lastETagUpdateTime`, `lastFetchTime`: on disk as soon as they are set |
| `disk`, `db` | the two configuration tables and the metadata row; `_databaseOperationQueue`, which writes them behind |
| `content`, `settings` | `RCNConfigContent`, `RCNConfigSettings` in memory |
| `queue`, `main` | the SDK's serial queue (`_queue` and `_lockQueue` are one), the main queue |
| `fetches` | each fetch with how far it got: token, request, server, answer |
| `clock` | the device's clock, which the user may set back |
| `torn`, `setBack` | history, see below |

`torn` holds from an end of the process between an ETag's write and its configuration's
until another template has come; `setBack` once the clock was set back. `TagsAgree` and
`SuccessIsActivated` do not hold then, and say so. The first is a finding: run
`config_torn` shows the state, and that a successful fetch does not mend it.

Assumed or left out: the project has a published template and the server's answers are well
formed; a template without a value for the key is `NoTitle`, which is how
`EMPTY_CONFIG` reads too. The 30 second limit on the load of the tables, the table of
defaults on disk (the app sets its defaults at every launch), experiments, and a change of
the app's version, of the system's or of the locale are not modelled. The hops for the
installation's token and for the analytics' properties are one step.

## Properties and runs

| run | instance | properties |
|---|---|---|
| `store` | 2 names, 2 documents, 1 user, 2 writes, 1 write of another device, 1 incident, pipeline of 2, symmetry | `TypeOK`, `LastEventIsShown`, `AckDoesNotFlicker` |
| `store_users` | 1 name, 2 documents, 2 users, 2 writes, 1 elsewhere, 2 incidents, symmetry | `ListIsFresh`, `SettledListIsCloud`, `NoWriteIsLost`, `AnswersMatch`, `WritesKeepTheirOrder` |
| `home_rows` | 2 names, 2 writes, 1 upload | `LastWriteCounts`, `RowsAreAsIntended` |
| `home_picture` | 1 name, 2 amounts, 1 write, 2 writes of other devices, 1 upload | `RowsChangeAsWritten` |
| `home_live` | 1 name, 2 writes, 1 incident, 1 upload, fairness | `HomeTypeOK`, `PicturesExist`, `ScreenSettles` |
| `remote` | 2 users, 2 writes, pipeline of 1, 1 restart or sign-in, 1 break | `RemoteTypeOK`, `AssertionsHold`, `NeededStreamsAreStarted`, `PipelineAgrees`, `StoreSpec` |
| `remote_breaks` | 1 user, 2 writes, pipeline of 2, 2 breaks | `WaitingIsTimed`, `RefusalsCostOneWriteEach`, `RefusedIsNotTaken`, `TwiceOnlyAfterLoss` |
| `remote_live` | 2 writes, pipeline of 1, 1 elsewhere, 1 break, fairness | `StoreConverges`, `ListComesOffline` |
| `auth` | 2 accounts, 2 taps, fairness | `AuthTypeOK`, `NameNeverGoesToEarlierUser`, `NeverSilent`, `NamedAsTyped`, `FailureIsShown`, `EveryTapEnds` |
| `screens` | 1 user, 6 view models, 1 sign-in, 1 incident, fairness | `ScreensTypeOK`, `HomeIsAlive`, `ListenersAreServed`, `EveryModelHears` |
| `config` | 3 templates, 2 fetches, 2 incidents, fairness | `ConfigTypeOK`, `OneFetchAtATime`, `TagsAgree`, `SuccessIsActivated`, `MainComesBack` |
| `config_torn` | 1 template, 2 fetches, 1 incident | `FetchedIsLatest`, which is **violated** |

* `ListIsFresh`: although the view only recomputes names a change mentions, and may
  skip one of them, a live list is the cache plus the pending writes, except for a
  document the view keeps until the watch stream confirms it.
* `SettledListIsCloud`: a live list with nothing pending, whose watch stream has caught up and whose
  events have all arrived, is the cloud's list: neither an answer nor a snapshot that came
  early, late or after a change of user leaves a row behind. A row may differ only while the
  write that an upload changed it for waits for the worker.
* `LastEventIsShown`: list events are neither reordered nor skipped on the way to the
  main thread. Again a row that an upload changed may be ahead of its event, but never
  without its write.
* `AckDoesNotFlicker`: an acknowledgement changes nothing on the screen unless it
  uncovers a newer version that was already in the cache.
* `NoWriteIsLost`: an accepted write is queued, committed or refused.
* `AnswersMatch`: matching answers to the head of the queue is right.
* `WritesKeepTheirOrder`: a repeated send may put an older write on top of a newer one,
  but the newer one then follows, or is still queued, or was refused at its second send.
  The last case is real: a write that is committed, not answered, sent again after an
  older repeated one and refused this time leaves the older value in the cloud.
* `PicturesExist`: no document, in any queue or on the screen, names a picture that is
  not stored.
* `LastWriteCounts`: as long as nobody else writes, the cache, the mutation queue and
  the worker queue together stand for what this device last did to each document, in
  the order of the taps and upload callbacks.
* `RowsAreAsIntended`: in the same circumstances the drawn rows are what this device last did, as soon
  as its own two queues are empty; what the cloud answers after that, in whatever order
  answers and snapshots come, changes none of them.
* `RowsChangeAsWritten`: outside of list events and restarts a list only changes by the
  picture of one row, and that row is then the very document written in the same step. The
  object an upload holds may be as old as the upload: a list event, an edit or a write of
  another device may have replaced it by one with other fields, and a picture put into the
  row of that *name* would show what is not what is written.
* `ScreenSettles`: without taps, refusals or others' writes, the rows become the
  documents as last written.
* `AuthTypeOK` includes `InOnePlace`: a request in progress waits in exactly one place, so
  no callback comes twice, after a restart, or never.
* `NameNeverGoesToEarlierUser`: the name typed in a registration may be given to somebody
  who signed in while its callback waited, and the model has such behaviours (a login
  that overtakes the callback gets the name). It is never given to somebody who was
  signed in before.
* `NeverSilent`: a registration that nothing disturbed never takes the early return that
  leaves the screen as it is, without an alert.
* `NamedAsTyped`: an undisturbed registration that closes its screen has named the account
  typed, even if calls of requests given up earlier still reach the server.
* `FailureIsShown`: an undisturbed request that fails puts up an alert. Disturbed ones may
  not: a login that answers while a registration is under way replaces the view model of
  `RegisterView`.
* `EveryTapEnds`: every tap comes to an end.
* `NeededStreamsAreStarted`: after any order of errors, idle stops, restarts of the network
  and new writes, a stream that has something to do is open or on its way to be.
* `AssertionsHold`: four assertions of the client about its streams and its online state
  tracker. `IdleMeansEmpty` is what makes an idle stop harmless, `TokenIsAwaited` is
  `ResumeStartWithCredentials`'s assertion, `TrackerAgrees` the tracker's about its counter
  and timer, and `FirstListenStartsAll` what `Start` and `HandleWatchStreamStart` assert (not
  started already, no timer running) where it is not their own step that provides for it.
* `PipelineAgrees`: the pipeline is the front of the user's mutation queue
  (`PipelineIsFront`) and the wire holds the pipeline (`WireMatchesPipeline`), so an
  answer may be taken for whatever is in front.
* `RefusedIsNotTaken`, `TwiceOnlyAfterLoss`, `RefusalsCostOneWriteEach`: the client takes an
  error of the stream for a refusal of its front. As long as no answer was lost that is
  right; once one was, a write may be refused on the device and taken by the cloud, and
  the properties say that this is the only way.
* `WaitingIsTimed`, `ListComesOffline`: a list that has heard nothing is filled from the
  device after ten seconds at the latest, unless the cloud is talking.
* `StoreConverges`: with a network that works, the detailed client does what
  `GroceryStore` calls `Converges`: once nothing new happens the list is the collection,
  or empty if the listen was refused.
* `StoreSpec`: every behaviour of the detailed client is one of `GroceryStore`.
* `HomeIsAlive`: the cloud never refuses a view model for being nobody's when it was made
  for a user who is still signed in.
* `ListenersAreServed`: each view model's listener is in exactly one place, none waits
  that could be served, a listener has a target and a stream (`NoListenerIsLost`), and
  the stream is the current user's unless news of another is on its way
  (`StreamIsOfTheUser`).
* `EveryModelHears`: every view model made hears something in the end.
* `OneFetchAtATime`: `isFetchInProgress` is set on one thread and cleared on others, and
  still tells exactly whether a fetch is under way.
* `TagsAgree`: the ETag that goes out with the next request is the fetched
  configuration's, and what the times say was applied is what is active.
* `SuccessIsActivated`: a successful fetch, also one that overlaps another, leaves its
  configuration active.
* `MainComesBack`: reading a value blocks the main thread on the queue, never for good.
* `FetchedIsLatest`: `RCNConfigContent.h` calls the fetched configuration the latest data
  from the server. If the process ends after the ETag was stored and before the
  configuration was, the next fetch succeeds with NO_CHANGE about a configuration
  nobody has, until another one is published.

**Deadlock** is checked in `auth` only. The other models may really stop: with the
bounds used up, nothing pending and nothing on its way there is nothing left to do.

**Bounds.** `MaxWrites`, `MaxElsewhere`, `MaxIncidents`, `MaxUploads`, `MaxRestarts`,
`MaxBreaks`, `MaxTaps`, `MaxModels`, `MaxSignIns`, `MaxTemplates` and `MaxFetches` cap what
would be unbounded. Two writes to one name are what the overlay, the flicker rule and the
pipeline order need to go wrong; two names show that an event about one leaves the
other alone; one foreign commit is enough to put the watch stream ahead of or behind an
acknowledgement; a stream that breaks once sends every write a second time, and a
second incident lets a sign-in, or a restart, fall between. `home_picture` has two amounts, so that
a row may have other fields when the URL comes than when the picker was opened; others change
it twice, as a list may be replaced before or after the picker is opened. Names and documents are only
compared in `GroceryStore`, so permuting them is a symmetry. In `remote` and `remote_live` two
writes fill a pipeline of one and leave one outside, which in `remote` a sign-in or a break may
then drop; in `remote_breaks` both are on the wire, so that
a call may end between their answers, and break again when they are sent once more.
Two taps are what it takes for a request to disturb another, and two accounts for a name
to go to the wrong one or for two profile changes to queue on one user. In `screens` each
launch makes two models; six let a sign-in or an incident happen with a model made before
and after it (`Spent` counts both against the bound). In `config` the third template may
be published between the answers of two overlapping fetches, and two incidents are a restart
and a clock set back, or two restarts.

**Fairness.** Weak fairness of each queue's consumer (a serial dispatch queue runs what
is in it) and of timers; in `GroceryHome` also of the redrawing after a publication (`Render`
while the rows are `outdated`; a row changed in place alone redraws nothing). Of the network only where the property says so:
`ScreenSettles` and `StoreConverges` assume that tokens, handshakes, answers and
snapshots come while nothing breaks (`NetworkFairness`; breaks are bounded, so the
property is about what follows the last one); `ListComesOffline`, `EveryTapEnds` and
`MainComesBack` assume nothing of it (a call that is not answered times out), and
`EveryModelHears` only that a server that is talking answers the listen. Nothing is
assumed of refusals, breaks, sign-ins, other devices or the user.

## What is proved

Every safety property that the passing runs check is a theorem, for every value of the
constants. Of `GroceryStore` and `GroceryHome` that is for every set
of names, documents and users and every value of the bounds; of `RemoteStore`, with its refinement of
`GroceryStore`, for every length of the pipeline and any number of breaks and restarts; of
`AuthFlow` for every set of accounts and number of taps; of `RemoteConfig` for any
number of templates, fetches and ends of the process; of `HomeScreens` for any number of users,
view models, sign-ins and incidents. The only assumptions are `StoreAssumption` (the constants are
of their kinds, `NoDoc` is no document and `OtherDevice` no user), `HomeAssumption` (names are
numbers, for their order on the screen; the placeholders of the form and of the picker are
no values; a document has a description, an amount and the number of a picture), `RemoteAssumption` (that of
`GroceryStore`, and its bounds are numbers), `AuthAssumption` (`MaxTaps` is a number),
`ConfigAssumption` (titles, default and empty name differ; the bounds are numbers), of
which the proofs need nothing, and `ScreensAssumption` (nobody is no user; the bounds are
numbers, and a launch may make its two view models).

| theorem | module | inductive invariant |
|---|---|---|
| `TypeCorrect`, `AnswersMatchAlways` | `GroceryStore_proofs` | `TypeInv` |
| `CacheNeverGoesBackAlways` | `GroceryStore_writes` | `TypeInv` |
| `NoWriteIsLostEver` | `GroceryStore_writes` | `TypeInv /\ NoWriteIsLost` |
| `WritesKeepTheirOrderAlways` | `GroceryStore_writes` | `TypeInv /\ OrderInv` |
| `ListIsFreshAlways`, `AckDoesNotFlickerEver` | `GroceryStore_proofs` | `TypeInv /\ ViewInv` |
| `LastEventIsShownAlways` | `GroceryStore_proofs` | `TypeInv /\ LastEventIsShown` |
| `SettledListIsCloudAlways` | `GroceryStore_proofs` | `TypeInv /\ ViewInv /\ LastEventIsShown` |
| `HomeTypeCorrect`, `PicturesExistAlways`, `PickedForAGroceryAlways`, `RowsChangeAsWrittenAlways` | `GroceryHome_proofs` | `HomeInv` |
| `LastWriteCountsAlways` | `GroceryHome_proofs` | `HomeInv /\ OnceInv /\ ViewInv /\ CountsInv` |
| `RowsAreAsIntendedAlways` | `GroceryHome_proofs` | the same, with `ShownInv` and `LastEventIsShown` |
| `RemoteTypeCorrect`, `AssertionsHoldAlways`, `NeededStreamsAlwaysStarted`, `WaitingIsTimedAlways`, `PipelineAgreesAlways`, `RemoteImplementsStore` | `RemoteStore_proofs` | `RemoteInv` |
| `RefusalsCostOneWriteEachAlways` | `RemoteStore_proofs` | `RemoteInv /\ RefusalsOK` |
| `RefusedIsNotTakenAlways`, `TwiceOnlyAfterLossAlways` | `RemoteStore_proofs` | by the refinement, from `OnceInv` in `GroceryStore_writes` |
| `RemoteLosesNoWrite`, `RemoteListIsRight` | `RemoteStore_proofs` | by the refinement, from the theorems on `GroceryStore` |
| `AuthTypeCorrect`, `NameNeverGoesToEarlierUserEver` | `AuthFlow_proofs` | `AuthInv` |
| `NeverSilentAlways`, `NamedAsTypedEver`, `FailureIsShownEver` | `AuthFlow_proofs` | `AuthInv /\ AloneInv` |
| `ConfigTypeCorrect`, `OneFetchAlways` | `RemoteConfig_proofs` | `ConfigInv` |
| `TagsAgreeAlways` | `RemoteConfig_proofs` | `ConfigInv /\ TagsInv` |
| `SuccessIsActivatedAlways` | `RemoteConfig_proofs` | `ConfigInv /\ TagsInv /\ SuccessInv` |
| `ScreensTypeCorrect`, `HomeIsAliveAlways`, `ListenersAreServedAlways` | `HomeScreens_proofs` | `ScreensInv` |

* `TypeOK` is not inductive alone: an acknowledgement takes the head of the mutation
  queue, so there must be one, and a refused write must be an accepted one. `TypeInv` adds
  `AnswersMatch` (every answer on the way belongs to the pending write at its position)
  and `IdsIssued` (every pending write was accepted).
* `OrderInv` adds to `WritesKeepTheirOrder` that committed writes were accepted
  (`CommittedIssued`), that queues are in the order of acceptance (`Ascending`), that a
  committed write newer than a pending one is itself pending (`NoneSkipped`: this is what
  makes a repeated send harmless), and that since a commit whose answer is on the way the
  cloud only took newer writes of that user (`AnsweredInOrder`: this is why the answered
  head may leave the queue).
* `ViewInv` adds to `ListIsFresh` that a document only changes from one version to another
  by a commit on its name (`LogCoherent`), and that what the cache knows beyond the last
  watch snapshot was a commit on that name (`KnownIsCommit`). With both, a name that a
  watch snapshot does not mention means the same before and after it. `FreshAfterEmit`
  is the argument all recomputing actions share.
* An acknowledged write and its cached document agree because of `AnswersMatch`; that is
  why `AckDoesNotFlicker` holds.
* `HomeInv` is `TypeInv` of `GroceryStore`, which the lemma `HomeImplementsStore` hands up to
  the screen, with `ScreenInv`: the types of the screen, `PickedForAGrocery`, `PickInv` (a
  picker about to call back has a picture left to number) and `ListedInv`, and with
  `PicturesExist`.
  `ListedInv` is about objects: whoever holds a listed grocery, the picker or an
  upload that is not over, holds the fields of that row of the list, and so do the rows drawn
  while no other list was published. It is what `RowsChangeAsWritten` needs: without
  it a picture could be put into a row that is not there, or one whose description and amount are
  not those written. `HomeImplementsStore` needs it for the same step, as `WriteRow` of the
  data path has one document for the row and the write.
  `PicturesExist` speaks of every place a document can be; the argument is that a step
  of the data path makes no document of its own (`DocsOnlyTravel`), so only a tap and the
  arrival of a URL can bring one with a picture, and that URL is a stored object's.
* `SettledListIsCloud` needs no invariant of its own: with nothing pending the view is the cache
  wherever it is not waiting (`ListIsFresh`); the cache is never behind the last snapshot nor
  ahead of the cloud (`TypeOK`), so once the watch stream has caught up it is the cloud's and
  nothing waits; and the view model has the view (`LastEventIsShown`).
* `CountsInv` adds to `LastWriteCounts` what the two streams may still bring to an undisturbed
  device (`StreamsInv`): the answers on the way are those of the newest commits, one by
  one (`AnswersAreNewest`), and of every other commit the cache knows
  (`AnsweredIsKnown`). So a commit that the cache does not know is that of a write still pending
  (`UnknownIsPending`): a watch snapshot brings a document without pending writes nothing
  new, and an answer uncovers nothing but its own write or one after it. `OnceInv`
  and the refinement leave seven actions of the data path that such a device sees
  (`CalmHomeStep`); of these only the worker's acceptance of a write changes the document
  it holds (`CalmView`).
* `ShownInv`: under the same conditions the view is always cache plus pending writes, never an
  older document kept until its confirmation. `ListIsFresh` alone allows that; here the case
  cannot arise, as a row that a change mentions has not changed.
* `RemoteInv` is `TypeInv` and `OrderInv` of `GroceryStore` under the refinement mapping
  (`StoreOK`) with four parts of the remote store's own. `WriteOK` ties stream, call and
  pipeline together: the call fits the pipeline at any moment, and after the handshake is all
  of it (`CallOK`); only an open stream has a call, and one with an empty pipeline has shaken
  hands (`OpenOK`: the idle timer is set on such a stream). The argument that all four
  places that fill the pipeline share is `FillKeeps`: what `GetNextMutationBatch` finds
  after the last write of the pipeline makes it the front of the queue again
  (`FilledIsFront`), because queues are in the order of acceptance; that is where `OrderInv` is
  needed, and an answered write is found first in it for the same reason (`RemoveFirst`).
  `WatchOK` has a tracker that agrees with itself and a waiting list that is timed;
  `TasksOK` that the listen is the first task and the only one of its kind, so that it never finds a stream started before it;
  `CountsOK` that an answer is only lost by a break, which keeps the mapped incidents within
  the abstract bound.
* The two halves need each other: the refinement (`Simulates`) uses that the front of the
  pipeline is the head of the queue, so that an answer read is an `Ack`, a status that
  rejects a `Reject`, and a request taken the `Commit` of the write that `GroceryStore` takes
  next; the pipeline's invariant uses what `GroceryStore`'s step keeps of the queue. So
  `RemoteInvStep` first lets the step simulate, then takes `StoreOK` from the theorems on
  `GroceryStore` and the rest from the step itself.
* `RefusalsOK` counts the rejection that is still due (`Owed`): between a refused request and
  its status another break may come, and the status must not cost a second write.
* `OnceInv` is what `GroceryStore` does until its first incident: the cloud takes the writes
  of this device in ascending order (`TakenAscending`), each of them before what is pending
  beyond the answers on the way (`TakenBeforeUnsent`), refused writes are older than pending ones
  (`RefusedBeforePending`), and nobody signs in (`NobodySignsIn`). The refinement turns the
  absence of incidents into the absence of lost answers.
* `AuthInv` adds to the two properties it implies that the current user is nobody or the
  last who signed in (`CurrentIsLast`), and that a sign-in callback in the main queue
  belongs to a sign-in that has happened (`CallbacksSignedIn`). So whoever the callback
  finds signed in came at the same time or later.
* `AloneInv` is about requests that are in progress and that nothing has disturbed (`Quiet`).
  `QuietInv`: there is only one, its screen still shows its view model, once it is signed in
  its user is the current one, and once its account is created no call of
  another request still on its way can touch that account. That last
  part is what makes `NamedAsTyped` survive a timeout or a restart before it: a call that was
  given up may create or name an account late, but not this one. `AccountsInv` is
  what it rests on: whoever is signed in or is to be named has an account. A step that would
  break `QuietInv` is one that marks the request as disturbed.
* `ConfigInv` says what a task on the queue may rely on. Each task of a fetch finds the
  fetch where the task before it has left it (`Fits`), and no fetch has two (`OneTaskEach`);
  so a fetch that starts is not one that is under way, and `FlagOK`, the flag with the one
  fetch it stands for, survives being cleared off the queue. A read stands behind
  the task that sets the defaults (`ReadsBehindDefaults`), or the name might be empty. Nothing is under
  way before the SDK is made (`IdleInv`), which is also the state after a restart.
* `TagsInv` follows an answer from the server to the disk, as `TagsAgree` alone is lost at the
  first end of the process. Answers come in the order of their templates: none is older than
  the ETag, and each was asked for with the ETag or an older one (`AnswersInv`; here the
  overlap of two fetches is met). What is fetched in memory is what the database queue will
  leave on disk (`EndsAs`), so a restart finds it or was cut short (`FetchedInv`). The same
  holds of the active configuration; an apply time that says the latest template is
  applied (`Claims`), in memory, on disk or on its way, stands behind that configuration
  (`ClaimsInv`); and as the times in the database queue are no later than the one in
  memory (`TimesInv`), an activation is due only if none of them claims anything.
* `SuccessInv` gives `SuccessIsActivated` a past: behind a success with the ETag on disk there is
  the time of an activation, a completion handler in the main queue that will ask for one,
  or one in the SDK's queue (`DueInv`), and an answer is only taken when the tables
  are loaded (`GotInv`). With both queues empty only the time is left, and what it says
  was applied is active by `TagsAgree`.
* `ScreensInv` has five parts besides the types. `PlaceInv`: the worker's listens, the two sets of the
  query and the refused models partition the models, an event on its way never
  comes behind a refusal of the same model. `TargetInv` is the rest of
  `NoListenerIsLost`. `UserInv`: without news of the user in either queue, the stream, the
  answers on their way to open it and the token belong to the current user; only
  `RunCredentials` takes the last news away, and it resets all three. `LoadInv`:
  before the keychain is read nobody was told of, and no token is given. `AliveInv` is the
  argument for `HomeIsAlive`: while the stream is, or will be without
  more news, open as nobody (`AsNobody`), no model that was made for a user has a
  listener there, those on the way come behind news (`Behindhand`), and if the main thread
  knows of a user then the worker is about to. `Raises` and the moves of a
  listener from one place to another are lemmas of their own (`RaisesFacts`,
  `PlaceKept`), as are both queues at each end (`TaskAppended`, `ListensAppended`,
  `TaskTaken`, `TasksOutdated`, `BlockAppended`, `BlockTaken`).

Two theorems state what no run checks, as the proof says more than a small instance
would: `CacheNeverGoesBackAlways` (no document in the cache is replaced by an older version)
and `PickedForAGroceryAlways` (the picker never calls back without a chosen grocery).

Lemmas about the operators: `LastExists`, `LastIsUnique` and `OverlayIsLast` (a name a
queue mentions has exactly one last write, found by a well-foundedness argument on the
distance to the end), `OverlayAppend` (a new write decides its own name and no other) and
`OverlayTail` (removing the head uncovers a document only if no later write is on it).

Only model-checked: liveness (`StoreConverges`, `ListComesOffline`, `ScreenSettles`,
`EveryTapEnds`, `EveryModelHears`, `MainComesBack`), which is beyond the prover under
fairness. `SettledListIsCloud` and `RowsAreAsIntended` are the halves of `StoreConverges` and
`ScreenSettles` that are not about progress: where the list ends up once everything has
arrived is proved, that everything arrives is checked.

## What is not modelled

* limbo resolution, garbage collection, query limits, target data, resume tokens and
  existence filters: the app has one unlimited query, and a watch snapshot stands for the
  whole consistent version of the collection;
* metadata-only events: the app's listener does not ask for them;
* the Realtime Database variant: the line of `GroceryModelImpl` that selects it is
  commented out, so the program is never in one of its states;
* analytics, which only logs;
* the third-party libraries under the SDKs (gRPC, leveldb, BoringSSL, abseil, nanopb, Protobuf,
  SDWebImage, AppAuth): the SDKs are modelled by what they rely on. These libraries are nearly all
  of the repository's 700,000 lines; the app itself is about a thousand, and the parts of
  the vendored SDKs it exercises a few thousand;
* of login and registration: what is typed in the fields (a tap has an account and a
  name) and `getUserName`, which nothing calls;
* other devices are taken to run this app: their documents are well formed and their id
  is the grocery's name.

Some hazards are modelled and have no property, because nothing in the repository
promises otherwise: a write that is still on the way to the worker when the process ends is
lost (`NoWriteIsLost` starts at its acceptance); a refused write, or a refused listen, is told
to nobody (`Reject`, `ListenFails`); a row is deleted by its index in the
list as it is now, not as it was drawn (`RowDeleted`, `MissingRowDeleted`); an upload that
ends late writes its grocery as it was chosen, over a newer edit or a delete; adding or
editing a grocery writes a whole document under the name typed, so an image or an
old name's document may be left behind (`AddGroceryTapped`), and a text that is no document
id ends the app (`AddBadNameTapped`); a picker that calls back late opens its sheet
again (`PhotoPicked`).

## Plan

1. **done**: `GroceryStore`, `GroceryHome`, `AuthFlow`, their runs, the theorems on every
   safety property of `GroceryStore` and on the invariants of `AuthFlow`.
2. **done**: `RemoteStore`, with its refinement of `GroceryStore` checked and proved and
   the theorems on its invariants; `HomeScreens`; `RemoteConfig` and the theorems
   on its types, its flag and its ETag; the theorems of `GroceryHome`.
3. **done**: theorems on `HomeScreens`, on `SuccessIsActivated`, and on `NeverSilent`,
   `NamedAsTyped` and `FailureIsShown`.
4. **done**: the theorem on `LastWriteCounts`, stated without a filter on the worker's queue;
   `SettledListIsCloud` and `RowsAreAsIntended`, checked and proved; what is proved of the
   list carried over to `RemoteStore`.
5. **done**: the grocery of an upload as an object shared with the list, `RowsChangeAsWritten`
   and its theorem; the rows with an upload under way in `home_rows`.
6. Left: `GroceryHome` over `RemoteStore` in one model, so that `LastWriteCounts` and
   `RowsAreAsIntended` could be carried over to the detailed streams as `RemoteListIsRight`
   carries over the properties of the list.
