----------------------------- MODULE GroceryHome -----------------------------
(***************************************************************************)
(* The home screen: ContentView, its GroceryViewModel and the image upload *)
(* of CloudFireStoreFirebaseApiImpl, on top of the data path GroceryStore. *)
(*                                                                         *)
(* Everything here runs on the main thread; a step is a tap, a callback    *)
(* that comes back to the main queue, or the redrawing of the list.  A     *)
(* sheet that is up covers the list.                                       *)
(*                                                                         *)
(* Names are numbers in the order of the document ids, which is the order  *)
(* of the rows.  Amounts typed in the form are the numbers they denote or  *)
(* NotANumber.  The URL of a picture is the number of its upload.          *)
(***************************************************************************)
EXTENDS GroceryStore

CONSTANTS Descriptions,
          Amounts,
          BadName,     \* a text that is no document id, the empty one included
          NotANumber,  \* a text that Int() does not accept
          NoDescription,
          NoGrocery,   \* nil
          MaxUploads   \* bound on the pictures picked

NoImage == 0
Images  == 1..MaxUploads

Fields == [description : Descriptions, amount : Amounts,
           image : Images \cup {NoImage}]

\* A GroceryVO someone holds, but for its picture.  It is shared: `listed' tells
\* whether the object is in the view model's list now.
Groceries == [name : Names, description : Descriptions, amount : Amounts,
              listed : BOOLEAN]

ASSUME HomeAssumption ==
  /\ Names \subseteq Nat
  /\ BadName \notin Names
  /\ Amounts \subseteq Int /\ 0 \in Amounts
  /\ NotANumber \notin Amounts
  /\ NoDescription \in Descriptions
  /\ NoGrocery \notin Groceries
  /\ MaxUploads \in Nat
  /\ Docs = Fields

VARIABLES
  form,             \* groceryName, groceryDescription, groceryAmount
  isPopOverShown,
  isShowImagePicker,
  picking,          \* a photo was tapped and the picker has yet to call back
  chosenGrocery,    \* the grocery the picker was opened for
  uploads,          \* every picture picked since launch, in order
  objects,          \* pictures that are in the storage bucket
  rendered,         \* the rows as they were last drawn
  outdated,         \* another list was published since; the rows drawn hold the
                    \* objects of the one before
  intended          \* history: each document as this device last wrote it

rowVars    == <<rendered, outdated>>
screenVars == <<form, isPopOverShown, isShowImagePicker, picking, chosenGrocery,
                rowVars>>
homeVars == <<form, isPopOverShown, isShowImagePicker, picking, chosenGrocery,
              rowVars, uploads, objects, intended>>
allVars == <<vars, homeVars>>

Forms == [name : Names \cup {BadName}, description : Descriptions,
          amount : Amounts \cup {NotANumber}]

EmptyForm == [name |-> BadName, description |-> NoDescription, amount |-> NotANumber]

Uploads == [of : Groceries, stage : {"put", "url", "done"}]

\* Int(groceryAmount) ?? 0
AmountOf(text) == IF text = NotANumber THEN 0 ELSE text

RowNames(list) == {n \in Names : list[n] # NoDoc}

\* The row of `n' in a list, rows being in the order of the names.
RowOf(list, n) == Cardinality({m \in RowNames(list) : m <= n})

\* The rows can be tapped.
ListInFront == Started /\ ~isPopOverShown /\ ~isShowImagePicker

-----------------------------------------------------------------------------
HomeInit ==
  /\ Init
  /\ form = EmptyForm
  /\ isPopOverShown = FALSE
  /\ isShowImagePicker = FALSE
  /\ picking = FALSE
  /\ chosenGrocery = NoGrocery
  /\ uploads = <<>>
  /\ objects = {}
  /\ rendered = NoRows
  /\ outdated = FALSE
  /\ intended = NoRows

\* A trap or the end of the process; nothing of the screen survives, and an
\* upload in flight has nobody left to tell.
AppEnds ==
  /\ Restart
  /\ form' = EmptyForm
  /\ isPopOverShown' = FALSE
  /\ isShowImagePicker' = FALSE
  /\ picking' = FALSE
  /\ chosenGrocery' = NoGrocery
  /\ uploads' = [i \in DOMAIN uploads |-> [uploads[i] EXCEPT !.stage = "done"]]
  /\ rendered' = NoRows
  /\ outdated' = FALSE
  /\ UNCHANGED <<objects, intended>>

\* A write of a document the main thread asks for.
Write(n, d) ==
  /\ WriteGrocery(n, d)
  /\ intended' = [intended EXCEPT ![n] = d]

-----------------------------------------------------------------------------
(* The form. *)

AddNewTapped ==
  /\ ListInFront
  /\ isPopOverShown' = TRUE
  /\ UNCHANGED <<vars, form, isShowImagePicker, picking, chosenGrocery, uploads,
                 objects, rowVars, intended>>

EditTapped(n) ==
  /\ ListInFront
  /\ rendered[n] # NoDoc
  /\ isPopOverShown' = TRUE
  /\ form' = [name |-> n, description |-> rendered[n].description,
              amount |-> rendered[n].amount]
  /\ UNCHANGED <<vars, isShowImagePicker, picking, chosenGrocery, uploads, objects,
                 rowVars, intended>>

\* One of the three text fields is edited.
Type ==
  /\ isPopOverShown
  /\ \/ \E t \in Names \cup {BadName} : form' = [form EXCEPT !.name = t]
     \/ \E t \in Descriptions : form' = [form EXCEPT !.description = t]
     \/ \E t \in Amounts \cup {NotANumber} : form' = [form EXCEPT !.amount = t]
  /\ UNCHANGED <<vars, isPopOverShown, isShowImagePicker, picking, chosenGrocery,
                 uploads, objects, rowVars, intended>>

\* A new grocery from the form, without an image.  The form keeps its texts.
AddGroceryTapped ==
  /\ isPopOverShown
  /\ form.name # BadName
  /\ Write(form.name, [description |-> form.description,
                       amount |-> AmountOf(form.amount), image |-> NoImage])
  /\ isPopOverShown' = FALSE
  /\ UNCHANGED <<form, isShowImagePicker, picking, chosenGrocery, uploads, objects,
                 rowVars>>

\* document(name) traps on a text that is no document id.
AddBadNameTapped ==
  /\ isPopOverShown
  /\ form.name = BadName
  /\ AppEnds

PopOverDismissed ==
  /\ isPopOverShown
  /\ isPopOverShown' = FALSE
  /\ UNCHANGED <<vars, form, isShowImagePicker, picking, chosenGrocery, uploads,
                 objects, rowVars, intended>>

-----------------------------------------------------------------------------
(* Deleting a row. *)

\* The row index comes from the screen, the grocery from the current list.
RowDeleted(i) ==
  /\ ListInFront
  /\ i \in 1..Cardinality(RowNames(rendered))
  /\ \E n \in RowNames(groceries) : RowOf(groceries, n) = i /\ Write(n, NoDoc)
  /\ UNCHANGED <<screenVars, uploads, objects>>

\* groceries[chosenIndex] traps when the list has become shorter.
MissingRowDeleted ==
  /\ ListInFront
  /\ Cardinality(RowNames(groceries)) < Cardinality(RowNames(rendered))
  /\ AppEnds

\* The list event's closure builds new objects; whoever holds one of the list
\* before keeps it, but it is no row any more.
Unlisted(grocery) == [grocery EXCEPT !.listed = FALSE]

ListPublished ==
  /\ Deliver
  /\ outdated' = TRUE
  /\ chosenGrocery' = IF chosenGrocery = NoGrocery THEN NoGrocery
                                                   ELSE Unlisted(chosenGrocery)
  /\ uploads' = [i \in DOMAIN uploads |-> [uploads[i] EXCEPT !.of = Unlisted(@)]]
  /\ UNCHANGED <<form, isPopOverShown, isShowImagePicker, picking, rendered, objects,
                 intended>>

\* SwiftUI redraws the list some time after it was published.  What else is
\* published redraws it too, and then shows a row that was changed in place.
Render ==
  /\ rendered # groceries \/ outdated
  /\ rendered' = groceries
  /\ outdated' = FALSE
  /\ UNCHANGED <<vars, form, isPopOverShown, isShowImagePicker, picking,
                 chosenGrocery, uploads, objects, intended>>

-----------------------------------------------------------------------------
(* Picking and uploading a picture. *)

\* onGroceryItemChosen, then the picker.
UploadTapped(n) ==
  /\ ListInFront
  /\ rendered[n] # NoDoc
  /\ isShowImagePicker' = TRUE
  /\ chosenGrocery' = [name |-> n, description |-> rendered[n].description,
                       amount |-> rendered[n].amount, listed |-> ~outdated]
  /\ UNCHANGED <<vars, form, isPopOverShown, picking, uploads, objects, rowVars,
                 intended>>

PhotoTapped ==
  /\ isShowImagePicker
  /\ ~picking
  /\ Len(uploads) < MaxUploads
  /\ picking' = TRUE
  /\ UNCHANGED <<vars, form, isPopOverShown, isShowImagePicker, chosenGrocery,
                 uploads, objects, rowVars, intended>>

PickerDismissed ==
  /\ isShowImagePicker
  /\ isShowImagePicker' = FALSE
  /\ UNCHANGED <<vars, form, isPopOverShown, picking, chosenGrocery, uploads,
                 objects, rowVars, intended>>

\* Mutant of PhotoPicked: the picker calls back once more.
PhotoPickedAgain ==
  /\ picking
  /\ uploads' = IF chosenGrocery = NoGrocery THEN uploads
                ELSE Append(uploads, [of |-> chosenGrocery, stage |-> "put"])
  /\ isShowImagePicker' = ~isShowImagePicker
  /\ UNCHANGED <<vars, form, isPopOverShown, picking, chosenGrocery, objects, rowVars,
                 intended>>

\* didFinishPickingMediaWithInfo: the upload starts, if there is an image and
\* a chosen grocery, and the flag is toggled whatever it was.
PhotoPicked ==
  /\ picking
  /\ picking' = FALSE
  /\ \/ /\ chosenGrocery # NoGrocery
        /\ uploads' = Append(uploads, [of |-> chosenGrocery, stage |-> "put"])
     \/ uploads' = uploads
  /\ isShowImagePicker' = ~isShowImagePicker
  /\ UNCHANGED <<vars, form, isPopOverShown, chosenGrocery, objects, rowVars,
                 intended>>

MoveTo(i, stage) == uploads' = [uploads EXCEPT ![i].stage = stage]

\* putData calls back; its error is not looked at, and the URL is asked for
\* whether or not the picture was stored.
PutFinishes(i) ==
  /\ uploads[i].stage = "put"
  /\ MoveTo(i, "url")
  /\ objects' \in {objects, objects \cup {i}}
  /\ UNCHANGED <<vars, screenVars, intended>>

\* Mutant of HasURL: the URL is not looked at either.
AnyURL(i) == TRUE

\* downloadURL only answers with a URL for a picture that is stored.
HasURL(i) == i \in objects

\* What is written for upload `i': the fields of the grocery that was chosen,
\* and the picture.
Pictured(i) == [description |-> uploads[i].of.description,
                amount |-> uploads[i].of.amount, image |-> i]

\* Mutant of DownloadURLArrives: the picture is put into the row of that name.
PictureIntoRowOfThatName(i) ==
  LET n == uploads[i].of.name IN
  /\ uploads[i].stage = "url"
  /\ HasURL(i)
  /\ MoveTo(i, "done")
  /\ EnqueueWrite(n, Pictured(i))
  /\ groceries' = IF groceries[n] = NoDoc THEN groceries
                                          ELSE [groceries EXCEPT ![n].image = i]
  /\ intended' = [intended EXCEPT ![n] = Pictured(i)]
  /\ UNCHANGED <<screenVars, objects>>

\* The picture is put into the grocery that was chosen, which may be a row of the
\* list, and the grocery is written again.  Nothing is published.
DownloadURLArrives(i) ==
  LET n == uploads[i].of.name IN
  /\ uploads[i].stage = "url"
  /\ HasURL(i)
  /\ MoveTo(i, "done")
  /\ EnqueueWrite(n, Pictured(i))
  /\ groceries' = IF uploads[i].of.listed THEN [groceries EXCEPT ![n].image = i]
                                          ELSE groceries
  /\ intended' = [intended EXCEPT ![n] = Pictured(i)]
  /\ UNCHANGED <<screenVars, objects>>

\* No URL, or no answer at all.
DownloadURLMissing(i) ==
  /\ uploads[i].stage = "url"
  /\ MoveTo(i, "done")
  /\ UNCHANGED <<vars, screenVars, objects, intended>>

-----------------------------------------------------------------------------
\* What goes on under the screen.  Pictures other devices name are stored.
Underneath ==
  /\ \/ GetAllGroceries
     \/ \E u \in Users : SignIn(u)
     \/ Sync
     \/ Reject \/ StreamBreaks \/ Offline \/ ListenFails
     \/ \E n \in Names, d \in Values :
          /\ d # NoDoc => d.image \in objects \cup {NoImage}
          /\ OtherDeviceWrites(n, d)
  /\ UNCHANGED homeVars

UploadStep == \E i \in DOMAIN uploads :
  PutFinishes(i) \/ DownloadURLArrives(i) \/ DownloadURLMissing(i)

HomeNext ==
  \/ AddNewTapped \/ Type \/ AddGroceryTapped \/ AddBadNameTapped \/ PopOverDismissed
  \/ \E n \in Names : EditTapped(n) \/ UploadTapped(n)
  \/ \E i \in 1..Cardinality(Names) : RowDeleted(i)
  \/ MissingRowDeleted
  \/ ListPublished \/ Render
  \/ PhotoTapped \/ PickerDismissed \/ PhotoPicked
  \/ UploadStep
  \/ Underneath
  \/ AppEnds

HomeSpec == HomeInit /\ [][HomeNext]_allVars

Quietly(A) == A /\ UNCHANGED homeVars

\* The queues, the streams and the storage tasks run on; nobody has to tap.
HomeFairness ==
  /\ WF_allVars(Quietly(GetAllGroceries))
  /\ WF_allVars(Quietly(RunListen \/ RunWrite \/ RunSignIn))
  /\ WF_allVars(Quietly(Commit))
  /\ WF_allVars(Quietly(Ack))
  /\ WF_allVars(Quietly(\E v \in watched..Len(log) : WatchSnapshot(v)))
  /\ WF_allVars(ListPublished)
  /\ WF_allVars(outdated /\ Render)
  /\ WF_allVars(UploadStep)

HomeFairSpec == HomeSpec /\ HomeFairness

-----------------------------------------------------------------------------
(* Properties. *)

HomeTypeOK ==
  /\ form \in Forms
  /\ isPopOverShown \in BOOLEAN
  /\ isShowImagePicker \in BOOLEAN
  /\ picking \in BOOLEAN
  /\ chosenGrocery \in Groceries \cup {NoGrocery}
  /\ uploads \in Seq(Uploads)
  /\ Len(uploads) <= MaxUploads
  /\ objects \subseteq DOMAIN uploads
  /\ rendered \in Lists
  /\ outdated \in BOOLEAN
  /\ intended \in Lists

HasPicture(d) == d # NoDoc => d.image \in objects \cup {NoImage}

\* A picture a document names is in the storage bucket, wherever the document
\* is: about to be written, queued, committed, on its way to the screen, or
\* on it.  uploadImage asks for the URL without looking at the error of
\* putData, and only its guard on the URL stands between a failed upload and
\* a row with a broken picture.
PicturesExist ==
  /\ \A i \in 1..Len(worker) : worker[i].op = "write" => HasPicture(worker[i].doc)
  /\ \A u \in Users : \A i \in 1..Len(pending[u]) : HasPicture(pending[u][i].doc)
  /\ \A v \in 1..Len(log), n \in Names : HasPicture(log[v].docs[n])
  /\ \A n \in Names : HasPicture(shown[n]) /\ HasPicture(groceries[n])
  /\ \A i \in 1..Len(mainQueue), n \in Names : HasPicture(mainQueue[i].rows[n])
  /\ \A n \in Names : HasPicture(rendered[n])

Undisturbed ==
  /\ incidents = 0
  /\ rejected = {}
  /\ \A v \in 1..Len(log) : log[v].who # OtherDevice

\* Task `i' is the last write of document `n' the worker has yet to accept.
IsLastWaiting(n, i) ==
  /\ worker[i].op = "write"
  /\ worker[i].name = n
  /\ \A j \in (i+1)..Len(worker) : worker[j].op = "write" => worker[j].name # n

\* Taps and upload callbacks write from the main thread, the worker runs
\* behind it, the cloud answers later still and the watch stream later again:
\* as long as nobody else writes, cache, mutation queue and worker queue
\* together stand for what this device last did to each document.
LastWriteCounts ==
  Undisturbed => \A n \in Names :
    \/ \E i \in 1..Len(worker) : IsLastWaiting(n, i) /\ worker[i].doc = intended[n]
    \/ /\ \A i \in 1..Len(worker) : ~IsLastWaiting(n, i)
       /\ LocalView(pending[user], known)[n] = intended[n]

\* The rows need not wait for the cloud: as soon as the worker and the main queue
\* have nothing left to run and the list is drawn, it shows what this device last
\* did, while the answers and the watch stream are as late as they like.
RowsAreAsIntended ==
  ( /\ Undisturbed
    /\ listener = "live"
    /\ worker = <<>>
    /\ mainQueue = <<>>
    /\ rendered = groceries ) => rendered = intended

\* The GroceryVO of a picker or an upload may be a row of the published list, or
\* one of a list that was replaced meanwhile, and uploadImage changes it in
\* place when the URL arrives.  Only list events and restarts replace the list;
\* any other change of it is the picture of one row, and that row is then the
\* very document that is written in the same step: the screen is never given
\* fields of one grocery and the picture of another.
RowsChangeAsWritten ==
  [][ \/ groceries' = groceries
      \/ Deliver
      \/ Restart
      \/ \E n \in Names, i \in Images :
           /\ groceries' = [groceries EXCEPT ![n].image = i]
           /\ worker' = Append(worker, [op |-> "write", name |-> n,
                                        doc |-> groceries'[n]]) ]_allVars

\* The picker never calls back for a grocery that was not chosen: the guard of
\* onImageChosen is never what drops a picture, even when the picker calls
\* back after its sheet was dismissed, or twice in a row.
PickedForAGrocery == isShowImagePicker \/ picking => chosenGrocery # NoGrocery

\* When the taps have stopped and nobody else writes, the rows on the screen
\* are the documents as this device last wrote them.
ScreenSettles ==
  <>[](Undisturbed => IF listener = "dead" THEN rendered = NoRows
                                           ELSE rendered = intended)
=============================================================================
