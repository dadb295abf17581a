-------------------------- MODULE GroceryHome_proofs --------------------------
(***************************************************************************)
(* What GroceryHome guarantees for every set of names, texts and amounts   *)
(* and for every value of its bounds: the types, that a picture put into a *)
(* row comes with the write of that row, that a picture is picked for a    *)
(* chosen grocery, that pictures exist, that the last write to a document  *)
(* counts, and that the rows show it as soon as the device itself has      *)
(* nothing left to do.                                                     *)
(***************************************************************************)
EXTENDS GroceryHome, GroceryStore_writes

-----------------------------------------------------------------------------
(* What the screen does to the data path. *)

\* What the types need: a picker that is about to call back has a picture left.
PickInv == picking => Len(uploads) < MaxUploads

\* A document has the fields of `x' but for its picture.
HasFields(d, x) ==
  d # NoDoc /\ d.description = x.description /\ d.amount = x.amount

IsRow(grocery) == HasFields(groceries[grocery.name], grocery)

\* Whoever holds a grocery that is in the list holds what the row has, whatever
\* picture it was given since.
ListedInv ==
  /\ ~outdated => \A n \in Names :
       rendered[n] # NoDoc => HasFields(groceries[n], rendered[n])
  /\ chosenGrocery # NoGrocery /\ chosenGrocery.listed => IsRow(chosenGrocery)
  /\ \A i \in DOMAIN uploads :
       uploads[i].stage # "done" /\ uploads[i].of.listed => IsRow(uploads[i].of)

ScreenTypes == HomeTypeOK /\ PickInv
ScreenInv   == HomeTypeOK /\ PickInv /\ ListedInv

\* A URL that arrives is a picture's.
LEMMA UploadDoc ==
  ASSUME HomeTypeOK, NEW i \in DOMAIN uploads
  PROVE  /\ uploads[i].of \in Groceries
         /\ uploads[i].of.name \in Names
         /\ i \in Images
         /\ Pictured(i) \in Fields /\ Pictured(i) \in Values /\ Pictured(i) # NoDoc
<1>1. /\ uploads \in Seq(Uploads) /\ Len(uploads) \in Nat
      /\ Len(uploads) <= MaxUploads /\ MaxUploads \in Nat
  BY HomeAssumption DEF HomeTypeOK
<1>2. i \in 1..Len(uploads)
  BY <1>1
<1>3. i \in Images
  BY <1>1, <1>2 DEF Images
<1>4. uploads[i] \in Uploads
  BY <1>1, <1>2
<1>5. uploads[i].of \in Groceries
  BY <1>4 DEF Uploads
<1>6. Pictured(i) \in Fields
  BY <1>3, <1>5 DEF Fields, Groceries, Pictured
<1> QED
  BY <1>3, <1>5, <1>6, HomeAssumption, StoreAssumption DEF Groceries, Values

\* The document a form stands for.
LEMMA FormDoc ==
  ASSUME HomeTypeOK, form.name # BadName
  PROVE  /\ form.name \in Names
         /\ [description |-> form.description, amount |-> AmountOf(form.amount),
             image |-> NoImage] \in Values
<1>1. form \in Forms
  BY DEF HomeTypeOK
<1>2. AmountOf(form.amount) \in Amounts
  BY <1>1, HomeAssumption DEF Forms, AmountOf
<1>3. [description |-> form.description, amount |-> AmountOf(form.amount),
       image |-> NoImage] \in Fields
  BY <1>1, <1>2 DEF Forms, Fields
<1> QED
  BY <1>1, <1>3, HomeAssumption DEF Forms, Values

\* The picture of a listed grocery makes its row the document that is written.
LEMMA PicturedRow ==
  ASSUME TypeOK, HomeTypeOK, NEW i \in DOMAIN uploads, IsRow(uploads[i].of)
  PROVE  LET n == uploads[i].of.name IN
         /\ groceries[n] # NoDoc
         /\ [groceries EXCEPT ![n].image = i] = [groceries EXCEPT ![n] = Pictured(i)]
<1> DEFINE n == uploads[i].of.name
<1>1. n \in Names /\ groceries \in Lists
  BY UploadDoc DEF TypeOK
<1>2. /\ groceries[n] # NoDoc
      /\ groceries[n].description = uploads[i].of.description
      /\ groceries[n].amount = uploads[i].of.amount
  BY DEF IsRow, HasFields
<1> HIDE DEF n
<1>3. groceries[n] \in Fields
  BY <1>1, <1>2, HomeAssumption DEF Lists, Values
<1>4. [groceries[n] EXCEPT !.image = i] = Pictured(i)
  BY <1>2, <1>3 DEF Fields, Pictured
<1>5. [groceries EXCEPT ![n].image = i] = [groceries EXCEPT ![n] = Pictured(i)]
  BY <1>4
<1> QED
  BY <1>2, <1>5 DEF n

\* What an upload writes, and what becomes of the list.
LEMMA UploadWrites ==
  ASSUME TypeOK, HomeTypeOK, ListedInv, NEW i \in DOMAIN uploads, DownloadURLArrives(i)
  PROVE  LET n == uploads[i].of.name IN
         /\ EnqueueWrite(n, Pictured(i))
         /\ intended' = [intended EXCEPT ![n] = Pictured(i)]
         /\ \/ WriteGrocery(n, Pictured(i))
            \/ /\ WriteRow(n, Pictured(i))
               /\ groceries' = [groceries EXCEPT ![n].image = i]
<1> DEFINE n == uploads[i].of.name
<1>1. /\ uploads[i].stage = "url"
      /\ EnqueueWrite(n, Pictured(i))
      /\ groceries' = IF uploads[i].of.listed THEN [groceries EXCEPT ![n].image = i]
                                              ELSE groceries
      /\ intended' = [intended EXCEPT ![n] = Pictured(i)]
  BY DEF DownloadURLArrives
<1>2. CASE uploads[i].of.listed
  <2>1. IsRow(uploads[i].of)
    BY <1>1, <1>2 DEF ListedInv
  <2>2. /\ groceries[n] # NoDoc
        /\ [groceries EXCEPT ![n].image = i] = [groceries EXCEPT ![n] = Pictured(i)]
    BY <2>1, PicturedRow
  <2>3. Pictured(i) # NoDoc
    BY UploadDoc
  <2> HIDE DEF n
  <2>4. WriteRow(n, Pictured(i))
    BY <1>1, <1>2, <2>2, <2>3 DEF WriteRow
  <2> QED
    BY <1>1, <1>2, <2>4 DEF n
<1>3. CASE ~uploads[i].of.listed
  BY <1>1, <1>3 DEF WriteGrocery
<1> QED
  BY <1>2, <1>3

\* A tap, a callback or a redrawing is a step of the data path or leaves it.
LEMMA HomeStep == TypeOK /\ ScreenInv /\ [HomeNext]_allVars => [Next]_vars
<1> SUFFICES ASSUME TypeOK, ScreenInv, [HomeNext]_allVars
             PROVE  [Next]_vars
  OBVIOUS
<1> USE DEF ScreenInv
<1>1. CASE AddNewTapped \/ Type \/ PopOverDismissed \/ Render
  BY <1>1 DEF AddNewTapped, Type, PopOverDismissed, Render
<1>2. CASE AddGroceryTapped
  BY <1>2, FormDoc DEF AddGroceryTapped, Write, Next
<1>3. CASE AddBadNameTapped \/ MissingRowDeleted \/ AppEnds
  BY <1>3 DEF AddBadNameTapped, MissingRowDeleted, AppEnds, Next
<1>4. ASSUME NEW n \in Names, EditTapped(n) \/ UploadTapped(n)
      PROVE  [Next]_vars
  BY <1>4 DEF EditTapped, UploadTapped
<1>5. ASSUME NEW i \in 1..Cardinality(Names), RowDeleted(i)
      PROVE  [Next]_vars
  <2>1. PICK n \in RowNames(groceries) : WriteGrocery(n, NoDoc)
    BY <1>5 DEF RowDeleted, Write
  <2> QED
    BY <2>1 DEF Next, RowNames, Values
<1>6. CASE PhotoTapped \/ PickerDismissed \/ PhotoPicked
  BY <1>6 DEF PhotoTapped, PickerDismissed, PhotoPicked
<1>7. CASE UploadStep
  <2>1. PICK i \in DOMAIN uploads :
          PutFinishes(i) \/ DownloadURLArrives(i) \/ DownloadURLMissing(i)
    BY <1>7 DEF UploadStep
  <2>2. CASE DownloadURLArrives(i)
    <3>1. PICK n, d : n = uploads[i].of.name /\ d = Pictured(i)
      OBVIOUS
    <3>2. n \in Names /\ d \in Values
      BY <3>1, UploadDoc
    <3>3. WriteGrocery(n, d) \/ WriteRow(n, d)
      BY <2>2, <3>1, UploadWrites
    <3> QED
      BY <3>2, <3>3 DEF Next
  <2> QED
    BY <2>1, <2>2 DEF PutFinishes, DownloadURLMissing
<1>8. CASE Underneath \/ ListPublished
  BY <1>8 DEF Underneath, ListPublished, Next
<1>9. CASE UNCHANGED allVars
  BY <1>9 DEF allVars
<1> QED
  BY <1>1, <1>2, <1>3, <1>4, <1>5, <1>6, <1>7, <1>8, <1>9 DEF HomeNext
-----------------------------------------------------------------------------
(* The types of the screen. *)

\* A row that can be tapped is a grocery.
LEMMA RowDoc ==
  ASSUME HomeTypeOK, NEW n \in Names, rendered[n] # NoDoc
  PROVE  rendered[n].description \in Descriptions /\ rendered[n].amount \in Amounts
<1>1. rendered[n] \in Fields
  BY HomeAssumption DEF HomeTypeOK, Lists, Values
<1> QED
  BY <1>1 DEF Fields

\* A write changes what was last intended for one document.
LEMMA IntendedType ==
  ASSUME HomeTypeOK, NEW n \in Names, NEW d \in Values,
         intended' = [intended EXCEPT ![n] = d]
  PROVE  intended' \in Lists
BY DEF HomeTypeOK, Lists

\* A grocery that is no row any more is the same grocery.
LEMMA UnlistedType ==
  ASSUME NEW grocery \in Groceries
  PROVE  Unlisted(grocery) \in Groceries /\ ~Unlisted(grocery).listed
BY DEF Groceries, Unlisted

LEMMA UnlistedUploads ==
  ASSUME HomeTypeOK,
         uploads' = [i \in DOMAIN uploads |-> [uploads[i] EXCEPT !.of = Unlisted(@)]]
  PROVE  /\ uploads' \in Seq(Uploads) /\ Len(uploads') = Len(uploads)
         /\ DOMAIN uploads' = DOMAIN uploads
         /\ \A i \in DOMAIN uploads : ~uploads'[i].of.listed
<1>1. uploads \in [1..Len(uploads) -> Uploads] /\ Len(uploads) \in Nat
  BY DEF HomeTypeOK
<1>2. ASSUME NEW i \in 1..Len(uploads)
      PROVE  /\ [uploads[i] EXCEPT !.of = Unlisted(uploads[i].of)] \in Uploads
             /\ ~[uploads[i] EXCEPT !.of = Unlisted(uploads[i].of)].of.listed
  <2>1. uploads[i] \in Uploads /\ uploads[i].of \in Groceries
    BY <1>1 DEF Uploads
  <2>2. Unlisted(uploads[i].of) \in Groceries /\ ~Unlisted(uploads[i].of).listed
    BY <2>1, UnlistedType
  <2> QED
    BY <2>1, <2>2 DEF Uploads
<1>3. PICK l : l = Len(uploads) /\ l \in Nat
  BY <1>1
<1>4. PICK F : F = [i \in 1..l |-> [uploads[i] EXCEPT !.of = Unlisted(uploads[i].of)]]
  OBVIOUS
<1>5. F \in [1..l -> Uploads] /\ \A i \in 1..l : ~F[i].of.listed
  BY <1>2, <1>3, <1>4
<1>6. uploads' = F /\ DOMAIN uploads = 1..l
  BY <1>1, <1>3, <1>4
<1>7. F \in Seq(Uploads) /\ Len(F) = l
  BY <1>3, <1>5
<1> QED
  BY <1>3, <1>5, <1>6, <1>7

\* An upload moves on.
LEMMA MoveToType ==
  ASSUME HomeTypeOK, NEW i \in DOMAIN uploads, NEW stage \in {"put", "url", "done"},
         MoveTo(i, stage)
  PROVE  uploads' \in Seq(Uploads) /\ Len(uploads') = Len(uploads)
<1>1. uploads \in Seq(Uploads)
  BY DEF HomeTypeOK
<1>2. /\ uploads' = [uploads EXCEPT ![i].stage = stage]
      /\ i \in 1..Len(uploads)
  BY <1>1 DEF MoveTo
<1>3. [uploads[i] EXCEPT !.stage = stage] \in Uploads
  <2>1. uploads[i] \in Uploads
    BY <1>1, <1>2
  <2> QED
    BY <2>1 DEF Uploads
<1>4. uploads' = [uploads EXCEPT ![i] = [uploads[i] EXCEPT !.stage = stage]]
  BY <1>2
<1> QED
  BY <1>1, <1>2, <1>3, <1>4, ExceptSeq

LEMMA ScreenTypesInit == HomeInit => ScreenTypes
<1> SUFFICES ASSUME HomeInit
             PROVE  ScreenTypes
  OBVIOUS
<1>1. form \in Forms
  BY HomeAssumption DEF HomeInit, EmptyForm, Forms
<1>2. NoRows \in Lists
  BY DEF NoRows, Lists, Values
<1>3. uploads \in Seq(Uploads) /\ Len(uploads) = 0 /\ MaxUploads \in Nat
  BY HomeAssumption DEF HomeInit
<1>4. isPopOverShown \in BOOLEAN /\ isShowImagePicker \in BOOLEAN /\ picking \in BOOLEAN
  BY DEF HomeInit
<1>5. HomeTypeOK
  <2>1. /\ form = EmptyForm /\ chosenGrocery = NoGrocery /\ uploads = <<>> /\ objects = {}
        /\ rendered = NoRows /\ outdated \in BOOLEAN /\ intended = NoRows
    BY DEF HomeInit
  <2> QED
    BY <1>1, <1>2, <1>3, <1>4, <2>1 DEF HomeTypeOK
<1> QED
  BY <1>5 DEF ScreenTypes, PickInv, HomeInit

LEMMA AppEndsKeepsScreenTypes ==
  ASSUME ScreenTypes, AppEnds
  PROVE  ScreenTypes'
<1>1. form' \in Forms
  BY HomeAssumption DEF AppEnds, EmptyForm, Forms
<1>2. rendered' \in Lists
  BY DEF AppEnds, NoRows, Lists, Values
<1>3. uploads \in Seq(Uploads) /\ uploads \in [1..Len(uploads) -> Uploads] /\ Len(uploads) \in Nat
  BY DEF ScreenTypes, HomeTypeOK
<1>4. \A i \in 1..Len(uploads) : [uploads[i] EXCEPT !.stage = "done"] \in Uploads
  BY <1>3 DEF Uploads
<1>5. uploads' = [i \in 1..Len(uploads) |-> [uploads[i] EXCEPT !.stage = "done"]]
  BY <1>3 DEF AppEnds
<1>6. uploads' \in Seq(Uploads) /\ Len(uploads') = Len(uploads)
  BY <1>3, <1>4, <1>5
<1> QED
  BY <1>1, <1>2, <1>3, <1>5, <1>6 DEF AppEnds, ScreenTypes, PickInv, HomeTypeOK

\* Every step of the screen keeps its types.
LEMMA ScreenTypesStep == TypeOK /\ ScreenTypes /\ [HomeNext]_allVars => ScreenTypes'
<1> SUFFICES ASSUME TypeOK, ScreenTypes, [HomeNext]_allVars
             PROVE  ScreenTypes'
  OBVIOUS
<1> USE DEF ScreenTypes
<1>1. CASE AddNewTapped \/ PopOverDismissed
  <2>1. isPopOverShown' \in BOOLEAN /\ isShowImagePicker' \in BOOLEAN /\ picking' \in BOOLEAN
    BY <1>1, Zenon DEF AddNewTapped, PopOverDismissed, HomeTypeOK
  <2>2. UNCHANGED <<form, picking, chosenGrocery, uploads, objects, rowVars,
                 intended>>
    BY <1>1 DEF AddNewTapped, PopOverDismissed
  <2> QED
    BY <2>1, <2>2 DEF HomeTypeOK, PickInv, rowVars
<1>2. CASE Type
  BY <1>2 DEF Type, HomeTypeOK, PickInv, rowVars, Forms
<1>3. CASE AddGroceryTapped
  <2>1. intended' \in Lists
    BY <1>3, FormDoc, IntendedType DEF AddGroceryTapped, Write
  <2> QED
    BY <1>3, <2>1 DEF AddGroceryTapped, HomeTypeOK, PickInv, rowVars
<1>4. CASE AddBadNameTapped \/ MissingRowDeleted \/ AppEnds
  BY <1>4, AppEndsKeepsScreenTypes DEF AddBadNameTapped, MissingRowDeleted
<1>5. ASSUME NEW n \in Names, EditTapped(n)
      PROVE  ScreenTypes'
  BY <1>5, RowDoc DEF EditTapped, HomeTypeOK, PickInv, rowVars, Forms
<1>6. ASSUME NEW n \in Names, UploadTapped(n)
      PROVE  ScreenTypes'
  BY <1>6, RowDoc DEF UploadTapped, HomeTypeOK, PickInv, rowVars, Groceries
<1>7. ASSUME NEW i \in 1..Cardinality(Names), RowDeleted(i)
      PROVE  ScreenTypes'
  <2>1. PICK n \in Names : Write(n, NoDoc)
    BY <1>7 DEF RowDeleted, RowNames
  <2>2. intended' \in Lists
    BY <2>1, IntendedType DEF Values, Write
  <2> QED
    BY <1>7, <2>2 DEF RowDeleted, screenVars, HomeTypeOK, PickInv, rowVars
<1>8. CASE Render
  BY <1>8, Zenon DEF Render, TypeOK, HomeTypeOK, PickInv, rowVars
<1>9. CASE PhotoTapped \/ PickerDismissed
  <2>1. isPopOverShown' \in BOOLEAN /\ isShowImagePicker' \in BOOLEAN /\ picking' \in BOOLEAN
    BY <1>9, Zenon DEF PhotoTapped, PickerDismissed, HomeTypeOK
  <2>2. UNCHANGED <<form, chosenGrocery, uploads, objects, rowVars,
                 intended>>
    BY <1>9 DEF PhotoTapped, PickerDismissed
  <2>3. PickInv'
    BY <1>9, <2>2 DEF PhotoTapped, PickerDismissed, PickInv
  <2> QED
    BY <2>1, <2>2, <2>3 DEF HomeTypeOK, rowVars
<1>10. CASE PhotoPicked
  <2>1. uploads \in Seq(Uploads) /\ Len(uploads) \in Nat /\ MaxUploads \in Nat
        /\ Len(uploads) < MaxUploads
    BY <1>10, HomeAssumption DEF PhotoPicked, HomeTypeOK, PickInv, rowVars
  <2>2. CASE uploads' = uploads
    BY <1>10, <2>2 DEF PhotoPicked, HomeTypeOK, PickInv, rowVars
  <2>3. CASE chosenGrocery # NoGrocery
             /\ uploads' = Append(uploads, [of |-> chosenGrocery, stage |-> "put"])
    <3>1. [of |-> chosenGrocery, stage |-> "put"] \in Uploads
      BY <2>3 DEF HomeTypeOK, Uploads
    <3>2. /\ uploads' \in Seq(Uploads) /\ Len(uploads') = Len(uploads) + 1
          /\ objects \subseteq 1..Len(uploads')
      <4>1. objects \subseteq 1..Len(uploads)
        BY <2>1 DEF HomeTypeOK
      <4> QED
        BY <2>1, <2>3, <3>1, <4>1, AppendProperties
    <3>3. Len(uploads') <= MaxUploads
      BY <2>1, <3>2
    <3>4. isPopOverShown' \in BOOLEAN /\ isShowImagePicker' \in BOOLEAN /\ picking' \in BOOLEAN
      BY <1>10, Zenon DEF PhotoPicked, HomeTypeOK
    <3>5. ~picking' /\ UNCHANGED <<form, chosenGrocery, objects, rowVars, intended>>
      BY <1>10 DEF PhotoPicked
    <3>6. objects' \subseteq DOMAIN uploads'
      BY <3>2, <3>5
    <3> QED
      BY <3>2, <3>3, <3>4, <3>5, <3>6 DEF HomeTypeOK, PickInv, rowVars
  <2> QED
    BY <1>10, <2>2, <2>3 DEF PhotoPicked
<1>11. CASE UploadStep
  <2>1. PICK i \in DOMAIN uploads :
          PutFinishes(i) \/ DownloadURLArrives(i) \/ DownloadURLMissing(i)
    BY <1>11 DEF UploadStep
  <2>2. /\ uploads' \in Seq(Uploads) /\ Len(uploads') = Len(uploads)
        /\ DOMAIN uploads' = DOMAIN uploads
    <3>1. \/ MoveTo(i, "url") \/ MoveTo(i, "done")
      BY <2>1 DEF PutFinishes, DownloadURLArrives, DownloadURLMissing
    <3>2. uploads' \in Seq(Uploads) /\ Len(uploads') = Len(uploads)
      BY <3>1, MoveToType
    <3> QED
      BY <3>2 DEF HomeTypeOK
  <2>3. objects' \subseteq DOMAIN uploads
    BY <2>1 DEF PutFinishes, DownloadURLArrives, DownloadURLMissing, HomeTypeOK
  <2>4. intended' \in Lists
    <3>1. CASE DownloadURLArrives(i)
      BY <3>1, UploadDoc, IntendedType DEF DownloadURLArrives
    <3> QED
      BY <2>1, <3>1 DEF PutFinishes, DownloadURLMissing, HomeTypeOK
  <2>5. UNCHANGED screenVars
    BY <2>1 DEF PutFinishes, DownloadURLArrives, DownloadURLMissing
  <2> QED
    BY <2>2, <2>3, <2>4, <2>5 DEF screenVars, HomeTypeOK, PickInv, rowVars
<1>12. CASE Underneath \/ UNCHANGED allVars
  BY <1>12 DEF Underneath, allVars, homeVars, HomeTypeOK, PickInv, rowVars
<1>13. CASE ListPublished
  <2>1. /\ uploads' \in Seq(Uploads) /\ Len(uploads') = Len(uploads)
        /\ DOMAIN uploads' = DOMAIN uploads
    BY <1>13, UnlistedUploads DEF ListPublished
  <2>2. chosenGrocery' \in Groceries \cup {NoGrocery}
    BY <1>13, UnlistedType DEF ListPublished, HomeTypeOK
  <2>3. outdated' \in BOOLEAN
    BY <1>13 DEF ListPublished
  <2>4. UNCHANGED <<form, isPopOverShown, isShowImagePicker, picking, rendered, objects,
                    intended>>
    BY <1>13 DEF ListPublished
  <2> QED
    BY <2>1, <2>2, <2>3, <2>4 DEF HomeTypeOK, PickInv
<1> QED
  BY <1>1, <1>2, <1>3, <1>4, <1>5, <1>6, <1>7, <1>8, <1>9, <1>10, <1>11, <1>12, <1>13
     DEF HomeNext

-----------------------------------------------------------------------------
(* Who holds a row. *)

LEMMA ListedInit == HomeInit => ListedInv
<1> SUFFICES ASSUME HomeInit
             PROVE  ListedInv
  OBVIOUS
<1>1. chosenGrocery = NoGrocery /\ uploads = <<>> /\ rendered = NoRows
  BY DEF HomeInit
<1> QED
  BY <1>1 DEF ListedInv, NoRows

\* A step that leaves the list, the rows and whoever holds one of them alone.
LEMMA SameListed ==
  ASSUME ListedInv, UNCHANGED <<groceries, rendered, outdated, chosenGrocery, uploads>>
  PROVE  ListedInv'
BY DEF ListedInv, IsRow, HasFields

\* An upload that moves on holds what it held.
LEMMA MovedHolds ==
  ASSUME HomeTypeOK, NEW i \in DOMAIN uploads, NEW stage, MoveTo(i, stage),
         NEW j \in DOMAIN uploads'
  PROVE  /\ j \in DOMAIN uploads
         /\ uploads'[j].of = uploads[j].of
         /\ uploads'[j].stage = IF j = i THEN stage ELSE uploads[j].stage
<1>1. uploads' = [uploads EXCEPT ![i].stage = stage]
  BY DEF MoveTo
<1>2. j \in DOMAIN uploads
  BY <1>1
<1>3. uploads[j] \in Uploads
  BY <1>2 DEF HomeTypeOK
<1> QED
  BY <1>1, <1>2, <1>3 DEF Uploads

\* The picture that is put into a row leaves its other fields.
LEMMA RowsKeepFields ==
  ASSUME TypeOK, HomeTypeOK, ListedInv, NEW i \in DOMAIN uploads, DownloadURLArrives(i)
  PROVE  \A n \in Names : \A x : HasFields(groceries[n], x) => HasFields(groceries'[n], x)
<1> DEFINE m == uploads[i].of.name
<1>1. m \in Names /\ groceries \in Lists /\ Pictured(i) # NoDoc
  BY UploadDoc DEF TypeOK
<1>2. \/ groceries' = groceries
      \/ /\ IsRow(uploads[i].of)
         /\ groceries' = [groceries EXCEPT ![m].image = i]
  BY DEF DownloadURLArrives, ListedInv
<1>3. CASE groceries' = groceries
  BY <1>3
<1>4. CASE IsRow(uploads[i].of) /\ groceries' = [groceries EXCEPT ![m].image = i]
  <2>1. groceries' = [groceries EXCEPT ![m] = Pictured(i)]
    BY <1>4, PicturedRow
  <2>2. /\ Pictured(i).description = groceries[m].description
        /\ Pictured(i).amount = groceries[m].amount
    BY <1>4 DEF Pictured, IsRow, HasFields
  <2> HIDE DEF m
  <2>3. \A n \in Names : groceries'[n] = IF n = m THEN Pictured(i) ELSE groceries[n]
    BY <1>1, <2>1 DEF Lists
  <2> QED
    BY <1>1, <2>2, <2>3 DEF HasFields
<1> QED
  BY <1>2, <1>3, <1>4

LEMMA UploadKeepsListed ==
  ASSUME TypeOK, HomeTypeOK, ListedInv, UploadStep
  PROVE  ListedInv'
<1>1. PICK i \in DOMAIN uploads :
        PutFinishes(i) \/ DownloadURLArrives(i) \/ DownloadURLMissing(i)
  BY DEF UploadStep
<1>2. UNCHANGED <<rendered, outdated, chosenGrocery>>
  BY <1>1 DEF PutFinishes, DownloadURLArrives, DownloadURLMissing, screenVars, rowVars
<1>3. \A n \in Names : \A x : HasFields(groceries[n], x) => HasFields(groceries'[n], x)
  <2>1. CASE DownloadURLArrives(i)
    BY <2>1, RowsKeepFields
  <2>2. CASE PutFinishes(i) \/ DownloadURLMissing(i)
    BY <2>2 DEF PutFinishes, DownloadURLMissing, vars
  <2> QED
    BY <1>1, <2>1, <2>2
<1>4. ~outdated' => \A n \in Names :
         rendered'[n] # NoDoc => HasFields(groceries'[n], rendered'[n])
  BY <1>2, <1>3 DEF ListedInv
<1>5. chosenGrocery' # NoGrocery /\ chosenGrocery'.listed
        => HasFields(groceries'[chosenGrocery'.name], chosenGrocery')
  <2>1. chosenGrocery # NoGrocery => chosenGrocery.name \in Names
    BY DEF HomeTypeOK, Groceries
  <2> QED
    BY <1>2, <1>3, <2>1 DEF ListedInv, IsRow
<1>6. ASSUME NEW j \in DOMAIN uploads', uploads'[j].stage # "done", uploads'[j].of.listed
      PROVE  HasFields(groceries'[uploads'[j].of.name], uploads'[j].of)
  <2>1. \E stage \in {"url", "done"} : MoveTo(i, stage) /\ uploads[i].stage # "done"
    BY <1>1 DEF PutFinishes, DownloadURLArrives, DownloadURLMissing
  <2>2. /\ j \in DOMAIN uploads /\ uploads'[j].of = uploads[j].of
        /\ uploads[j].stage # "done"
    BY <1>6, <2>1, MovedHolds
  <2>3. HasFields(groceries[uploads[j].of.name], uploads[j].of)
    BY <1>6, <2>2 DEF ListedInv, IsRow
  <2>4. uploads[j].of.name \in Names
    BY <2>2, UploadDoc
  <2> QED
    BY <1>3, <2>2, <2>3, <2>4
<1> QED
  BY <1>4, <1>5, <1>6 DEF ListedInv, IsRow, HasFields

\* Every step keeps the rows and whoever holds one of them together.
LEMMA ListedStep == TypeOK /\ ScreenInv /\ [HomeNext]_allVars => ListedInv'
<1> SUFFICES ASSUME TypeOK, HomeTypeOK, ListedInv, [HomeNext]_allVars
             PROVE  ListedInv'
  BY DEF ScreenInv
<1> DEFINE Same == UNCHANGED <<groceries, rendered, outdated, chosenGrocery, uploads>>
<1> USE DEF rowVars
<1>1. CASE AddNewTapped \/ Type \/ PopOverDismissed \/ PhotoTapped \/ PickerDismissed
  <2>1. Same
    BY <1>1 DEF AddNewTapped, Type, PopOverDismissed, PhotoTapped, PickerDismissed, vars
  <2> QED
    BY <2>1, SameListed
<1>2. CASE AddGroceryTapped
  <2>1. Same
    BY <1>2 DEF AddGroceryTapped, Write, WriteGrocery
  <2> QED
    BY <2>1, SameListed
<1>3. CASE AddBadNameTapped \/ MissingRowDeleted \/ AppEnds
  <2>1. AppEnds
    BY <1>3 DEF AddBadNameTapped, MissingRowDeleted
  <2>2. /\ rendered' = NoRows /\ chosenGrocery' = NoGrocery
        /\ uploads' = [i \in DOMAIN uploads |-> [uploads[i] EXCEPT !.stage = "done"]]
    BY <2>1 DEF AppEnds
  <2>3. ASSUME NEW i \in DOMAIN uploads'
        PROVE  uploads'[i].stage = "done"
    <3>1. i \in DOMAIN uploads /\ uploads[i] \in Uploads
      BY <2>2 DEF HomeTypeOK
    <3> QED
      BY <2>2, <3>1 DEF Uploads
  <2> QED
    BY <2>2, <2>3 DEF ListedInv, NoRows
<1>4. ASSUME NEW n \in Names, EditTapped(n)
      PROVE  ListedInv'
  <2>1. Same
    BY <1>4 DEF EditTapped, vars
  <2> QED
    BY <2>1, SameListed
<1>5. ASSUME NEW n \in Names, UploadTapped(n)
      PROVE  ListedInv'
  <2>1. UNCHANGED <<groceries, rendered, outdated, uploads>> /\ rendered[n] # NoDoc
    BY <1>5 DEF UploadTapped, vars
  <2>2. /\ chosenGrocery'.name = n /\ chosenGrocery'.listed = ~outdated
        /\ chosenGrocery'.description = rendered[n].description
        /\ chosenGrocery'.amount = rendered[n].amount
    BY <1>5 DEF UploadTapped
  <2>3. ~outdated => HasFields(groceries[n], rendered[n])
    BY <2>1 DEF ListedInv
  <2>4. chosenGrocery'.listed => HasFields(groceries'[chosenGrocery'.name], chosenGrocery')
    BY <2>1, <2>2, <2>3 DEF HasFields
  <2> QED
    BY <2>1, <2>4 DEF ListedInv, IsRow, HasFields
<1>6. ASSUME NEW i \in 1..Cardinality(Names), RowDeleted(i)
      PROVE  ListedInv'
  <2>1. Same
    BY <1>6 DEF RowDeleted, Write, WriteGrocery, screenVars
  <2> QED
    BY <2>1, SameListed
<1>7. CASE ListPublished
  <2>1. /\ outdated' /\ DOMAIN uploads' = DOMAIN uploads
        /\ \A i \in DOMAIN uploads : ~uploads'[i].of.listed
    BY <1>7, UnlistedUploads DEF ListPublished
  <2>2. chosenGrocery' # NoGrocery => ~chosenGrocery'.listed
    BY <1>7, UnlistedType DEF ListPublished, HomeTypeOK
  <2> QED
    BY <2>1, <2>2 DEF ListedInv
<1>8. CASE Render
  <2>1. rendered' = groceries' /\ UNCHANGED <<groceries, chosenGrocery, uploads>>
    BY <1>8 DEF Render, vars
  <2> QED
    BY <2>1 DEF ListedInv, IsRow, HasFields
<1>9. CASE PhotoPicked
  <2>1. UNCHANGED <<groceries, rendered, outdated, chosenGrocery>>
    BY <1>9 DEF PhotoPicked, vars
  <2>2. CASE uploads' = uploads
    BY <2>1, <2>2, SameListed
  <2>3. CASE chosenGrocery # NoGrocery
             /\ uploads' = Append(uploads, [of |-> chosenGrocery, stage |-> "put"])
    <3>1. /\ uploads \in Seq(Uploads) /\ Len(uploads) \in Nat
          /\ [of |-> chosenGrocery, stage |-> "put"] \in Uploads
      BY <2>3 DEF HomeTypeOK, Uploads
    <3>2. /\ Len(uploads') = Len(uploads) + 1 /\ uploads' \in Seq(Uploads)
          /\ \A i \in 1..Len(uploads) : uploads'[i] = uploads[i]
          /\ uploads'[Len(uploads) + 1] = [of |-> chosenGrocery, stage |-> "put"]
      BY <2>3, <3>1, AppendProperties
    <3>3. ASSUME NEW i \in DOMAIN uploads', uploads'[i].stage # "done", uploads'[i].of.listed
          PROVE  HasFields(groceries[uploads'[i].of.name], uploads'[i].of)
      <4>1. CASE i \in 1..Len(uploads)
        BY <3>1, <3>2, <3>3, <4>1 DEF ListedInv, IsRow
      <4>2. CASE i = Len(uploads) + 1
        BY <2>3, <3>2, <3>3, <4>2 DEF ListedInv, IsRow
      <4> QED
        BY <3>1, <3>2, <4>1, <4>2
    <3> QED
      BY <2>1, <3>3 DEF ListedInv, IsRow, HasFields
  <2> QED
    BY <1>9, <2>2, <2>3 DEF PhotoPicked
<1>10. CASE UploadStep
  BY <1>10, UploadKeepsListed
<1>11. CASE Underneath
  <2>1. UNCHANGED <<rendered, outdated, chosenGrocery, uploads>>
    BY <1>11 DEF Underneath, homeVars
  <2>2. groceries' = groceries
    BY <1>11 DEF Underneath, GetAllGroceries, SignIn, Sync, RunListen, RunWrite, RunSignIn,
       Commit, Ack, WatchSnapshot, Reject, StreamBreaks, Offline, ListenFails,
       OtherDeviceWrites
  <2> QED
    BY <2>1, <2>2, SameListed
<1>12. CASE UNCHANGED allVars
  <2>1. Same
    BY <1>12 DEF allVars, vars, homeVars
  <2> QED
    BY <2>1, SameListed
<1> QED
  BY <1>1, <1>2, <1>3, <1>4, <1>5, <1>6, <1>7, <1>8, <1>9, <1>10, <1>11, <1>12 DEF HomeNext

LEMMA ScreenInvInit == HomeInit => ScreenInv
BY ScreenTypesInit, ListedInit DEF ScreenTypes, ScreenInv

LEMMA ScreenInvStep == TypeOK /\ ScreenInv /\ [HomeNext]_allVars => ScreenInv'
BY ScreenTypesStep, ListedStep DEF ScreenTypes, ScreenInv

-----------------------------------------------------------------------------
(* The picker. *)

\* The picker is only open for a grocery.
LEMMA PickedStep ==
  ScreenInv /\ PickedForAGrocery /\ [HomeNext]_allVars => PickedForAGrocery'
<1> SUFFICES ASSUME ScreenInv, PickedForAGrocery, [HomeNext]_allVars
             PROVE  PickedForAGrocery'
  OBVIOUS
<1> USE DEF PickedForAGrocery
<1>1. CASE AddNewTapped \/ Type \/ AddGroceryTapped \/ PopOverDismissed \/ Render
  BY <1>1 DEF AddNewTapped, Type, AddGroceryTapped, PopOverDismissed, Render
<1>2. CASE AddBadNameTapped \/ MissingRowDeleted \/ AppEnds
  BY <1>2 DEF AddBadNameTapped, MissingRowDeleted, AppEnds
<1>9. CASE ListPublished
  <2>1. chosenGrocery # NoGrocery => chosenGrocery' # NoGrocery
    BY <1>9, UnlistedType, HomeAssumption DEF ListPublished, ScreenInv, HomeTypeOK
  <2> QED
    BY <1>9, <2>1 DEF ListPublished
<1>3. ASSUME NEW n \in Names, EditTapped(n)
      PROVE  PickedForAGrocery'
  BY <1>3 DEF EditTapped
<1>4. ASSUME NEW n \in Names, UploadTapped(n)
      PROVE  PickedForAGrocery'
  <2>1. chosenGrocery' \in Groceries
    BY <1>4, RowDoc DEF UploadTapped, ScreenInv, Groceries
  <2> QED
    BY <2>1, HomeAssumption
<1>5. ASSUME NEW i \in 1..Cardinality(Names), RowDeleted(i)
      PROVE  PickedForAGrocery'
  BY <1>5 DEF RowDeleted, screenVars
<1>6. CASE PhotoTapped \/ PickerDismissed \/ PhotoPicked
  BY <1>6 DEF PhotoTapped, PickerDismissed, PhotoPicked
<1>7. CASE UploadStep
  BY <1>7 DEF UploadStep, PutFinishes, DownloadURLArrives, DownloadURLMissing, screenVars
<1>8. CASE Underneath \/ UNCHANGED allVars
  BY <1>8 DEF Underneath, allVars, homeVars
<1> QED
  BY <1>1, <1>2, <1>3, <1>4, <1>5, <1>6, <1>7, <1>8, <1>9 DEF HomeNext
-----------------------------------------------------------------------------
(* Documents only travel: from a write to the worker, the mutation queue, the *)
(* cloud, the cache and the view to the list, and none is made on the way.    *)

QueueIn(q, P)  == \A i \in 1..Len(q) : q[i].doc \in P
ListIn(l, P)   == \A n \in Names : l[n] \in P
LogIn(l, P)    == \A v \in 1..Len(l) : ListIn(l[v].docs, P)
EventsIn(e, P) == \A i \in 1..Len(e) : ListIn(e[i].rows, P)
TasksIn(w, P)  == \A i \in 1..Len(w) : w[i].op = "write" => w[i].doc \in P

\* Every document anywhere is one of P.
DocsIn(P) ==
  /\ TasksIn(worker, P)
  /\ \A u \in Users : QueueIn(pending[u], P)
  /\ LogIn(log, P)
  /\ ListIn(shown, P) /\ ListIn(groceries, P)
  /\ EventsIn(mainQueue, P)

LEMMA CloudIn ==
  ASSUME TypeOK, NEW P, NoDoc \in P, LogIn(log, P),
         NEW v \in 0..Len(log), NEW n \in Names
  PROVE  DocAt(v, n) \in P
BY DEF DocAt, LogIn, ListIn, TypeOK

LEMMA LocalViewIn ==
  ASSUME TypeOK, NEW P, NoDoc \in P, LogIn(log, P),
         NEW q \in Seq(Writes), QueueIn(q, P), NEW kn \in [Names -> 0..Len(log)]
  PROVE  ListIn(LocalView(q, kn), P)
<1> SUFFICES ASSUME NEW n \in Names
             PROVE  Overlay(q, n, DocAt(kn[n], n)) \in P
  BY DEF ListIn, LocalView
<1>1. CASE n \in Keys(q)
  <2>1. PICK i \in 1..Len(q) : IsLastOn(q, n, i)
    BY <1>1, LastExists
  <2>2. Overlay(q, n, DocAt(kn[n], n)) = q[i].doc
    BY <2>1, OverlayIsLast
  <2> QED
    BY <2>2 DEF QueueIn
<1>2. CASE n \notin Keys(q)
  <2>1. DocAt(kn[n], n) \in P
    BY CloudIn
  <2> QED
    BY <1>2, <2>1 DEF Overlay
<1> QED
  BY <1>1, <1>2

\* One more event.
LEMMA EventIn ==
  ASSUME NEW e \in Seq(Events), NEW P, EventsIn(e, P), NEW x \in Events, ListIn(x.rows, P)
  PROVE  EventsIn(Append(e, x), P)
<1>1. /\ Len(e) \in Nat /\ Len(Append(e, x)) = Len(e) + 1
      /\ \A i \in 1..Len(e) : Append(e, x)[i] = e[i]
      /\ Append(e, x)[Len(e) + 1] = x
  BY AppendProperties
<1> QED
  BY <1>1 DEF EventsIn

\* What is recomputed comes from the queue, the cache or the view.
LEMMA EmitIn ==
  ASSUME TypeOK, NEW P, NoDoc \in P, DocsIn(P),
         NEW changed, NEW q \in Seq(Writes), QueueIn(q, P),
         NEW kn \in [Names -> 0..Len(log)], NEW w, NEW synced,
         Emit(changed, q, kn, w, synced)
  PROVE  ListIn(shown', P) /\ EventsIn(mainQueue', P)
<1>1. CASE listener \in {"none", "dead"}
  BY <1>1 DEF Emit, viewVars, DocsIn
<1>2. CASE listener \notin {"none", "dead"}
  <2> DEFINE replaced == Replaced(changed, q, kn, w)
             rows == [n \in Names |-> IF n \in replaced THEN LocalView(q, kn)[n]
                                                      ELSE shown[n]]
             raise == Raises(rows, synced)
  <2>1. /\ shown' = rows
        /\ mainQueue' = IF raise THEN Append(mainQueue, Snapshot(rows)) ELSE mainQueue
    BY <1>2 DEF Emit
  <2>2. ListIn(LocalView(q, kn), P) /\ LocalView(q, kn) \in Lists
    BY LocalViewIn, LocalViewType DEF DocsIn, TypeOK
  <2>3. rows \in Lists
    BY <2>2 DEF Lists, TypeOK
  <2>4. ListIn(rows, P)
    BY <2>2 DEF ListIn, DocsIn
  <2> HIDE DEF rows, replaced, raise
  <2>5. Snapshot(rows) \in Events /\ ListIn(Snapshot(rows).rows, P)
    BY <2>3, <2>4 DEF Snapshot, Events
  <2>6. EventsIn(mainQueue', P)
    BY <2>1, <2>5, EventIn DEF DocsIn, TypeOK
  <2> QED
    BY <2>1, <2>4, <2>6
<1> QED
  BY <1>1, <1>2

\* The rest of a sequence of tasks, writes or events.
LEMMA TailIn ==
  ASSUME NEW S, NEW q \in Seq(S), q # <<>>, NEW P
  PROVE  /\ QueueIn(q, P) => QueueIn(Tail(q), P)
         /\ TasksIn(q, P) => TasksIn(Tail(q), P)
         /\ EventsIn(q, P) => EventsIn(Tail(q), P) /\ ListIn(Head(q).rows, P)
<1>1. /\ Len(q) \in Nat \ {0} /\ Len(Tail(q)) = Len(q) - 1
      /\ \A i \in 1..Len(Tail(q)) : Tail(q)[i] = q[i+1]
      /\ Head(q) = q[1]
  BY HeadTailProperties, EmptySeq, LenProperties
<1>2. \A i \in 1..Len(Tail(q)) : i + 1 \in 1..Len(q)
  BY <1>1
<1> QED
  BY <1>1, <1>2 DEF QueueIn, TasksIn, EventsIn

\* The task the main thread adds.
LEMMA TaskIn ==
  ASSUME TypeOK, NEW P, TasksIn(worker, P), NEW task, Enqueue(task),
         task.op = "write" => task.doc \in P
  PROVE  TasksIn(worker', P)
<1>1. /\ Len(worker) \in Nat /\ Len(worker') = Len(worker) + 1
      /\ \A i \in 1..Len(worker) : worker'[i] = worker[i]
      /\ worker'[Len(worker) + 1] = task
  <2>1. worker \in Seq(Tasks) /\ worker' = Append(worker, task)
    BY DEF TypeOK, Enqueue
  <2> QED
    BY <2>1
<1>2. ASSUME NEW i \in 1..Len(worker'), worker'[i].op = "write"
      PROVE  worker'[i].doc \in P
  <2>1. CASE i = Len(worker) + 1
    BY <1>1, <1>2, <2>1
  <2>2. CASE i # Len(worker) + 1
    <3>1. i \in 1..Len(worker) /\ worker'[i] = worker[i]
      BY <1>1, <2>2
    <3> QED
      BY <1>2, <3>1 DEF TasksIn
  <2> QED
    BY <2>1, <2>2
<1> QED
  BY <1>2 DEF TasksIn

\* A commit of a document.
LEMMA CommitIn ==
  ASSUME TypeOK, NEW P, NoDoc \in P, LogIn(log, P), NEW n, NEW d \in P, NEW who, NEW id,
         log' = Append(log, [who |-> who, id |-> id, name |-> n,
                             docs |-> [Cloud EXCEPT ![n] = d]])
  PROVE  LogIn(log', P)
<1> DEFINE docs == [Cloud EXCEPT ![n] = d]
           c == [who |-> who, id |-> id, name |-> n, docs |-> docs]
<1>1. \A m \in Names : DocAt(Len(log), m) \in P
  <2>1. Len(log) \in 0..Len(log)
    BY DEF TypeOK
  <2> QED
    BY <2>1, CloudIn
<1>2. ListIn(docs, P)
  BY <1>1 DEF ListIn, Cloud
<1> HIDE DEF docs
<1>3. c.docs = docs
  OBVIOUS
<1>4. log \in Seq(Commits) /\ log' = Append(log, c)
  BY DEF TypeOK, docs
<1> HIDE DEF c
<1>5. /\ Len(log) \in Nat /\ Len(log') = Len(log) + 1
      /\ \A v \in 1..Len(log) : log'[v] = log[v]
      /\ log'[Len(log) + 1] = c
  BY <1>4
<1>6. ASSUME NEW v \in 1..Len(log')
      PROVE  ListIn(log'[v].docs, P)
  <2>1. CASE v = Len(log) + 1
    BY <1>2, <1>3, <1>5, <2>1
  <2>2. CASE v # Len(log) + 1
    <3>1. v \in 1..Len(log) /\ log'[v] = log[v]
      BY <1>5, <2>2
    <3>2. ListIn(log[v].docs, P)
      BY <3>1 DEF LogIn
    <3> QED
      BY <3>1, <3>2
  <2> QED
    BY <2>1, <2>2
<1> QED
  BY <1>6 DEF LogIn
LEMMA NoRowsIn ==
  ASSUME NEW P, NoDoc \in P
  PROVE  ListIn(NoRows, P) /\ Failure \in Events /\ ListIn(Failure.rows, P)
BY DEF ListIn, NoRows, Failure, Events, Lists, Values

\* The mutation queue of whoever is signed in, and the cache.
LEMMA UserTypes ==
  ASSUME TypeOK
  PROVE  /\ user \in Users /\ pending[user] \in Seq(Writes)
         /\ known \in [Names -> 0..Len(log)]
BY DEF TypeOK

LEMMA CallKeepsDocs ==
  ASSUME TypeInv, NEW P, DocsIn(P), NEW task, Enqueue(task),
         task.op = "write" => task.doc \in P,
         ListIn(groceries', P),
         UNCHANGED <<log, diskVars, viewVars>>
  PROVE  DocsIn(P)'
<1>1. TasksIn(worker', P)
  BY TaskIn DEF TypeInv, DocsIn
<1> QED
  BY <1>1 DEF DocsIn, diskVars, viewVars

\* The queue of the signed-in user becomes `q', and something is recomputed.
LEMMA QueueStepKeepsDocs ==
  ASSUME TypeInv, NEW P, NoDoc \in P, DocsIn(P),
         NEW q \in Seq(Writes), QueueIn(q, P), NEW kn \in [Names -> 0..Len(log)],
         NEW changed, NEW w, NEW synced,
         Emit(changed, q, kn, w, synced),
         TasksIn(worker', P),
         pending' = [pending EXCEPT ![user] = q] \/ pending' = pending,
         UNCHANGED <<log, groceries>>
  PROVE  DocsIn(P)'
<1>1. ListIn(shown', P) /\ EventsIn(mainQueue', P)
  BY EmitIn DEF TypeInv
<1>2. \A u \in Users : QueueIn(pending'[u], P)
  BY DEF DocsIn, TypeInv, TypeOK
<1>3. LogIn(log, P) /\ ListIn(groceries, P)
  BY DEF DocsIn
<1> QED
  BY <1>1, <1>2, <1>3 DEF DocsIn

LEMMA RunListenKeepsDocs ==
  ASSUME TypeInv, NEW P, NoDoc \in P, DocsIn(P), RunListen
  PROVE  DocsIn(P)'
<1> DEFINE rows == LocalView(pending[user], known)
<1>1. rows \in Lists /\ ListIn(rows, P)
  BY LocalViewIn, LocalViewType, UserTypes DEF DocsIn, TypeInv, TypeOK
<1>2. shown' = rows
      /\ mainQueue' = IF rows # NoRows THEN Append(mainQueue, Snapshot(rows)) ELSE mainQueue
  BY DEF RunListen
<1> HIDE DEF rows
<1>3. Snapshot(rows) \in Events /\ ListIn(Snapshot(rows).rows, P)
  BY <1>1 DEF Snapshot, Events
<1>4. EventsIn(mainQueue', P)
  BY <1>2, <1>3, EventIn DEF DocsIn, TypeInv, TypeOK
<1>5. TasksIn(worker', P)
  BY TailIn DEF RunListen, NextTask, DocsIn, TypeInv, TypeOK
<1> QED
  BY <1>1, <1>2, <1>4, <1>5 DEF RunListen, DocsIn, diskVars

LEMMA RunWriteKeepsDocs ==
  ASSUME TypeInv, NEW P, NoDoc \in P, DocsIn(P), RunWrite
  PROVE  DocsIn(P)'
<1> DEFINE m == [id |-> issued + 1, name |-> Head(worker).name, doc |-> Head(worker).doc]
           q == Append(pending[user], m)
<1>1. /\ pending' = [pending EXCEPT ![user] = q]
      /\ Emit({Head(worker).name}, q, known, watched, FALSE)
      /\ UNCHANGED <<log, groceries>>
  BY DEF RunWrite
<1>2. /\ worker \in Seq(Tasks) /\ worker # <<>> /\ worker' = Tail(worker)
      /\ Head(worker) \in Tasks /\ Head(worker).op = "write"
  BY TaskType DEF TypeInv, TypeOK, RunWrite, NextTask
<1>3. m \in Writes
  BY <1>2 DEF Tasks, Writes, TypeInv, TypeOK
<1>4. Head(worker).doc \in P
  <2>1. 1 \in 1..Len(worker) /\ Head(worker) = worker[1]
    BY <1>2, HeadTailProperties, EmptySeq, LenProperties
  <2> QED
    BY <1>2, <2>1 DEF DocsIn, TasksIn
<1>5. pending[user] \in Seq(Writes) /\ QueueIn(pending[user], P)
  BY UserTypes DEF TypeInv, DocsIn
<1>6. m.doc = Head(worker).doc
  OBVIOUS
<1> HIDE DEF m
<1>7. q \in Seq(Writes) /\ QueueIn(q, P)
  <2>1. /\ q \in Seq(Writes) /\ Len(q) = Len(pending[user]) + 1
        /\ Len(pending[user]) \in Nat
        /\ \A i \in 1..Len(pending[user]) : q[i] = pending[user][i]
        /\ q[Len(pending[user]) + 1] = m
    BY <1>3, <1>5, AppendProperties
  <2> HIDE DEF q
  <2> QED
    BY <2>1, <1>4, <1>5, <1>6 DEF QueueIn
<1>8. TasksIn(worker', P)
  BY <1>2, TailIn DEF DocsIn
<1> HIDE DEF q
<1> QED
  BY <1>1, <1>7, <1>8, UserTypes, QueueStepKeepsDocs DEF TypeInv

LEMMA RunSignInKeepsDocs ==
  ASSUME TypeInv, NEW P, NoDoc \in P, DocsIn(P), RunSignIn
  PROVE  DocsIn(P)'
<1>1. Head(worker) \in Tasks /\ Head(worker).op = "signIn"
  BY TaskType DEF TypeInv, RunSignIn
<1>2. user' \in Users
  BY <1>1 DEF Tasks, RunSignIn
<1>3. pending[user'] \in Seq(Writes) /\ QueueIn(pending[user'], P)
  BY <1>2 DEF TypeInv, TypeOK, DocsIn
<1>4. PICK changed : Emit(changed, pending[user'], known, watched, FALSE)
  BY DEF RunSignIn
<1>5. TasksIn(worker', P)
  BY TailIn DEF RunSignIn, NextTask, DocsIn, TypeInv, TypeOK
<1>6. UNCHANGED <<log, pending, groceries>>
  BY DEF RunSignIn, diskVars
<1>7. PICK q \in Seq(Writes) : q = pending[user'] /\ QueueIn(q, P)
  BY <1>3
<1>8. Emit(changed, q, known, watched, FALSE)
  BY <1>4, <1>7
<1> QED
  BY <1>5, <1>6, <1>7, <1>8, UserTypes, QueueStepKeepsDocs DEF TypeInv

LEMMA AckKeepsDocs ==
  ASSUME TypeInv, NEW P, NoDoc \in P, DocsIn(P), Ack
  PROVE  DocsIn(P)'
<1> DEFINE q == Tail(pending[user])
           n == Head(pending[user]).name
           kn == [known EXCEPT ![n] = Newer(@, Head(commits))]
<1>1. /\ pending' = [pending EXCEPT ![user] = q]
      /\ Emit({n}, q, kn, watched, FALSE)
      /\ UNCHANGED <<log, worker, groceries>>
  BY DEF Ack
<1>2. /\ commits \in Seq(1..Len(log)) /\ commits # <<>>
      /\ pending[user] \in Seq(Writes) /\ known \in [Names -> 0..Len(log)]
  BY UserTypes DEF TypeInv, TypeOK, Ack
<1>3. pending[user] # <<>>
  <2>1. 1 \in 1..Len(commits)
    BY <1>2, EmptySeq, LenProperties
  <2>2. 1 <= Len(pending[user])
    BY <2>1 DEF TypeInv, AnswersMatch
  <2> QED
    BY <2>2, <1>2
<1>4. q \in Seq(Writes) /\ QueueIn(q, P)
  BY <1>2, <1>3, UserTypes, TailIn, HeadTailProperties DEF TypeInv, DocsIn
<1>5. kn \in [Names -> 0..Len(log)]
  <2>1. Head(commits) \in 0..Len(log)
    <3>1. Head(commits) \in 1..Len(log)
      BY <1>2, HeadTailProperties
    <3> QED
      BY <3>1
  <2>2. n \in Names => Newer(known[n], Head(commits)) \in 0..Len(log)
    BY <1>2, <2>1 DEF Newer
  <2> HIDE DEF n
  <2> QED
    BY <1>2, <2>2
<1>6. TasksIn(worker', P)
  BY <1>1 DEF DocsIn
<1> HIDE DEF q, n, kn
<1> QED
  BY <1>1, <1>4, <1>5, <1>6, QueueStepKeepsDocs

LEMMA RejectKeepsDocs ==
  ASSUME TypeInv, NEW P, NoDoc \in P, DocsIn(P), Reject
  PROVE  DocsIn(P)'
<1> DEFINE q == Tail(pending[user])
           head == Head(pending[user])
<1>1. /\ pending' = [pending EXCEPT ![user] = q]
      /\ Emit({head.name}, q, known, watched, FALSE)
      /\ UNCHANGED <<log, worker, groceries>>
  BY DEF Reject
<1>2. q \in Seq(Writes) /\ QueueIn(q, P)
  BY UserTypes, TailIn, HeadTailProperties DEF Reject, TypeInv, DocsIn
<1>3. TasksIn(worker', P)
  BY <1>1 DEF DocsIn
<1> HIDE DEF q, head
<1> QED
  BY <1>1, <1>2, <1>3, UserTypes, QueueStepKeepsDocs DEF TypeInv

LEMMA WatchSnapshotKeepsDocs ==
  ASSUME TypeInv, NEW P, NoDoc \in P, DocsIn(P),
         NEW v \in watched..Len(log), WatchSnapshot(v)
  PROVE  DocsIn(P)'
<1> DEFINE kn == [n \in Names |-> Newer(known[n], v)]
<1>1. /\ Emit(Updates(v), pending[user], kn, v, TRUE)
      /\ UNCHANGED <<log, pending, worker, groceries>>
  BY DEF WatchSnapshot
<1>2. known \in [Names -> 0..Len(log)] /\ v \in 0..Len(log)
  BY UserTypes DEF TypeInv, TypeOK
<1>3. kn \in [Names -> 0..Len(log)]
  BY <1>2 DEF Newer
<1>4. TasksIn(worker', P) /\ QueueIn(pending[user], P)
  BY <1>1, UserTypes DEF DocsIn, TypeInv
<1> HIDE DEF kn
<1> QED
  BY <1>1, <1>3, <1>4, UserTypes, QueueStepKeepsDocs DEF TypeInv

LEMMA CommitKeepsDocs ==
  ASSUME TypeInv, NEW P, NoDoc \in P, DocsIn(P), Commit
  PROVE  DocsIn(P)'
<1> DEFINE m == NextToSend(pending[user])
<1>1. /\ Len(commits) \in Nat /\ Len(pending[user]) \in Nat
      /\ Len(commits) + 1 \in 1..Len(pending[user])
  BY UserTypes DEF Commit, TypeInv, TypeOK
<1>2. m.doc \in P
  BY <1>1, UserTypes DEF NextToSend, DocsIn, QueueIn, TypeInv
<1>3. log' = Append(log, [who |-> user, id |-> m.id, name |-> m.name,
                          docs |-> [Cloud EXCEPT ![m.name] = m.doc]])
  BY DEF Commit
<1> HIDE DEF m
<1>4. LogIn(log', P)
  BY <1>2, <1>3, CommitIn DEF TypeInv, DocsIn
<1> QED
  BY <1>4 DEF Commit, DocsIn, diskVars, viewVars

LEMMA OtherDeviceKeepsDocs ==
  ASSUME TypeInv, NEW P, NoDoc \in P, DocsIn(P),
         NEW n \in Names, NEW d \in P, OtherDeviceWrites(n, d)
  PROVE  DocsIn(P)'
<1>1. LogIn(log', P)
  BY CommitIn DEF OtherDeviceWrites, TypeInv, DocsIn
<1> QED
  BY <1>1 DEF OtherDeviceWrites, DocsIn, diskVars, viewVars

LEMMA EventsKeepDocs ==
  ASSUME TypeInv, NEW P, NoDoc \in P, DocsIn(P),
         Deliver \/ Offline \/ StreamBreaks \/ ListenFails \/ Restart
  PROVE  DocsIn(P)'
<1>1. mainQueue \in Seq(Events) /\ shown \in Lists
  BY DEF TypeInv, TypeOK
<1>2. ASSUME GivesUp
      PROVE  ListIn(shown', P) /\ EventsIn(mainQueue', P)
  <2>1. Snapshot(shown) \in Events /\ ListIn(Snapshot(shown).rows, P)
    BY <1>1 DEF Snapshot, Events, DocsIn
  <2> QED
    BY <1>1, <1>2, <2>1, EventIn DEF GivesUp, DocsIn
<1>3. CASE Deliver
  <2>1. EventsIn(mainQueue', P) /\ ListIn(Head(mainQueue).rows, P)
    BY <1>1, <1>3, TailIn DEF Deliver, DocsIn
  <2>2. ListIn(groceries', P)
    BY <1>3, <2>1, NoRowsIn DEF Deliver
  <2> QED
    BY <1>3, <2>1, <2>2 DEF Deliver, DocsIn, diskVars
<1>4. CASE Offline
  BY <1>2, <1>4 DEF Offline, DocsIn, diskVars
<1>5. CASE StreamBreaks
  <2>1. ListIn(shown', P) /\ EventsIn(mainQueue', P)
    BY <1>2, <1>5 DEF StreamBreaks, DocsIn, viewVars
  <2> QED
    BY <1>5, <2>1 DEF StreamBreaks, DocsIn, diskVars
<1>6. CASE ListenFails
  <2>1. ListIn(shown', P) /\ EventsIn(mainQueue', P)
    BY <1>1, <1>6, EventIn, NoRowsIn DEF ListenFails, DocsIn
  <2> QED
    BY <1>6, <2>1 DEF ListenFails, DocsIn, diskVars
<1>7. CASE Restart
  BY <1>7, NoRowsIn DEF Restart, DocsIn, diskVars, TasksIn, EventsIn
<1> QED
  BY <1>3, <1>4, <1>5, <1>6, <1>7
\* No step of the data path makes a document of its own: those of the app and
\* of other devices are all there are.
LEMMA DocsOnlyTravel ==
  ASSUME TypeInv, NEW P, NoDoc \in P, DocsIn(P),
         \/ GetAllGroceries
         \/ \E n \in Names, d \in P : WriteGrocery(n, d) \/ WriteRow(n, d)
         \/ \E u \in Users : SignIn(u)
         \/ Sync \/ Deliver \/ Reject \/ StreamBreaks \/ Offline \/ ListenFails \/ Restart
         \/ \E n \in Names, d \in P : OtherDeviceWrites(n, d)
         \/ UNCHANGED vars
  PROVE  DocsIn(P)'
<1> ListIn(groceries, P)
  BY DEF DocsIn
<1>1. CASE GetAllGroceries
  BY <1>1, CallKeepsDocs DEF GetAllGroceries, OnlyEnqueues
<1>2. ASSUME NEW n \in Names, NEW d \in P, WriteGrocery(n, d) \/ WriteRow(n, d)
      PROVE  DocsIn(P)'
  <2>1. PICK task : task = [op |-> "write", name |-> n, doc |-> d]
    OBVIOUS
  <2>2. Enqueue(task) /\ UNCHANGED <<log, diskVars, viewVars>>
    BY <1>2, <2>1 DEF WriteGrocery, WriteRow, EnqueueWrite, OnlyEnqueues
  <2>3. ListIn(groceries', P)
    <3>1. groceries' = groceries \/ groceries' = [groceries EXCEPT ![n] = d]
      BY <1>2 DEF WriteGrocery, WriteRow
    <3>2. groceries \in Lists
      BY DEF TypeInv, TypeOK
    <3> QED
      BY <3>1, <3>2 DEF ListIn, Lists
  <2> QED
    BY <2>1, <2>2, <2>3, CallKeepsDocs
<1>3. ASSUME NEW u \in Users, SignIn(u)
      PROVE  DocsIn(P)'
  BY <1>3, CallKeepsDocs DEF SignIn
<1>4. CASE Sync
  <2>1. CASE RunListen \/ RunWrite \/ RunSignIn
    BY <2>1, RunListenKeepsDocs, RunWriteKeepsDocs, RunSignInKeepsDocs
  <2>2. CASE Commit \/ Ack
    BY <2>2, CommitKeepsDocs, AckKeepsDocs
  <2>3. ASSUME NEW v \in watched..Len(log), WatchSnapshot(v)
        PROVE  DocsIn(P)'
    BY <2>3, WatchSnapshotKeepsDocs
  <2> QED
    BY <1>4, <2>1, <2>2, <2>3 DEF Sync
<1>5. CASE Deliver \/ Reject \/ StreamBreaks \/ Offline \/ ListenFails \/ Restart
  BY <1>5, RejectKeepsDocs, EventsKeepDocs
<1>6. ASSUME NEW n \in Names, NEW d \in P, OtherDeviceWrites(n, d)
      PROVE  DocsIn(P)'
  BY <1>6, OtherDeviceKeepsDocs
<1>7. CASE UNCHANGED vars
  BY <1>7 DEF vars, DocsIn
<1> QED
  BY <1>1, <1>2, <1>3, <1>4, <1>5, <1>6, <1>7

-----------------------------------------------------------------------------
(* Pictures. *)

\* The documents whose picture is one of S.
PicturedIn(S) == {d \in Values : d # NoDoc => d.image \in S \cup {NoImage}}

\* In terms of the documents that are anywhere, PicturesExist is that all of
\* them are PicturedIn(objects).
LEMMA PicturesAreDocs ==
  ASSUME TypeOK, HomeTypeOK, PicturesExist
  PROVE  DocsIn(PicturedIn(objects)) /\ ListIn(rendered, PicturedIn(objects))
<1> DEFINE P == PicturedIn(objects)
<1>1. \A d \in Values : HasPicture(d) => d \in P
  BY DEF PicturedIn, HasPicture
<1> HIDE DEF P
<1>2. TasksIn(worker, P)
  <2> SUFFICES ASSUME NEW i \in 1..Len(worker), worker[i].op = "write"
               PROVE  worker[i].doc \in P
    BY DEF TasksIn
  <2>1. worker[i] \in Tasks
    BY DEF TypeOK
  <2>2. worker[i].doc \in Values
    BY <2>1 DEF Tasks
  <2> QED
    BY <1>1, <2>2 DEF PicturesExist
<1>3. ASSUME NEW u \in Users
      PROVE  QueueIn(pending[u], P)
  <2> SUFFICES ASSUME NEW i \in 1..Len(pending[u])
               PROVE  pending[u][i].doc \in P
    BY DEF QueueIn
  <2>1. pending[u] \in Seq(Writes)
    BY DEF TypeOK
  <2>2. pending[u][i] \in Writes
    BY <2>1
  <2> QED
    BY <1>1, <2>2 DEF PicturesExist, Writes
<1>4. LogIn(log, P)
  <2> SUFFICES ASSUME NEW v \in 1..Len(log), NEW n \in Names
               PROVE  log[v].docs[n] \in P
    BY DEF LogIn, ListIn
  <2>1. log[v] \in Commits
    BY DEF TypeOK
  <2> QED
    BY <1>1, <2>1 DEF PicturesExist, Commits, Lists
<1>5. ListIn(shown, P) /\ ListIn(groceries, P)
  BY <1>1 DEF ListIn, PicturesExist, TypeOK, Lists
<1>6. EventsIn(mainQueue, P)
  <2> SUFFICES ASSUME NEW i \in 1..Len(mainQueue), NEW n \in Names
               PROVE  mainQueue[i].rows[n] \in P
    BY DEF EventsIn, ListIn
  <2>1. mainQueue[i] \in Events
    BY DEF TypeOK
  <2> QED
    BY <1>1, <2>1 DEF PicturesExist, Events, Lists
<1>7. ListIn(rendered, P)
  BY <1>1 DEF ListIn, PicturesExist, HomeTypeOK, Lists
<1> QED
  BY <1>2, <1>3, <1>4, <1>5, <1>6, <1>7 DEF DocsIn, P

\* More pictures do not take one away.
LEMMA PicturedGrows ==
  ASSUME NEW P, NEW Q, P \subseteq Q, DocsIn(P)
  PROVE  DocsIn(Q)
<1>1. TasksIn(worker, Q)
  BY DEF DocsIn, TasksIn
<1>2. ASSUME NEW u \in Users
      PROVE  QueueIn(pending[u], Q)
  BY DEF DocsIn, QueueIn
<1>3. LogIn(log, Q)
  BY DEF DocsIn, LogIn, ListIn
<1>4. ListIn(shown, Q) /\ ListIn(groceries, Q)
  BY DEF DocsIn, ListIn
<1>5. EventsIn(mainQueue, Q)
  BY DEF DocsIn, EventsIn, ListIn
<1> QED
  BY <1>1, <1>2, <1>3, <1>4, <1>5 DEF DocsIn

\* Every write of the screen and of other devices names a picture that exists.
LEMMA WritesArePictured ==
  ASSUME TypeOK, ScreenInv, [HomeNext]_allVars
  PROVE  /\ objects \subseteq objects'
         /\ \/ GetAllGroceries
            \/ \E n \in Names, d \in PicturedIn(objects') :
                 WriteGrocery(n, d) \/ WriteRow(n, d)
            \/ \E u \in Users : SignIn(u)
            \/ Sync \/ Deliver \/ Reject \/ StreamBreaks \/ Offline \/ ListenFails \/ Restart
            \/ \E n \in Names, d \in PicturedIn(objects') : OtherDeviceWrites(n, d)
            \/ UNCHANGED vars
<1> USE DEF ScreenInv
<1>1. CASE AddNewTapped \/ Type \/ PopOverDismissed \/ Render
  BY <1>1 DEF AddNewTapped, Type, PopOverDismissed, Render
<1>2. CASE AddGroceryTapped
  <2> DEFINE d == [description |-> form.description, amount |-> AmountOf(form.amount),
                   image |-> NoImage]
  <2>1. form.name \in Names /\ d \in Values
    BY <1>2, FormDoc DEF AddGroceryTapped
  <2>2. d \in PicturedIn(objects')
    BY <2>1 DEF PicturedIn
  <2>3. WriteGrocery(form.name, d) /\ objects' = objects
    BY <1>2 DEF AddGroceryTapped, Write
  <2> QED
    BY <2>1, <2>2, <2>3
<1>3. CASE AddBadNameTapped \/ MissingRowDeleted \/ AppEnds
  BY <1>3 DEF AddBadNameTapped, MissingRowDeleted, AppEnds
<1>4. ASSUME NEW n \in Names, EditTapped(n) \/ UploadTapped(n)
      PROVE  UNCHANGED <<vars, objects>>
  BY <1>4 DEF EditTapped, UploadTapped
<1>5. ASSUME NEW i \in 1..Cardinality(Names), RowDeleted(i)
      PROVE  /\ objects' = objects
             /\ \E n \in Names, d \in PicturedIn(objects') : WriteGrocery(n, d)
  <2>1. PICK n \in Names : WriteGrocery(n, NoDoc)
    BY <1>5 DEF RowDeleted, Write, RowNames
  <2>2. NoDoc \in PicturedIn(objects')
    BY DEF PicturedIn, Values
  <2> QED
    BY <1>5, <2>1, <2>2 DEF RowDeleted
<1>6. CASE PhotoTapped \/ PickerDismissed \/ PhotoPicked
  BY <1>6 DEF PhotoTapped, PickerDismissed, PhotoPicked
<1>7. CASE UploadStep
  <2>1. PICK i \in DOMAIN uploads :
          PutFinishes(i) \/ DownloadURLArrives(i) \/ DownloadURLMissing(i)
    BY <1>7 DEF UploadStep
  <2>2. CASE DownloadURLArrives(i)
    <3>1. PICK n, d : n = uploads[i].of.name /\ d = Pictured(i)
      OBVIOUS
    <3>2. n \in Names /\ d \in Values /\ d.image = i
      BY <3>1, UploadDoc DEF Pictured
    <3>3. WriteGrocery(n, d) \/ WriteRow(n, d)
      BY <2>2, <3>1, UploadWrites
    <3>4. objects' = objects /\ i \in objects
      BY <2>2 DEF DownloadURLArrives, HasURL
    <3>5. d \in PicturedIn(objects')
      BY <3>2, <3>4 DEF PicturedIn
    <3> QED
      BY <3>2, <3>3, <3>4, <3>5
  <2> QED
    BY <2>1, <2>2 DEF PutFinishes, DownloadURLMissing
<1>8. CASE Underneath
  <2>1. objects' = objects
    BY <1>8 DEF Underneath, homeVars
  <2>2. ASSUME NEW n \in Names, NEW d \in Values,
               d # NoDoc => d.image \in objects \cup {NoImage}
        PROVE  d \in PicturedIn(objects')
    BY <2>1, <2>2 DEF PicturedIn
  <2> QED
    BY <1>8, <2>1, <2>2 DEF Underneath
<1>9. CASE ListPublished
  BY <1>9 DEF ListPublished
<1>10. CASE UNCHANGED allVars
  BY <1>10 DEF allVars, homeVars
<1> QED
  BY <1>1, <1>2, <1>3, <1>4, <1>5, <1>6, <1>7, <1>8, <1>9, <1>10 DEF HomeNext

\* The rows are redrawn from the list, or gone.
LEMMA RowsAreDrawn ==
  ASSUME [HomeNext]_allVars
  PROVE  rendered' \in {rendered, groceries, NoRows}
<1> USE DEF rowVars
<1>1. CASE AddNewTapped \/ Type \/ AddGroceryTapped \/ PopOverDismissed \/ Render
  BY <1>1 DEF AddNewTapped, Type, AddGroceryTapped, PopOverDismissed, Render
<1>2. CASE AddBadNameTapped \/ MissingRowDeleted \/ AppEnds
  BY <1>2 DEF AddBadNameTapped, MissingRowDeleted, AppEnds
<1>3. ASSUME NEW n \in Names, EditTapped(n) \/ UploadTapped(n)
      PROVE  rendered' = rendered
  BY <1>3 DEF EditTapped, UploadTapped
<1>4. ASSUME NEW i \in 1..Cardinality(Names), RowDeleted(i)
      PROVE  rendered' = rendered
  BY <1>4 DEF RowDeleted, screenVars
<1>5. CASE PhotoTapped \/ PickerDismissed \/ PhotoPicked
  BY <1>5 DEF PhotoTapped, PickerDismissed, PhotoPicked
<1>6. CASE UploadStep
  BY <1>6 DEF UploadStep, PutFinishes, DownloadURLArrives, DownloadURLMissing, screenVars
<1>7. CASE Underneath \/ ListPublished \/ UNCHANGED allVars
  BY <1>7 DEF Underneath, ListPublished, allVars, homeVars
<1> QED
  BY <1>1, <1>2, <1>3, <1>4, <1>5, <1>6, <1>7 DEF HomeNext

LEMMA PicturesStep ==
  TypeInv /\ ScreenInv /\ PicturesExist /\ [HomeNext]_allVars => PicturesExist'
<1> SUFFICES ASSUME TypeInv, ScreenInv, PicturesExist, [HomeNext]_allVars
             PROVE  PicturesExist'
  OBVIOUS
<1>1. PICK P : P = PicturedIn(objects')
  OBVIOUS
<1>2. NoDoc \in P
  BY <1>1 DEF PicturedIn, Values
<1>3. DocsIn(P) /\ ListIn(rendered, P)
  <2>1. PICK Q : Q = PicturedIn(objects)
    OBVIOUS
  <2>2. DocsIn(Q) /\ ListIn(rendered, Q)
    BY <2>1, PicturesAreDocs DEF TypeInv, ScreenInv
  <2>3. Q \subseteq P
    BY <1>1, <2>1, WritesArePictured DEF PicturedIn, TypeInv
  <2>4. ListIn(rendered, P)
    BY <2>2, <2>3 DEF ListIn
  <2> QED
    BY <2>2, <2>3, <2>4, PicturedGrows
<1>4. DocsIn(P)'
  BY <1>1, <1>2, <1>3, WritesArePictured, DocsOnlyTravel DEF TypeInv
<1>5. ListIn(rendered', P)
  BY <1>2, <1>3, RowsAreDrawn, NoRowsIn DEF DocsIn
<1>6. \A d \in P : HasPicture(d)'
  BY <1>1 DEF HasPicture, PicturedIn
<1>7. /\ TasksIn(worker', P)
      /\ \A u \in Users : QueueIn(pending'[u], P)
      /\ LogIn(log', P)
      /\ ListIn(shown', P) /\ ListIn(groceries', P)
      /\ EventsIn(mainQueue', P)
  BY <1>4 DEF DocsIn
<1>8. \A i \in 1..Len(worker') : worker'[i].op = "write" => HasPicture(worker[i].doc)'
  BY <1>6, <1>7 DEF TasksIn, HasPicture
<1>9. \A u \in Users : \A i \in 1..Len(pending'[u]) : HasPicture(pending[u][i].doc)'
  BY <1>6, <1>7 DEF QueueIn, HasPicture
<1>10. \A v \in 1..Len(log'), n \in Names : HasPicture(log[v].docs[n])'
  BY <1>6, <1>7 DEF LogIn, ListIn, HasPicture
<1>11. \A n \in Names : HasPicture(shown[n])' /\ HasPicture(groceries[n])'
  BY <1>6, <1>7 DEF ListIn, HasPicture
<1>12. \A i \in 1..Len(mainQueue'), n \in Names : HasPicture(mainQueue[i].rows[n])'
  BY <1>6, <1>7 DEF EventsIn, ListIn, HasPicture
<1>13. \A n \in Names : HasPicture(rendered[n])'
  BY <1>5, <1>6 DEF ListIn, HasPicture
<1> QED
  BY <1>8, <1>9, <1>10, <1>11, <1>12, <1>13 DEF PicturesExist

-----------------------------------------------------------------------------
\* The inductive invariant of the home screen.
HomeInv == TypeInv /\ ScreenInv /\ PickedForAGrocery /\ PicturesExist

LEMMA HomeInvInit == HomeInit => HomeInv
<1> SUFFICES ASSUME HomeInit
             PROVE  HomeInv
  OBVIOUS
<1>1. TypeInv
  BY TypeInvInit DEF HomeInit
<1>2. ScreenInv
  BY ScreenInvInit
<1>3. PickedForAGrocery
  BY DEF HomeInit, PickedForAGrocery
<1>4. PicturesExist
  BY DEF HomeInit, Init, PicturesExist, HasPicture, NoRows
<1> QED
  BY <1>1, <1>2, <1>3, <1>4 DEF HomeInv

LEMMA HomeInvStep == HomeInv /\ [HomeNext]_allVars => HomeInv'
<1> SUFFICES ASSUME HomeInv, [HomeNext]_allVars
             PROVE  HomeInv'
  OBVIOUS
<1>1. TypeInv'
  BY HomeStep, TypeInvStep DEF HomeInv, TypeInv
<1>2. ScreenInv'
  BY ScreenInvStep DEF HomeInv, TypeInv
<1>3. PickedForAGrocery' /\ PicturesExist'
  BY PickedStep, PicturesStep DEF HomeInv
<1> QED
  BY <1>1, <1>2, <1>3 DEF HomeInv

\* The types of the screen: in particular every picture in the bucket is one
\* that was picked (ContentView, GroceryViewModel.onImageChosen).
THEOREM HomeTypeCorrect == HomeSpec => []HomeTypeOK
<1>1. HomeInv => HomeTypeOK
  BY DEF HomeInv, ScreenInv
<1> QED
  BY HomeInvInit, HomeInvStep, <1>1, PTL DEF HomeSpec

\* What a step of the screen can do to the list.
LEMMA ListSteps ==
  ASSUME [HomeNext]_allVars
  PROVE  \/ groceries' = groceries
         \/ Deliver
         \/ Restart
         \/ \E i \in DOMAIN uploads : DownloadURLArrives(i)
<1>1. CASE AddNewTapped \/ Type \/ AddGroceryTapped \/ PopOverDismissed \/ Render
  BY <1>1 DEF AddNewTapped, Type, AddGroceryTapped, PopOverDismissed, Render, Write,
     WriteGrocery, vars
<1>2. CASE AddBadNameTapped \/ MissingRowDeleted \/ AppEnds
  BY <1>2 DEF AddBadNameTapped, MissingRowDeleted, AppEnds
<1>3. ASSUME NEW n \in Names, EditTapped(n) \/ UploadTapped(n)
      PROVE  groceries' = groceries
  BY <1>3 DEF EditTapped, UploadTapped, vars
<1>4. ASSUME NEW i \in 1..Cardinality(Names), RowDeleted(i)
      PROVE  groceries' = groceries
  BY <1>4 DEF RowDeleted, Write, WriteGrocery
<1>5. CASE PhotoTapped \/ PickerDismissed \/ PhotoPicked
  BY <1>5 DEF PhotoTapped, PickerDismissed, PhotoPicked, vars
<1>6. CASE UploadStep
  BY <1>6 DEF UploadStep, PutFinishes, DownloadURLMissing, vars
<1>7. CASE Underneath
  BY <1>7 DEF Underneath, GetAllGroceries, SignIn, Sync, RunListen, RunWrite, RunSignIn,
     Commit, Ack, WatchSnapshot, Reject, StreamBreaks, Offline, ListenFails,
     OtherDeviceWrites
<1>8. CASE ListPublished \/ UNCHANGED allVars
  BY <1>8 DEF ListPublished, allVars, vars
<1> QED
  BY <1>1, <1>2, <1>3, <1>4, <1>5, <1>6, <1>7, <1>8 DEF HomeNext

\* A picture that is put into a row comes with the write of that very row.
LEMMA PictureStep ==
  ASSUME TypeOK, ScreenInv, NEW i \in DOMAIN uploads, DownloadURLArrives(i),
         groceries' # groceries
  PROVE  \E n \in Names :
           /\ i \in Images
           /\ groceries' = [groceries EXCEPT ![n].image = i]
           /\ worker' = Append(worker, [op |-> "write", name |-> n, doc |-> groceries'[n]])
<1>1. PICK n, d : n = uploads[i].of.name /\ d = Pictured(i)
  OBVIOUS
<1>2. n \in Names /\ i \in Images
  BY <1>1, UploadDoc DEF ScreenInv
<1>3. WriteRow(n, d) /\ groceries' = [groceries EXCEPT ![n].image = i]
  <2>1. \/ WriteGrocery(n, d)
        \/ WriteRow(n, d) /\ groceries' = [groceries EXCEPT ![n].image = i]
    BY <1>1, UploadWrites DEF ScreenInv
  <2> QED
    BY <2>1 DEF WriteGrocery
<1>4. worker' = Append(worker, [op |-> "write", name |-> n, doc |-> d])
  BY <1>3 DEF WriteRow, EnqueueWrite, Enqueue
<1>5. groceries'[n] = d
  BY <1>2, <1>3 DEF WriteRow, TypeOK, Lists
<1> QED
  BY <1>2, <1>3, <1>4, <1>5

\* Only list events and restarts replace the list.  An upload that changes one of
\* its rows, on the main thread and without an event, makes the row the very
\* document it writes in the same step, however many lists were published since
\* the picker was opened (uploadImage of CloudFireStoreFirebaseApiImpl, which
\* changes the GroceryVO it shares with GroceryViewModel.groceries).
THEOREM RowsChangeAsWrittenAlways == HomeSpec => RowsChangeAsWritten
<1>1. HomeInv /\ [HomeNext]_allVars =>
        [ \/ groceries' = groceries
          \/ Deliver
          \/ Restart
          \/ \E n \in Names, i \in Images :
               /\ groceries' = [groceries EXCEPT ![n].image = i]
               /\ worker' = Append(worker, [op |-> "write", name |-> n,
                                            doc |-> groceries'[n]]) ]_allVars
  BY ListSteps, PictureStep DEF HomeInv, TypeInv
<1> QED
  BY HomeInvInit, HomeInvStep, <1>1, PTL DEF HomeSpec, RowsChangeAsWritten

\* The screen does nothing to the data path that GroceryStore does not allow an
\* app; what is proved of GroceryStore holds under the screen.  The steps that
\* write say so of a row only because ListedInv holds.
LEMMA HomeImplementsStore == HomeSpec => Spec
<1>1. HomeInit => Init
  BY DEF HomeInit
<1>2. HomeInv /\ [HomeNext]_allVars => [Next]_vars
  BY HomeStep DEF HomeInv, TypeInv
<1> QED
  BY HomeInvInit, HomeInvStep, <1>1, <1>2, PTL DEF HomeSpec, Spec

\* The picker only calls back for a grocery that was chosen (onImageChosen).
THEOREM PickedForAGroceryAlways == HomeSpec => []PickedForAGrocery
<1>1. HomeInv => PickedForAGrocery
  BY DEF HomeInv
<1> QED
  BY HomeInvInit, HomeInvStep, <1>1, PTL DEF HomeSpec

\* A picture that a document names is in the bucket, wherever the document is
\* on its way (uploadImage of CloudFireStoreFirebaseApiImpl).
THEOREM PicturesExistAlways == HomeSpec => []PicturesExist
<1>1. HomeInv => PicturesExist
  BY DEF HomeInv
<1> QED
  BY HomeInvInit, HomeInvStep, <1>1, PTL DEF HomeSpec

-----------------------------------------------------------------------------
(* The last write counts, as long as nobody else writes.                   *)

\* The answers on the way are those of the newest commits, one by one.
AnswersAreNewest ==
  \A k \in 1..Len(commits) : commits[k] = Len(log) - Len(commits) + k

\* The cache knows of every commit that was answered.
AnsweredIsKnown ==
  \A p \in 1..(Len(log) - Len(commits)) : known[log[p].name] >= p

\* What the write and the watch stream need.
StreamsInv == AnswersAreNewest /\ AnsweredIsKnown

\* One of the last writes waiting is what was intended, or none is waiting and
\* the device holds it.
Counts(n) ==
  \/ \E i \in 1..Len(worker) : IsLastWaiting(n, i) /\ worker[i].doc = intended[n]
  \/ /\ \A i \in 1..Len(worker) : ~IsLastWaiting(n, i)
     /\ LocalView(pending[user], known)[n] = intended[n]

CountsInv == Undisturbed => StreamsInv /\ \A n \in Names : Counts(n)

LEMMA CountsMean == CountsInv => LastWriteCounts
BY DEF CountsInv, Counts, LastWriteCounts

\* The writes that wait, when a task joins the worker queue.
LEMMA WaitingAppend ==
  ASSUME worker \in Seq(Tasks), NEW t \in Tasks, worker' = Append(worker, t), NEW n,
         NEW CONSTANT l, l = Len(worker) + 1
  PROVE  /\ Len(worker) \in Nat /\ Len(worker') = l
         /\ \A k \in 1..Len(worker) : worker'[k] = worker[k]
         /\ worker'[l] = t
         /\ t.op = "write" /\ t.name = n => IsLastWaiting(n, l)'
         /\ ~(t.op = "write" /\ t.name = n) =>
              /\ \A i \in 1..Len(worker) : IsLastWaiting(n, i)' <=> IsLastWaiting(n, i)
              /\ ~IsLastWaiting(n, l)'
<1>1. /\ Len(worker) \in Nat /\ Len(worker') = l
      /\ \A k \in 1..Len(worker) : worker'[k] = worker[k]
      /\ worker'[l] = t
  BY AppendProperties
<1>2. ASSUME t.op = "write", t.name = n
      PROVE  IsLastWaiting(n, l)'
  <2>1. \A j \in (l+1)..Len(worker') : FALSE
    BY <1>1
  <2> QED
    BY <1>1, <1>2, <2>1 DEF IsLastWaiting
<1>3. ASSUME ~(t.op = "write" /\ t.name = n), NEW i \in 1..Len(worker)
      PROVE  IsLastWaiting(n, i)' <=> IsLastWaiting(n, i)
  <2>1. \A j \in (i+1)..Len(worker') : j \in (i+1)..Len(worker) \/ j = l
    BY <1>1
  <2>2. \A j \in (i+1)..Len(worker) : j \in (i+1)..Len(worker') /\ worker'[j] = worker[j]
    BY <1>1
  <2>3. /\ worker'[i] = worker[i]
        /\ worker'[l].op = "write" => worker'[l].name # n
    BY <1>1, <1>3
  <2> QED
    BY <2>1, <2>2, <2>3 DEF IsLastWaiting
<1>4. ASSUME ~(t.op = "write" /\ t.name = n)
      PROVE  ~IsLastWaiting(n, l)'
  BY <1>1, <1>4 DEF IsLastWaiting
<1> QED
  BY <1>1, <1>2, <1>3, <1>4

\* And when the head leaves it.
LEMMA WaitingTail ==
  ASSUME worker \in Seq(Tasks), worker # <<>>, worker' = Tail(worker), NEW n
  PROVE  /\ Len(worker) \in Nat \ {0} /\ Len(worker') = Len(worker) - 1
         /\ Head(worker) = worker[1] /\ Head(worker) \in Tasks
         /\ \A i \in 1..Len(worker') :
              /\ i + 1 \in 1..Len(worker)
              /\ worker'[i] = worker[i + 1]
              /\ IsLastWaiting(n, i)' <=> IsLastWaiting(n, i + 1)
         /\ IsLastWaiting(n, 1) => /\ Head(worker).op = "write" /\ Head(worker).name = n
                                   /\ \A i \in 1..Len(worker') : ~IsLastWaiting(n, i)'
<1>1. /\ Len(worker) \in Nat \ {0} /\ Len(worker') = Len(worker) - 1
      /\ Head(worker) = worker[1] /\ Head(worker) \in Tasks
      /\ \A i \in 1..Len(worker') : i + 1 \in 1..Len(worker) /\ worker'[i] = worker[i + 1]
  BY TailShifts
<1>2. ASSUME NEW i \in 1..Len(worker')
      PROVE  IsLastWaiting(n, i)' <=> IsLastWaiting(n, i + 1)
  <2>1. \A j \in (i+1)..Len(worker') : j \in 1..Len(worker') /\ j + 1 \in (i+1+1)..Len(worker)
    BY <1>1
  <2>2. \A j \in (i+1+1)..Len(worker) : j - 1 \in (i+1)..Len(worker')
                                        /\ worker'[j - 1] = worker[j]
    BY <1>1
  <2>3. worker'[i] = worker[i + 1]
    BY <1>1
  <2>4. \A j \in (i+1)..Len(worker') : worker'[j] = worker[j + 1]
    BY <1>1, <2>1
  <2>5. IsLastWaiting(n, i)' => IsLastWaiting(n, i + 1)
    BY <2>2, <2>3 DEF IsLastWaiting
  <2>6. IsLastWaiting(n, i + 1) => IsLastWaiting(n, i)'
    BY <2>1, <2>3, <2>4 DEF IsLastWaiting
  <2> QED
    BY <2>5, <2>6
<1>3. ASSUME IsLastWaiting(n, 1), NEW i \in 1..Len(worker')
      PROVE  ~IsLastWaiting(n, i)'
  <2>1. i + 1 \in (1+1)..Len(worker) /\ worker'[i] = worker[i + 1]
    BY <1>1
  <2> QED
    BY <1>3, <2>1 DEF IsLastWaiting
<1>4. IsLastWaiting(n, 1) => Head(worker).op = "write" /\ Head(worker).name = n
  BY <1>1 DEF IsLastWaiting
<1> QED
  BY <1>1, <1>2, <1>3, <1>4

\* A write the main thread asks for, and what it intends with it.
AppWrites(n, d) ==
  EnqueueWrite(n, d) /\ intended' = [intended EXCEPT ![n] = d]

\* What leaves the screen undisturbed is one of seven actions of the data path.
LEMMA CalmHomeStep ==
  ASSUME TypeInv, ScreenInv, OnceInv, [HomeNext]_allVars, Undisturbed'
  PROVE  /\ Undisturbed /\ ~Reject /\ ~RunSignIn
         /\ \/ \E n \in Names, d \in Values : AppWrites(n, d)
            \/ /\ UNCHANGED intended
               /\ \/ GetAllGroceries \/ RunListen \/ RunWrite \/ Commit \/ Ack
                  \/ \E v \in watched..Len(log) : WatchSnapshot(v)
                  \/ UNCHANGED <<log, known, user, pending, commits, worker>>
<1> USE DEF diskVars
<1>1. [Next]_vars /\ HomeTypeOK
  BY HomeStep DEF ScreenInv, TypeInv
<1>2. incidents' = 0 /\ rejected' = {} /\ \A v \in 1..Len(log') : log'[v].who # OtherDevice
  BY DEF Undisturbed
<1>3. /\ incidents = 0
      /\ \/ RunWrite \/ Commit \/ Ack \/ Reject
         \/ \E n \in Names, d \in Values : OtherDeviceWrites(n, d)
         \/ UNCHANGED <<log, pending, rejected, user, commits>>
  BY <1>1, <1>2, CalmSteps
<1>4. ~Reject
  BY <1>2 DEF Reject
<1>5. ASSUME NEW n \in Names, NEW d \in Values, OtherDeviceWrites(n, d)
      PROVE  FALSE
  <2>1. PICK c : log' = Append(log, c) /\ c.who = OtherDevice
    BY <1>5 DEF OtherDeviceWrites
  <2>2. Len(log) \in Nat /\ Len(log') = Len(log) + 1 /\ log'[Len(log) + 1].who = OtherDevice
    BY <2>1, LogStep
  <2> QED
    BY <1>2, <2>2
<1>6. ~(StreamBreaks \/ Restart \/ \E u \in Users : SignIn(u))
  BY <1>2, <1>3 DEF StreamBreaks, Restart, SignIn
<1>7. ~RunSignIn
  <2> SUFFICES ASSUME RunSignIn
               PROVE  FALSE
    OBVIOUS
  <2>1. worker # <<>> /\ Head(worker).op = "signIn" /\ worker \in Seq(Tasks)
    BY DEF RunSignIn, NextTask, TypeInv, TypeOK
  <2>2. 1 \in 1..Len(worker) /\ Head(worker) = worker[1]
    BY <2>1, TailShifts
  <2> QED
    BY <1>3, <2>1, <2>2 DEF OnceInv, NobodySignsIn
<1>8. Undisturbed
  <2>1. CASE Commit
    <3>1. PICK c : log' = Append(log, c)
      BY <2>1 DEF Commit
    <3>2. Len(log) \in Nat /\ Len(log') = Len(log) + 1
          /\ \A v \in 1..Len(log) : log'[v] = log[v]
      BY <3>1, LogStep
    <3> QED
      BY <2>1, <3>2, <1>2, <1>3 DEF Commit, Undisturbed
  <2>2. CASE RunWrite \/ Ack \/ UNCHANGED <<log, pending, rejected, user, commits>>
    BY <2>2, <1>2, <1>3 DEF RunWrite, Ack, Undisturbed
  <2> QED
    BY <2>1, <2>2, <1>3, <1>4, <1>5
<1> DEFINE Same == UNCHANGED <<log, known, user, pending, commits, worker, intended>>
<1>9. CASE AddNewTapped \/ Type \/ PopOverDismissed \/ Render
  <2>1. Same
    BY <1>9 DEF AddNewTapped, Type, PopOverDismissed, Render, vars
  <2> QED
    BY <1>4, <1>7, <1>8, <2>1
<1>10. CASE AddGroceryTapped
  <2>1. \E n \in Names, d \in Values : AppWrites(n, d)
    BY <1>1, <1>10, FormDoc DEF AddGroceryTapped, Write, WriteGrocery, AppWrites
  <2> QED
    BY <1>4, <1>7, <1>8, <2>1
<1>11. CASE AddBadNameTapped \/ MissingRowDeleted \/ AppEnds
  BY <1>6, <1>11 DEF AddBadNameTapped, MissingRowDeleted, AppEnds
<1>12. ASSUME NEW n \in Names, EditTapped(n) \/ UploadTapped(n)
       PROVE  Same
  BY <1>12 DEF EditTapped, UploadTapped, vars
<1>13. ASSUME NEW i \in 1..Cardinality(Names), RowDeleted(i)
       PROVE  \E n \in Names, d \in Values : AppWrites(n, d)
  <2>1. PICK n \in RowNames(groceries) : AppWrites(n, NoDoc)
    BY <1>13 DEF RowDeleted, Write, WriteGrocery, AppWrites
  <2> QED
    BY <2>1 DEF RowNames, Values
<1>14. CASE PhotoTapped \/ PickerDismissed \/ PhotoPicked
  <2>1. Same
    BY <1>14 DEF PhotoTapped, PickerDismissed, PhotoPicked, vars
  <2> QED
    BY <1>4, <1>7, <1>8, <2>1
<1>15. CASE UploadStep
  <2>1. PICK i \in DOMAIN uploads :
          PutFinishes(i) \/ DownloadURLArrives(i) \/ DownloadURLMissing(i)
    BY <1>15 DEF UploadStep
  <2>2. CASE DownloadURLArrives(i)
    <3>1. \E n \in Names, d \in Values : AppWrites(n, d)
      BY <1>1, <2>2, UploadDoc DEF DownloadURLArrives, AppWrites
    <3> QED
      BY <1>4, <1>7, <1>8, <3>1
  <2>3. CASE PutFinishes(i) \/ DownloadURLMissing(i)
    <3>1. Same
      BY <2>3 DEF PutFinishes, DownloadURLMissing, vars
    <3> QED
      BY <1>4, <1>7, <1>8, <3>1
  <2> QED
    BY <2>1, <2>2, <2>3
<1>16. CASE Underneath
  <2>1. UNCHANGED intended
    BY <1>16 DEF Underneath, homeVars
  <2>2. GetAllGroceries \/ Sync \/ Offline \/ ListenFails
    BY <1>4, <1>5, <1>6, <1>16 DEF Underneath
  <2>3. Offline \/ ListenFails => Same
    BY <2>1 DEF Offline, ListenFails
  <2> QED
    BY <1>4, <1>7, <1>8, <2>1, <2>2, <2>3 DEF Sync
<1>17. CASE UNCHANGED allVars
  <2>1. Same
    BY <1>17 DEF allVars, vars, homeVars
  <2> QED
    BY <1>4, <1>7, <1>8, <2>1
<1>19. CASE ListPublished
  <2>1. Same
    BY <1>19 DEF ListPublished, Deliver
  <2> QED
    BY <1>4, <1>7, <1>8, <2>1
<1> HIDE DEF Same
<1>18. Same => UNCHANGED intended /\ UNCHANGED <<log, known, user, pending, commits, worker>>
  BY DEF Same
<1> QED
  BY <1>4, <1>7, <1>8, <1>9, <1>10, <1>11, <1>12, <1>13, <1>14, <1>15, <1>16, <1>17, <1>18,
     <1>19
  DEF HomeNext

\* What the answers and the cache say of the commits stays.
LEMMA SameStreams ==
  ASSUME StreamsInv, UNCHANGED <<log, commits, known>>
  PROVE  StreamsInv'
BY DEF StreamsInv, AnswersAreNewest, AnsweredIsKnown

\* A document of the device stays when the queue and the cache say the same.
LEMMA SameView ==
  ASSUME UNCHANGED <<log, known, user, pending>>
  PROVE  LocalView(pending[user], known)' = LocalView(pending[user], known)
BY DEF LocalView, DocAt

\* A write joins the queue of the worker, and is what is intended now.
LEMMA WriteKeepsCounts ==
  ASSUME TypeInv, HomeTypeOK, NEW m \in Names, NEW d \in Values, AppWrites(m, d),
         NEW n \in Names, Counts(n)
  PROVE  Counts(n)'
<1> DEFINE t == [op |-> "write", name |-> m, doc |-> d]
<1>1. worker \in Seq(Tasks) /\ t \in Tasks
  BY DEF TypeInv, TypeOK, Tasks
<1>2. /\ worker' = Append(worker, t)
      /\ UNCHANGED <<log, known, user, pending>>
      /\ intended' = [intended EXCEPT ![m] = d]
  BY DEF AppWrites, EnqueueWrite, Enqueue, OnlyEnqueues, diskVars
<1>3. t.op = "write" /\ t.name = m /\ t.doc = d
  OBVIOUS
<1> HIDE DEF t
<1>4. PICK l : l = Len(worker) + 1
  OBVIOUS
<1>5. worker' = Append(worker, t)
  BY <1>2
<1>6. /\ Len(worker) \in Nat /\ Len(worker') = l
      /\ \A k \in 1..Len(worker) : worker'[k] = worker[k]
      /\ worker'[l] = t
      /\ t.op = "write" /\ t.name = n => IsLastWaiting(n, l)'
      /\ ~(t.op = "write" /\ t.name = n) =>
           /\ \A i \in 1..Len(worker) : IsLastWaiting(n, i)' <=> IsLastWaiting(n, i)
           /\ ~IsLastWaiting(n, l)'
  BY <1>1, <1>4, <1>5, WaitingAppend
<1>7. intended'[n] = IF n = m THEN d ELSE intended[n]
  BY <1>2 DEF HomeTypeOK, Lists
<1>8. CASE n = m
  <2>1. l \in 1..Len(worker')
    BY <1>6, <1>4
  <2>2. IsLastWaiting(n, l)'
    BY <1>3, <1>6, <1>8
  <2>3. worker'[l].doc = intended'[n]
    BY <1>3, <1>6, <1>7, <1>8
  <2> QED
    BY <2>1, <2>2, <2>3 DEF Counts
<1>9. CASE n # m
  <2>1. /\ \A i \in 1..Len(worker) : IsLastWaiting(n, i)' <=> IsLastWaiting(n, i)
        /\ ~IsLastWaiting(n, l)'
        /\ intended'[n] = intended[n]
    BY <1>3, <1>6, <1>7, <1>9
  <2>2. LocalView(pending[user], known)'[n] = LocalView(pending[user], known)[n]
    BY <1>2, SameView
  <2>3. ASSUME NEW i \in 1..Len(worker), IsLastWaiting(n, i), worker[i].doc = intended[n]
        PROVE  Counts(n)'
    <3>1. i \in 1..Len(worker') /\ IsLastWaiting(n, i)' /\ worker'[i].doc = intended'[n]
      BY <1>6, <1>4, <2>1, <2>3
    <3> QED
      BY <3>1 DEF Counts
  <2>4. ASSUME \A i \in 1..Len(worker) : ~IsLastWaiting(n, i),
               LocalView(pending[user], known)[n] = intended[n]
        PROVE  Counts(n)'
    <3>1. ASSUME NEW i \in 1..Len(worker')
          PROVE  ~IsLastWaiting(n, i)'
      <4>1. CASE i \in 1..Len(worker)
        BY <4>1, <2>1, <2>4
      <4>2. CASE i = l
        BY <4>2, <2>1
      <4>3. i \in 1..Len(worker) \/ i = l
        BY <1>6, <1>4
      <4> QED
        BY <4>1, <4>2, <4>3
    <3>2. LocalView(pending[user], known)'[n] = intended'[n]
      BY <2>1, <2>2, <2>4
    <3> QED
      BY <3>1, <3>2 DEF Counts
  <2> QED
    BY <2>3, <2>4 DEF Counts
<1> QED
  BY <1>8, <1>9

\* The call of getAllGroceries joins it too.
LEMMA ListenKeepsCounts ==
  ASSUME TypeInv, GetAllGroceries, UNCHANGED intended, NEW n \in Names, Counts(n)
  PROVE  Counts(n)'
<1> DEFINE t == [op |-> "listen"]
<1>1. worker \in Seq(Tasks) /\ t \in Tasks
  BY DEF TypeInv, TypeOK, Tasks
<1>2. /\ worker' = Append(worker, t) /\ worker = <<>>
      /\ UNCHANGED <<log, known, user, pending>>
  BY DEF GetAllGroceries, Started, Enqueue, OnlyEnqueues, diskVars
<1>3. t.op # "write"
  OBVIOUS
<1> HIDE DEF t
<1> PICK l : l = Len(worker) + 1
  OBVIOUS
<1>4. /\ Len(worker) = 0 /\ Len(worker') = l
      /\ ~IsLastWaiting(n, l)'
  BY <1>1, <1>2, <1>3, WaitingAppend
<1>5. LocalView(pending[user], known)[n] = intended[n]
  BY <1>4 DEF Counts
<1>6. LocalView(pending[user], known)'[n] = intended'[n]
  BY <1>2, <1>5, SameView
<1>7. ASSUME NEW i \in 1..Len(worker')
      PROVE  ~IsLastWaiting(n, i)'
  <2>1. i = l
    BY <1>4
  <2> QED
    BY <1>4, <2>1
<1> QED
  BY <1>6, <1>7 DEF Counts

\* A name with a write waiting has a last one.
LEMMA WaitingHasLast ==
  ASSUME worker \in Seq(Tasks), NEW n, NEW h \in 1..Len(worker),
         worker[h].op = "write", worker[h].name = n
  PROVE  \E i \in 1..Len(worker) : IsLastWaiting(n, i)
<1> DEFINE At == {i \in 1..Len(worker) : worker[i].op = "write" /\ worker[i].name = n}
           Left == {Len(worker) - i : i \in At}
<1>1. Len(worker) \in Nat
  OBVIOUS
<1>2. Left \subseteq Nat /\ Left # {}
  BY <1>1
<1>3. PICK m \in Left : \A k \in Left : <<k, m>> \notin OpToRel(<, Nat)
  BY <1>2, NatLessThanWellFounded, WFMin
<1>4. \A k \in Left : m <= k
  <2> HIDE DEF Left, At
  <2>1. ASSUME NEW k \in Left, k < m
        PROVE  FALSE
    <3>1. k \in Nat /\ m \in Nat
      BY <1>2
    <3>2. <<k, m>> \in OpToRel(<, Nat)
      BY <2>1, <3>1 DEF OpToRel
    <3> QED
      BY <1>3, <3>2
  <2>2. \A k \in Left : k \in Nat
    BY <1>2
  <2> QED
    BY <2>1, <2>2
<1>5. PICK i \in At : m = Len(worker) - i
  OBVIOUS
<1>6. ASSUME NEW j \in (i+1)..Len(worker), worker[j].op = "write"
      PROVE  worker[j].name # n
  <2>1. i \in 1..Len(worker)
    BY <1>5
  <2>2. j \in 1..Len(worker) /\ ~(Len(worker) - i <= Len(worker) - j)
    BY <1>1, <2>1
  <2>3. Len(worker) - j \notin Left
    <3> HIDE DEF Left, At
    <3> QED
      BY <1>4, <1>5, <2>2
  <2>4. j \notin At
    BY <2>3
  <2> QED
    BY <1>6, <2>2, <2>4
<1>7. i \in 1..Len(worker) /\ IsLastWaiting(n, i)
  BY <1>5, <1>6 DEF IsLastWaiting
<1> QED
  BY <1>7

\* The head of the worker's queue is run: what it leaves waiting stays, and what
\* the device holds is either as it was, or the write that was at the head.
LEMMA RunTaskKeepsCounts ==
  ASSUME TypeInv, worker # <<>>, worker' = Tail(worker), UNCHANGED intended,
         NEW n \in Names, Counts(n),
         LocalView(pending[user], known)'[n] =
           IF Head(worker).op = "write" /\ Head(worker).name = n
           THEN Head(worker).doc ELSE LocalView(pending[user], known)[n]
  PROVE  Counts(n)'
<1>1. worker \in Seq(Tasks)
  BY DEF TypeInv, TypeOK
<1>2. /\ Len(worker) \in Nat \ {0} /\ Len(worker') = Len(worker) - 1
      /\ Head(worker) = worker[1]
      /\ \A i \in 1..Len(worker') :
           /\ i + 1 \in 1..Len(worker)
           /\ worker'[i] = worker[i + 1]
           /\ IsLastWaiting(n, i)' <=> IsLastWaiting(n, i + 1)
      /\ IsLastWaiting(n, 1) => /\ Head(worker).op = "write" /\ Head(worker).name = n
                                /\ \A i \in 1..Len(worker') : ~IsLastWaiting(n, i)'
  BY <1>1, WaitingTail
<1>3. ASSUME NEW i \in 1..Len(worker), IsLastWaiting(n, i), worker[i].doc = intended[n]
      PROVE  Counts(n)'
  <2>1. CASE i = 1
    <3>1. /\ \A k \in 1..Len(worker') : ~IsLastWaiting(n, k)'
          /\ LocalView(pending[user], known)'[n] = intended'[n]
      BY <1>2, <1>3, <2>1
    <3> QED
      BY <3>1 DEF Counts
  <2>2. CASE i # 1
    <3>1. i - 1 \in 1..Len(worker') /\ (i - 1) + 1 = i
      BY <1>2, <2>2
    <3>2. IsLastWaiting(n, i - 1)' /\ worker'[i - 1].doc = intended'[n]
      BY <1>2, <1>3, <3>1
    <3> QED
      BY <3>1, <3>2 DEF Counts
  <2> QED
    BY <2>1, <2>2
<1>4. ASSUME \A i \in 1..Len(worker) : ~IsLastWaiting(n, i),
             LocalView(pending[user], known)[n] = intended[n]
      PROVE  Counts(n)'
  <2>1. \A i \in 1..Len(worker') : ~IsLastWaiting(n, i)'
    BY <1>2, <1>4
  <2>2. CASE Head(worker).op = "write" /\ Head(worker).name = n
    <3>1. 1 \in 1..Len(worker) /\ worker[1].op = "write" /\ worker[1].name = n
      BY <1>2, <2>2
    <3>2. \E i \in 1..Len(worker) : IsLastWaiting(n, i)
      BY <1>1, <3>1, WaitingHasLast
    <3> QED
      BY <1>4, <3>2
  <2>3. CASE ~(Head(worker).op = "write" /\ Head(worker).name = n)
    BY <1>4, <2>1, <2>3 DEF Counts
  <2> QED
    BY <2>2, <2>3
<1> QED
  BY <1>3, <1>4 DEF Counts

\* The worker accepts a write: it decides its own document and no other.
LEMMA RunWriteKeepsCounts ==
  ASSUME TypeInv, RunWrite, UNCHANGED intended, NEW n \in Names, Counts(n)
  PROVE  Counts(n)'
<1>1. /\ Head(worker) \in Tasks /\ Head(worker).op = "write"
      /\ worker # <<>> /\ worker' = Tail(worker)
  BY TaskType DEF TypeInv, RunWrite, NextTask
<1>2. PICK m : m = [id |-> issued + 1, name |-> Head(worker).name, doc |-> Head(worker).doc]
  OBVIOUS
<1>3. m \in Writes /\ m.name = Head(worker).name /\ m.doc = Head(worker).doc
  BY <1>1, <1>2 DEF Tasks, Writes, TypeInv, TypeOK
<1>4. /\ user \in Users /\ pending \in [Users -> Seq(Writes)]
      /\ pending[user] \in Seq(Writes)
  BY ViewTypes
<1>5. /\ pending' = [pending EXCEPT ![user] = Append(pending[user], m)]
      /\ UNCHANGED <<log, known, user>>
  BY <1>2 DEF RunWrite
<1>6. pending'[user'] = Append(pending[user], m)
  BY <1>4, <1>5
<1>7. LocalView(pending[user], known)'[n] = Overlay(Append(pending[user], m), n, DocAt(known[n], n))
  BY <1>5, <1>6 DEF LocalView, DocAt
<1>8. LocalView(pending[user], known)[n] = Overlay(pending[user], n, DocAt(known[n], n))
  BY DEF LocalView
<1>9. Overlay(Append(pending[user], m), n, DocAt(known[n], n))
        = IF n = m.name THEN m.doc ELSE Overlay(pending[user], n, DocAt(known[n], n))
  BY <1>3, <1>4, OverlayAppend
<1>10. LocalView(pending[user], known)'[n] =
         IF Head(worker).op = "write" /\ Head(worker).name = n
         THEN Head(worker).doc ELSE LocalView(pending[user], known)[n]
  BY <1>1, <1>3, <1>7, <1>8, <1>9
<1> QED
  BY <1>1, <1>10, RunTaskKeepsCounts

LEMMA RunListenKeepsCounts ==
  ASSUME TypeInv, RunListen, UNCHANGED intended, NEW n \in Names, Counts(n)
  PROVE  Counts(n)'
<1>1. /\ worker # <<>> /\ worker' = Tail(worker) /\ Head(worker).op # "write"
      /\ UNCHANGED <<log, known, user, pending>>
  BY DEF RunListen, NextTask, diskVars
<1>2. LocalView(pending[user], known)'[n] = LocalView(pending[user], known)[n]
  BY <1>1, SameView
<1> QED
  BY <1>1, <1>2, RunTaskKeepsCounts

\* A step that leaves the worker's queue alone and the document as the device
\* holds it.
LEMMA SameCounts ==
  ASSUME UNCHANGED <<worker, intended>>, NEW n \in Names, Counts(n),
         LocalView(pending[user], known)'[n] = LocalView(pending[user], known)[n]
  PROVE  Counts(n)'
<1>1. \A i \in 1..Len(worker) : IsLastWaiting(n, i)' <=> IsLastWaiting(n, i)
  BY DEF IsLastWaiting
<1> QED
  BY <1>1 DEF Counts

\* Every commit that is not answered yet is the commit of a pending write.
LEMMA UnansweredIsPending ==
  ASSUME TypeInv, StreamsInv, NEW p \in 1..Len(log), p > Len(log) - Len(commits)
  PROVE  \E k \in 1..Len(pending[user]) :
           /\ k = p - (Len(log) - Len(commits))
           /\ pending[user][k].name = log[p].name
<1>1. /\ Len(log) \in Nat /\ Len(commits) \in Nat
      /\ pending[user] \in Seq(Writes) /\ Len(pending[user]) \in Nat
  BY ViewTypes DEF TypeInv, TypeOK
<1>2. PICK k : k = p - (Len(log) - Len(commits))
  OBVIOUS
<1>3. k \in 1..Len(commits) /\ Len(log) - Len(commits) + k = p
  BY <1>1, <1>2
<1>4. k \in 1..Len(pending[user]) /\ pending[user][k].name = log[p].name
  <2>1. commits[k] = p
    BY <1>3 DEF StreamsInv, AnswersAreNewest
  <2>2. /\ k <= Len(pending[user])
        /\ log[commits[k]].name = pending[user][k].name
    BY <1>3 DEF TypeInv, AnswersMatch
  <2>3. k \in 1..Len(pending[user])
    BY <1>1, <1>3, <2>2
  <2> QED
    BY <2>1, <2>2, <2>3
<1> QED
  BY <1>2, <1>4

\* So is a commit that the cache does not know of.
LEMMA UnknownIsPending ==
  ASSUME TypeInv, StreamsInv, NEW n \in Names, NEW p \in (known[n]+1)..Len(log),
         log[p].name = n
  PROVE  n \in Keys(pending[user])
<1>1. /\ Len(log) \in Nat /\ known[n] \in Nat /\ Len(commits) \in Nat
  BY ViewTypes DEF TypeInv, TypeOK
<1>2. p \in 1..Len(log) /\ known[n] < p
  BY <1>1
<1>3. p > Len(log) - Len(commits)
  BY <1>1, <1>2 DEF StreamsInv, AnsweredIsKnown
<1>4. PICK k \in 1..Len(pending[user]) : pending[user][k].name = n
  BY <1>2, <1>3, UnansweredIsPending
<1> QED
  BY <1>4 DEF Keys

\* The cloud takes a write: the device has yet to hear of it.
LEMMA CommitKeepsCounts ==
  ASSUME TypeInv, StreamsInv, Commit
  PROVE  /\ StreamsInv'
         /\ \A n \in Names : LocalView(pending[user], known)'[n]
                               = LocalView(pending[user], known)[n]
<1>1. PICK c \in Commits : log' = Append(log, c)
  BY CommitIsOfQueue
<1>2. /\ log \in Seq(Commits) /\ commits \in Seq(Nat) /\ Len(commits) \in Nat
      /\ Len(log) + 1 \in Nat
  BY DEF TypeInv, TypeOK
<1>3. /\ Len(log) \in Nat /\ Len(log') = Len(log) + 1
      /\ \A v \in 1..Len(log) : log'[v] = log[v]
      /\ \A v \in 0..Len(log) : \A n : DocAt(v, n)' = DocAt(v, n)
  BY <1>1, <1>2, LogGrows
<1>4. commits' = Append(commits, Len(log) + 1) /\ UNCHANGED <<known, user, pending>>
  BY DEF Commit, diskVars
<1>5. /\ Len(commits') = Len(commits) + 1
      /\ \A k \in 1..Len(commits) : commits'[k] = commits[k]
      /\ commits'[Len(commits) + 1] = Len(log) + 1
  BY <1>2, <1>4, AppendProperties
<1>6. AnswersAreNewest'
  <2> SUFFICES ASSUME NEW k \in 1..Len(commits')
               PROVE  commits'[k] = Len(log') - Len(commits') + k
    BY DEF AnswersAreNewest
  <2>1. CASE k \in 1..Len(commits)
    BY <2>1, <1>2, <1>3, <1>5 DEF StreamsInv, AnswersAreNewest
  <2>2. CASE k = Len(commits) + 1
    BY <2>2, <1>2, <1>3, <1>5
  <2> QED
    BY <2>1, <2>2, <1>2, <1>5
<1>7. AnsweredIsKnown'
  <2> SUFFICES ASSUME NEW p \in 1..(Len(log') - Len(commits'))
               PROVE  known'[log'[p].name] >= p
    BY DEF AnsweredIsKnown
  <2>1. p \in 1..(Len(log) - Len(commits)) /\ p \in 1..Len(log)
    BY <1>2, <1>3, <1>5
  <2> QED
    BY <2>1, <1>3, <1>4 DEF StreamsInv, AnsweredIsKnown
<1>8. ASSUME NEW n \in Names
      PROVE  LocalView(pending[user], known)'[n] = LocalView(pending[user], known)[n]
  <2>1. known[n]' = known[n] /\ known[n] \in 0..Len(log)
    BY <1>4, ViewTypes
  <2>2. \A v \in 0..Len(log) : IF v = 0 THEN TRUE ELSE log'[v].docs[n] = log[v].docs[n]
    BY <1>3
  <2>3. DocAt(known[n], n)' = DocAt(known[n], n)
    BY <2>1, <2>2 DEF DocAt
  <2>4. Overlay(pending[user], n, DocAt(known[n], n))'
          = Overlay(pending[user], n, DocAt(known[n], n))
    BY <1>4, <2>3 DEF Overlay, Keys, IsLastOn
  <2> QED
    BY <2>4 DEF LocalView
<1> QED
  BY <1>6, <1>7, <1>8 DEF StreamsInv

\* Of a document without a pending write, a watch snapshot brings no commit
\* that the cache does not know of already.
LEMMA WatchSnapshotKeepsCounts ==
  ASSUME TypeInv, LogCoherent, StreamsInv, NEW v \in watched..Len(log), WatchSnapshot(v)
  PROVE  /\ StreamsInv'
         /\ \A n \in Names : LocalView(pending[user], known)'[n]
                               = LocalView(pending[user], known)[n]
<1>1. /\ known' = [n \in Names |-> Newer(known[n], v)]
      /\ UNCHANGED <<log, user, pending, commits>>
  BY DEF WatchSnapshot
<1>2. /\ Len(log) \in Nat /\ watched \in Nat /\ v \in Nat /\ v <= Len(log)
      /\ \A n \in Names : known[n] \in Nat /\ known[n] <= Len(log)
  BY ViewTypes
<1>3. \A n \in Names : known'[n] = IF known[n] < v THEN v ELSE known[n]
  BY <1>1 DEF Newer
<1>4. AnsweredIsKnown'
  <2> SUFFICES ASSUME NEW p \in 1..(Len(log) - Len(commits))
               PROVE  known'[log[p].name] >= p
    BY <1>1 DEF AnsweredIsKnown
  <2>1. log \in Seq(Commits) /\ Len(commits) \in Nat
    BY DEF TypeInv, TypeOK
  <2>2. p \in 1..Len(log)
    BY <1>2, <2>1
  <2>3. log[p] \in Commits
    BY <2>1, <2>2
  <2>4. log[p].name \in Names
    BY <2>3 DEF Commits
  <2>5. known[log[p].name] >= p
    BY DEF StreamsInv, AnsweredIsKnown
  <2> QED
    BY <1>2, <1>3, <2>2, <2>4, <2>5
<1>5. AnswersAreNewest'
  BY <1>1 DEF StreamsInv, AnswersAreNewest
<1>6. ASSUME NEW n \in Names
      PROVE  LocalView(pending[user], known)'[n] = LocalView(pending[user], known)[n]
  <2>1. CASE n \in Keys(pending[user])
    BY <1>1, <2>1 DEF LocalView, Overlay, Keys, IsLastOn
  <2>2. CASE n \notin Keys(pending[user])
    <3>1. DocAt(known'[n], n) = DocAt(known[n], n)
      <4>1. CASE known[n] < v
        <5>1. \A p \in (known[n]+1)..v : p \in (known[n]+1)..Len(log)
          BY <1>2
        <5>2. \A p \in (known[n]+1)..v : log[p].name # n
          BY <2>2, <5>1, UnknownIsPending
        <5>3. v \in 0..Len(log) /\ known[n] \in 0..v
          BY <1>2, <4>1
        <5>4. DocAt(known[n], n) = DocAt(v, n)
          BY <5>2, <5>3 DEF LogCoherent
        <5> QED
          BY <1>3, <4>1, <5>4
      <4>2. CASE ~(known[n] < v)
        BY <1>3, <4>2
      <4> QED
        BY <4>1, <4>2
    <3>2. DocAt(known[n], n)' = DocAt(known'[n], n)
      BY <1>1 DEF DocAt
    <3>3. LocalView(pending[user], known)'[n] = DocAt(known[n], n)'
      BY <1>1, <2>2 DEF LocalView, Overlay, Keys
    <3>4. LocalView(pending[user], known)[n] = DocAt(known[n], n)
      BY <2>2 DEF LocalView, Overlay
    <3> QED
      BY <3>1, <3>2, <3>3, <3>4
  <2> QED
    BY <2>1, <2>2
<1> QED
  BY <1>4, <1>5, <1>6 DEF StreamsInv

\* What lies under a queue does not show where the queue has a write.
LEMMA OverlayHidesBase ==
  ASSUME NEW q, NEW n \in Keys(q), NEW a, NEW b
  PROVE  Overlay(q, n, a) = Overlay(q, n, b)
BY DEF Overlay

\* An answered write is the cached document of its name, or uncovers a newer
\* one of a write that is still pending, or that the watch stream brought.
LEMMA AckKeepsCounts ==
  ASSUME TypeInv, LogCoherent, StreamsInv, Ack
  PROVE  /\ StreamsInv'
         /\ \A n \in Names : LocalView(pending[user], known)'[n]
                               = LocalView(pending[user], known)[n]
<1>1. /\ pending[user] \in Seq(Writes) /\ pending[user] # <<>>
      /\ pending'[user] = Tail(pending[user])
      /\ UNCHANGED <<log, watched, user>>
      /\ Head(pending[user]).name \in Names
      /\ Head(commits) \in 1..Len(log)
      /\ known' = [known EXCEPT ![Head(pending[user]).name] = Newer(@, Head(commits))]
      /\ log[Head(commits)].name = Head(pending[user]).name
      /\ log[Head(commits)].docs[Head(pending[user]).name] = Head(pending[user]).doc
  BY AnswerStep
<1>2. /\ commits # <<>> /\ commits' = Tail(commits)
      /\ Len(commits) \in Nat \ {0}
      /\ Head(commits) = commits[1]
      /\ Len(commits') = Len(commits) - 1
      /\ \A k \in 1..Len(commits') : k + 1 \in 1..Len(commits) /\ commits'[k] = commits[k + 1]
  BY AnswerHasWrite DEF Ack
<1>3. /\ Len(log) \in Nat
      /\ \A n \in Names : known[n] \in Nat /\ known[n] <= Len(log)
  BY ViewTypes
<1>4. PICK h, c : h = Head(pending[user]).name /\ c = Head(commits)
  OBVIOUS
<1>5. c = Len(log) - Len(commits) + 1 /\ c \in 1..Len(log)
  BY <1>1, <1>2, <1>4 DEF StreamsInv, AnswersAreNewest
<1>6. \A n \in Names : known'[n] = IF n = h /\ known[n] < c THEN c ELSE known[n]
  BY <1>1, <1>4, ViewTypes DEF Newer
<1>7. ASSUME NEW k \in 1..Len(commits')
      PROVE  commits'[k] = Len(log') - Len(commits') + k
  <2>1. k + 1 \in 1..Len(commits) /\ commits'[k] = commits[k + 1]
    BY <1>2
  <2>2. commits[k + 1] = Len(log) - Len(commits) + (k + 1)
    BY <2>1 DEF StreamsInv, AnswersAreNewest
  <2>3. Len(log') = Len(log) /\ k \in Nat
    BY <1>1
  <2> QED
    BY <1>2, <1>3, <2>1, <2>2, <2>3
<1>8. AnsweredIsKnown'
  <2> SUFFICES ASSUME NEW p \in 1..(Len(log) - Len(commits'))
               PROVE  known'[log[p].name] >= p
    BY <1>1 DEF AnsweredIsKnown
  <2>1. log \in Seq(Commits) /\ p \in 1..Len(log)
    BY <1>2, <1>3 DEF TypeInv, TypeOK
  <2>2. log[p] \in Commits
    BY <2>1
  <2>3. log[p].name \in Names
    BY <2>2 DEF Commits
  <2>4. CASE p = c
    BY <1>1, <1>3, <1>4, <1>5, <1>6, <2>3, <2>4
  <2>5. CASE p # c
    <3>1. p \in 1..(Len(log) - Len(commits))
      BY <1>2, <1>3, <1>5, <2>5
    <3>2. known[log[p].name] >= p
      BY <3>1 DEF StreamsInv, AnsweredIsKnown
    <3> QED
      BY <1>3, <1>5, <1>6, <2>1, <2>3, <3>2
  <2> QED
    BY <2>4, <2>5
<1>9. ASSUME NEW n \in Names
      PROVE  LocalView(pending[user], known)'[n] = LocalView(pending[user], known)[n]
  <2>1. /\ LocalView(pending[user], known)[n] = Overlay(pending[user], n, DocAt(known[n], n))
        /\ LocalView(pending[user], known)'[n]
             = Overlay(Tail(pending[user]), n, DocAt(known'[n], n))
    BY <1>1 DEF LocalView, DocAt
  <2>2. /\ n \in Keys(Tail(pending[user])) =>
             Overlay(Tail(pending[user]), n, DocAt(known[n], n))
               = Overlay(pending[user], n, DocAt(known[n], n))
        /\ n \notin Keys(Tail(pending[user])) /\ n = h =>
             Overlay(pending[user], n, DocAt(known[n], n)) = Head(pending[user]).doc
        /\ Keys(pending[user]) = Keys(Tail(pending[user])) \cup {h}
    BY <1>1, <1>4, OverlayTail
  <2>3. CASE n \in Keys(Tail(pending[user]))
    <3>1. Overlay(Tail(pending[user]), n, DocAt(known'[n], n))
            = Overlay(Tail(pending[user]), n, DocAt(known[n], n))
      BY <2>3, OverlayHidesBase
    <3> QED
      BY <2>1, <2>2, <2>3, <3>1
  <2>4. CASE n \notin Keys(Tail(pending[user])) /\ n # h
    <3>1. Overlay(Tail(pending[user]), n, DocAt(known'[n], n)) = DocAt(known'[n], n)
          /\ Overlay(pending[user], n, DocAt(known[n], n)) = DocAt(known[n], n)
      BY <2>2, <2>4 DEF Overlay
    <3>2. known'[n] = known[n]
      BY <1>6, <2>4
    <3> QED
      BY <2>1, <3>1, <3>2
  <2>5. CASE n \notin Keys(Tail(pending[user])) /\ n = h
    <3>1. Overlay(Tail(pending[user]), n, DocAt(known'[n], n)) = DocAt(known'[n], n)
      BY <2>5 DEF Overlay
    <3>2. DocAt(c, n) = Head(pending[user]).doc
      BY <1>1, <1>4, <1>5, <2>5 DEF DocAt
    <3>3. DocAt(known'[n], n) = DocAt(c, n)
      <4>1. CASE known[n] < c
        BY <1>6, <2>5, <4>1
      <4>2. CASE ~(known[n] < c)
        <5>1. ASSUME NEW p \in (c+1)..known[n]
              PROVE  log[p].name # n
          <6>1. p \in 1..Len(log) /\ p > Len(log) - Len(commits)
                /\ p - (Len(log) - Len(commits)) >= 2
            BY <1>2, <1>3, <1>5
          <6>2. PICK k \in 1..Len(pending[user]) :
                  k = p - (Len(log) - Len(commits)) /\ pending[user][k].name = log[p].name
            BY <6>1, UnansweredIsPending
          <6>3. /\ Len(pending[user]) \in Nat /\ Len(Tail(pending[user])) = Len(pending[user]) - 1
                /\ \A j \in 1..Len(Tail(pending[user])) :
                     Tail(pending[user])[j] = pending[user][j + 1]
            BY <1>1, TailShifts
          <6>4. k - 1 \in 1..Len(Tail(pending[user])) /\ (k - 1) + 1 = k
            BY <1>2, <1>3, <6>1, <6>2, <6>3
          <6>5. Tail(pending[user])[k - 1].name = log[p].name
            BY <6>2, <6>3, <6>4
          <6>6. log[p].name \in Keys(Tail(pending[user]))
            BY <6>4, <6>5 DEF Keys
          <6> QED
            BY <2>5, <6>6
        <5>2. known[n] \in 0..Len(log) /\ c \in 0..known[n]
          BY <1>3, <1>5, <4>2
        <5>3. DocAt(c, n) = DocAt(known[n], n)
          BY <5>1, <5>2 DEF LogCoherent
        <5> QED
          BY <1>6, <4>2, <5>3
      <4> QED
        BY <4>1, <4>2
    <3> QED
      BY <2>1, <2>2, <2>5, <3>1, <3>2, <3>3
  <2> QED
    BY <2>3, <2>4, <2>5
<1> QED
  BY <1>7, <1>8, <1>9 DEF StreamsInv, AnswersAreNewest

LEMMA CountsStep ==
  TypeInv /\ ScreenInv /\ OnceInv /\ LogCoherent /\ CountsInv /\ [HomeNext]_allVars
    => CountsInv'
<1> SUFFICES ASSUME TypeInv, ScreenInv, OnceInv, LogCoherent, CountsInv,
                    [HomeNext]_allVars, Undisturbed'
             PROVE  StreamsInv' /\ \A n \in Names : Counts(n)'
  BY DEF CountsInv
<1>1. /\ Undisturbed
      /\ \/ \E n \in Names, d \in Values : AppWrites(n, d)
         \/ /\ UNCHANGED intended
            /\ \/ GetAllGroceries \/ RunListen \/ RunWrite \/ Commit \/ Ack
               \/ \E v \in watched..Len(log) : WatchSnapshot(v)
               \/ UNCHANGED <<log, known, user, pending, commits, worker>>
  BY CalmHomeStep
<1>2. StreamsInv /\ (\A n \in Names : Counts(n)) /\ HomeTypeOK
  BY <1>1 DEF CountsInv, ScreenInv
<1>3. ASSUME NEW m \in Names, NEW d \in Values, AppWrites(m, d)
      PROVE  StreamsInv' /\ \A n \in Names : Counts(n)'
  <2>1. UNCHANGED <<log, commits, known>>
    BY <1>3 DEF AppWrites, EnqueueWrite, OnlyEnqueues, diskVars
  <2>2. StreamsInv'
    BY <1>2, <2>1, SameStreams
  <2> QED
    BY <1>2, <1>3, <2>2, WriteKeepsCounts
<1>4. ASSUME GetAllGroceries \/ RunListen \/ RunWrite, UNCHANGED intended
      PROVE  StreamsInv' /\ \A n \in Names : Counts(n)'
  <2>1. UNCHANGED <<log, commits, known>>
    BY <1>4 DEF GetAllGroceries, RunListen, RunWrite, OnlyEnqueues, diskVars
  <2>2. StreamsInv'
    BY <1>2, <2>1, SameStreams
  <2> QED
    BY <1>2, <1>4, <2>2, ListenKeepsCounts, RunListenKeepsCounts, RunWriteKeepsCounts
<1>5. ASSUME NEW v \in watched..Len(log), WatchSnapshot(v) \/ Commit \/ Ack, UNCHANGED intended
      PROVE  StreamsInv' /\ \A n \in Names : Counts(n)'
  <2>1. /\ StreamsInv'
        /\ \A n \in Names : LocalView(pending[user], known)'[n]
                              = LocalView(pending[user], known)[n]
    BY <1>2, <1>5, CommitKeepsCounts, WatchSnapshotKeepsCounts, AckKeepsCounts
  <2>2. UNCHANGED <<worker, intended>>
    BY <1>5 DEF WatchSnapshot, Commit, Ack
  <2> QED
    BY <1>2, <2>1, <2>2, SameCounts
<1>6. ASSUME UNCHANGED <<log, known, user, pending, commits, worker>>, UNCHANGED intended
      PROVE  StreamsInv' /\ \A n \in Names : Counts(n)'
  <2>1. StreamsInv'
    BY <1>2, <1>6, SameStreams
  <2>2. LocalView(pending[user], known)' = LocalView(pending[user], known)
    BY <1>6, SameView
  <2> QED
    BY <1>2, <1>6, <2>1, <2>2, SameCounts
<1>7. Len(log) \in watched..Len(log)
  BY ViewTypes
<1> QED
  BY <1>1, <1>3, <1>4, <1>5, <1>6, <1>7

LEMMA CountsInit == HomeInit => CountsInv
<1> SUFFICES ASSUME HomeInit
             PROVE  StreamsInv /\ \A n \in Names : Counts(n)
  BY DEF CountsInv
<1>1. /\ Len(log) = 0 /\ Len(commits) = 0 /\ Len(worker) = 0
      /\ known = [n \in Names |-> 0] /\ intended = NoRows
      /\ pending = [u \in Users |-> <<>>] /\ user \in Users
  BY StoreAssumption DEF HomeInit, Init
<1>2. StreamsInv
  BY <1>1 DEF StreamsInv, AnswersAreNewest, AnsweredIsKnown
<1>3. ASSUME NEW n \in Names
      PROVE  Counts(n)
  <2>1. pending[user] = <<>> /\ Len(pending[user]) = 0
    BY <1>1
  <2>2. n \notin Keys(pending[user])
    BY <2>1 DEF Keys
  <2>3. LocalView(pending[user], known)[n] = NoDoc
    BY <1>1, <2>2 DEF LocalView, Overlay, DocAt
  <2>4. intended[n] = NoDoc
    BY <1>1 DEF NoRows
  <2> QED
    BY <1>1, <2>3, <2>4 DEF Counts
<1> QED
  BY <1>2, <1>3

\* As long as nobody else writes, nothing is refused and nothing is disturbed,
\* the cache, the mutation queue and the queue of the worker together stand for
\* what this device last did to every document, whichever of the write stream
\* and the watch stream is ahead (WriteGrocery, RunWrite, Ack, WatchSnapshot).
THEOREM LastWriteCountsAlways == HomeSpec => []LastWriteCounts
<1>1. HomeInit => Init
  BY DEF HomeInit
<1>2. HomeInv /\ [HomeNext]_allVars => [Next]_vars
  BY HomeStep DEF HomeInv, TypeInv
<1>3. HomeInv /\ OnceInv /\ ViewInv /\ CountsInv /\ [HomeNext]_allVars => CountsInv'
  BY CountsStep DEF HomeInv, ViewInv
<1>4. HomeInv => TypeInv
  BY DEF HomeInv
<1> QED
  BY HomeInvInit, HomeInvStep, OrderInvInit, OrderInvStep, OnceInvInit, OnceInvStep,
     ViewInvInit, ViewInvStep, CountsInit, CountsMean, <1>1, <1>2, <1>3, <1>4, PTL
  DEF HomeSpec

-----------------------------------------------------------------------------
(* The rows are as intended, without waiting for the cloud.                *)

\* While nothing disturbs it, the view never has to keep an older document.
ShownInv ==
  Undisturbed /\ listener \in {"waiting", "live"} =>
    \A n \in Names : shown[n] = LocalView(pending[user], known)[n]

\* Only the worker's acceptance of a write changes what the device holds.
LEMMA CalmView ==
  ASSUME TypeInv, ScreenInv, OnceInv, LogCoherent, CountsInv, [HomeNext]_allVars,
         Undisturbed', ~RunWrite, NEW n \in Names
  PROVE  LocalView(pending[user], known)'[n] = LocalView(pending[user], known)[n]
<1>1. /\ Undisturbed
      /\ \/ \E m \in Names, d \in Values : AppWrites(m, d)
         \/ /\ UNCHANGED intended
            /\ \/ GetAllGroceries \/ RunListen \/ RunWrite \/ Commit \/ Ack
               \/ \E v \in watched..Len(log) : WatchSnapshot(v)
               \/ UNCHANGED <<log, known, user, pending, commits, worker>>
  BY CalmHomeStep
<1>2. StreamsInv
  BY <1>1 DEF CountsInv
<1>3. CASE Commit \/ Ack \/ \E v \in watched..Len(log) : WatchSnapshot(v)
  BY <1>2, <1>3, CommitKeepsCounts, AckKeepsCounts, WatchSnapshotKeepsCounts
<1>4. ASSUME UNCHANGED <<log, known, user, pending>>
      PROVE  LocalView(pending[user], known)'[n] = LocalView(pending[user], known)[n]
  BY <1>4, SameView
<1>5. CASE GetAllGroceries \/ RunListen \/ UNCHANGED <<log, known, user, pending, commits, worker>>
  <2>1. UNCHANGED <<log, known, user, pending>>
    BY <1>5 DEF GetAllGroceries, RunListen, OnlyEnqueues, diskVars
  <2> QED
    BY <1>4, <2>1
<1>6. ASSUME NEW m \in Names, NEW d \in Values, AppWrites(m, d)
      PROVE  LocalView(pending[user], known)'[n] = LocalView(pending[user], known)[n]
  <2>1. UNCHANGED <<log, known, user, pending>>
    BY <1>6 DEF AppWrites, EnqueueWrite, OnlyEnqueues, diskVars
  <2> QED
    BY <1>4, <2>1
<1> QED
  BY <1>1, <1>3, <1>5, <1>6

\* What a step can do to the view.
LEMMA ViewSteps ==
  ASSUME [Next]_vars
  PROVE  \/ RunListen \/ RunWrite \/ RunSignIn \/ Ack \/ Reject
         \/ \E v \in watched..Len(log) : WatchSnapshot(v)
         \/ listener' \notin {"waiting", "live"}
         \/ UNCHANGED shown /\ listener \in {"waiting", "live"}
<1> SUFFICES ASSUME listener' \in {"waiting", "live"}
             PROVE  \/ RunListen \/ RunWrite \/ RunSignIn \/ Ack \/ Reject
                    \/ \E v \in watched..Len(log) : WatchSnapshot(v)
                    \/ UNCHANGED shown /\ listener \in {"waiting", "live"}
  OBVIOUS
<1>1. CASE Commit \/ Deliver
  BY <1>1 DEF Commit, Deliver, viewVars
<1>2. CASE StreamBreaks \/ Offline
  BY <1>2 DEF StreamBreaks, Offline, GivesUp, viewVars
<1>3. CASE Restart \/ ListenFails
  BY <1>3 DEF Restart, ListenFails
<1>4. CASE GetAllGroceries \/ (\E u \in Users : SignIn(u))
           \/ \E n \in Names, d \in Values : WriteGrocery(n, d) \/ WriteRow(n, d)
  BY <1>4 DEF GetAllGroceries, SignIn, WriteGrocery, WriteRow, EnqueueWrite, OnlyEnqueues,
     viewVars
<1>5. CASE \E n \in Names, d \in Values : OtherDeviceWrites(n, d)
  BY <1>5 DEF OtherDeviceWrites, viewVars
<1>6. CASE UNCHANGED vars
  BY <1>6 DEF vars
<1> QED
  BY <1>1, <1>2, <1>3, <1>4, <1>5, <1>6 DEF Next, Sync

\* The acceptance of a write is the only step that gives out an id.
LEMMA OnlyRunWriteIssues ==
  ASSUME TypeOK, issued' = issued
  PROVE  ~RunWrite
<1>1. RunWrite => issued' = issued + 1
  BY DEF RunWrite
<1>2. issued \in Nat
  BY DEF TypeOK
<1>3. issued # issued + 1
  BY <1>2
<1> QED
  BY <1>1, <1>3

LEMMA ShownStep ==
  TypeInv /\ ScreenInv /\ OnceInv /\ LogCoherent /\ CountsInv /\ ShownInv
    /\ [HomeNext]_allVars => ShownInv'
<1> SUFFICES ASSUME TypeInv, ScreenInv, OnceInv, LogCoherent, CountsInv, ShownInv,
                    [HomeNext]_allVars, Undisturbed', listener' \in {"waiting", "live"},
                    NEW n \in Names
             PROVE  shown'[n] = LocalView(pending[user], known)'[n]
  BY DEF ShownInv
<1>1. Undisturbed /\ ~Reject /\ ~RunSignIn
  BY CalmHomeStep
<1>2. [Next]_vars /\ TypeOK
  BY HomeStep DEF ScreenInv, TypeInv
<1>3. ~RunWrite => LocalView(pending[user], known)'[n] = LocalView(pending[user], known)[n]
  BY CalmView
<1>4. listener \in {"waiting", "live"} => shown[n] = LocalView(pending[user], known)[n]
  BY <1>1 DEF ShownInv
<1>5. ASSUME NEW changed, NEW q, NEW w, NEW synced, Emit(changed, q, known', w, synced),
             q = pending'[user'], UNCHANGED log, ~RunWrite
      PROVE  shown'[n] = LocalView(pending[user], known)'[n]
  <2>1. LocalView(pending[user], known)' = LocalView(q, known')
    BY <1>5 DEF LocalView, DocAt
  <2>2. listener \in {"waiting", "live"}
    BY <1>2, <1>5, EmitShows
  <2>3. shown[n] = LocalView(q, known')[n]
    BY <1>3, <1>4, <1>5, <2>1, <2>2
  <2>4. shown'[n] = shown[n]
    BY <1>2, <1>5, <2>3, EmitKeepsWhatIsRight
  <2> QED
    BY <2>1, <2>3, <2>4
<1>6. CASE Ack
  <2>1. /\ Emit({Head(pending[user]).name}, Tail(pending[user]), known', watched, FALSE)
        /\ pending'[user'] = Tail(pending[user]) /\ UNCHANGED log
    BY <1>6, AnswerStep
  <2>2. ~RunWrite
    <3>1. issued' = issued
      BY <1>6 DEF Ack
    <3> QED
      BY <1>2, <3>1, OnlyRunWriteIssues
  <2> QED
    BY <1>5, <2>1, <2>2
<1>7. ASSUME NEW v \in watched..Len(log), WatchSnapshot(v)
      PROVE  shown'[n] = LocalView(pending[user], known)'[n]
  <2>1. Emit(Updates(v), pending[user], known', v, TRUE)
        /\ UNCHANGED <<log, pending, user, issued>>
    BY <1>7 DEF WatchSnapshot
  <2>2. ~RunWrite
    BY <1>2, <2>1, OnlyRunWriteIssues
  <2> QED
    BY <1>5, <2>1, <2>2
<1>8. CASE RunListen
  <2>1. shown' = LocalView(pending[user], known) /\ UNCHANGED <<log, known, user, pending>>
    BY <1>8 DEF RunListen, diskVars
  <2> QED
    BY <2>1, SameView
<1>9. CASE RunWrite
  <2>1. PICK m, q : /\ m = Head(worker).name
                    /\ q = Append(pending[user], [id |-> issued + 1, name |-> m,
                                                  doc |-> Head(worker).doc])
    OBVIOUS
  <2>2. /\ pending' = [pending EXCEPT ![user] = q]
        /\ Emit({m}, q, known, watched, FALSE)
        /\ UNCHANGED <<log, known, user>>
    BY <1>9, <2>1 DEF RunWrite
  <2>3. q = pending'[user']
    BY <2>2, ViewTypes
  <2>4. LocalView(pending[user], known)' = LocalView(q, known)
    BY <2>2, <2>3 DEF LocalView, DocAt
  <2>5. PICK x : x = [id |-> issued + 1, name |-> m, doc |-> Head(worker).doc]
    OBVIOUS
  <2>6. x \in Writes /\ x.name = m
    <3>1. Head(worker) \in Tasks /\ Head(worker).op = "write"
      BY <1>2, <1>9, TaskType DEF RunWrite
    <3>2. issued + 1 \in Nat
      BY <1>2 DEF TypeOK
    <3> QED
      BY <2>1, <2>5, <3>1, <3>2 DEF Tasks, Writes
  <2>7. q = Append(pending[user], x) /\ pending[user] \in Seq(Writes)
    BY <2>1, <2>5, ViewTypes
  <2>8. /\ Keys(q) = Keys(pending[user]) \cup {m}
        /\ n # m => LocalView(q, known)[n] = LocalView(pending[user], known)[n]
    <3>1. PICK base : base = DocAt(known[n], n)
      OBVIOUS
    <3>2. /\ Overlay(q, n, base) = IF n = x.name THEN x.doc ELSE Overlay(pending[user], n, base)
          /\ Keys(q) = Keys(pending[user]) \cup {x.name}
      BY <2>6, <2>7, OverlayAppend
    <3>3. /\ LocalView(q, known)[n] = Overlay(q, n, base)
          /\ LocalView(pending[user], known)[n] = Overlay(pending[user], n, base)
      BY <3>1 DEF LocalView
    <3> QED
      BY <2>6, <3>2, <3>3
  <2>9. listener \in {"waiting", "live"}
    BY <1>2, <2>2, EmitShows
  <2>10. CASE n = m
    <3>1. \/ shown'[n] = LocalView(q, known)[n]
          \/ n \in mutated' /\ known[n] > watched /\ n \notin Keys(q)
      BY <1>2, <2>2, <2>9, <2>10, EmitShows
    <3> QED
      BY <2>4, <2>8, <2>10, <3>1
  <2>11. CASE n # m
    <3>1. PICK changed : changed = {m}
      OBVIOUS
    <3>2. Emit(changed, q, known, watched, FALSE) /\ n \notin changed
      BY <2>2, <2>11, <3>1
    <3>3. shown'[n] = shown[n]
      BY <1>2, <3>2, EmitShows
    <3> QED
      BY <1>4, <2>4, <2>8, <2>9, <2>11, <3>3
  <2> QED
    BY <2>10, <2>11
<1>10. CASE UNCHANGED shown /\ listener \in {"waiting", "live"} /\ ~RunWrite
  BY <1>3, <1>4, <1>10
<1> QED
  BY <1>1, <1>2, <1>6, <1>7, <1>8, <1>9, <1>10, ViewSteps

LEMMA RowsFollow ==
  TypeInv /\ HomeTypeOK /\ CountsInv /\ ShownInv /\ LastEventIsShown => RowsAreAsIntended
<1> SUFFICES ASSUME TypeInv, HomeTypeOK, CountsInv, ShownInv, LastEventIsShown, Undisturbed,
                    listener = "live", worker = <<>>, mainQueue = <<>>, rendered = groceries
             PROVE  rendered = intended
  BY DEF RowsAreAsIntended
<1>1. rendered = shown /\ shown \in Lists /\ intended \in Lists
  <2>1. shown \in Lists /\ groceries \in Lists /\ intended \in Lists
    BY DEF TypeInv, TypeOK, HomeTypeOK
  <2>2. \A n \in Names : groceries[n] = shown[n]
    BY DEF LastEventIsShown, IsAhead
  <2> QED
    BY <2>1, <2>2 DEF Lists
<1>2. ASSUME NEW n \in Names
      PROVE  shown[n] = intended[n]
  <2>1. shown[n] = LocalView(pending[user], known)[n]
    BY DEF ShownInv
  <2>2. Counts(n) /\ Len(worker) = 0
    BY DEF CountsInv
  <2> QED
    BY <2>1, <2>2 DEF Counts
<1> QED
  BY <1>1, <1>2 DEF Lists

\* As long as nothing disturbs this device, the rows show what it last did as soon
\* as its own two queues are empty, before the cloud has answered: no answer and no
\* watch snapshot, however late, changes a row (Emit, ShouldWaitForSyncedDocument).
THEOREM RowsAreAsIntendedAlways == HomeSpec => []RowsAreAsIntended
<1>1. HomeInit => Init /\ LastEventIsShown /\ ShownInv
  BY DEF HomeInit, Init, LastEventIsShown, ShownInv
<1>2. HomeInv /\ [HomeNext]_allVars => [Next]_vars
  BY HomeStep DEF HomeInv, TypeInv
<1>3. HomeInv /\ OnceInv /\ ViewInv /\ CountsInv /\ [HomeNext]_allVars => CountsInv'
  BY CountsStep DEF HomeInv, ViewInv
<1>4. HomeInv /\ OnceInv /\ ViewInv /\ CountsInv /\ ShownInv /\ [HomeNext]_allVars => ShownInv'
  BY ShownStep DEF HomeInv, ViewInv
<1>5. HomeInv => TypeInv /\ HomeTypeOK
  BY DEF HomeInv, ScreenInv
<1> QED
  BY HomeInvInit, HomeInvStep, OrderInvInit, OrderInvStep, OnceInvInit, OnceInvStep,
     ViewInvInit, ViewInvStep, LastEventStep, CountsInit, RowsFollow,
     <1>1, <1>2, <1>3, <1>4, <1>5, PTL
  DEF HomeSpec
=============================================================================
