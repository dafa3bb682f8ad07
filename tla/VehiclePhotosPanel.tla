------------------------- MODULE VehiclePhotosPanel -------------------------
(***************************************************************************)
(* The photos of one vehicle on its page (components/vehicle-photos): the  *)
(* form that uploads one and the gallery, where a photo is made the        *)
(* primary one, downloaded, edited and deleted.  The panel adds an upload  *)
(* to the list it has; the gallery puts back the list it had when it       *)
(* asked, changed by what was asked.                                       *)
(*                                                                         *)
(* db is the photos of the vehicle, the primary one, and the ids that were *)
(* given out.  The order of the photos, whether one is listed twice, and   *)
(* their titles and categories are left out; a check box is ticked or not  *)
(* when its form is sent.                                                  *)
(***************************************************************************)
EXTENDS WebCalls

CONSTANT Photos  \* ids of photos

\* orphans are the calls whose editor is gone.  exact and alone only observe:
\* whether the list must be the one of the API, and whether the load sent last
\* has the API and the list to itself so far.
TypeOK ==
    /\ db \in [photos: SUBSET Photos, primary: Photos \cup {None}, used: SUBSET Photos]
    /\ db.photos \subseteq db.used /\ db.primary \in db.photos \cup {None}
    /\ ui \in [photos: SUBSET Photos, primary: Photos \cup {None},
               isLoading: BOOLEAN, isRefreshing: BOOLEAN, uploading: BOOLEAN,
               busy: Photos \cup {None}, editing: Photos \cup {None}, saving: BOOLEAN,
               orphans: SUBSET Slots, exact: BOOLEAN, alone: BOOLEAN]
    /\ ui.primary \in ui.photos \cup {None}
    /\ \A i \in underWay : calls[i].op \in
          {"first", "refresh", "upload", "primary", "delete", "download", "save"}

Init ==
    /\ db \in {[photos |-> p, primary |-> None, used |-> p] : p \in SUBSET Photos}
    /\ ui = [photos |-> {}, primary |-> None, isLoading |-> TRUE, isRefreshing |-> FALSE,
             uploading |-> FALSE, busy |-> None, editing |-> None, saving |-> FALSE,
             orphans |-> {}, exact |-> FALSE, alone |-> TRUE]
    /\ calls = placed(NoCalls, Sent("first", None))

loads == {"first", "refresh"}
changes == {"upload", "primary", "delete", "save"}

\* The one of rows that is primary once photo was saved as primary, or not.
primaryAfter(rows, photo, isPrimary) ==
    IF isPrimary THEN photo ELSE IF rows.primary = photo THEN None ELSE rows.primary

-----------------------------------------------------------------------------
(* The API and the other operators *)

Upload(p, isPrimary) ==
    /\ p \notin db.used
    /\ db' = [photos |-> db.photos \cup {p}, used |-> db.used \cup {p},
              primary |-> primaryAfter(db, p, isPrimary)]

Update(p, isPrimary) ==
    p \in db.photos /\ db' = [db EXCEPT !.primary = primaryAfter(db, p, isPrimary)]

Remove(p) ==
    p \in db.photos /\ db' = [db EXCEPT !.photos = @ \ {p}, !.primary = primaryAfter(db, p, FALSE)]

\* What was done may be answered by an error, when the answer is lost.
Serve(i) ==
    LET c == calls[i]
    IN  /\ waiting(i)
        /\ \/ c.op \in loads /\ Reply(i, db) /\ UNCHANGED db
           \/ c.op = "upload" /\ \E p \in Photos : Upload(p, c.arg) /\ Reply(i, p)
           \/ c.op \in {"primary", "save"} /\ Update(c.arg.photo, c.arg.isPrimary) /\ Reply(i, None)
           \/ c.op = "delete" /\ Remove(c.arg.photo) /\ Reply(i, None)
           \/ c.op = "download" /\ c.arg.photo \in db.photos /\ Reply(i, None) /\ UNCHANGED db
           \/ Fail(i) /\ UNCHANGED db
        /\ ui' = [ui EXCEPT !.exact = @ /\ (calls'[i].ok \/ db' = db)]

SomebodyElse ==
    /\ \E p \in Photos : Remove(p) \/ \E isPrimary \in BOOLEAN : Upload(p, isPrimary) \/ Update(p, isPrimary)
    /\ ui' = [ui EXCEPT !.exact = FALSE, !.alone = FALSE]
    /\ UNCHANGED calls

-----------------------------------------------------------------------------
(* VehiclePhotosPanel *)

\* The editor of a photo is part of its card.  It goes with what it keeps when
\* the card goes, or when another one is opened; which photo is being edited is
\* kept by the gallery.
editorGone(u) == [u EXCEPT !.saving = FALSE, !.orphans = @ \cup callsOf({"save"})]

setPhotos(u, rows) ==
    LET v == [u EXCEPT !.photos = rows.photos, !.primary = rows.primary]
    IN  IF u.editing \in rows.photos THEN v ELSE editorGone(v)

LoadArrives(i) ==
    LET u == [ui EXCEPT !.isLoading = FALSE, !.isRefreshing = FALSE]
    IN  /\ answered(i) /\ calls[i].op \in loads /\ Finish(i)
        /\ ui' = IF calls[i].ok
                 THEN [setPhotos(u, calls[i].data) EXCEPT !.exact = @ \/ ui.alone]
                 ELSE u
        /\ UNCHANGED db

Refresh ==
    /\ ~ui.isRefreshing
    /\ Call("refresh", None)
    /\ ui' = [ui EXCEPT !.isRefreshing = TRUE,
                        !.exact = @ /\ callsOf(changes) = {},
                        !.alone = callsOf(changes \cup loads) = {}]
    /\ UNCHANGED db

\* A change is sent; what else is under way is observed.
Changes(op, arg, u) ==
    /\ Call(op, arg)
    /\ ui' = [u EXCEPT !.exact = @ /\ callsOf(changes \cup loads) = {}, !.alone = FALSE]
    /\ UNCHANGED db

-----------------------------------------------------------------------------
(* VehiclePhotoUploadForm *)

UploadPhoto ==
    /\ ~ui.uploading
    /\ \E isPrimary \in BOOLEAN : Changes("upload", isPrimary, [ui EXCEPT !.uploading = TRUE])

\* The photo joins the list as it is now.
handleUploaded(u, p, isPrimary) ==
    setPhotos(u, [photos |-> u.photos \cup {p}, primary |-> primaryAfter(u, p, isPrimary)])

UploadAnswered(i) ==
    LET c == calls[i]
        u == [ui EXCEPT !.uploading = FALSE]
    IN  /\ answered(i) /\ c.op = "upload" /\ Finish(i)
        /\ ui' = IF c.ok THEN handleUploaded(u, c.data, c.arg) ELSE u
        /\ UNCHANGED db

-----------------------------------------------------------------------------
(* VehiclePhotoGallery *)

galleryPhotos == IF ui.isLoading THEN {} ELSE ui.photos
enabled(p) == p \in galleryPhotos /\ p # ui.busy

\* What the handlers of the gallery remember: the photo, and the list they saw.
Seen(p, isPrimary) ==
    [photo |-> p, isPrimary |-> isPrimary, photos |-> ui.photos, primary |-> ui.primary]

handlePrimary(p) ==
    enabled(p) /\ p # ui.primary /\ Changes("primary", Seen(p, TRUE), [ui EXCEPT !.busy = p])

handleDelete(p) == enabled(p) /\ Changes("delete", Seen(p, FALSE), [ui EXCEPT !.busy = p])

handleDownload(p) ==
    enabled(p) /\ Call("download", [photo |-> p]) /\ ui' = [ui EXCEPT !.busy = p] /\ UNCHANGED db

\* The list that is put back: the one the handler saw, changed by what it did.
changed(op, seen) ==
    [photos |-> IF op = "delete" THEN seen.photos \ {seen.photo} ELSE seen.photos,
     primary |-> primaryAfter(seen, seen.photo, seen.isPrimary)]

\* There is one slot for the busy photo, freed whatever it names.
GalleryAnswered(i) ==
    LET c == calls[i]
        u == [ui EXCEPT !.busy = None]
    IN  /\ answered(i) /\ c.op \in {"primary", "delete", "download"} /\ Finish(i)
        /\ ui' = IF c.ok /\ c.op # "download" THEN setPhotos(u, changed(c.op, c.arg)) ELSE u
        /\ UNCHANGED db

-----------------------------------------------------------------------------
(* VehiclePhotoMetadataEditor *)

editorShown == ui.editing \in galleryPhotos

\* To open the editor of the photo it is open for leaves it as it is.
Edit(p) ==
    /\ enabled(p)
    /\ ui' = IF p = ui.editing THEN ui ELSE [editorGone(ui) EXCEPT !.editing = p]
    /\ UNCHANGED <<db, calls>>

CancelEdit ==
    /\ editorShown /\ ~ui.saving
    /\ ui' = [editorGone(ui) EXCEPT !.editing = None]
    /\ UNCHANGED <<db, calls>>

SubmitEdit ==
    /\ editorShown /\ ~ui.saving
    /\ \E isPrimary \in BOOLEAN :
          Changes("save", Seen(ui.editing, isPrimary), [ui EXCEPT !.saving = TRUE])

\* A success closes the editor, also the one of another photo that was opened
\* since.
SaveAnswered(i) ==
    LET c == calls[i]
        u == [ui EXCEPT !.saving = IF i \in ui.orphans THEN @ ELSE FALSE]
        saved == [editorGone(setPhotos(u, changed("save", c.arg))) EXCEPT !.editing = None]
    IN  /\ answered(i) /\ c.op = "save" /\ Finish(i)
        /\ ui' = IF c.ok THEN [saved EXCEPT !.orphans = @ \ {i}] ELSE [u EXCEPT !.orphans = @ \ {i}]
        /\ UNCHANGED db

-----------------------------------------------------------------------------
Operator ==
    \/ Refresh \/ UploadPhoto \/ CancelEdit \/ SubmitEdit
    \/ \E p \in Photos : handlePrimary(p) \/ handleDownload(p) \/ handleDelete(p) \/ Edit(p)

Receive(i) == LoadArrives(i) \/ UploadAnswered(i) \/ GalleryAnswered(i) \/ SaveAnswered(i)

Next == Operator \/ SomebodyElse \/ \E i \in Slots : Serve(i) \/ Receive(i)

-----------------------------------------------------------------------------
(* Properties *)

\* A button is disabled only while what it started is under way.
BusyWhileUnderWay ==
    /\ ui.isLoading \/ ui.isRefreshing => callsOf(loads) # {}
    /\ ui.uploading <=> callsOf({"upload"}) # {}
    /\ ui.busy # None =>
          \E i \in callsOf({"primary", "delete", "download"}) : calls[i].arg.photo = ui.busy
    /\ ui.saving => callsOf({"save"}) \ ui.orphans # {}

\* A list that was loaded while nothing was changed, and changed one thing at a
\* time since, none of them by somebody else or with a lost answer, is the one
\* of the API, and so is the primary photo.
OwnStepIsShown ==
    ui.exact /\ callsOf(changes) = {} => ui.photos = db.photos /\ ui.primary = db.primary
=============================================================================
