---------------------------- MODULE StoredFiles ----------------------------
(***************************************************************************)
(* Documents of shipments (DocumentsService) and photos of vehicles        *)
(* (VehiclePhotosService): a row in the database and a file, on the disk   *)
(* of the API or at Cloudinary, which no transaction spans.                *)
(*                                                                         *)
(* A worker is a request in flight, its step the await it is stopped at.   *)
(* A document or photo stands for its row and its file, whose name is      *)
(* drawn anew for every upload.                                            *)
(***************************************************************************)
EXTENDS Naturals, FiniteSets

CONSTANTS
    Workers,    \* requests the API process may have in flight
    Shipments,
    Vehicles,
    Documents,  \* the files that may be uploaded, each once
    Photos,
    MaxCrashes  \* bound: how often the process dies

NoRow == [storageProvider |-> "no row"]

ASSUME FileConstants ==
    /\ Documents \cap Photos = {}
    /\ Shipments \cap Vehicles = {}
    /\ NoRow \notin Shipments
    /\ MaxCrashes \in Nat

StorageProvider == {"LOCAL", "CLOUDINARY"}
PhotoRow == [vehicle: Vehicles, isPrimary: BOOLEAN,
             storageProvider: StorageProvider]

VARIABLES
    owners,        \* the shipments and vehicles that exist
    document,      \* [Documents -> shipment of the row, or NoRow]
    photo,         \* [Photos -> row, or NoRow]
    stored,        \* [StorageProvider -> the files that are there]
    isConfigured,  \* whether Cloudinary is configured
    request,       \* [Workers -> the request being served, or NoRequest]
    uploaded,      \* the files sent so far
    crashes        \* how often the process died

rowVars == <<owners, document, photo>>

VARIABLES   \* observers: no guard reads them
    abandoned,     \* files that a failure, a crash or a cascade left behind
    doomed,        \* photos whose removal was asked for
    raced          \* vehicles on which two promotions to primary overlapped

observers == <<abandoned, doomed, raced>>
vars == <<owners, document, photo, stored, isConfigured, request, uploaded,
          crashes, abandoned, doomed, raced>>

NoRequest == [step |-> "idle"]

\* A request about a document: its file and the shipment of an upload.
DocumentRequest == [step: {"received", "inserting", "discarding", "deleting",
                           "unlinking"},
                    file: Documents, shipment: Shipments]

\* A request about a photo: an upload or an update to isPrimary, or a removal;
\* the vehicle and provider it read or chose; the primary photos it found
\* (others) and cleared in its transaction, whose rows it has locked.
PhotoRequest == [step: {"storing", "reading", "clearing", "writing",
                        "compensating", "unstoring", "deletingPhoto"},
                 file: Photos, isUpload: BOOLEAN, row: PhotoRow,
                 others: SUBSET Photos, cleared: SUBSET Photos]

TypeOK ==
    /\ owners \subseteq Shipments \cup Vehicles
    /\ document \in [Documents -> Shipments \cup {NoRow}]
    /\ photo \in [Photos -> PhotoRow \cup {NoRow}]
    /\ stored \in [StorageProvider -> SUBSET (Documents \cup Photos)]
    /\ isConfigured \in BOOLEAN
    /\ request \in [Workers ->
                      DocumentRequest \cup PhotoRequest \cup {NoRequest}]
    /\ uploaded \subseteq Documents \cup Photos
    /\ crashes \in 0 .. MaxCrashes
    /\ abandoned \subseteq Documents \cup Photos
    /\ doomed \subseteq Photos
    /\ raced \subseteq Vehicles

Init ==
    /\ owners = Shipments \cup Vehicles
    /\ document = [d \in Documents |-> NoRow]
    /\ photo = [p \in Photos |-> NoRow]
    /\ stored = [s \in StorageProvider |-> {}]
    /\ isConfigured \in BOOLEAN
    /\ request = [w \in Workers |-> NoRequest]
    /\ uploaded = {}
    /\ crashes = 0
    /\ abandoned = {}
    /\ doomed = {}
    /\ raced = {}

-----------------------------------------------------------------------------
(* The parts the handlers share.  A definition marked faulty is a plausible  *)
(* mistake in the one after it, kept to show which property notices it; no   *)
(* action uses it.                                                           *)

Serving(w, step) == request[w] # NoRequest /\ request[w].step = step
Answer(w) == request' = [request EXCEPT ![w] = NoRequest]
Proceed(w, step) == request' = [request EXCEPT ![w].step = step]

\* A request that fails changes nothing more.
Fail(w) ==
    /\ Answer(w)
    /\ UNCHANGED <<rowVars, stored, isConfigured, uploaded, crashes, observers>>

\* The file is taken from its store; one that is not there is no failure.
RemoveFrom(provider, f) ==
    stored' = [stored EXCEPT ![provider] = @ \ {f}]

hasRow(f) ==
    IF f \in Documents THEN document[f] # NoRow ELSE photo[f] # NoRow

primaryPhotos(v) ==
    {p \in Photos : /\ photo[p] # NoRow
                    /\ photo[p].vehicle = v
                    /\ photo[p].isPrimary}

\* A row that a transaction cleared is locked until the transaction ends.
lockedByOthers(w) ==
    UNION {request[v].cleared : v \in {u \in Workers \ {w} :
                                          Serving(u, "writing")}}

-----------------------------------------------------------------------------
(* Documents *)

\* The upload middleware writes the file before anything is checked.
ReceiveDocument(w, d, s) ==
    /\ request[w] = NoRequest
    /\ d \notin uploaded
    /\ uploaded' = uploaded \cup {d}
    /\ stored' = [stored EXCEPT !["LOCAL"] = @ \cup {d}]
    /\ request' = [request EXCEPT ![w] =
                      [step |-> "received", file |-> d, shipment |-> s]]
    /\ UNCHANGED <<rowVars, isConfigured, crashes, observers>>

\* The title or category is refused, or the insert fails: the file stays.
LeaveDocument(w) ==
    /\ Serving(w, "received") \/ Serving(w, "inserting")
    /\ abandoned' = abandoned \cup {request[w].file}
    /\ Answer(w)
    /\ UNCHANGED <<rowVars, stored, isConfigured, uploaded, crashes, doomed,
                   raced>>

CheckShipment(w) ==
    /\ Serving(w, "received")
    /\ Proceed(w, IF request[w].shipment \in owners
                  THEN "inserting" ELSE "discarding")
    /\ UNCHANGED <<rowVars, stored, isConfigured, uploaded, crashes, observers>>

InsertDocument(w) ==
    /\ Serving(w, "inserting")
    /\ request[w].shipment \in owners
    /\ document' = [document EXCEPT ![request[w].file] = request[w].shipment]
    /\ Answer(w)
    /\ UNCHANGED <<owners, photo, stored, isConfigured, uploaded, crashes,
                   observers>>

\* Faulty: the document is not looked for.
BeginRemoveUnseen(w, d) ==
    /\ request[w] = NoRequest
    /\ request' = [request EXCEPT ![w] = [step |-> "deleting", file |-> d,
                                         shipment |-> document[d]]]
    /\ UNCHANGED <<rowVars, stored, isConfigured, uploaded, crashes, observers>>

BeginRemoveDocument(w, d) ==
    /\ request[w] = NoRequest
    /\ document[d] # NoRow
    /\ request' = [request EXCEPT ![w] = [step |-> "deleting", file |-> d,
                                         shipment |-> document[d]]]
    /\ UNCHANGED <<rowVars, stored, isConfigured, uploaded, crashes, observers>>

\* Faulty: the file is removed first, as for photos.
UnlinkBeforeDelete(w) ==
    /\ Serving(w, "deleting")
    /\ RemoveFrom("LOCAL", request[w].file)
    /\ Proceed(w, "unlinking")
    /\ UNCHANGED <<rowVars, isConfigured, uploaded, crashes, observers>>

\* The row may have been deleted since it was found.
DeleteDocument(w) ==
    /\ Serving(w, "deleting")
    /\ document[request[w].file] # NoRow
    /\ document' = [document EXCEPT ![request[w].file] = NoRow]
    /\ Proceed(w, "unlinking")
    /\ UNCHANGED <<owners, photo, stored, isConfigured, uploaded, crashes,
                   observers>>

FailDelete(w) == Serving(w, "deleting") /\ Fail(w)

\* The last step of a removal, and of an upload to a shipment that is not
\* there.  When the disk refuses, the file stays.
UnlinkDocument(w) ==
    /\ Serving(w, "unlinking") \/ Serving(w, "discarding")
    /\ \/ RemoveFrom("LOCAL", request[w].file) /\ UNCHANGED abandoned
       \/ abandoned' = abandoned \cup {request[w].file} /\ UNCHANGED stored
    /\ Answer(w)
    /\ UNCHANGED <<rowVars, isConfigured, uploaded, crashes, doomed, raced>>

-----------------------------------------------------------------------------
(* Uploading a photo *)

chosenProvider == IF isConfigured THEN "CLOUDINARY" ELSE "LOCAL"

BeginUploadPhoto(w, p, v, isPrimary) ==
    /\ request[w] = NoRequest
    /\ v \in owners
    /\ p \notin uploaded
    /\ uploaded' = uploaded \cup {p}
    /\ request' = [request EXCEPT ![w] =
          [step |-> "storing", file |-> p, isUpload |-> TRUE,
           row |-> [vehicle |-> v, isPrimary |-> isPrimary,
                    storageProvider |-> chosenProvider],
           others |-> {}, cleared |-> {}]]
    /\ UNCHANGED <<rowVars, stored, isConfigured, crashes, observers>>

\* The first statement of the transaction, unless the photo is not primary.
firstStep(row) == IF row.isPrimary THEN "reading" ELSE "writing"

StorePhoto(w) ==
    /\ Serving(w, "storing")
    /\ stored' = [stored EXCEPT ![request[w].row.storageProvider] =
                                    @ \cup {request[w].file}]
    /\ Proceed(w, firstStep(request[w].row))
    /\ UNCHANGED <<rowVars, isConfigured, uploaded, crashes, observers>>

\* The disk is full, Cloudinary refuses, or its answer is lost.
FailStore(w) ==
    /\ Serving(w, "storing")
    /\ \/ UNCHANGED <<stored, abandoned>>
       \/ /\ stored' = [stored EXCEPT ![request[w].row.storageProvider] =
                                           @ \cup {request[w].file}]
          /\ abandoned' = abandoned \cup {request[w].file}
    /\ Answer(w)
    /\ UNCHANGED <<rowVars, isConfigured, uploaded, crashes, doomed, raced>>

\* Faulty: the provider is left to the default of the column.
defaultProvider(row) == [row EXCEPT !.storageProvider = "LOCAL"]

recordedRow(row) == row

\* What a transaction writes on its commit.
WritePhoto(w, row) ==
    photo' = [p \in Photos |->
        IF p = request[w].file THEN row
        ELSE IF p \in request[w].cleared THEN [photo[p] EXCEPT !.isPrimary = FALSE]
        ELSE photo[p]]

InsertPhoto(w) ==
    /\ Serving(w, "writing")
    /\ request[w].isUpload
    /\ request[w].row.vehicle \in owners
    /\ WritePhoto(w, recordedRow(request[w].row))
    /\ Answer(w)
    /\ UNCHANGED <<owners, document, stored, isConfigured, uploaded, crashes,
                   observers>>

\* A statement fails: PostgreSQL found a deadlock, the vehicle or the photo is
\* gone, the connection is lost.  An upload then takes its file back.
AbortPhoto(w) ==
    /\ request[w] # NoRequest
    /\ request[w].step \in {"reading", "clearing", "writing"}
    /\ IF request[w].isUpload
       THEN request' = [request EXCEPT ![w].step = "compensating",
                                       ![w].cleared = {}]
       ELSE Answer(w)
    /\ UNCHANGED <<rowVars, stored, isConfigured, uploaded, crashes, observers>>

RemoveStoredFile(w) ==
    /\ Serving(w, "compensating")
    /\ \/ /\ RemoveFrom(request[w].row.storageProvider, request[w].file)
          /\ UNCHANGED abandoned
       \/ /\ abandoned' = abandoned \cup {request[w].file}
          /\ UNCHANGED stored
    /\ Answer(w)
    /\ UNCHANGED <<rowVars, isConfigured, uploaded, crashes, doomed, raced>>

-----------------------------------------------------------------------------
(* One primary photo *)

BeginUpdatePhoto(w, p, isPrimary) ==
    /\ request[w] = NoRequest
    /\ photo[p] # NoRow
    /\ request' = [request EXCEPT ![w] =
          LET row == [photo[p] EXCEPT !.isPrimary = isPrimary]
          IN  [step |-> firstStep(row), file |-> p, isUpload |-> FALSE,
               row |-> row, others |-> {}, cleared |-> {}]]
    /\ UNCHANGED <<rowVars, stored, isConfigured, uploaded, crashes, observers>>

\* Faulty: the photo that is primary already is left.
noOthers(w) == {}

otherPrimaries(w) == primaryPhotos(request[w].row.vehicle) \ {request[w].file}

\* Requests whose transactions are about to make a photo of v primary.
promoting(v) ==
    {u \in Workers : /\ Serving(u, "clearing") \/ Serving(u, "writing")
                     /\ request[u].row.vehicle = v
                     /\ request[u].row.isPrimary}

\* updateMany works on the primary photos that are committed when it starts,
\* waits for their locks, and then clears those that still are primary.
ReadPrimaries(w) ==
    /\ Serving(w, "reading")
    /\ request' = [request EXCEPT ![w].step = "clearing",
                                  ![w].others = otherPrimaries(w)]
    /\ raced' = IF promoting(request[w].row.vehicle) = {} THEN raced
                ELSE raced \cup {request[w].row.vehicle}
    /\ UNCHANGED <<rowVars, stored, isConfigured, uploaded, crashes, abandoned,
                   doomed>>

clearable(w) == request[w].others \cap primaryPhotos(request[w].row.vehicle)

\* Faulty: the photos are cleared outside a transaction.
ClearAtOnce(w) ==
    /\ Serving(w, "clearing")
    /\ photo' = [p \in Photos |-> IF p \in clearable(w)
                                  THEN [photo[p] EXCEPT !.isPrimary = FALSE]
                                  ELSE photo[p]]
    /\ Proceed(w, "writing")
    /\ UNCHANGED <<owners, document, stored, isConfigured, uploaded, crashes,
                   observers>>

ClearPrimaries(w) ==
    /\ Serving(w, "clearing")
    /\ request[w].others \cap lockedByOthers(w) = {}
    /\ request' = [request EXCEPT ![w].step = "writing", ![w].others = {},
                                  ![w].cleared = clearable(w)]
    /\ UNCHANGED <<rowVars, stored, isConfigured, uploaded, crashes, observers>>

UpdatePhoto(w) ==
    /\ Serving(w, "writing")
    /\ ~request[w].isUpload
    /\ photo[request[w].file] # NoRow
    /\ request[w].file \notin lockedByOthers(w)
    /\ WritePhoto(w, request[w].row)
    /\ Answer(w)
    /\ UNCHANGED <<owners, document, stored, isConfigured, uploaded, crashes,
                   observers>>

-----------------------------------------------------------------------------
(* Removing a photo *)

BeginRemovePhoto(w, p) ==
    /\ request[w] = NoRequest
    /\ photo[p] # NoRow
    /\ request' = [request EXCEPT ![w] =
          [step |-> "unstoring", file |-> p, isUpload |-> FALSE,
           row |-> photo[p], others |-> {}, cleared |-> {}]]
    /\ doomed' = doomed \cup {p}
    /\ UNCHANGED <<rowVars, stored, isConfigured, uploaded, crashes, abandoned,
                   raced>>

\* Faulty: the store is the one that a new photo would go to.
presentStore(row) == chosenProvider

storeOf(row) == row.storageProvider

\* Cloudinary refuses to delete when it is not configured any more.
UnstorePhoto(w) ==
    /\ Serving(w, "unstoring")
    /\ storeOf(request[w].row) = "CLOUDINARY" => isConfigured
    /\ RemoveFrom(storeOf(request[w].row), request[w].file)
    /\ Proceed(w, "deletingPhoto")
    /\ UNCHANGED <<rowVars, isConfigured, uploaded, crashes, observers>>

DeletePhoto(w) ==
    /\ Serving(w, "deletingPhoto")
    /\ photo[request[w].file] # NoRow
    /\ request[w].file \notin lockedByOthers(w)
    /\ photo' = [photo EXCEPT ![request[w].file] = NoRow]
    /\ Answer(w)
    /\ UNCHANGED <<owners, document, stored, isConfigured, uploaded, crashes,
                   observers>>

\* A store or the database fails, or the row is gone.
FailRemovePhoto(w) ==
    /\ Serving(w, "unstoring") \/ Serving(w, "deletingPhoto")
    /\ Fail(w)

-----------------------------------------------------------------------------
(* What goes on around them *)

\* The rows of a shipment or vehicle are deleted with it, the files are not.
RemoveOwner(o) ==
    LET documents == {d \in Documents : document[d] = o}
        photos == {p \in Photos : photo[p] # NoRow /\ photo[p].vehicle = o}
    IN  /\ o \in owners
        /\ \A w \in Workers :
              Serving(w, "writing") => photos \cap request[w].cleared = {}
        /\ owners' = owners \ {o}
        /\ document' = [d \in Documents |->
                           IF d \in documents THEN NoRow ELSE document[d]]
        /\ photo' = [p \in Photos |-> IF p \in photos THEN NoRow ELSE photo[p]]
        /\ abandoned' = abandoned \cup documents \cup photos
        /\ UNCHANGED <<stored, isConfigured, request, uploaded, crashes, doomed,
                       raced>>

\* The process dies and is started again, perhaps with another configuration.
Crash ==
    /\ crashes < MaxCrashes
    /\ crashes' = crashes + 1
    /\ request' = [w \in Workers |-> NoRequest]
    /\ isConfigured' \in BOOLEAN
    /\ abandoned' = abandoned \cup
          {f \in stored["LOCAL"] \cup stored["CLOUDINARY"] : ~hasRow(f)}
    /\ UNCHANGED <<rowVars, stored, uploaded, doomed, raced>>

Serve(w) ==
    \/ LeaveDocument(w) \/ CheckShipment(w) \/ InsertDocument(w)
    \/ DeleteDocument(w) \/ FailDelete(w) \/ UnlinkDocument(w)
    \/ StorePhoto(w) \/ FailStore(w) \/ InsertPhoto(w) \/ AbortPhoto(w)
    \/ RemoveStoredFile(w)
    \/ ReadPrimaries(w) \/ ClearPrimaries(w) \/ UpdatePhoto(w)
    \/ UnstorePhoto(w) \/ DeletePhoto(w) \/ FailRemovePhoto(w)

Arrive(w) ==
    \/ \E d \in Documents :
          \/ \E s \in Shipments : ReceiveDocument(w, d, s)
          \/ BeginRemoveDocument(w, d)
    \/ \E p \in Photos :
          \/ \E v \in Vehicles, b \in BOOLEAN : BeginUploadPhoto(w, p, v, b)
          \/ \E b \in BOOLEAN : BeginUpdatePhoto(w, p, b)
          \/ BeginRemovePhoto(w, p)

Next ==
    \/ \E w \in Workers : Arrive(w)
    \/ \E w \in Workers : Serve(w)
    \/ \E o \in owners : RemoveOwner(o)
    \/ Crash

Spec == Init /\ [][Next]_vars

-----------------------------------------------------------------------------

\* A document that is listed can be downloaded: at no moment, not even between
\* the steps of requests that overlap or after a crash, is a row without file.
DocumentHasFile ==
    \A d \in Documents : document[d] # NoRow => d \in stored["LOCAL"]

\* A photo that nobody asked to remove can be viewed, from the store its row
\* names, whatever the store new photos go to by now.
PhotoHasFile ==
    \A p \in Photos \ doomed :
        photo[p] # NoRow => p \in stored[photo[p].storageProvider]

\* A file without a row belongs to a request in flight, or to one of the
\* failures that the code leaves it behind in: no upload that fails in its
\* transaction and no removal that succeeds leaves a file.
NothingLeftBehind ==
    \A f \in (stored["LOCAL"] \cup stored["CLOUDINARY"]) \ abandoned :
        \/ hasRow(f)
        \/ \E w \in Workers : request[w] # NoRequest /\ request[w].file = f

\* A vehicle has one primary photo at most, unless two requests to make one
\* primary overlapped.
OnePrimary ==
    \A v \in Vehicles \ raced : Cardinality(primaryPhotos(v)) <= 1

\* A vehicle that has a primary photo loses it only when that photo is removed
\* or set not primary: promoting another one, however it overlaps or fails,
\* never leaves the vehicle without.
PrimaryStays ==
    [][\A v \in Vehicles :
          (primaryPhotos(v) # {} /\ primaryPhotos(v)' = {}) =>
              \/ \E p \in primaryPhotos(v) : photo'[p] = NoRow
              \/ \E w \in Workers : /\ UpdatePhoto(w)
                                    /\ ~request[w].row.isPrimary]_vars

=============================================================================
