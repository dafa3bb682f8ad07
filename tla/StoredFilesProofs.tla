------------------------- MODULE StoredFilesProofs -------------------------
(***************************************************************************)
(* Theorems about StoredFiles, for any number of requests, shipments,      *)
(* vehicles, documents, photos and crashes.                                *)
(***************************************************************************)
EXTENDS StoredFiles, FiniteSetTheorems, TLAPS

Files == Documents \cup Photos
Requests == DocumentRequest \cup PhotoRequest \cup {NoRequest}

uploadsDocument(r) == r.step \in {"received", "inserting", "discarding"}
inTransaction(r) == r.step \in {"reading", "clearing", "writing"}
uploadsPhoto(r) ==
    \/ r.step \in {"storing", "compensating"}
    \/ inTransaction(r) /\ r.isUpload
Uploading(r) == uploadsDocument(r) \/ uploadsPhoto(r)
removesPhoto(r) == r.step \in {"unstoring", "deletingPhoto"}
updatesPhoto(r) == inTransaction(r) /\ ~r.isUpload

\* The request that will see to a file without a row.
Responsible(r) == Uploading(r) \/ r.step = "unlinking"

DocumentRequestOK(r) ==
    /\ uploadsDocument(r) => document[r.file] = NoRow
    /\ uploadsDocument(r) => r.file \in stored["LOCAL"]
    /\ r.step = "unlinking" => document[r.file] = NoRow

\* A photo is in no other store than the one its request knows; the row an
\* update or removal knows is still the same, if it is still there.
PhotoRequestOK(r) ==
    /\ r.step \in {"storing", "compensating"} => r.isUpload
    /\ uploadsPhoto(r) => photo[r.file] = NoRow
    /\ \A s \in StorageProvider :
           r.file \in stored[s] => s = r.row.storageProvider
    /\ uploadsPhoto(r) /\ inTransaction(r) =>
           r.file \in stored[r.row.storageProvider]
    /\ removesPhoto(r) => r.file \in doomed
    /\ r.step \in {"storing", "deletingPhoto"} =>
           \A s \in StorageProvider : r.file \notin stored[s]
    /\ (updatesPhoto(r) /\ photo[r.file] # NoRow) =>
           /\ photo[r.file].vehicle = r.row.vehicle
           /\ photo[r.file].storageProvider = r.row.storageProvider

\* The rows a transaction cleared are still there when it commits.
ClearedOK(r) ==
    /\ r.step # "writing" => r.cleared = {}
    /\ \A p \in r.cleared : photo[p] # NoRow /\ photo[p].vehicle = r.row.vehicle
    /\ r.cleared # {} => r.row.isPrimary
    /\ r.file \notin r.cleared
    /\ r.step \in {"reading", "clearing"} => r.row.isPrimary
    /\ r.step = "clearing" => r.file \notin r.others

RequestOK(r) ==
    /\ r.file \in uploaded
    /\ r \in DocumentRequest => DocumentRequestOK(r)
    /\ r \in PhotoRequest => PhotoRequestOK(r) /\ ClearedOK(r)

RequestsOK == \A w \in Workers : request[w] # NoRequest => RequestOK(request[w])

\* Only one request serves a file that is being uploaded.
Sole ==
    \A v, w \in Workers :
        (/\ v # w
         /\ request[v] # NoRequest /\ request[w] # NoRequest
         /\ Uploading(request[v])) => request[v].file # request[w].file

\* Files are stored after they were sent, documents on the disk, and photos in
\* the store their row names.
Placed ==
    /\ \A f \in Files : hasRow(f) => f \in uploaded
    /\ \A s \in StorageProvider : stored[s] \subseteq uploaded
    /\ \A d \in Documents : d \notin stored["CLOUDINARY"]
    /\ \A p \in Photos, s \in StorageProvider :
           (photo[p] # NoRow /\ p \in stored[s]) => s = photo[p].storageProvider

Accounted ==
    \A f \in Files, s \in StorageProvider :
        f \in stored[s] =>
            \/ f \in abandoned
            \/ hasRow(f)
            \/ \E w \in Workers : /\ request[w] # NoRequest
                                  /\ request[w].file = f
                                  /\ Responsible(request[w])

Inv ==
    /\ TypeOK
    /\ RequestsOK
    /\ Sole
    /\ Placed
    /\ Accounted
    /\ DocumentHasFile
    /\ PhotoHasFile

-----------------------------------------------------------------------------

\* A row is told from the absence of one by its store.
LEMMA RowNotNoRow ==
    ASSUME NEW row \in PhotoRow
    PROVE  row # NoRow
  <1>1. row.storageProvider \in StorageProvider
    BY DEF PhotoRow
  <1>2. NoRow.storageProvider = "no row"
    BY DEF NoRow
  <1>3. "no row" \notin StorageProvider
    BY DEF StorageProvider
  <1>4. QED
    BY <1>1, <1>2, <1>3

LEMMA InitInv == Init => Inv
  <1> SUFFICES ASSUME Init PROVE Inv
    OBVIOUS
  <1> USE DEF Init
  <1>1. TypeOK
    <2>1. isConfigured \in BOOLEAN
      BY Zenon
    <2>2. /\ document \in [Documents -> Shipments \cup {NoRow}]
          /\ photo \in [Photos -> PhotoRow \cup {NoRow}]
          /\ stored \in [StorageProvider -> SUBSET (Documents \cup Photos)]
          /\ request \in [Workers ->
                            DocumentRequest \cup PhotoRequest \cup {NoRequest}]
          /\ crashes \in 0 .. MaxCrashes
      BY FileConstants
    <2>3. QED
      BY <2>1, <2>2 DEF TypeOK
  <1>2. RequestsOK /\ Sole
    BY DEF RequestsOK, Sole
  <1>3. Placed
    BY DEF Placed, Files, hasRow, StorageProvider
  <1>4. Accounted
    BY DEF Accounted, StorageProvider
  <1>5. DocumentHasFile /\ PhotoHasFile
    BY DEF DocumentHasFile, PhotoHasFile
  <1>6. QED
    BY <1>1, <1>2, <1>3, <1>4, <1>5 DEF Inv

\* A step that only moves a request on, answers it or lets one arrive.
LEMMA RequestStep ==
    ASSUME Inv, NEW w \in Workers, NEW r \in Requests,
           r # NoRequest => RequestOK(r) \/ RequestOK(r)',
           r # NoRequest =>
               \A v \in Workers \ {w} :
                   (request[v] # NoRequest
                    /\ (Uploading(r) \/ Uploading(request[v]))) =>
                       request[v].file # r.file,
           request[w] # NoRequest =>
               \/ ~Responsible(request[w])
               \/ request[w].file \in abandoned'
               \/ \A s \in StorageProvider : request[w].file \notin stored[s]
               \/ /\ r # NoRequest
                  /\ r.file = request[w].file
                  /\ Responsible(r),
           request' = [request EXCEPT ![w] = r],
           UNCHANGED <<rowVars, stored, isConfigured, uploaded, crashes>>,
           abandoned \subseteq abandoned', abandoned' \subseteq Files,
           doomed \subseteq doomed', doomed' \subseteq Photos,
           raced' \subseteq Vehicles
    PROVE  Inv'
  <1> USE DEF rowVars
  <1>0. \A v \in Workers : request'[v] = IF v = w THEN r ELSE request[v]
    BY DEF Inv, TypeOK
  <1>1. TypeOK'
    BY <1>0 DEF Inv, TypeOK, Requests, Files
  <1>2. RequestsOK'
    BY <1>0 DEF Inv, RequestsOK, RequestOK, DocumentRequestOK, PhotoRequestOK,
                ClearedOK
  <1>3. Sole'
    BY <1>0 DEF Inv, Sole
  <1>4. Placed' /\ DocumentHasFile' /\ PhotoHasFile'
    BY DEF Inv, Placed, DocumentHasFile, PhotoHasFile, hasRow
  <1>5. Accounted'
    <2> SUFFICES ASSUME NEW f \in Files, NEW s \in StorageProvider,
                        f \in stored[s], f \notin abandoned', ~hasRow(f)
                 PROVE  \E v \in Workers : /\ request'[v] # NoRequest
                                           /\ request'[v].file = f
                                           /\ Responsible(request'[v])
      BY DEF Accounted, hasRow
    <2>1. PICK v \in Workers : /\ request[v] # NoRequest
                               /\ request[v].file = f
                               /\ Responsible(request[v])
      BY DEF Inv, Accounted
    <2>2. QED
      BY <1>0, <2>1
  <1>6. QED
    BY <1>1, <1>2, <1>3, <1>4, <1>5 DEF Inv

-----------------------------------------------------------------------------
(* What is known of a request at a step *)

LEMMA DocumentKnown ==
    ASSUME Inv, NEW w \in Workers, request[w] # NoRequest,
           request[w].step \in {"received", "inserting", "discarding",
                                "deleting", "unlinking"}
    PROVE  /\ request[w] \in DocumentRequest
           /\ RequestOK(request[w])
           /\ DocumentRequestOK(request[w])
           /\ Uploading(request[w]) <=> uploadsDocument(request[w])
  <1>1. request[w] \in DocumentRequest
    BY DEF Inv, TypeOK, PhotoRequest
  <1>2. RequestOK(request[w])
    BY DEF Inv, RequestsOK
  <1>3. QED
    BY <1>1, <1>2 DEF RequestOK, Uploading, uploadsPhoto, inTransaction

LEMMA PhotoKnown ==
    ASSUME Inv, NEW w \in Workers, request[w] # NoRequest,
           request[w].step \in {"storing", "reading", "clearing", "writing",
                                "compensating", "unstoring", "deletingPhoto"}
    PROVE  /\ request[w] \in PhotoRequest
           /\ RequestOK(request[w])
           /\ PhotoRequestOK(request[w])
           /\ ClearedOK(request[w])
           /\ Uploading(request[w]) <=> uploadsPhoto(request[w])
  <1>1. request[w] \in PhotoRequest
    BY DEF Inv, TypeOK, DocumentRequest
  <1>2. RequestOK(request[w])
    BY DEF Inv, RequestsOK
  <1>3. QED
    BY <1>1, <1>2 DEF RequestOK, Uploading, uploadsDocument

\* A request that goes on with its file.
LEMMA SoleKept ==
    ASSUME Inv, NEW w \in Workers, NEW r \in Requests, request[w] # NoRequest,
           r.file = request[w].file,
           Uploading(r) => Uploading(request[w])
    PROVE  \A v \in Workers \ {w} :
               (request[v] # NoRequest
                /\ (Uploading(r) \/ Uploading(request[v]))) =>
                   request[v].file # r.file
  BY DEF Inv, Sole

\* A request that arrives about a file that has a row.
LEMMA SoleArrives ==
    ASSUME Inv, NEW f \in Files, hasRow(f), NEW v \in Workers,
           request[v] # NoRequest, Uploading(request[v])
    PROVE  request[v].file # f
  <1>1. CASE uploadsDocument(request[v])
    BY <1>1, DocumentKnown, FileConstants
       DEF uploadsDocument, DocumentRequestOK, hasRow, DocumentRequest
  <1>2. CASE uploadsPhoto(request[v])
    <2>1. /\ photo[request[v].file] = NoRow
          /\ request[v].file \in Photos
      BY <1>2, PhotoKnown
         DEF uploadsPhoto, inTransaction, PhotoRequestOK, PhotoRequest
    <2>2. QED
      BY <2>1, FileConstants DEF hasRow
  <1>3. QED
    BY <1>1, <1>2 DEF Uploading

\* A request that fails and is not responsible for its file.
LEMMA FailStep ==
    ASSUME Inv, NEW w \in Workers, Fail(w), request[w] # NoRequest,
           \/ ~Responsible(request[w])
           \/ \A s \in StorageProvider : request[w].file \notin stored[s]
    PROVE  Inv'
  BY RequestStep DEF Fail, Answer, Requests, observers, Inv, TypeOK, Files

-----------------------------------------------------------------------------
(* Documents *)

\* What the row and the store of one file go through does not concern the
\* requests about other files.
LEMMA OthersKept ==
    ASSUME Inv, NEW v \in Workers, NEW f \in Files,
           request[v] # NoRequest, request[v].file # f,
           request'[v] = request[v],
           \A d \in Documents \ {f} : document'[d] = document[d],
           photo' = photo,
           \A s \in StorageProvider : stored'[s] \ {f} = stored[s] \ {f},
           uploaded \subseteq uploaded', doomed \subseteq doomed'
    PROVE  RequestOK(request[v])'
  <1>1. RequestOK(request[v])
    BY DEF Inv, RequestsOK
  <1>2. \A s \in StorageProvider :
            request[v].file \in stored'[s] <=> request[v].file \in stored[s]
    OBVIOUS
  <1>3. CASE request[v] \in DocumentRequest
    <2>1. request[v] \notin PhotoRequest
      BY <1>3 DEF DocumentRequest, PhotoRequest
    <2>2. request[v].file \in Documents
      BY <1>3 DEF DocumentRequest
    <2>3. QED
      BY <1>1, <1>2, <1>3, <2>1, <2>2
         DEF RequestOK, DocumentRequestOK, StorageProvider
  <1>4. CASE request[v] \in PhotoRequest
    <2>1. request[v] \notin DocumentRequest
      BY <1>4 DEF DocumentRequest, PhotoRequest
    <2>2. request[v].row.storageProvider \in StorageProvider
      BY <1>4 DEF PhotoRequest, PhotoRow
    <2>3. QED
      BY <1>1, <1>2, <1>4, <2>1, <2>2 DEF RequestOK, PhotoRequestOK, ClearedOK
  <1>5. QED
    BY <1>3, <1>4 DEF Inv, TypeOK

LEMMA ReceiveDocumentStep ==
    ASSUME Inv, NEW w \in Workers, NEW d \in Documents, NEW s \in Shipments,
           ReceiveDocument(w, d, s)
    PROVE  Inv'
  <1> USE DEF ReceiveDocument, rowVars, observers
  <1> DEFINE r == [step |-> "received", file |-> d, shipment |-> s]
  <1>0. /\ r \in DocumentRequest /\ r # NoRequest /\ Uploading(r)
        /\ r.file = d /\ r.step = "received"
    BY DEF DocumentRequest, NoRequest, Uploading, uploadsDocument
  <1>1. \A v \in Workers : request'[v] = IF v = w THEN r ELSE request[v]
    BY DEF Inv, TypeOK
  <1>2. \A t \in StorageProvider :
            stored'[t] = IF t = "LOCAL" THEN stored[t] \cup {d} ELSE stored[t]
    BY DEF Inv, TypeOK, StorageProvider
  <1>3. d \notin Photos /\ document[d] = NoRow
    BY FileConstants DEF Inv, Placed, hasRow, Files
  <1>4. \A v \in Workers : request[v] # NoRequest => request[v].file # d
    BY DEF Inv, RequestsOK, RequestOK
  <1> HIDE DEF r
  <1>5. TypeOK'
    BY <1>0, <1>1, <1>2 DEF Inv, TypeOK, StorageProvider
  <1>6. RequestsOK'
    <2> SUFFICES ASSUME NEW v \in Workers, request'[v] # NoRequest
                 PROVE  RequestOK(request[v])'
      BY DEF RequestsOK
    <2>1. CASE v = w
      <3>1. request'[v] = r
        BY <1>1, <2>1
      <3>2. r \notin PhotoRequest
        BY <1>0 DEF PhotoRequest
      <3>3. QED
        BY <1>0, <1>2, <1>3, <3>1, <3>2
           DEF RequestOK, DocumentRequestOK, StorageProvider
    <2>2. CASE v # w
      BY <1>1, <1>2, <1>4, <2>2, OthersKept DEF Files
    <2>3. QED
      BY <2>1, <2>2
  <1>7. Sole'
    BY <1>0, <1>1, <1>4 DEF Inv, Sole
  <1>8. Placed' /\ DocumentHasFile' /\ PhotoHasFile'
    BY <1>2, <1>3
       DEF Inv, Placed, DocumentHasFile, PhotoHasFile, hasRow, StorageProvider,
           Files, TypeOK, PhotoRow
  <1>9. Accounted'
    BY <1>0, <1>1, <1>2 DEF Inv, Accounted, hasRow, Responsible
  <1>10. QED
    BY <1>5, <1>6, <1>7, <1>8, <1>9 DEF Inv

LEMMA LeaveDocumentStep ==
    ASSUME Inv, NEW w \in Workers, LeaveDocument(w)
    PROVE  Inv'
  <1>1. request[w] \in DocumentRequest
    BY DocumentKnown DEF LeaveDocument, Serving
  <1>2. QED
    BY <1>1, RequestStep
       DEF LeaveDocument, Answer, Requests, Inv, TypeOK, Files, DocumentRequest

LEMMA CheckShipmentStep ==
    ASSUME Inv, NEW w \in Workers, CheckShipment(w)
    PROVE  Inv'
  <1> DEFINE step == IF request[w].shipment \in owners
                     THEN "inserting" ELSE "discarding"
             r == [request[w] EXCEPT !.step = step]
  <1>1. /\ request[w] # NoRequest /\ request[w].step = "received"
        /\ request[w] \in DocumentRequest
        /\ RequestOK(request[w]) /\ DocumentRequestOK(request[w])
    BY DocumentKnown DEF CheckShipment, Serving
  <1>2. step \in {"inserting", "discarding"}
    OBVIOUS
  <1> HIDE DEF step
  <1>3. /\ r \in DocumentRequest /\ r # NoRequest /\ r \notin PhotoRequest
        /\ r.file = request[w].file /\ r.step = step
    BY <1>1, <1>2 DEF DocumentRequest, PhotoRequest, NoRequest
  <1>4. request' = [request EXCEPT ![w] = r]
    BY DEF CheckShipment, Proceed, step
  <1> HIDE DEF r
  <1>5. RequestOK(r)
    BY <1>1, <1>2, <1>3 DEF RequestOK, DocumentRequestOK, uploadsDocument
  <1>6. Uploading(r) /\ Uploading(request[w])
    BY <1>1, <1>2, <1>3 DEF Uploading, uploadsDocument
  <1>7. QED
    BY <1>1, <1>3, <1>4, <1>5, <1>6, SoleKept, RequestStep
       DEF CheckShipment, Requests, Responsible, observers, Inv, TypeOK, Files

LEMMA BeginRemoveDocumentStep ==
    ASSUME Inv, NEW w \in Workers, NEW d \in Documents, BeginRemoveDocument(w, d)
    PROVE  Inv'
  <1> DEFINE r == [step |-> "deleting", file |-> d, shipment |-> document[d]]
  <1>1. /\ request[w] = NoRequest /\ document[d] # NoRow
        /\ document[d] \in Shipments /\ hasRow(d) /\ d \in uploaded
    BY DEF BeginRemoveDocument, Inv, TypeOK, Placed, hasRow, Files
  <1>2. /\ r \in DocumentRequest /\ r # NoRequest /\ r \notin PhotoRequest
        /\ r.file = d /\ r.step = "deleting"
    BY <1>1 DEF DocumentRequest, PhotoRequest, NoRequest
  <1>3. request' = [request EXCEPT ![w] = r]
    BY DEF BeginRemoveDocument
  <1> HIDE DEF r
  <1>4. RequestOK(r) /\ ~Uploading(r)
    BY <1>1, <1>2
       DEF RequestOK, DocumentRequestOK, uploadsDocument, Uploading,
           uploadsPhoto, inTransaction
  <1>5. \A v \in Workers :
            (request[v] # NoRequest /\ Uploading(request[v])) =>
                request[v].file # d
    BY <1>1, SoleArrives DEF Files
  <1>6. QED
    BY <1>1, <1>2, <1>3, <1>4, <1>5, RequestStep
       DEF BeginRemoveDocument, Requests, observers, Inv, TypeOK, Files

LEMMA FailDeleteStep ==
    ASSUME Inv, NEW w \in Workers, FailDelete(w)
    PROVE  Inv'
  BY FailStep DEF FailDelete, Serving, Responsible, Uploading, uploadsDocument,
                  uploadsPhoto, inTransaction

LEMMA InsertDocumentStep ==
    ASSUME Inv, NEW w \in Workers, InsertDocument(w)
    PROVE  Inv'
  <1> DEFINE d == request[w].file
  <1> USE DEF InsertDocument, observers
  <1>1. /\ request[w] # NoRequest /\ request[w].step = "inserting"
        /\ request[w] \in DocumentRequest /\ DocumentRequestOK(request[w])
        /\ RequestOK(request[w]) /\ Uploading(request[w])
    BY DocumentKnown DEF Serving, uploadsDocument
  <1>2. /\ d \in Documents /\ d \in stored["LOCAL"] /\ d \in uploaded
        /\ request[w].shipment \in Shipments
    BY <1>1 DEF DocumentRequest, DocumentRequestOK, RequestOK, uploadsDocument
  <1>3. /\ request' = [request EXCEPT ![w] = NoRequest]
        /\ \A v \in Workers :
               request'[v] = IF v = w THEN NoRequest ELSE request[v]
    BY DEF Answer, Inv, TypeOK
  <1>4. /\ \A e \in Documents :
               document'[e] = IF e = d THEN request[w].shipment ELSE document[e]
        /\ document' \in [Documents -> Shipments \cup {NoRow}]
    BY <1>2 DEF Inv, TypeOK
  <1>5. \A v \in Workers \ {w} : request[v] # NoRequest => request[v].file # d
    BY <1>1 DEF Inv, Sole
  <1> HIDE DEF d
  <1>6. TypeOK'
    BY <1>2, <1>3, <1>4 DEF Inv, TypeOK
  <1>7. RequestsOK'
    <2> SUFFICES ASSUME NEW v \in Workers, request'[v] # NoRequest
                 PROVE  RequestOK(request[v])'
      BY DEF RequestsOK
    <2>1. v # w /\ request'[v] = request[v] /\ request[v].file # d
      BY <1>3, <1>5
    <2>2. QED
      BY <1>2, <1>4, <2>1, OthersKept DEF Files
  <1>8. Sole'
    BY <1>3 DEF Inv, Sole
  <1>9. Placed' /\ DocumentHasFile' /\ PhotoHasFile'
    BY <1>2, <1>4 DEF Inv, Placed, DocumentHasFile, PhotoHasFile, hasRow, Files
  <1>10. Accounted'
    <2> SUFFICES ASSUME NEW f \in Files, NEW s \in StorageProvider,
                        f \in stored[s], f \notin abandoned, ~hasRow(f)'
                 PROVE  \E v \in Workers : /\ request'[v] # NoRequest
                                           /\ request'[v].file = f
                                           /\ Responsible(request'[v])
      BY DEF Accounted
    <2>1. f # d /\ ~hasRow(f)
      BY <1>2, <1>4, FileConstants DEF hasRow
    <2>2. PICK v \in Workers : /\ request[v] # NoRequest
                               /\ request[v].file = f
                               /\ Responsible(request[v])
      BY <2>1 DEF Inv, Accounted
    <2>3. QED
      BY <1>3, <2>1, <2>2 DEF d
  <1>11. QED
    BY <1>6, <1>7, <1>8, <1>9, <1>10 DEF Inv

LEMMA DeleteDocumentStep ==
    ASSUME Inv, NEW w \in Workers, DeleteDocument(w)
    PROVE  Inv'
  <1> DEFINE d == request[w].file
             r == [request[w] EXCEPT !.step = "unlinking"]
  <1> USE DEF DeleteDocument, observers
  <1>1. /\ request[w] # NoRequest /\ request[w].step = "deleting"
        /\ request[w] \in DocumentRequest /\ RequestOK(request[w])
    BY DocumentKnown DEF Serving
  <1>2. d \in Documents /\ d \in uploaded /\ d \in Files /\ hasRow(d)
    BY <1>1 DEF DocumentRequest, RequestOK, Files, hasRow
  <1>3. /\ r \in DocumentRequest /\ r # NoRequest /\ r \notin PhotoRequest
        /\ r.file = d /\ r.step = "unlinking"
    BY <1>1 DEF DocumentRequest, PhotoRequest, NoRequest
  <1> HIDE DEF r
  <1>4. /\ request' = [request EXCEPT ![w] = r]
        /\ \A v \in Workers : request'[v] = IF v = w THEN r ELSE request[v]
    BY DEF Proceed, Inv, TypeOK, r
  <1>5. /\ \A e \in Documents :
               document'[e] = IF e = d THEN NoRow ELSE document[e]
        /\ document' \in [Documents -> Shipments \cup {NoRow}]
    BY <1>2 DEF Inv, TypeOK
  <1>6. \A v \in Workers :
            (request[v] # NoRequest /\ Uploading(request[v])) =>
                request[v].file # d
    BY <1>2, SoleArrives
  <1>7. Responsible(r) /\ ~Uploading(r)
    BY <1>3 DEF Responsible, Uploading, uploadsDocument, uploadsPhoto,
                inTransaction
  <1> HIDE DEF d
  <1>8. TypeOK'
    BY <1>2, <1>3, <1>4, <1>5 DEF Inv, TypeOK
  <1>9. RequestsOK'
    <2> SUFFICES ASSUME NEW v \in Workers, request'[v] # NoRequest
                 PROVE  RequestOK(request[v])'
      BY DEF RequestsOK
    <2>1. CASE v = w
      BY <1>2, <1>3, <1>4, <1>5, <1>7, <2>1
         DEF RequestOK, DocumentRequestOK, Uploading
    <2>2. CASE v # w /\ request[v].file # d
      BY <1>2, <1>4, <1>5, <2>2, OthersKept
    <2>3. CASE v # w /\ request[v].file = d
      <3>1. /\ request[v] # NoRequest /\ request'[v] = request[v]
            /\ ~Uploading(request[v]) /\ RequestOK(request[v])
        BY <1>4, <1>6, <2>3 DEF Inv, RequestsOK
      <3>2. request[v] \in DocumentRequest /\ request[v] \notin PhotoRequest
        BY <1>2, <2>3, <3>1, FileConstants
           DEF Inv, TypeOK, PhotoRequest, DocumentRequest
      <3>3. QED
        BY <1>2, <1>5, <2>3, <3>1, <3>2
           DEF RequestOK, DocumentRequestOK, Uploading
    <2>4. QED
      BY <2>1, <2>2, <2>3
  <1>10. Sole'
    <2>1. r.file = request[w].file
      BY <1>3 DEF d
    <2>2. QED
      BY <1>3, <1>4, <1>6, <1>7 DEF Inv, Sole
  <1>11. Placed' /\ DocumentHasFile' /\ PhotoHasFile'
    BY <1>2, <1>5 DEF Inv, Placed, DocumentHasFile, PhotoHasFile, hasRow, Files
  <1>12. Accounted'
    <2> SUFFICES ASSUME NEW f \in Files, NEW s \in StorageProvider,
                        f \in stored[s], f \notin abandoned, ~hasRow(f)'
                 PROVE  \E v \in Workers : /\ request'[v] # NoRequest
                                           /\ request'[v].file = f
                                           /\ Responsible(request'[v])
      BY DEF Accounted
    <2>1. CASE f = d
      BY <1>3, <1>4, <1>7, <2>1
    <2>2. CASE f # d
      <3>1. ~hasRow(f)
        BY <1>5, <2>2 DEF hasRow
      <3>2. PICK v \in Workers : /\ request[v] # NoRequest
                                 /\ request[v].file = f
                                 /\ Responsible(request[v])
        BY <3>1 DEF Inv, Accounted
      <3>3. v # w
        BY <2>2, <3>2 DEF d
      <3>4. QED
        BY <1>4, <3>2, <3>3
    <2>3. QED
      BY <2>1, <2>2
  <1>13. QED
    BY <1>8, <1>9, <1>10, <1>11, <1>12 DEF Inv

\* A file without a row, or of a photo that is to be removed, is taken from
\* the only store it is in.
LEMMA UnstoreStep ==
    ASSUME Inv, NEW w \in Workers, NEW r \in Requests,
           NEW f \in Files, NEW t \in StorageProvider,
           request[w] # NoRequest, request[w].file = f,
           r # NoRequest => /\ r \in PhotoRequest /\ r.cleared = {}
                            /\ r.file = f /\ r.step = "deletingPhoto",
           \A v \in Workers \ {w} :
               (request[v] # NoRequest /\ Uploading(request[v])) =>
                   request[v].file # f,
           f \in Documents => document[f] = NoRow,
           f \in Photos => f \in doomed \/ photo[f] = NoRow,
           r # NoRequest => f \in doomed,
           \A s \in StorageProvider \ {t} : f \notin stored[s],
           stored' = [stored EXCEPT ![t] = @ \ {f}],
           request' = [request EXCEPT ![w] = r],
           UNCHANGED <<rowVars, isConfigured, uploaded, crashes, observers>>
    PROVE  Inv'
  <1> USE DEF rowVars, observers
  <1>1. \A v \in Workers : request'[v] = IF v = w THEN r ELSE request[v]
    BY DEF Inv, TypeOK
  <1>2. /\ \A s \in StorageProvider : stored'[s] = stored[s] \ {f}
        /\ f \in uploaded
    BY DEF Inv, TypeOK, RequestsOK, RequestOK
  <1>3. r # NoRequest => ~Uploading(r)
    BY DEF Uploading, uploadsDocument, uploadsPhoto, inTransaction
  <1>4. TypeOK'
    BY <1>1, <1>2 DEF Inv, TypeOK, Requests
  <1>5. RequestsOK'
    <2> SUFFICES ASSUME NEW v \in Workers, request'[v] # NoRequest
                 PROVE  RequestOK(request[v])'
      BY DEF RequestsOK
    <2>1. CASE v = w
      <3>1. request'[v] = r /\ r \notin DocumentRequest
        BY <1>1, <2>1 DEF DocumentRequest
      <3>2. QED
        BY <1>1, <1>2, <2>1, <3>1
           DEF RequestOK, PhotoRequestOK, ClearedOK, uploadsPhoto,
               inTransaction, removesPhoto, updatesPhoto
    <2>2. CASE v # w /\ request[v].file # f
      BY <1>1, <1>2, <2>2, OthersKept
    <2>3. CASE v # w /\ request[v].file = f
      <3>1. /\ request[v] # NoRequest /\ request'[v] = request[v]
            /\ ~Uploading(request[v]) /\ RequestOK(request[v])
        BY <1>1, <2>3 DEF Inv, RequestsOK
      <3>2. CASE request[v] \in DocumentRequest
        <4>1. request[v] \notin PhotoRequest
          BY <3>2 DEF DocumentRequest, PhotoRequest
        <4>2. QED
          BY <3>1, <3>2, <4>1 DEF RequestOK, DocumentRequestOK, Uploading
      <3>3. CASE request[v] \in PhotoRequest
        <4>1. request[v] \notin DocumentRequest
          BY <3>3 DEF DocumentRequest, PhotoRequest
        <4>2. QED
          BY <1>2, <3>1, <3>3, <4>1
             DEF RequestOK, PhotoRequestOK, ClearedOK, Uploading
      <3>4. QED
        BY <3>1, <3>2, <3>3 DEF Inv, TypeOK
    <2>4. QED
      BY <2>1, <2>2, <2>3
  <1>6. Sole'
    BY <1>1, <1>3 DEF Inv, Sole
  <1>7. Placed' /\ DocumentHasFile' /\ PhotoHasFile'
    <2>1. Placed'
      BY <1>2 DEF Inv, Placed, hasRow, StorageProvider
    <2>2. DocumentHasFile'
      BY <1>2 DEF Inv, DocumentHasFile, StorageProvider
    <2>3. PhotoHasFile'
      <3> SUFFICES ASSUME NEW p \in Photos \ doomed, photo[p] # NoRow
                   PROVE  p \in stored'[photo[p].storageProvider]
        BY DEF PhotoHasFile
      <3>1. photo[p].storageProvider \in StorageProvider /\ p # f
        BY DEF Inv, TypeOK, PhotoRow
      <3>2. QED
        BY <1>2, <3>1 DEF Inv, PhotoHasFile
    <2>4. QED
      BY <2>1, <2>2, <2>3
  <1>8. Accounted'
    <2> SUFFICES ASSUME NEW g \in Files, NEW s \in StorageProvider,
                        g \in stored'[s], g \notin abandoned, ~hasRow(g)
                 PROVE  \E v \in Workers : /\ request'[v] # NoRequest
                                           /\ request'[v].file = g
                                           /\ Responsible(request'[v])
      BY DEF Accounted, hasRow
    <2>1. g # f /\ g \in stored[s]
      BY <1>2
    <2>2. PICK v \in Workers : /\ request[v] # NoRequest
                               /\ request[v].file = g
                               /\ Responsible(request[v])
      BY <2>1 DEF Inv, Accounted
    <2>3. QED
      BY <1>1, <2>1, <2>2
  <1>9. QED
    BY <1>4, <1>5, <1>6, <1>7, <1>8 DEF Inv

LEMMA UnlinkDocumentStep ==
    ASSUME Inv, NEW w \in Workers, UnlinkDocument(w)
    PROVE  Inv'
  <1> DEFINE d == request[w].file
  <1>1. /\ request[w] # NoRequest
        /\ request[w].step \in {"unlinking", "discarding"}
        /\ request[w] \in DocumentRequest
        /\ RequestOK(request[w]) /\ DocumentRequestOK(request[w])
    BY DocumentKnown DEF UnlinkDocument, Serving
  <1>2. d \in Documents /\ d \notin Photos /\ document[d] = NoRow
    BY <1>1, FileConstants
       DEF DocumentRequest, DocumentRequestOK, uploadsDocument
  <1>3. \A s \in StorageProvider \ {"LOCAL"} : d \notin stored[s]
    BY <1>2 DEF Inv, Placed, StorageProvider
  <1>4. \A v \in Workers \ {w} :
            (request[v] # NoRequest /\ Uploading(request[v])) =>
                request[v].file # d
    BY <1>1 DEF Inv, Sole
  <1>5. request' = [request EXCEPT ![w] = NoRequest]
    BY DEF UnlinkDocument, Answer
  <1>6. CASE abandoned' = abandoned \cup {d} /\ stored' = stored
    BY <1>1, <1>2, <1>5, <1>6, RequestStep
       DEF UnlinkDocument, Requests, Inv, TypeOK, Files
  <1>7. CASE RemoveFrom("LOCAL", d) /\ abandoned' = abandoned
    BY <1>1, <1>2, <1>3, <1>4, <1>5, <1>7, UnstoreStep
       DEF UnlinkDocument, RemoveFrom, Requests, observers, StorageProvider, Files
  <1>8. QED
    BY <1>6, <1>7 DEF UnlinkDocument

\* The commit of a photo's row: an upload that no other request touches, or an
\* update of a row that is there, with the rows the transaction cleared.
LEMMA WriteStep ==
    ASSUME Inv, NEW w \in Workers,
           request[w] # NoRequest, request[w] \in PhotoRequest,
           request[w].step = "writing",
           \/ /\ photo[request[w].file] = NoRow
              /\ request[w].file \in stored[request[w].row.storageProvider]
              /\ \A v \in Workers \ {w} :
                     request[v] # NoRequest => request[v].file # request[w].file
           \/ /\ photo[request[w].file] # NoRow
              /\ ~request[w].isUpload,
           WritePhoto(w, request[w].row),
           request' = [request EXCEPT ![w] = NoRequest],
           UNCHANGED <<owners, document, stored, isConfigured, uploaded,
                       crashes, observers>>
    PROVE  Inv'
  <1> USE DEF observers
  <1> DEFINE p == request[w].file
             row == request[w].row
             cleared == request[w].cleared
  <1>1. /\ RequestOK(request[w]) /\ PhotoRequestOK(request[w])
        /\ ClearedOK(request[w])
    BY PhotoKnown
  <1>2. /\ p \in Photos /\ p \in uploaded /\ row \in PhotoRow /\ row # NoRow
        /\ p \notin Documents
        /\ \A q \in cleared : q \in Photos /\ q # p /\ photo[q] # NoRow
    <2>1. p \in Photos /\ row \in PhotoRow /\ cleared \subseteq Photos
      BY DEF PhotoRequest
    <2>2. row # NoRow
      BY <2>1, RowNotNoRow
    <2>3. \A q \in cleared : q # p /\ photo[q] # NoRow
      BY <1>1 DEF ClearedOK
    <2>4. p \in uploaded /\ p \notin Documents
      BY <1>1, <2>1, FileConstants DEF RequestOK
    <2>5. QED
      BY <2>1, <2>2, <2>3, <2>4
  <1>3. \A v \in Workers : request'[v] = IF v = w THEN NoRequest ELSE request[v]
    BY DEF Inv, TypeOK
  <1>4. \A q \in Photos : photo[q] # NoRow => photo[q] \in PhotoRow
    BY DEF Inv, TypeOK
  <1>5. \A q \in Photos :
            /\ q = p => photo'[q] = row
            /\ (q # p /\ q \in cleared) =>
                   photo'[q] = [photo[q] EXCEPT !.isPrimary = FALSE]
            /\ (q # p /\ q \notin cleared) => photo'[q] = photo[q]
    BY DEF WritePhoto
  <1>6. /\ DOMAIN photo' = Photos
        /\ photo' = [q \in Photos |-> photo'[q]]
    BY DEF WritePhoto
  <1> HIDE DEF p, row, cleared
  \* Rows stay in the database, with their vehicle and their store.
  <1>7. \A q \in Photos :
            /\ q # p => (photo'[q] = NoRow <=> photo[q] = NoRow)
            /\ photo[q] # NoRow =>
                   /\ photo'[q] # NoRow
                   /\ photo'[q].vehicle = photo[q].vehicle
                   /\ photo'[q].storageProvider = photo[q].storageProvider
            /\ photo'[q] \in PhotoRow \cup {NoRow}
    <2> SUFFICES ASSUME NEW q \in Photos
                 PROVE  /\ q # p => (photo'[q] = NoRow <=> photo[q] = NoRow)
                        /\ photo[q] # NoRow =>
                             /\ photo'[q] # NoRow
                             /\ photo'[q].vehicle = photo[q].vehicle
                             /\ photo'[q].storageProvider
                                   = photo[q].storageProvider
                        /\ photo'[q] \in PhotoRow \cup {NoRow}
      OBVIOUS
    <2>1. CASE q = p
      BY <1>1, <1>2, <1>5, <2>1
         DEF PhotoRequestOK, updatesPhoto, inTransaction, p, row
    <2>2. CASE q # p /\ q \in cleared
      BY <1>2, <1>4, <1>5, <2>2 DEF PhotoRow, NoRow, StorageProvider
    <2>3. CASE q # p /\ q \notin cleared
      BY <1>4, <1>5, <2>3
    <2>4. QED
      BY <2>1, <2>2, <2>3
  <1>8. TypeOK'
    BY <1>3, <1>6, <1>7 DEF Inv, TypeOK
  <1>9. RequestsOK'
    <2> SUFFICES ASSUME NEW v \in Workers, request'[v] # NoRequest
                 PROVE  RequestOK(request[v])'
      BY DEF RequestsOK
    <2>1. /\ v # w /\ request'[v] = request[v] /\ request[v] # NoRequest
          /\ RequestOK(request[v])
      BY <1>3 DEF Inv, RequestsOK
    <2>2. CASE request[v] \in DocumentRequest
      <3>1. request[v] \notin PhotoRequest
        BY <2>2 DEF DocumentRequest, PhotoRequest
      <3>2. QED
        BY <2>1, <2>2, <3>1 DEF RequestOK, DocumentRequestOK
    <2>3. CASE request[v] \in PhotoRequest
      <3>1. /\ request[v] \notin DocumentRequest /\ request[v].file \in Photos
            /\ request[v].cleared \subseteq Photos
        BY <2>3 DEF DocumentRequest, PhotoRequest
      <3>2. uploadsPhoto(request[v]) => request[v].file # p
        BY <2>1, <2>3
           DEF RequestOK, PhotoRequestOK, p
      <3>3. photo'[request[v].file] # NoRow =>
                \/ photo[request[v].file] # NoRow
                \/ request[v].file = p /\ photo[p] = NoRow
        BY <1>7, <3>1
      <3>4. ~(request[v].file = p /\ photo[p] = NoRow)
        BY <2>1 DEF p
      <3>5. QED
        BY <1>7, <2>1, <2>3, <3>1, <3>2, <3>3, <3>4
           DEF RequestOK, PhotoRequestOK, ClearedOK
    <2>4. QED
      BY <2>1, <2>2, <2>3 DEF Inv, TypeOK
  <1>10. Sole'
    BY <1>3 DEF Inv, Sole
  <1>11. Placed'
    <2>1. \A f \in Files : hasRow(f)' => f \in uploaded
      BY <1>2, <1>7 DEF Inv, Placed, hasRow, Files
    <2>2. \A q \in Photos, s \in StorageProvider :
              (photo'[q] # NoRow /\ q \in stored[s]) =>
                  s = photo'[q].storageProvider
      <3> SUFFICES ASSUME NEW q \in Photos, NEW s \in StorageProvider,
                          photo'[q] # NoRow, q \in stored[s]
                   PROVE  s = photo'[q].storageProvider
        OBVIOUS
      <3>1. CASE q = p
        BY <1>1, <1>5, <3>1 DEF PhotoRequestOK, p, row
      <3>2. CASE q # p
        BY <1>7, <3>2 DEF Inv, Placed
      <3>3. QED
        BY <3>1, <3>2
    <2>3. QED
      BY <2>1, <2>2 DEF Inv, Placed
  <1>12. DocumentHasFile' /\ PhotoHasFile'
    <2>1. DocumentHasFile'
      BY DEF Inv, DocumentHasFile
    <2>2. PhotoHasFile'
      <3> SUFFICES ASSUME NEW q \in Photos \ doomed, photo'[q] # NoRow
                   PROVE  q \in stored[photo'[q].storageProvider]
        BY DEF PhotoHasFile
      <3>1. CASE photo[q] # NoRow
        BY <1>7, <3>1 DEF Inv, PhotoHasFile
      <3>2. CASE photo[q] = NoRow
        <4>1. q = p /\ photo'[q] = row
          BY <1>5, <1>7, <3>2
        <4>2. QED
          BY <3>2, <4>1 DEF p, row
      <3>3. QED
        BY <3>1, <3>2
    <2>3. QED
      BY <2>1, <2>2
  <1>13. Accounted'
    <2> SUFFICES ASSUME NEW f \in Files, NEW s \in StorageProvider,
                        f \in stored[s], f \notin abandoned, ~hasRow(f)'
                 PROVE  \E v \in Workers : /\ request'[v] # NoRequest
                                           /\ request'[v].file = f
                                           /\ Responsible(request'[v])
      BY DEF Accounted
    <2>1. f # p /\ ~hasRow(f)
      BY <1>2, <1>5, <1>7 DEF hasRow, Files
    <2>2. PICK v \in Workers : /\ request[v] # NoRequest
                               /\ request[v].file = f
                               /\ Responsible(request[v])
      BY <2>1 DEF Inv, Accounted
    <2>3. v # w
      BY <2>1, <2>2 DEF p
    <2>4. QED
      BY <1>3, <2>2, <2>3
  <1>14. QED
    BY <1>8, <1>9, <1>10, <1>11, <1>12, <1>13 DEF Inv

-----------------------------------------------------------------------------
(* Uploading a photo *)

LEMMA BeginUploadPhotoStep ==
    ASSUME Inv, NEW w \in Workers, NEW p \in Photos, NEW v \in Vehicles,
           NEW b \in BOOLEAN, BeginUploadPhoto(w, p, v, b)
    PROVE  Inv'
  <1> USE DEF BeginUploadPhoto, rowVars, observers
  <1> DEFINE row == [vehicle |-> v, isPrimary |-> b,
                     storageProvider |-> chosenProvider]
             r == [step |-> "storing", file |-> p, isUpload |-> TRUE,
                   row |-> row, others |-> {}, cleared |-> {}]
  <1>1. row \in PhotoRow
    BY DEF PhotoRow, chosenProvider, StorageProvider
  <1> HIDE DEF row
  <1>2. /\ r \in PhotoRequest /\ r # NoRequest /\ Uploading(r)
        /\ r.file = p /\ r.step = "storing" /\ r.isUpload /\ r.row = row
        /\ r.cleared = {} /\ r \notin DocumentRequest
    BY <1>1 DEF PhotoRequest, DocumentRequest, NoRequest, Uploading, uploadsPhoto
  <1>3. /\ request' = [request EXCEPT ![w] = r]
        /\ \A u \in Workers : request'[u] = IF u = w THEN r ELSE request[u]
    BY DEF Inv, TypeOK, row
  <1> HIDE DEF r
  <1>4. /\ p \notin Documents /\ photo[p] = NoRow
        /\ \A s \in StorageProvider : p \notin stored[s]
    BY FileConstants DEF Inv, Placed, hasRow, Files
  <1>5. \A u \in Workers : request[u] # NoRequest => request[u].file # p
    BY DEF Inv, RequestsOK, RequestOK
  <1>6. TypeOK'
    BY ZenonT(30), <1>2, <1>3 DEF Inv, TypeOK
  <1>7. RequestsOK'
    <2> SUFFICES ASSUME NEW u \in Workers, request'[u] # NoRequest
                 PROVE  RequestOK(request[u])'
      BY DEF RequestsOK
    <2>1. CASE u = w
      BY <1>2, <1>3, <1>4, <2>1
         DEF RequestOK, PhotoRequestOK, ClearedOK, inTransaction, removesPhoto,
             updatesPhoto
    <2>2. CASE u # w
      BY <1>3, <1>5, <2>2, OthersKept DEF Files
    <2>3. QED
      BY <2>1, <2>2
  <1>8. Sole'
    BY <1>2, <1>3, <1>5 DEF Inv, Sole
  <1>9. Placed' /\ DocumentHasFile' /\ PhotoHasFile'
    BY DEF Inv, Placed, DocumentHasFile, PhotoHasFile, hasRow
  <1>10. Accounted'
    BY <1>3 DEF Inv, Accounted, hasRow, Responsible
  <1>11. QED
    BY <1>6, <1>7, <1>8, <1>9, <1>10 DEF Inv

LEMMA StorePhotoStep ==
    ASSUME Inv, NEW w \in Workers, StorePhoto(w)
    PROVE  Inv'
  <1> USE DEF StorePhoto, rowVars, observers
  <1> DEFINE p == request[w].file
             t == request[w].row.storageProvider
             step == firstStep(request[w].row)
             r == [request[w] EXCEPT !.step = step]
  <1>1. /\ request[w] # NoRequest /\ request[w].step = "storing"
        /\ request[w] \in PhotoRequest
        /\ RequestOK(request[w]) /\ PhotoRequestOK(request[w])
    BY PhotoKnown DEF Serving
  <1>2. /\ step \in {"reading", "writing"}
        /\ step = "reading" => request[w].row.isPrimary
    BY DEF firstStep
  <1>3. /\ p \in Photos /\ p \in Files /\ p \in uploaded /\ t \in StorageProvider
        /\ photo[p] = NoRow /\ request[w].isUpload /\ Uploading(request[w])
    BY <1>1 DEF PhotoRequest, PhotoRow, RequestOK, PhotoRequestOK, Uploading,
                uploadsPhoto, Files
  <1>4. \A v \in Workers \ {w} : request[v] # NoRequest => request[v].file # p
    BY <1>1, <1>3 DEF Inv, Sole
  <1> HIDE DEF step
  <1>5. /\ r \in PhotoRequest /\ r # NoRequest /\ r \notin DocumentRequest
        /\ r.file = p /\ r.step = step /\ r.isUpload
        /\ r.row = request[w].row /\ r.cleared = {}
    BY <1>1, <1>2, <1>3, PhotoKnown
       DEF PhotoRequest, DocumentRequest, NoRequest, ClearedOK
  <1>6. /\ request' = [request EXCEPT ![w] = r]
        /\ \A v \in Workers : request'[v] = IF v = w THEN r ELSE request[v]
    BY DEF Proceed, Inv, TypeOK, step
  <1>7. \A s \in StorageProvider :
            stored'[s] = IF s = t THEN stored[s] \cup {p} ELSE stored[s]
    BY DEF Inv, TypeOK
  <1>8. \A s \in StorageProvider : p \in stored'[s] <=> s = t
    BY <1>1, <1>3, <1>7 DEF PhotoRequestOK
  <1> HIDE DEF r
  <1>9. TypeOK'
    BY <1>3, <1>5, <1>6, <1>7 DEF Inv, TypeOK
  <1>10. Uploading(r) /\ Responsible(r)
    BY <1>2, <1>5 DEF Uploading, uploadsPhoto, inTransaction, Responsible
  <1>11. RequestsOK'
    <2> SUFFICES ASSUME NEW v \in Workers, request'[v] # NoRequest
                 PROVE  RequestOK(request[v])'
      BY DEF RequestsOK
    <2>1. CASE v = w
      BY <1>2, <1>3, <1>5, <1>6, <1>8, <2>1
         DEF RequestOK, PhotoRequestOK, ClearedOK, inTransaction, removesPhoto,
             updatesPhoto
    <2>2. CASE v # w
      BY <1>3, <1>4, <1>6, <1>7, <2>2, OthersKept
    <2>3. QED
      BY <2>1, <2>2
  <1>12. Sole'
    BY <1>4, <1>5, <1>6 DEF Inv, Sole
  <1>13. Placed' /\ DocumentHasFile' /\ PhotoHasFile'
    <2>1. Placed'
      BY <1>3, <1>7, FileConstants DEF Inv, Placed, hasRow, StorageProvider
    <2>2. DocumentHasFile'
      BY <1>7 DEF Inv, DocumentHasFile, StorageProvider
    <2>3. PhotoHasFile'
      <3> SUFFICES ASSUME NEW q \in Photos \ doomed, photo[q] # NoRow
                   PROVE  q \in stored'[photo[q].storageProvider]
        BY DEF PhotoHasFile
      <3>1. photo[q].storageProvider \in StorageProvider
        BY DEF Inv, TypeOK, PhotoRow
      <3>2. QED
        BY <1>7, <3>1 DEF Inv, PhotoHasFile
    <2>4. QED
      BY <2>1, <2>2, <2>3
  <1>14. Accounted'
    <2> SUFFICES ASSUME NEW g \in Files, NEW s \in StorageProvider,
                        g \in stored'[s], g \notin abandoned, ~hasRow(g)
                 PROVE  \E v \in Workers : /\ request'[v] # NoRequest
                                           /\ request'[v].file = g
                                           /\ Responsible(request'[v])
      BY DEF Accounted, hasRow
    <2>1. CASE g = p
      BY <1>5, <1>6, <1>10, <2>1
    <2>2. CASE g # p
      <3>1. g \in stored[s]
        BY <1>7, <2>2
      <3>2. PICK v \in Workers : /\ request[v] # NoRequest
                                 /\ request[v].file = g
                                 /\ Responsible(request[v])
        BY <3>1 DEF Inv, Accounted
      <3>3. QED
        BY <1>6, <2>2, <3>2
    <2>3. QED
      BY <2>1, <2>2
  <1>15. QED
    BY <1>9, <1>11, <1>12, <1>13, <1>14 DEF Inv

LEMMA FailStoreStep ==
    ASSUME Inv, NEW w \in Workers, FailStore(w)
    PROVE  Inv'
  <1> DEFINE p == request[w].file
             t == request[w].row.storageProvider
  <1> USE DEF rowVars
  <1>1. /\ request[w] # NoRequest /\ request[w].step = "storing"
        /\ request[w] \in PhotoRequest
        /\ RequestOK(request[w]) /\ PhotoRequestOK(request[w])
    BY PhotoKnown DEF FailStore, Serving
  <1>2. /\ p \in Photos /\ p \in Files /\ p \in uploaded /\ t \in StorageProvider
        /\ photo[p] = NoRow /\ Uploading(request[w]) /\ p \notin Documents
        /\ \A s \in StorageProvider : p \notin stored[s]
    BY <1>1, FileConstants
       DEF PhotoRequest, PhotoRow, RequestOK, PhotoRequestOK, Uploading,
           uploadsPhoto, Files
  <1>3. /\ request' = [request EXCEPT ![w] = NoRequest]
        /\ \A v \in Workers :
               request'[v] = IF v = w THEN NoRequest ELSE request[v]
        /\ UNCHANGED <<rowVars, isConfigured, uploaded, crashes, doomed, raced>>
    BY DEF FailStore, Answer, Inv, TypeOK
  <1>4. CASE UNCHANGED <<stored, abandoned>>
    BY <1>1, <1>2, <1>3, <1>4, RequestStep DEF Requests, Inv, TypeOK, Files
  <1>5. CASE /\ stored' = [stored EXCEPT ![t] = @ \cup {p}]
             /\ abandoned' = abandoned \cup {p}
    <2>1. \A s \in StorageProvider :
              stored'[s] = IF s = t THEN stored[s] \cup {p} ELSE stored[s]
      BY <1>5 DEF Inv, TypeOK
    <2>2. \A v \in Workers \ {w} : request[v] # NoRequest => request[v].file # p
      BY <1>1, <1>2 DEF Inv, Sole
    <2>3. TypeOK'
      BY <1>2, <1>3, <1>5, <2>1 DEF Inv, TypeOK
    <2>4. RequestsOK'
      BY ZenonT(30), <1>2, <1>3, <2>1, <2>2, OthersKept DEF RequestsOK
    <2>5. Sole'
      BY <1>3 DEF Inv, Sole
    <2>6. Placed' /\ DocumentHasFile'
      BY <1>2, <1>3, <2>1 DEF Inv, Placed, DocumentHasFile, hasRow, StorageProvider
    <2>7. PhotoHasFile'
      <3> SUFFICES ASSUME NEW q \in Photos \ doomed, photo[q] # NoRow
                   PROVE  q \in stored'[photo[q].storageProvider]
        BY <1>3 DEF PhotoHasFile
      <3>1. photo[q].storageProvider \in StorageProvider
        BY DEF Inv, TypeOK, PhotoRow
      <3>2. QED
        BY <2>1, <3>1 DEF Inv, PhotoHasFile
    <2>8. Accounted'
      <3> SUFFICES ASSUME NEW g \in Files, NEW s \in StorageProvider,
                          g \in stored'[s], g \notin abandoned', ~hasRow(g)
                   PROVE  \E v \in Workers : /\ request'[v] # NoRequest
                                             /\ request'[v].file = g
                                             /\ Responsible(request'[v])
        BY <1>3 DEF Accounted, hasRow
      <3>1. g # p /\ g \in stored[s] /\ g \notin abandoned
        BY <1>5, <2>1
      <3>2. PICK v \in Workers : /\ request[v] # NoRequest
                                 /\ request[v].file = g
                                 /\ Responsible(request[v])
        BY <3>1 DEF Inv, Accounted
      <3>3. QED
        BY <1>3, <3>1, <3>2
    <2>9. QED
      BY <2>3, <2>4, <2>5, <2>6, <2>7, <2>8 DEF Inv
  <1>6. QED
    BY <1>4, <1>5 DEF FailStore

LEMMA InsertPhotoStep ==
    ASSUME Inv, NEW w \in Workers, InsertPhoto(w)
    PROVE  Inv'
  <1>1. /\ request[w] # NoRequest /\ request[w].step = "writing"
        /\ request[w] \in PhotoRequest /\ request[w].isUpload
        /\ PhotoRequestOK(request[w])
    BY PhotoKnown DEF InsertPhoto, Serving
  <1>2. /\ photo[request[w].file] = NoRow
        /\ request[w].file \in stored[request[w].row.storageProvider]
        /\ Uploading(request[w])
    BY <1>1 DEF PhotoRequestOK, uploadsPhoto, inTransaction, Uploading
  <1>3. \A v \in Workers \ {w} :
            request[v] # NoRequest => request[v].file # request[w].file
    BY <1>1, <1>2 DEF Inv, Sole
  <1>4. QED
    BY <1>1, <1>2, <1>3, WriteStep
       DEF InsertPhoto, recordedRow, Answer

LEMMA AbortPhotoStep ==
    ASSUME Inv, NEW w \in Workers, AbortPhoto(w)
    PROVE  Inv'
  <1> USE DEF AbortPhoto, observers
  <1>1. /\ request[w] # NoRequest /\ inTransaction(request[w])
        /\ request[w] \in PhotoRequest
        /\ PhotoRequestOK(request[w]) /\ RequestOK(request[w])
    BY PhotoKnown DEF inTransaction
  <1>2. CASE request[w].isUpload
    <2> DEFINE r == [request[w] EXCEPT !.step = "compensating", !.cleared = {}]
    <2>1. /\ r \in PhotoRequest /\ r # NoRequest /\ r \notin DocumentRequest
          /\ r.file = request[w].file /\ r.step = "compensating"
          /\ r.isUpload /\ r.row = request[w].row /\ r.cleared = {}
      BY <1>1, <1>2 DEF PhotoRequest, DocumentRequest, NoRequest
    <2>2. request' = [request EXCEPT ![w] = r]
      BY <1>2 DEF Inv, TypeOK
    <2> HIDE DEF r
    <2>3. /\ Uploading(r) /\ Uploading(request[w])
          /\ Responsible(r) /\ RequestOK(r)
      BY <1>1, <1>2, <2>1
         DEF Uploading, uploadsPhoto, inTransaction, Responsible, RequestOK,
             PhotoRequestOK, ClearedOK, removesPhoto, updatesPhoto
    <2>4. QED
      BY <1>1, <2>1, <2>2, <2>3, SoleKept, RequestStep
         DEF Requests, Inv, TypeOK, Files
  <1>3. CASE ~request[w].isUpload
    <2>1. ~Responsible(request[w])
      BY <1>1, <1>3 DEF Responsible, Uploading, uploadsDocument, uploadsPhoto,
                        inTransaction
    <2>2. QED
      BY <1>1, <1>3, <2>1, FailStep DEF Fail
  <1>4. QED
    BY <1>2, <1>3

LEMMA RemoveStoredFileStep ==
    ASSUME Inv, NEW w \in Workers, RemoveStoredFile(w)
    PROVE  Inv'
  <1> DEFINE p == request[w].file
             t == request[w].row.storageProvider
  <1>1. /\ request[w] # NoRequest /\ request[w].step = "compensating"
        /\ request[w] \in PhotoRequest /\ PhotoRequestOK(request[w])
    BY PhotoKnown DEF RemoveStoredFile, Serving
  <1>2. /\ p \in Photos /\ p \notin Documents /\ photo[p] = NoRow
        /\ t \in StorageProvider
        /\ \A s \in StorageProvider \ {t} : p \notin stored[s]
        /\ Uploading(request[w])
    BY <1>1, FileConstants
       DEF PhotoRequest, PhotoRow, PhotoRequestOK, uploadsPhoto, Uploading
  <1>3. \A v \in Workers \ {w} :
            (request[v] # NoRequest /\ Uploading(request[v])) =>
                request[v].file # p
    BY <1>1, <1>2 DEF Inv, Sole
  <1>4. request' = [request EXCEPT ![w] = NoRequest]
    BY DEF RemoveStoredFile, Answer
  <1>5. CASE abandoned' = abandoned \cup {p} /\ stored' = stored
    BY <1>1, <1>2, <1>4, <1>5, RequestStep
       DEF RemoveStoredFile, Requests, Inv, TypeOK, Files
  <1>6. CASE RemoveFrom(t, p) /\ abandoned' = abandoned
    BY <1>1, <1>2, <1>3, <1>4, <1>6, UnstoreStep
       DEF RemoveStoredFile, RemoveFrom, Requests, observers, Files
  <1>7. QED
    BY <1>5, <1>6 DEF RemoveStoredFile

-----------------------------------------------------------------------------
(* One primary photo *)

LEMMA BeginUpdatePhotoStep ==
    ASSUME Inv, NEW w \in Workers, NEW p \in Photos, NEW b \in BOOLEAN,
           BeginUpdatePhoto(w, p, b)
    PROVE  Inv'
  <1> DEFINE row == [photo[p] EXCEPT !.isPrimary = b]
             r == [step |-> firstStep(row), file |-> p, isUpload |-> FALSE,
                   row |-> row, others |-> {}, cleared |-> {}]
  <1>1. /\ request[w] = NoRequest /\ photo[p] # NoRow /\ photo[p] \in PhotoRow
        /\ p \notin Documents
    BY FileConstants DEF BeginUpdatePhoto, Inv, TypeOK
  <1>2. hasRow(p) /\ p \in uploaded /\ p \in Files
    BY <1>1 DEF hasRow, Inv, Placed, Files
  <1>3. /\ row \in PhotoRow /\ row.vehicle = photo[p].vehicle
        /\ row.storageProvider = photo[p].storageProvider
    BY <1>1 DEF PhotoRow
  <1>4. request' = [request EXCEPT ![w] = r]
    BY DEF BeginUpdatePhoto
  <1> HIDE DEF row
  <1>5. /\ firstStep(row) \in {"reading", "writing"}
        /\ firstStep(row) = "reading" => row.isPrimary
    BY DEF firstStep
  <1>6. /\ r \in PhotoRequest /\ r # NoRequest /\ r \notin DocumentRequest
        /\ r.file = p /\ r.step \in {"reading", "writing"} /\ ~r.isUpload
        /\ r.row = row /\ r.cleared = {}
        /\ r.step = "reading" => row.isPrimary
    BY <1>3, <1>5 DEF PhotoRequest, DocumentRequest, NoRequest
  <1> HIDE DEF r
  <1>7. ~Uploading(r)
    BY <1>6 DEF Uploading, uploadsDocument, uploadsPhoto, inTransaction
  <1>8. \A s \in StorageProvider : p \in stored[s] => s = row.storageProvider
    BY <1>1, <1>3 DEF Inv, Placed
  <1>9. RequestOK(r)
    BY <1>2, <1>3, <1>6, <1>7, <1>8
       DEF RequestOK, PhotoRequestOK, ClearedOK, Uploading, removesPhoto
  <1>10. \A v \in Workers :
             (request[v] # NoRequest /\ Uploading(request[v])) =>
                 request[v].file # p
    BY <1>2, SoleArrives
  <1>11. QED
    BY ZenonT(30), <1>1, <1>4, <1>6, <1>7, <1>9, <1>10, RequestStep
       DEF BeginUpdatePhoto, Requests, observers, Inv, TypeOK, Files

\* A transaction that goes on to its next statement.
LEMMA TransactionStep ==
    ASSUME Inv, NEW w \in Workers, NEW r \in PhotoRequest,
           request[w] # NoRequest, inTransaction(request[w]),
           r.step \in {"clearing", "writing"},
           r.file = request[w].file, r.isUpload = request[w].isUpload,
           r.row = request[w].row,
           ClearedOK(r),
           request' = [request EXCEPT ![w] = r],
           UNCHANGED <<rowVars, stored, isConfigured, uploaded, crashes,
                       abandoned, doomed>>,
           raced' \subseteq Vehicles
    PROVE  Inv'
  <1>1. /\ request[w] \in PhotoRequest /\ RequestOK(request[w])
        /\ PhotoRequestOK(request[w])
    BY PhotoKnown DEF inTransaction
  <1>2. inTransaction(r) /\ r # NoRequest /\ r \notin DocumentRequest
    BY DEF inTransaction, PhotoRequest, DocumentRequest, NoRequest
  <1>3. /\ Uploading(r) <=> Uploading(request[w])
        /\ Responsible(r) <=> Responsible(request[w])
    BY <1>2 DEF Uploading, uploadsDocument, uploadsPhoto, inTransaction,
                Responsible
  <1>4. RequestOK(r)
    BY <1>1, <1>2
       DEF RequestOK, PhotoRequestOK, inTransaction, uploadsPhoto,
           updatesPhoto, removesPhoto
  <1>5. QED
    BY <1>1, <1>2, <1>3, <1>4, SoleKept, RequestStep
       DEF Requests, Inv, TypeOK, Files

LEMMA ReadPrimariesStep ==
    ASSUME Inv, NEW w \in Workers, ReadPrimaries(w)
    PROVE  Inv'
  <1> DEFINE r == [request[w] EXCEPT !.step = "clearing",
                                     !.others = otherPrimaries(w)]
  <1>1. /\ request[w] # NoRequest /\ request[w].step = "reading"
        /\ request[w] \in PhotoRequest /\ ClearedOK(request[w])
    BY PhotoKnown DEF ReadPrimaries, Serving
  <1>2. /\ otherPrimaries(w) \subseteq Photos
        /\ request[w].file \notin otherPrimaries(w)
    BY DEF otherPrimaries, primaryPhotos
  <1>3. /\ r \in PhotoRequest /\ r.step = "clearing"
        /\ r.file = request[w].file /\ r.isUpload = request[w].isUpload
        /\ r.row = request[w].row /\ r.cleared = request[w].cleared
        /\ r.others = otherPrimaries(w)
    BY <1>1, <1>2 DEF PhotoRequest
  <1>4. request' = [request EXCEPT ![w] = r]
    BY DEF ReadPrimaries
  <1> HIDE DEF r
  <1>5. ClearedOK(r)
    BY <1>1, <1>2, <1>3 DEF ClearedOK
  <1>6. raced' \subseteq Vehicles
    BY <1>1 DEF ReadPrimaries, PhotoRequest, PhotoRow, Inv, TypeOK
  <1>7. QED
    BY <1>1, <1>3, <1>4, <1>5, <1>6, TransactionStep
       DEF ReadPrimaries, inTransaction

LEMMA ClearPrimariesStep ==
    ASSUME Inv, NEW w \in Workers, ClearPrimaries(w)
    PROVE  Inv'
  <1> DEFINE r == [request[w] EXCEPT !.step = "writing", !.others = {},
                                     !.cleared = clearable(w)]
  <1>1. /\ request[w] # NoRequest /\ request[w].step = "clearing"
        /\ request[w] \in PhotoRequest /\ ClearedOK(request[w])
    BY PhotoKnown DEF ClearPrimaries, Serving
  <1>2. /\ clearable(w) \subseteq Photos /\ request[w].file \notin clearable(w)
        /\ request[w].row.isPrimary
        /\ \A p \in clearable(w) :
               photo[p] # NoRow /\ photo[p].vehicle = request[w].row.vehicle
    BY <1>1 DEF clearable, primaryPhotos, ClearedOK
  <1>3. /\ r \in PhotoRequest /\ r.step = "writing"
        /\ r.file = request[w].file /\ r.isUpload = request[w].isUpload
        /\ r.row = request[w].row /\ r.cleared = clearable(w)
    BY <1>1, <1>2 DEF PhotoRequest
  <1>4. request' = [request EXCEPT ![w] = r]
    BY DEF ClearPrimaries
  <1> HIDE DEF r
  <1>5. ClearedOK(r)
    BY <1>2, <1>3 DEF ClearedOK
  <1>6. QED
    BY <1>1, <1>3, <1>4, <1>5, TransactionStep
       DEF ClearPrimaries, inTransaction, observers, Inv, TypeOK

LEMMA UpdatePhotoStep ==
    ASSUME Inv, NEW w \in Workers, UpdatePhoto(w)
    PROVE  Inv'
  <1>1. /\ request[w] # NoRequest /\ request[w].step = "writing"
        /\ request[w] \in PhotoRequest
    BY PhotoKnown DEF UpdatePhoto, Serving
  <1>2. QED
    BY <1>1, WriteStep DEF UpdatePhoto, Answer

-----------------------------------------------------------------------------
(* Removing a photo *)

LEMMA BeginRemovePhotoStep ==
    ASSUME Inv, NEW w \in Workers, NEW p \in Photos, BeginRemovePhoto(w, p)
    PROVE  Inv'
  <1>1. /\ request[w] = NoRequest /\ photo[p] # NoRow /\ photo[p] \in PhotoRow
        /\ p \notin Documents
    BY FileConstants DEF BeginRemovePhoto, Inv, TypeOK
  <1>2. hasRow(p) /\ p \in uploaded /\ p \in Files
    BY <1>1 DEF hasRow, Inv, Placed, Files
  <1>3. PICK r \in PhotoRequest :
            r = [step |-> "unstoring", file |-> p, isUpload |-> FALSE,
                 row |-> photo[p], others |-> {}, cleared |-> {}]
    BY <1>1 DEF PhotoRequest
  <1>4. /\ r # NoRequest /\ r \notin DocumentRequest
        /\ r.file = p /\ r.step = "unstoring" /\ r.row = photo[p]
        /\ r.cleared = {} /\ ~r.isUpload
    BY <1>3 DEF PhotoRequest, DocumentRequest, NoRequest
  <1>5. /\ request' = [request EXCEPT ![w] = r] /\ doomed' = doomed \cup {p}
        /\ UNCHANGED <<rowVars, stored, isConfigured, uploaded, crashes,
                       abandoned, raced>>
    BY <1>3 DEF BeginRemovePhoto
  <1>6. ~Uploading(r)
    BY <1>4 DEF Uploading, uploadsDocument, uploadsPhoto, inTransaction
  <1>7. \A s \in StorageProvider : p \in stored[s] => s = photo[p].storageProvider
    BY <1>1 DEF Inv, Placed
  <1>8. RequestOK(r)'
    BY <1>2, <1>4, <1>5, <1>6, <1>7
       DEF RequestOK, PhotoRequestOK, ClearedOK, Uploading, removesPhoto,
           updatesPhoto, inTransaction, rowVars
  <1>9. \A v \in Workers :
             (request[v] # NoRequest /\ Uploading(request[v])) =>
                 request[v].file # p
    BY <1>2, SoleArrives
  <1>10. QED
    BY <1>1, <1>4, <1>5, <1>6, <1>8, <1>9, RequestStep
       DEF Requests, Inv, TypeOK, Files

LEMMA UnstorePhotoStep ==
    ASSUME Inv, NEW w \in Workers, UnstorePhoto(w)
    PROVE  Inv'
  <1> DEFINE p == request[w].file
             t == request[w].row.storageProvider
             r == [request[w] EXCEPT !.step = "deletingPhoto"]
  <1>1. /\ request[w] # NoRequest /\ request[w].step = "unstoring"
        /\ request[w] \in PhotoRequest
        /\ PhotoRequestOK(request[w]) /\ ClearedOK(request[w])
    BY PhotoKnown DEF UnstorePhoto, Serving
  <1>2. /\ p \in Photos /\ p \notin Documents /\ p \in Files /\ p \in doomed
        /\ t \in StorageProvider /\ request[w].cleared = {}
        /\ \A s \in StorageProvider \ {t} : p \notin stored[s]
    BY <1>1, FileConstants
       DEF PhotoRequest, PhotoRow, PhotoRequestOK, ClearedOK, removesPhoto, Files
  <1>3. \A v \in Workers \ {w} :
            (request[v] # NoRequest /\ Uploading(request[v])) =>
                request[v].file # p
    BY <1>1 DEF Inv, Sole
  <1>4. /\ r \in PhotoRequest /\ r # NoRequest /\ r.cleared = {}
        /\ r.file = p /\ r.step = "deletingPhoto"
    BY <1>1, <1>2 DEF PhotoRequest, NoRequest
  <1>5. /\ request' = [request EXCEPT ![w] = r]
        /\ stored' = [stored EXCEPT ![t] = @ \ {p}]
    BY DEF UnstorePhoto, Proceed, RemoveFrom, storeOf
  <1> HIDE DEF r, p, t
  <1>6. request[w].file = p
    BY DEF p
  <1>7. QED
    BY <1>1, <1>2, <1>3, <1>4, <1>5, <1>6, UnstoreStep
       DEF UnstorePhoto, Requests

LEMMA FailRemovePhotoStep ==
    ASSUME Inv, NEW w \in Workers, FailRemovePhoto(w)
    PROVE  Inv'
  BY FailStep DEF FailRemovePhoto, Serving, Responsible, Uploading,
                  uploadsDocument, uploadsPhoto, inTransaction

\* Rows of photos are deleted that no transaction has cleared.
LEMMA RowsGone ==
    ASSUME Inv, NEW v \in Workers, request[v] # NoRequest,
           request'[v] = request[v],
           \A d \in Documents : document'[d] \in {document[d], NoRow},
           \A p \in Photos : photo'[p] \in {photo[p], NoRow},
           \A p \in request[v].cleared : photo'[p] = photo[p],
           UNCHANGED <<stored, uploaded, doomed>>
    PROVE  RequestOK(request[v])'
  <1>1. RequestOK(request[v])
    BY DEF Inv, RequestsOK
  <1>2. CASE request[v] \in DocumentRequest
    <2>1. /\ request[v] \notin PhotoRequest /\ request[v].file \in Documents
      BY <1>2 DEF DocumentRequest, PhotoRequest
    <2>2. QED
      BY <1>1, <1>2, <2>1 DEF RequestOK, DocumentRequestOK
  <1>3. CASE request[v] \in PhotoRequest
    <2>1. /\ request[v] \notin DocumentRequest /\ request[v].file \in Photos
          /\ photo'[request[v].file] \in {photo[request[v].file], NoRow}
      BY <1>3 DEF DocumentRequest, PhotoRequest
    <2>2. PhotoRequestOK(request[v]) /\ ClearedOK(request[v])
      BY <1>1, <1>3 DEF RequestOK
    <2>3. PhotoRequestOK(request[v])'
      BY <2>1, <2>2 DEF PhotoRequestOK
    <2>4. ClearedOK(request[v])'
      BY <2>2 DEF ClearedOK
    <2>5. QED
      BY <1>1, <2>1, <2>3, <2>4 DEF RequestOK
  <1>4. QED
    BY <1>2, <1>3 DEF Inv, TypeOK

LEMMA DeletePhotoStep ==
    ASSUME Inv, NEW w \in Workers, DeletePhoto(w)
    PROVE  Inv'
  <1> DEFINE p == request[w].file
  <1> USE DEF DeletePhoto, observers
  <1>1. /\ request[w] # NoRequest /\ request[w].step = "deletingPhoto"
        /\ request[w] \in PhotoRequest /\ PhotoRequestOK(request[w])
    BY PhotoKnown DEF Serving
  <1>2. /\ p \in Photos /\ p \notin Documents
        /\ \A s \in StorageProvider : p \notin stored[s]
    BY <1>1, FileConstants DEF PhotoRequest, PhotoRequestOK
  <1>3. \A v \in Workers : request'[v] = IF v = w THEN NoRequest ELSE request[v]
    BY DEF Answer, Inv, TypeOK
  <1>4. \A v \in Workers \ {w} : request[v] # NoRequest =>
            p \notin request[v].cleared \/ request[v] \notin PhotoRequest
    BY DEF lockedByOthers, Serving, Inv, RequestsOK, RequestOK, ClearedOK
  <1>5. \A q \in Photos : photo'[q] = IF q = p THEN NoRow ELSE photo[q]
    BY DEF Inv, TypeOK
  <1>6. TypeOK'
    <2>1. photo' \in [Photos -> PhotoRow \cup {NoRow}]
      BY DEF Inv, TypeOK
    <2>2. request' \in [Workers ->
                          DocumentRequest \cup PhotoRequest \cup {NoRequest}]
      BY DEF Answer, Inv, TypeOK
    <2>3. QED
      BY <2>1, <2>2 DEF Inv, TypeOK
  <1> HIDE DEF p
  <1>7. RequestsOK'
    <2> SUFFICES ASSUME NEW v \in Workers, request'[v] # NoRequest
                 PROVE  RequestOK(request[v])'
      BY DEF RequestsOK
    <2>1. /\ v # w /\ request'[v] = request[v] /\ request[v] # NoRequest
      BY <1>3
    <2>2. CASE request[v] \in PhotoRequest
      <3>1. \A q \in request[v].cleared : photo'[q] = photo[q]
        BY <1>4, <1>5, <2>1, <2>2 DEF PhotoRequest
      <3>2. QED
        BY <1>5, <2>1, <3>1, RowsGone
    <2>3. CASE request[v] \in DocumentRequest
      <3>1. request[v] \notin PhotoRequest /\ RequestOK(request[v])
        BY <2>1, <2>3 DEF DocumentRequest, PhotoRequest, Inv, RequestsOK
      <3>2. QED
        BY <2>1, <2>3, <3>1 DEF RequestOK, DocumentRequestOK
    <2>4. QED
      BY <2>1, <2>2, <2>3 DEF Inv, TypeOK
  <1>8. Sole'
    BY <1>3 DEF Inv, Sole
  <1>9. Placed' /\ DocumentHasFile' /\ PhotoHasFile'
    BY <1>2, <1>5 DEF Inv, Placed, DocumentHasFile, PhotoHasFile, hasRow, Files
  <1>10. Accounted'
    <2> SUFFICES ASSUME NEW f \in Files, NEW s \in StorageProvider,
                        f \in stored[s], f \notin abandoned, ~hasRow(f)'
                 PROVE  \E v \in Workers : /\ request'[v] # NoRequest
                                           /\ request'[v].file = f
                                           /\ Responsible(request'[v])
      BY DEF Accounted
    <2>1. f # p /\ ~hasRow(f)
      BY <1>2, <1>5 DEF hasRow, Files
    <2>2. PICK v \in Workers : /\ request[v] # NoRequest
                               /\ request[v].file = f
                               /\ Responsible(request[v])
      BY <2>1 DEF Inv, Accounted
    <2>3. QED
      BY <1>3, <2>1, <2>2 DEF p
  <1>11. QED
    BY <1>6, <1>7, <1>8, <1>9, <1>10 DEF Inv

-----------------------------------------------------------------------------
(* What goes on around them *)

LEMMA RemoveOwnerStep ==
    ASSUME Inv, NEW o \in owners, RemoveOwner(o)
    PROVE  Inv'
  <1> DEFINE documents == {d \in Documents : document[d] = o}
             photos == {p \in Photos : photo[p] # NoRow /\ photo[p].vehicle = o}
  <1> USE DEF RemoveOwner
  <1>1. /\ \A d \in Documents :
               document'[d] = IF d \in documents THEN NoRow ELSE document[d]
        /\ \A p \in Photos :
               photo'[p] = IF p \in photos THEN NoRow ELSE photo[p]
        /\ documents \subseteq Documents /\ photos \subseteq Photos
    OBVIOUS
  <1>2. /\ \A f \in documents \cup photos : f \in abandoned'
        /\ abandoned \subseteq abandoned'
    OBVIOUS
  <1>3. \A v \in Workers :
            (Serving(v, "writing")) => photos \cap request[v].cleared = {}
    OBVIOUS
  <1>4. TypeOK'
    BY DEF Inv, TypeOK
  <1> HIDE DEF documents, photos
  <1>5. RequestsOK'
    <2> SUFFICES ASSUME NEW v \in Workers, request'[v] # NoRequest
                 PROVE  RequestOK(request[v])'
      BY DEF RequestsOK
    <2>1. request'[v] = request[v] /\ RequestOK(request[v])
      BY DEF Inv, RequestsOK
    <2>2. CASE request[v] \in PhotoRequest
      <3>1. request[v].cleared \subseteq Photos /\ ClearedOK(request[v])
        BY <2>1, <2>2 DEF PhotoRequest, RequestOK
      <3>2. \A p \in request[v].cleared : photo'[p] = photo[p]
        BY <1>1, <1>3, <2>1, <3>1 DEF Serving, ClearedOK
      <3>3. QED
        BY <1>1, <2>1, <3>2, RowsGone
    <2>3. CASE request[v] \in DocumentRequest
      <3>1. request[v] \notin PhotoRequest /\ request[v].file \in Documents
        BY <2>3 DEF DocumentRequest, PhotoRequest
      <3>2. document'[request[v].file] \in {document[request[v].file], NoRow}
        BY <1>1, <3>1
      <3>3. QED
        BY <2>1, <2>3, <3>1, <3>2 DEF RequestOK, DocumentRequestOK
    <2>4. QED
      BY <2>1, <2>2, <2>3 DEF Inv, TypeOK
  <1>6. Sole'
    BY DEF Inv, Sole
  <1>7. Placed' /\ DocumentHasFile' /\ PhotoHasFile'
    BY <1>1 DEF Inv, Placed, DocumentHasFile, PhotoHasFile, hasRow, Files
  <1>8. Accounted'
    <2> SUFFICES ASSUME NEW f \in Files, NEW s \in StorageProvider,
                        f \in stored[s], f \notin abandoned', ~hasRow(f)'
                 PROVE  \E v \in Workers : /\ request'[v] # NoRequest
                                           /\ request'[v].file = f
                                           /\ Responsible(request'[v])
      BY DEF Accounted
    <2>1. ~hasRow(f)
      BY <1>1, <1>2 DEF hasRow, Files
    <2>2. QED
      BY <1>2, <2>1 DEF Inv, Accounted
  <1>9. QED
    BY <1>4, <1>5, <1>6, <1>7, <1>8 DEF Inv

LEMMA CrashStep ==
    ASSUME Inv, Crash
    PROVE  Inv'
  <1> USE DEF Crash, rowVars
  <1>1. \A w \in Workers : request'[w] = NoRequest
    OBVIOUS
  <1>2. TypeOK'
    <2>1. isConfigured' \in BOOLEAN
      BY Zenon
    <2>2. crashes' \in 0 .. MaxCrashes
      BY FileConstants DEF Inv, TypeOK
    <2>3. abandoned' \subseteq Documents \cup Photos
      BY DEF Inv, TypeOK, StorageProvider
    <2>4. QED
      BY <2>1, <2>2, <2>3 DEF Inv, TypeOK
  <1>3. RequestsOK' /\ Sole'
    BY <1>1 DEF RequestsOK, Sole
  <1>4. Placed' /\ DocumentHasFile' /\ PhotoHasFile'
    BY DEF Inv, Placed, DocumentHasFile, PhotoHasFile, hasRow
  <1>5. Accounted'
    BY DEF Accounted, hasRow, StorageProvider
  <1>6. QED
    BY <1>2, <1>3, <1>4, <1>5 DEF Inv

LEMMA InvStep == Inv /\ [Next]_vars => Inv'
  <1> SUFFICES ASSUME Inv, [Next]_vars PROVE Inv'
    OBVIOUS
  <1>1. CASE \E w \in Workers : Arrive(w)
    BY <1>1, ReceiveDocumentStep, BeginRemoveDocumentStep, BeginUploadPhotoStep,
       BeginUpdatePhotoStep, BeginRemovePhotoStep DEF Arrive
  <1>2. CASE \E w \in Workers : Serve(w)
    BY <1>2, LeaveDocumentStep, CheckShipmentStep, InsertDocumentStep,
       DeleteDocumentStep, FailDeleteStep, UnlinkDocumentStep, StorePhotoStep,
       FailStoreStep, InsertPhotoStep, AbortPhotoStep, RemoveStoredFileStep,
       ReadPrimariesStep, ClearPrimariesStep, UpdatePhotoStep,
       UnstorePhotoStep, DeletePhotoStep, FailRemovePhotoStep DEF Serve
  <1>3. CASE \E o \in owners : RemoveOwner(o)
    BY <1>3, RemoveOwnerStep
  <1>4. CASE Crash
    BY <1>4, CrashStep
  <1>5. CASE UNCHANGED vars
    BY <1>5 DEF vars, Inv, TypeOK, RequestsOK, RequestOK, DocumentRequestOK,
                PhotoRequestOK, ClearedOK, Sole, Placed, Accounted, hasRow,
                DocumentHasFile, PhotoHasFile
  <1>6. QED
    BY <1>1, <1>2, <1>3, <1>4, <1>5 DEF Next

LEMMA InvAlways == Spec => []Inv
  <1>1. QED
    BY InitInv, InvStep, PTL DEF Spec

-----------------------------------------------------------------------------
(* The vehicle that has a primary photo *)

\* A commit leaves a primary photo where there was one, unless it sets the
\* last one not primary.
LEMMA WriteKeepsPrimary ==
    ASSUME Inv, NEW w \in Workers, NEW v \in Vehicles, NEW p \in primaryPhotos(v),
           request[w] # NoRequest, request[w] \in PhotoRequest,
           WritePhoto(w, request[w].row),
           p # request[w].file \/ request[w].row.isPrimary,
           photo[request[w].file] # NoRow => ~request[w].isUpload,
           request[w].step = "writing"
    PROVE  primaryPhotos(v)' # {}
  <1> DEFINE f == request[w].file
             row == request[w].row
  <1>1. /\ p \in Photos /\ photo[p] # NoRow /\ photo[p] \in PhotoRow
        /\ photo[p].vehicle = v /\ photo[p].isPrimary
    BY DEF primaryPhotos, Inv, TypeOK
  <1>2. /\ f \in Photos /\ row \in PhotoRow /\ row # NoRow /\ photo'[f] = row
    BY RowNotNoRow DEF PhotoRequest, WritePhoto
  <1>3. PhotoRequestOK(request[w]) /\ ClearedOK(request[w])
    BY PhotoKnown
  <1>4. CASE p = f
    <2>1. row.vehicle = v /\ row.isPrimary
      BY <1>1, <1>3, <1>4 DEF PhotoRequestOK, updatesPhoto, inTransaction
    <2>2. f \in primaryPhotos(v)'
      BY <1>2, <2>1 DEF primaryPhotos
    <2>3. QED
      BY <2>2
  <1>5. CASE p # f /\ p \in request[w].cleared
    <2>1. row.vehicle = v /\ row.isPrimary
      BY <1>1, <1>3, <1>5 DEF ClearedOK
    <2>2. f \in primaryPhotos(v)'
      BY <1>2, <2>1 DEF primaryPhotos
    <2>3. QED
      BY <2>2
  <1>6. CASE p # f /\ p \notin request[w].cleared
    <2>1. photo'[p] = photo[p]
      BY <1>1, <1>6 DEF WritePhoto
    <2>2. p \in primaryPhotos(v)'
      BY <1>1, <2>1 DEF primaryPhotos
    <2>3. QED
      BY <2>2
  <1>7. QED
    BY <1>4, <1>5, <1>6

LEMMA PrimaryStaysStep ==
    ASSUME Inv, [Next]_vars, NEW v \in Vehicles,
           primaryPhotos(v) # {}, primaryPhotos(v)' = {}
    PROVE  \/ \E p \in primaryPhotos(v) : photo'[p] = NoRow
           \/ \E w \in Workers : UpdatePhoto(w) /\ ~request[w].row.isPrimary
  <1>0. photo' # photo
    BY DEF primaryPhotos
  <1>1. PICK p \in primaryPhotos(v) : TRUE
    OBVIOUS
  <1>2. CASE \E w \in Workers : Arrive(w)
    BY <1>0, <1>2
       DEF Arrive, ReceiveDocument, BeginRemoveDocument, BeginUploadPhoto,
           BeginUpdatePhoto, BeginRemovePhoto, rowVars
  <1>3. ASSUME NEW w \in Workers, InsertPhoto(w)
        PROVE  FALSE
    <2>1. /\ request[w] # NoRequest /\ request[w].step = "writing"
          /\ request[w] \in PhotoRequest /\ PhotoRequestOK(request[w])
          /\ request[w].isUpload
      BY <1>3, PhotoKnown DEF InsertPhoto, Serving
    <2>2. photo[request[w].file] = NoRow
      BY <2>1 DEF PhotoRequestOK, uploadsPhoto, inTransaction
    <2>3. p # request[w].file
      BY <2>2 DEF primaryPhotos
    <2>4. WritePhoto(w, request[w].row)
      BY <1>3 DEF InsertPhoto, recordedRow
    <2>5. QED
      BY <2>1, <2>2, <2>3, <2>4, WriteKeepsPrimary
  <1>4. ASSUME NEW w \in Workers, UpdatePhoto(w)
        PROVE  ~request[w].row.isPrimary
    <2>1. /\ request[w] # NoRequest /\ request[w].step = "writing"
          /\ request[w] \in PhotoRequest
      BY <1>4, PhotoKnown DEF UpdatePhoto, Serving
    <2>2. QED
      BY <1>4, <2>1, WriteKeepsPrimary DEF UpdatePhoto
  <1>5. ASSUME NEW w \in Workers, DeletePhoto(w)
        PROVE  \E q \in primaryPhotos(v) : photo'[q] = NoRow
    <2>1. CASE p = request[w].file
      BY <1>5, <2>1 DEF DeletePhoto, primaryPhotos, Inv, TypeOK
    <2>2. CASE p # request[w].file
      BY <1>5, <2>2 DEF DeletePhoto, primaryPhotos, Inv, TypeOK
    <2>3. QED
      BY <2>1, <2>2
  <1>6. CASE \E w \in Workers : Serve(w)
    <2> PICK w \in Workers : Serve(w)
      BY <1>6
    <2>1. \/ InsertPhoto(w) \/ UpdatePhoto(w) \/ DeletePhoto(w)
          \/ UNCHANGED photo
      BY DEF Serve, LeaveDocument, CheckShipment, InsertDocument,
             DeleteDocument, FailDelete, Fail, UnlinkDocument, StorePhoto,
             FailStore, AbortPhoto, RemoveStoredFile, ReadPrimaries,
             ClearPrimaries, UnstorePhoto, FailRemovePhoto, rowVars
    <2>2. QED
      BY <1>0, <1>3, <1>4, <1>5, <2>1
  <1>7. CASE \E o \in owners : RemoveOwner(o)
    <2>1. p \in Photos /\ p \notin primaryPhotos(v)'
      BY DEF primaryPhotos
    <2>2. photo'[p] = NoRow
      BY <1>7, <2>1 DEF RemoveOwner, primaryPhotos
    <2>3. QED
      BY <2>2
  <1>8. CASE Crash \/ UNCHANGED vars
    BY <1>0, <1>8 DEF Crash, rowVars, vars
  <1>9. QED
    BY <1>2, <1>6, <1>7, <1>8 DEF Next

-----------------------------------------------------------------------------
(* One primary photo, while promotions do not overlap *)

\* The only request about to promote a photo of a vehicle has found, and then
\* cleared, whatever else is primary.
Alone ==
    \A v \in Vehicles \ raced :
        /\ \A u, w \in promoting(v) : u = w
        /\ \A w \in promoting(v) :
              otherPrimaries(w) \subseteq (IF request[w].step = "clearing"
                                           THEN request[w].others
                                           ELSE request[w].cleared)
        /\ \A p, q \in primaryPhotos(v) : p = q

LEMMA AloneKept ==
    ASSUME Alone, raced \subseteq raced',
           \A v \in Vehicles : primaryPhotos(v)' \subseteq primaryPhotos(v),
           \A v \in Vehicles : \A u \in promoting(v)' : request'[u] = request[u]
    PROVE  Alone'
  <1> SUFFICES ASSUME NEW v \in Vehicles \ raced'
               PROVE  /\ \A u, w \in promoting(v)' : u = w
                      /\ \A w \in promoting(v)' :
                            otherPrimaries(w)' \subseteq
                                (IF request'[w].step = "clearing"
                                 THEN request'[w].others
                                 ELSE request'[w].cleared)
                      /\ \A p, q \in primaryPhotos(v)' : p = q
    BY DEF Alone
  <1>1. \A u \in promoting(v)' : u \in promoting(v)
    BY DEF promoting, Serving
  <1>2. \A u, w \in promoting(v)' : u = w
    BY <1>1 DEF Alone
  <1>3. ASSUME NEW w \in promoting(v)'
        PROVE  otherPrimaries(w)' \subseteq (IF request'[w].step = "clearing"
                                             THEN request'[w].others
                                             ELSE request'[w].cleared)
    <2>1. request'[w] = request[w] /\ w \in promoting(v)
      BY <1>1
    <2>2. request[w].row.vehicle = v
      BY <2>1 DEF promoting
    <2>3. otherPrimaries(w)' \subseteq otherPrimaries(w)
      BY <2>1, <2>2 DEF otherPrimaries
    <2>4. QED
      BY <2>1, <2>3 DEF Alone
  <1>4. \A p, q \in primaryPhotos(v)' : p = q
    BY DEF Alone
  <1>5. QED
    BY <1>2, <1>3, <1>4

LEMMA AloneRead ==
    ASSUME Inv, Alone, NEW w \in Workers, ReadPrimaries(w)
    PROVE  Alone'
  <1> DEFINE x == request[w].row.vehicle
  <1>1. /\ request[w] # NoRequest /\ request[w].step = "reading"
        /\ request[w] \in PhotoRequest /\ x \in Vehicles
    BY PhotoKnown DEF ReadPrimaries, Serving, PhotoRequest, PhotoRow
  <1>2. /\ \A u \in Workers \ {w} : request'[u] = request[u]
        /\ request'[w].others = otherPrimaries(w)
        /\ request'[w].step = "clearing"
        /\ request'[w].row = request[w].row
        /\ request'[w].file = request[w].file
        /\ photo' = photo
    BY <1>1 DEF ReadPrimaries, Inv, TypeOK, PhotoRequest, rowVars
  <1>3. /\ raced \subseteq raced'
        /\ x \notin raced' => promoting(x) = {}
    BY DEF ReadPrimaries
  <1>4. \A v \in Vehicles : primaryPhotos(v)' = primaryPhotos(v)
    BY <1>2 DEF primaryPhotos
  <1> SUFFICES ASSUME NEW v \in Vehicles \ raced'
               PROVE  /\ \A u, t \in promoting(v)' : u = t
                      /\ \A u \in promoting(v)' :
                            otherPrimaries(u)' \subseteq
                                (IF request'[u].step = "clearing"
                                 THEN request'[u].others
                                 ELSE request'[u].cleared)
                      /\ \A p, q \in primaryPhotos(v)' : p = q
    BY DEF Alone
  <1>5. \A u \in promoting(v)' : u \in promoting(v) \/ (u = w /\ v = x)
    BY <1>2 DEF promoting, Serving
  <1>6. \A u, t \in promoting(v)' : u = t
    BY <1>3, <1>5 DEF Alone
  <1>7. ASSUME NEW u \in promoting(v)'
        PROVE  otherPrimaries(u)' \subseteq (IF request'[u].step = "clearing"
                                             THEN request'[u].others
                                             ELSE request'[u].cleared)
    <2>1. CASE u = w
      <3>1. otherPrimaries(w)' = otherPrimaries(w)
        BY <1>1, <1>2, <1>4 DEF otherPrimaries
      <3>2. QED
        BY <1>2, <2>1, <3>1
    <2>2. CASE u # w
      <3>1. u \in promoting(v) /\ request'[u] = request[u]
        BY <1>2, <1>5, <2>2 DEF promoting
      <3>2. request[u].row.vehicle = v
        BY <3>1 DEF promoting
      <3>3. otherPrimaries(u)' = otherPrimaries(u)
        BY <1>4, <3>1, <3>2 DEF otherPrimaries
      <3>4. QED
        BY <1>3, <3>1, <3>3 DEF Alone
    <2>3. QED
      BY <2>1, <2>2
  <1>8. \A p, q \in primaryPhotos(v)' : p = q
    BY <1>3, <1>4 DEF Alone
  <1>9. QED
    BY <1>6, <1>7, <1>8

LEMMA AloneClear ==
    ASSUME Inv, Alone, NEW w \in Workers, ClearPrimaries(w)
    PROVE  Alone'
  <1> DEFINE x == request[w].row.vehicle
  <1>1. /\ request[w] # NoRequest /\ request[w].step = "clearing"
        /\ request[w] \in PhotoRequest /\ x \in Vehicles
    BY PhotoKnown DEF ClearPrimaries, Serving, PhotoRequest, PhotoRow
  <1>2. /\ \A u \in Workers \ {w} : request'[u] = request[u]
        /\ request'[w].cleared = clearable(w)
        /\ request'[w].step = "writing"
        /\ request'[w].row = request[w].row
        /\ request'[w].file = request[w].file
        /\ photo' = photo /\ raced' = raced
    BY <1>1 DEF ClearPrimaries, Inv, TypeOK, PhotoRequest, rowVars, observers
  <1>3. \A v \in Vehicles : primaryPhotos(v)' = primaryPhotos(v)
    BY <1>2 DEF primaryPhotos
  <1> SUFFICES ASSUME NEW v \in Vehicles \ raced
               PROVE  /\ \A u, t \in promoting(v)' : u = t
                      /\ \A u \in promoting(v)' :
                            otherPrimaries(u)' \subseteq
                                (IF request'[u].step = "clearing"
                                 THEN request'[u].others
                                 ELSE request'[u].cleared)
                      /\ \A p, q \in primaryPhotos(v)' : p = q
    BY <1>2 DEF Alone
  <1>4. \A u \in promoting(v)' : u \in promoting(v)
    BY <1>1, <1>2 DEF promoting, Serving
  <1>5. \A u, t \in promoting(v)' : u = t
    BY <1>4 DEF Alone
  <1>6. ASSUME NEW u \in promoting(v)'
        PROVE  otherPrimaries(u)' \subseteq (IF request'[u].step = "clearing"
                                             THEN request'[u].others
                                             ELSE request'[u].cleared)
    <2>1. /\ request'[u].row = request[u].row
          /\ request'[u].file = request[u].file
          /\ request[u].row.vehicle = v
      BY <1>2, <1>4 DEF promoting
    <2>2. otherPrimaries(u)' = otherPrimaries(u)
      BY <1>3, <2>1 DEF otherPrimaries
    <2>3. CASE u = w
      <3>1. otherPrimaries(w) \subseteq request[w].others
        BY <1>1, <1>4, <2>3 DEF Alone
      <3>2. otherPrimaries(w) \subseteq clearable(w)
        BY <3>1 DEF clearable, otherPrimaries
      <3>3. QED
        BY <1>2, <2>2, <2>3, <3>2
    <2>4. CASE u # w
      <3>1. u \in promoting(v) /\ request'[u] = request[u]
        BY <1>2, <1>4, <2>4 DEF promoting
      <3>2. QED
        BY <2>2, <3>1 DEF Alone
    <2>5. QED
      BY <2>3, <2>4
  <1>7. \A p, q \in primaryPhotos(v)' : p = q
    BY <1>3 DEF Alone
  <1>8. QED
    BY <1>5, <1>6, <1>7

\* A commit that promotes a photo leaves it the only one, if it was alone.
LEMMA AloneWrite ==
    ASSUME Inv, Alone, NEW w \in Workers,
           request[w] # NoRequest, request[w] \in PhotoRequest,
           request[w].step = "writing",
           WritePhoto(w, request[w].row), Answer(w), UNCHANGED raced,
           photo[request[w].file] # NoRow => ~request[w].isUpload
    PROVE  Alone'
  <1> DEFINE f == request[w].file
             row == request[w].row
  <1>1. /\ f \in Photos /\ row \in PhotoRow /\ row # NoRow /\ photo'[f] = row
        /\ PhotoRequestOK(request[w])
    BY PhotoKnown, RowNotNoRow DEF PhotoRequest, WritePhoto
  <1>2. \A u \in Workers :
            request'[u] = IF u = w THEN NoRequest ELSE request[u]
    BY DEF Answer, Inv, TypeOK
  <1>3. ASSUME NEW q \in Photos \ {f}, NEW v \in Vehicles,
               q \in primaryPhotos(v)'
        PROVE  q \in primaryPhotos(v) /\ q \notin request[w].cleared
    <2>1. /\ photo'[q] # NoRow /\ photo'[q].vehicle = v /\ photo'[q].isPrimary
      BY <1>3 DEF primaryPhotos
    <2>2. q \notin request[w].cleared
      <3> SUFFICES ASSUME q \in request[w].cleared PROVE FALSE
        OBVIOUS
      <3>1. photo[q] \in PhotoRow
        BY PhotoKnown DEF ClearedOK, Inv, TypeOK
      <3>2. photo'[q] = [photo[q] EXCEPT !.isPrimary = FALSE]
        BY DEF WritePhoto
      <3>3. ~photo'[q].isPrimary
        BY <3>1, <3>2 DEF PhotoRow
      <3>4. QED
        BY <2>1, <3>3
    <2>3. photo'[q] = photo[q]
      BY <2>2 DEF WritePhoto
    <2>4. QED
      BY <2>1, <2>2, <2>3 DEF primaryPhotos
  <1>4. \A v \in Vehicles : \A u \in promoting(v)' :
            u # w /\ request'[u] = request[u] /\ u \in promoting(v)
    BY <1>2 DEF promoting, Serving
  <1>5. CASE ~row.isPrimary
    <2>1. \A v \in Vehicles : primaryPhotos(v)' \subseteq primaryPhotos(v)
      BY <1>1, <1>3, <1>5 DEF primaryPhotos
    <2>2. QED
      BY <1>4, <2>1, AloneKept
  <1>6. CASE row.isPrimary
    <2> DEFINE x == row.vehicle
    <2>1. x \in Vehicles /\ w \in promoting(x)
      BY <1>1, <1>6 DEF promoting, Serving, PhotoRow
    <2>2. \A v \in Vehicles \ {x} : primaryPhotos(v)' \subseteq primaryPhotos(v)
      BY <1>1, <1>3 DEF primaryPhotos
    <2> SUFFICES ASSUME NEW v \in Vehicles \ raced
                 PROVE  /\ \A u, t \in promoting(v)' : u = t
                        /\ \A u \in promoting(v)' :
                              otherPrimaries(u)' \subseteq
                                  (IF request'[u].step = "clearing"
                                   THEN request'[u].others
                                   ELSE request'[u].cleared)
                        /\ \A p, q \in primaryPhotos(v)' : p = q
      BY DEF Alone
    <2>3. CASE v = x
      <3>1. promoting(v)' = {}
        BY <1>4, <2>1, <2>3 DEF Alone
      <3>2. otherPrimaries(w) \subseteq request[w].cleared
        BY <2>1, <2>3 DEF Alone
      <3>3. \A q \in primaryPhotos(v)' : q = f
        <4> SUFFICES ASSUME NEW q \in primaryPhotos(v)', q # f
                     PROVE  FALSE
          OBVIOUS
        <4>1. q \in Photos
          BY DEF primaryPhotos
        <4>2. q \in primaryPhotos(v) /\ q \notin request[w].cleared
          BY <1>3, <4>1
        <4>3. q \in otherPrimaries(w)
          BY <2>3, <4>2 DEF otherPrimaries
        <4>4. QED
          BY <3>2, <4>2, <4>3
      <3>4. QED
        BY <3>1, <3>3
    <2>4. CASE v # x
      <3>1. \A u, t \in promoting(v)' : u = t
        BY <1>4 DEF Alone
      <3>2. ASSUME NEW u \in promoting(v)'
            PROVE  otherPrimaries(u)' \subseteq
                       (IF request'[u].step = "clearing"
                        THEN request'[u].others ELSE request'[u].cleared)
        <4>1. request'[u] = request[u] /\ u \in promoting(v)
          BY <1>4
        <4>2. request[u].row.vehicle = v
          BY <4>1 DEF promoting
        <4>3. otherPrimaries(u)' \subseteq otherPrimaries(u)
          BY <2>2, <2>4, <4>1, <4>2 DEF otherPrimaries
        <4>4. QED
          BY <4>1, <4>3 DEF Alone
      <3>3. \A p, q \in primaryPhotos(v)' : p = q
        BY <2>2, <2>4 DEF Alone
      <3>4. QED
        BY <3>1, <3>2, <3>3
    <2>5. QED
      BY <2>3, <2>4
  <1>7. QED
    BY <1>5, <1>6

\* A step that moves on one request to a state in which it promotes nothing,
\* and makes no photo primary.
LEMMA AloneServed ==
    ASSUME Inv, Alone, NEW w \in Workers, NEW r \in Requests,
           r # NoRequest =>
               r.step \notin {"clearing", "writing"} \/ ~r.row.isPrimary,
           request' = [request EXCEPT ![w] = r],
           raced' = raced,
           \A v \in Vehicles : primaryPhotos(v)' \subseteq primaryPhotos(v)
    PROVE  Alone'
  <1>1. \A u \in Workers : request'[u] = IF u = w THEN r ELSE request[u]
    BY DEF Inv, TypeOK
  <1>2. \A v \in Vehicles : \A u \in promoting(v)' : request'[u] = request[u]
    BY <1>1 DEF promoting, Serving
  <1>3. QED
    BY <1>2, AloneKept

LEMMA AloneStep == Inv /\ Alone /\ [Next]_vars => Alone'
  <1> SUFFICES ASSUME Inv, Alone, [Next]_vars PROVE Alone'
    OBVIOUS
  <1>0. photo' = photo =>
            \A v \in Vehicles : primaryPhotos(v)' \subseteq primaryPhotos(v)
    BY DEF primaryPhotos
  <1>1. ASSUME NEW w \in Workers, Arrive(w)
        PROVE  Alone'
    <2>1. photo' = photo /\ raced' = raced
      BY <1>1 DEF Arrive, ReceiveDocument, BeginRemoveDocument,
                  BeginUploadPhoto, BeginUpdatePhoto, BeginRemovePhoto,
                  rowVars, observers
    <2>2. ASSUME NEW d \in Documents, NEW s \in Shipments,
                 ReceiveDocument(w, d, s)
          PROVE  Alone'
      BY <1>0, <2>1, <2>2, AloneServed
         DEF ReceiveDocument, Requests, DocumentRequest
    <2>3. ASSUME NEW d \in Documents, BeginRemoveDocument(w, d)
          PROVE  Alone'
      <3>1. document[d] \in Shipments
        BY <2>3 DEF BeginRemoveDocument, Inv, TypeOK
      <3>2. QED
        BY <1>0, <2>1, <2>3, <3>1, AloneServed
           DEF BeginRemoveDocument, Requests, DocumentRequest
    <2>4. ASSUME NEW p \in Photos, NEW v \in Vehicles, NEW b \in BOOLEAN,
                 BeginUploadPhoto(w, p, v, b)
          PROVE  Alone'
      <3>1. chosenProvider \in StorageProvider
        BY DEF chosenProvider, StorageProvider
      <3>2. QED
        BY <1>0, <2>1, <2>4, <3>1, AloneServed
           DEF BeginUploadPhoto, Requests, PhotoRequest, PhotoRow
    <2>5. ASSUME NEW p \in Photos, NEW b \in BOOLEAN, BeginUpdatePhoto(w, p, b)
          PROVE  Alone'
      <3> DEFINE row == [photo[p] EXCEPT !.isPrimary = b]
                 r == [step |-> firstStep(row), file |-> p, isUpload |-> FALSE,
                       row |-> row, others |-> {}, cleared |-> {}]
      <3>1. row \in PhotoRow
        BY <2>5 DEF BeginUpdatePhoto, Inv, TypeOK, PhotoRow
      <3> HIDE DEF row
      <3>2. /\ firstStep(row) \in {"reading", "writing"}
            /\ firstStep(row) = "writing" => ~row.isPrimary
        BY DEF firstStep
      <3>3. /\ r \in PhotoRequest
            /\ r.step \notin {"clearing", "writing"} \/ ~r.row.isPrimary
        BY <3>1, <3>2 DEF PhotoRequest
      <3>4. request' = [request EXCEPT ![w] = r]
        BY <2>5 DEF BeginUpdatePhoto, row
      <3>5. QED
        BY <1>0, <2>1, <3>3, <3>4, AloneServed DEF Requests
    <2>6. ASSUME NEW p \in Photos, BeginRemovePhoto(w, p)
          PROVE  Alone'
      <3>1. photo[p] \in PhotoRow
        BY <2>6 DEF BeginRemovePhoto, Inv, TypeOK
      <3>2. QED
        BY <1>0, <2>1, <2>6, <3>1, AloneServed
           DEF BeginRemovePhoto, Requests, PhotoRequest
    <2>7. QED
      BY <1>1, <2>2, <2>3, <2>4, <2>5, <2>6 DEF Arrive
  <1>2. ASSUME NEW w \in Workers, Serve(w)
        PROVE  Alone'
    <2>1. CASE ReadPrimaries(w)
      BY <2>1, AloneRead
    <2>2. CASE ClearPrimaries(w)
      BY <2>2, AloneClear
    <2>3. CASE InsertPhoto(w)
      <3>1. /\ request[w] # NoRequest /\ request[w].step = "writing"
            /\ request[w] \in PhotoRequest /\ PhotoRequestOK(request[w])
        BY <2>3, PhotoKnown DEF InsertPhoto, Serving
      <3>2. photo[request[w].file] = NoRow
        BY <2>3, <3>1
           DEF InsertPhoto, PhotoRequestOK, uploadsPhoto, inTransaction
      <3>3. QED
        BY <2>3, <3>1, <3>2, AloneWrite
           DEF InsertPhoto, recordedRow, observers
    <2>4. CASE UpdatePhoto(w)
      <3>1. /\ request[w] # NoRequest /\ request[w].step = "writing"
            /\ request[w] \in PhotoRequest
        BY <2>4, PhotoKnown DEF UpdatePhoto, Serving
      <3>2. QED
        BY <2>4, <3>1, AloneWrite DEF UpdatePhoto, observers
    <2>5. CASE StorePhoto(w)
      <3> DEFINE step == firstStep(request[w].row)
                 r == [request[w] EXCEPT !.step = step]
      <3>1. request[w] \in PhotoRequest
        BY <2>5, PhotoKnown DEF StorePhoto, Serving
      <3>2. /\ step \in {"reading", "writing"}
            /\ step = "writing" => ~request[w].row.isPrimary
        BY DEF firstStep
      <3> HIDE DEF step
      <3>3. /\ r \in PhotoRequest
            /\ r.step \notin {"clearing", "writing"} \/ ~r.row.isPrimary
        BY <3>1, <3>2 DEF PhotoRequest
      <3>4. /\ request' = [request EXCEPT ![w] = r]
            /\ photo' = photo /\ raced' = raced
        BY <2>5 DEF StorePhoto, Proceed, step, rowVars, observers
      <3>5. QED
        BY <1>0, <3>3, <3>4, AloneServed DEF Requests
    <2>6. CASE DeletePhoto(w)
      <3>1. \A v \in Vehicles : primaryPhotos(v)' \subseteq primaryPhotos(v)
        BY <2>6 DEF DeletePhoto, primaryPhotos, Inv, TypeOK
      <3>2. QED
        BY <2>6, <3>1, AloneServed
           DEF DeletePhoto, Answer, Requests, observers
    <2>7. CASE AbortPhoto(w) /\ request[w].isUpload
      <3> DEFINE r == [request[w] EXCEPT !.step = "compensating",
                                         !.cleared = {}]
      <3>1. request[w] \in PhotoRequest
        BY <2>7, PhotoKnown DEF AbortPhoto
      <3>2. r \in PhotoRequest /\ r.step = "compensating"
        BY <3>1 DEF PhotoRequest
      <3>3. /\ request' = [request EXCEPT ![w] = r]
            /\ photo' = photo /\ raced' = raced
        BY <2>7 DEF AbortPhoto, rowVars, observers, Inv, TypeOK
      <3>4. QED
        BY <1>0, <3>2, <3>3, AloneServed DEF Requests
    <2>8. CASE \/ LeaveDocument(w) \/ InsertDocument(w) \/ FailDelete(w)
               \/ UnlinkDocument(w) \/ FailStore(w) \/ RemoveStoredFile(w)
               \/ FailRemovePhoto(w)
               \/ AbortPhoto(w) /\ ~request[w].isUpload
      <3>1. /\ request' = [request EXCEPT ![w] = NoRequest]
            /\ photo' = photo /\ raced' = raced
        BY <2>8 DEF LeaveDocument, InsertDocument, FailDelete, Fail, Answer,
                    UnlinkDocument, FailStore, RemoveStoredFile,
                    FailRemovePhoto, AbortPhoto, rowVars, observers
      <3>2. QED
        BY <1>0, <3>1, AloneServed DEF Requests
    <2>9. CASE CheckShipment(w) \/ DeleteDocument(w) \/ UnstorePhoto(w)
      <3>1. PICK step \in {"inserting", "discarding", "unlinking",
                           "deletingPhoto"} :
                /\ request' = [request EXCEPT ![w].step = step]
                /\ photo' = photo /\ raced' = raced
        BY <2>9 DEF CheckShipment, DeleteDocument, UnstorePhoto, Proceed,
                    rowVars, observers
      <3>2. \/ request[w] \in DocumentRequest /\ step # "deletingPhoto"
            \/ request[w] \in PhotoRequest /\ step = "deletingPhoto"
        <4>1. CASE CheckShipment(w) \/ DeleteDocument(w)
          <5>1. request[w] \in DocumentRequest
            BY <4>1, DocumentKnown DEF CheckShipment, DeleteDocument, Serving
          <5>2. request'[w].step # "deletingPhoto"
            BY <4>1, <5>1 DEF CheckShipment, DeleteDocument, Proceed, Inv,
                              TypeOK, DocumentRequest
          <5>3. QED
            BY <3>1, <5>1, <5>2 DEF Inv, TypeOK, DocumentRequest
        <4>2. CASE UnstorePhoto(w)
          <5>1. request[w] \in PhotoRequest
            BY <4>2, PhotoKnown DEF UnstorePhoto, Serving
          <5>2. request'[w].step = "deletingPhoto"
            BY <4>2, <5>1 DEF UnstorePhoto, Proceed, Inv, TypeOK, PhotoRequest
          <5>3. QED
            BY <3>1, <5>1, <5>2 DEF Inv, TypeOK, PhotoRequest
        <4>3. QED
          BY <2>9, <4>1, <4>2
      <3> DEFINE r == [request[w] EXCEPT !.step = step]
      <3>3. r \in Requests /\ r.step = step
        BY <3>2 DEF Requests, DocumentRequest, PhotoRequest
      <3>4. request' = [request EXCEPT ![w] = r]
        BY <3>1
      <3> HIDE DEF r
      <3>5. QED
        BY <1>0, <3>1, <3>3, <3>4, AloneServed
    <2>10. QED
      BY <1>2, <2>1, <2>2, <2>3, <2>4, <2>5, <2>6, <2>7, <2>8, <2>9 DEF Serve
  <1>3. ASSUME NEW o \in owners, RemoveOwner(o)
        PROVE  Alone'
    <2>1. \A v \in Vehicles : primaryPhotos(v)' \subseteq primaryPhotos(v)
      BY <1>3 DEF RemoveOwner, primaryPhotos
    <2>2. request' = request /\ raced' = raced
      BY <1>3 DEF RemoveOwner
    <2>3. QED
      BY <2>1, <2>2, AloneKept
  <1>4. CASE Crash
    <2>1. \A v \in Vehicles : promoting(v)' = {}
      BY <1>4 DEF Crash, promoting, Serving
    <2>2. photo' = photo /\ raced' = raced
      BY <1>4 DEF Crash, rowVars
    <2>3. QED
      BY <1>0, <2>1, <2>2, AloneKept
  <1>5. CASE UNCHANGED vars
    BY <1>0, <1>5, AloneKept DEF vars
  <1>6. QED
    BY <1>1, <1>2, <1>3, <1>4, <1>5 DEF Next

-----------------------------------------------------------------------------

\* The handlers keep their variables in range.
THEOREM FilesTyped == Spec => []TypeOK
  <1>1. Inv => TypeOK
    BY DEF Inv
  <1>2. QED
    BY <1>1, InvAlways, PTL

\* No document of a shipment is ever listed without its file, through any
\* overlap of DocumentsService.create and remove, failures of the disk, crashes
\* and removals of shipments.
THEOREM DocumentHasFileAlways == Spec => []DocumentHasFile
  <1>1. Inv => DocumentHasFile
    BY DEF Inv
  <1>2. QED
    BY <1>1, InvAlways, PTL

\* A photo whose removal was not asked for is in the store its row names,
\* although VehiclePhotosService may be restarted with or without Cloudinary.
THEOREM PhotoHasFileAlways == Spec => []PhotoHasFile
  <1>1. Inv => PhotoHasFile
    BY DEF Inv
  <1>2. QED
    BY <1>1, InvAlways, PTL

\* A file without a row is one that a request still sees to, or one that a
\* failure, a crash or the removal of its owner left.
THEOREM NothingLeftBehindAlways == Spec => []NothingLeftBehind
  <1>1. Inv => NothingLeftBehind
    <2> SUFFICES ASSUME Inv,
                        NEW f \in stored["LOCAL"] \cup stored["CLOUDINARY"],
                        f \notin abandoned
                 PROVE  \/ hasRow(f)
                        \/ \E w \in Workers : /\ request[w] # NoRequest
                                              /\ request[w].file = f
      BY DEF NothingLeftBehind
    <2>1. f \in Files /\ \E s \in StorageProvider : f \in stored[s]
      BY DEF Inv, TypeOK, StorageProvider, Files
    <2>2. QED
      BY <2>1 DEF Inv, Accounted
  <1>2. QED
    BY <1>1, InvAlways, PTL

\* Making another photo primary, however it overlaps with others or fails,
\* never leaves the vehicle without a primary photo.
THEOREM PrimaryStaysAlways == Spec => PrimaryStays
  <1>1. Inv /\ [Next]_vars =>
            [\A v \in Vehicles :
                (primaryPhotos(v) # {} /\ primaryPhotos(v)' = {}) =>
                    \/ \E p \in primaryPhotos(v) : photo'[p] = NoRow
                    \/ \E w \in Workers : /\ UpdatePhoto(w)
                                          /\ ~request[w].row.isPrimary]_vars
    BY PrimaryStaysStep
  <1>2. QED
    BY <1>1, InvAlways, PTL DEF Spec, PrimaryStays

\* A vehicle has no two primary photos, unless requests to promote photos of it
\* overlapped.
THEOREM OnePrimaryAlways == Spec => []OnePrimary
  <1>1. Init => Alone
    BY DEF Init, Alone, promoting, Serving, primaryPhotos
  <1>2. Alone => OnePrimary
    <2> SUFFICES ASSUME Alone, NEW v \in Vehicles \ raced
                 PROVE  Cardinality(primaryPhotos(v)) <= 1
      BY DEF OnePrimary
    <2>1. CASE primaryPhotos(v) = {}
      BY <2>1, FS_EmptySet
    <2>2. CASE primaryPhotos(v) # {}
      <3>1. PICK p \in primaryPhotos(v) : TRUE
        BY <2>2
      <3>2. \A q \in primaryPhotos(v) : q = p
        BY DEF Alone
      <3>3. primaryPhotos(v) = {p}
        BY <3>2
      <3>4. QED
        BY <3>3, FS_Singleton
    <2>3. QED
      BY <2>1, <2>2
  <1>3. QED
    BY <1>1, <1>2, AloneStep, InvAlways, PTL DEF Spec

=============================================================================
