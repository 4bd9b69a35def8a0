----------------------------- MODULE Documents ------------------------------
(***************************************************************************)
(* Documents of a customer (modules/documents): initiateUpload, the upload *)
(* of the browser to the signed URL, confirmUpload, the verification by a  *)
(* reviewer, getDocumentWithUrl, and the edge function                     *)
(* compute-document-hash that every confirmation fires without waiting.    *)
(***************************************************************************)
EXTENDS Requests

CONSTANT Doc  \* identities of documents

VARIABLES
    doc,        \* documents, with the object in the bucket
    docEvents,  \* document_events: type, document and request
    hashing     \* the run of compute-document-hash fired by a confirmation

documentRows == <<doc, docEvents, hashing>>

Verdict == {"verified", "rejected"}
DocumentStage == {"set_path", "sign", "event_initiated", "audit_initiated",
                  "set_uploaded", "event_uploaded", "audit_uploaded",
                  "set_verdict", "audit_verdict", "sign_download", "event_accessed"}
HashStage == {"lookup", "download", "store_hash", "event_hashed", "audit_hashed"}
EventType == {"upload_initiated", "uploaded", "accessed", "hash_computed"}

\* located: storage_path names the document; linked: a signed upload URL was issued;
\* filed: the object is in the bucket; hashed: file_hash is set.
Document == [status : {"pending", "uploaded"} \cup Verdict, located : BOOLEAN,
             linked : BOOLEAN, filed : BOOLEAN, hashed : BOOLEAN]

ASSUME DocumentNoneAssumption ==
    None \notin Document \cup {"upload", "confirm", "verify", "read"}

\* on: the document; arg: whether documents_update_staff admits the role, and the
\* verdict.
DocumentRequest == [pc : {"idle"} \cup DocumentStage \cup Ended,
                    op : {"upload", "confirm", "verify", "read", None},
                    on : Doc \cup {None},
                    arg : [staff : BOOLEAN, verdict : Verdict \cup {None}] \cup {None},
                    seen : {None}]

DocumentsTypeOK ==
    /\ req \in [Request -> DocumentRequest]
    /\ trail \subseteq {"initiated", "uploaded", "verified", "rejected", "hashed"} \X Request
    /\ crossed \subseteq Request
    /\ doc \in [Doc -> Document \cup {None}]
    /\ docEvents \subseteq EventType \X Doc \X Request
    /\ hashing \in [Request -> {"none"} \cup HashStage \cup Ended]

DocumentsInit ==
    /\ doc = [d \in Doc |-> None]
    /\ docEvents = {}
    /\ hashing = [r \in Request |-> "none"]
-----------------------------------------------------------------------------
Exists(d) == doc[d] # None

\* appendDocumentEvent, in a call of its own.
AppendEvent(r, stage, type, next) ==
    /\ At(r, stage)
    /\ docEvents' = docEvents \cup {<<type, req[r].on, r>>}
    /\ Goto(r, next)
    /\ UNCHANGED <<trail, doc, hashing>>

\* An UPDATE of documents: documents_update_staff refuses the new row to others.
Update(r, stage, field, value, next) ==
    /\ At(r, stage)
    /\ IF req[r].arg.staff
       THEN doc' = [doc EXCEPT ![req[r].on][field] = value] /\ Goto(r, next)
       ELSE UNCHANGED doc /\ Goto(r, "refused")
    /\ UNCHANGED <<trail, docEvents, hashing>>

(* POST /api/documents/upload-url : initiateUpload                         *)

\* createDocumentRecord
StartUpload(r) ==
    /\ \E d \in Doc, staff \in BOOLEAN :
         /\ ~Exists(d)
         /\ Begin(r, "upload", d, [staff |-> staff, verdict |-> None], None, "set_path")
         /\ doc' = [doc EXCEPT ![d] = [status |-> "pending", located |-> FALSE,
                                       linked |-> FALSE, filed |-> FALSE, hashed |-> FALSE]]
    /\ UNCHANGED <<trail, docEvents, hashing>>

SetPath(r) == Update(r, "set_path", "located", TRUE, "sign")

\* createSignedUploadUrl
Sign(r) ==
    /\ At(r, "sign")
    /\ doc' = [doc EXCEPT ![req[r].on].linked = TRUE]
    /\ Goto(r, "event_initiated")
    /\ UNCHANGED <<trail, docEvents, hashing>>

EventInitiated(r) == AppendEvent(r, "event_initiated", "upload_initiated", "audit_initiated")

\* The browser has the URL from the answer; an object is never replaced.
Put(r) ==
    /\ req[r].op = "upload" /\ At(r, "done") /\ doc[req[r].on].linked
    /\ doc' = [doc EXCEPT ![req[r].on].filed = TRUE]
    /\ UNCHANGED <<calls, docEvents, hashing>>
-----------------------------------------------------------------------------
(* POST /api/documents/[id] : confirmUpload                                *)

\* The status of the document is not looked at, and neither is the bucket.
StartConfirm(r) ==
    /\ \E d \in Doc, staff \in BOOLEAN :
         Begin(r, "confirm", d, [staff |-> staff, verdict |-> None], None,
               IF Exists(d) THEN "set_uploaded" ELSE "refused")
    /\ UNCHANGED <<trail, documentRows>>

SetUploaded(r) == Update(r, "set_uploaded", "status", "uploaded", "event_uploaded")

EventUploaded(r) == AppendEvent(r, "event_uploaded", "uploaded", "audit_uploaded")

\* After the audit row the edge function is fired; the call may get lost.
AuditUploaded(r) ==
    /\ Emit(r, "audit_uploaded", "uploaded", "done")
    /\ \/ hashing' = [hashing EXCEPT ![r] = "lookup"]
       \/ UNCHANGED hashing
    /\ UNCHANGED <<doc, docEvents>>
-----------------------------------------------------------------------------
(* POST /api/documents/[id]/verify and GET /api/documents/[id]             *)

\* Any role with documents:read, and any status.
StartVerify(r) ==
    /\ \E d \in Doc, staff \in BOOLEAN, v \in Verdict :
         /\ Exists(d)
         /\ Begin(r, "verify", d, [staff |-> staff, verdict |-> v], None, "set_verdict")
    /\ UNCHANGED <<trail, documentRows>>

SetVerdict(r) ==
    /\ req[r].op = "verify"
    /\ Update(r, "set_verdict", "status", req[r].arg.verdict, "audit_verdict")

\* getDocumentWithUrl
StartRead(r) ==
    /\ \E d \in Doc : Exists(d) /\ Begin(r, "read", d, None, None, "sign_download")
    /\ UNCHANGED <<trail, documentRows>>

\* No signed URL for an object that is not there.
SignDownload(r) ==
    /\ At(r, "sign_download")
    /\ Goto(r, IF doc[req[r].on].located /\ doc[req[r].on].filed THEN "event_accessed"
               ELSE "refused")
    /\ UNCHANGED <<trail, documentRows>>

EventAccessed(r) == AppendEvent(r, "event_accessed", "accessed", "done")

AuditDocument(r) ==
    /\ \/ Emit(r, "audit_initiated", "initiated", "done")
       \/ /\ req[r].op = "verify"
          /\ Emit(r, "audit_verdict", req[r].arg.verdict, "done")
    /\ UNCHANGED documentRows
-----------------------------------------------------------------------------
(* compute-document-hash                                                   *)

Target(r) == req[r].on
Hash(r, from, to) == hashing[r] = from /\ hashing' = [hashing EXCEPT ![r] = to]

\* A document that has a hash is answered from the row.
HashLookup(r) ==
    /\ Hash(r, "lookup", IF doc[Target(r)].hashed THEN "done" ELSE "download")
    /\ UNCHANGED <<calls, doc, docEvents>>

\* Bug: a failed download is hashed like an empty file.
HashDownloadUncheckedBug(r) ==
    /\ Hash(r, "download", "store_hash")
    /\ UNCHANGED <<calls, doc, docEvents>>

HashDownload(r) ==
    /\ Hash(r, "download",
            IF doc[Target(r)].located /\ doc[Target(r)].filed THEN "store_hash" ELSE "refused")
    /\ UNCHANGED <<calls, doc, docEvents>>

StoreFileHash(r) ==
    /\ Hash(r, "store_hash", "event_hashed")
    /\ doc' = [doc EXCEPT ![Target(r)].hashed = TRUE]
    /\ UNCHANGED <<calls, docEvents>>

EventHashed(r) ==
    /\ Hash(r, "event_hashed", "audit_hashed")
    /\ docEvents' = docEvents \cup {<<"hash_computed", Target(r), r>>}
    /\ UNCHANGED <<calls, doc>>

\* The audit row may fail without the function failing.
AuditHashed(r) ==
    /\ Hash(r, "audit_hashed", "done")
    /\ trail' = trail \cup {<<"hashed", r>>} \/ UNCHANGED trail
    /\ UNCHANGED <<req, crossed, doc, docEvents>>

HashFails(r) ==
    /\ hashing[r] \in HashStage
    /\ hashing' = [hashing EXCEPT ![r] = "killed"]
    /\ UNCHANGED <<calls, doc, docEvents>>

DocumentsNext ==
    \E r \in Request :
      \/ StartUpload(r) \/ SetPath(r) \/ Sign(r) \/ EventInitiated(r) \/ Put(r)
      \/ StartConfirm(r) \/ SetUploaded(r) \/ EventUploaded(r) \/ AuditUploaded(r)
      \/ StartVerify(r) \/ SetVerdict(r) \/ StartRead(r) \/ SignDownload(r)
      \/ EventAccessed(r) \/ AuditDocument(r)
      \/ HashLookup(r) \/ HashDownload(r) \/ StoreFileHash(r) \/ EventHashed(r)
      \/ AuditHashed(r) \/ HashFails(r)
      \/ Kill(r) /\ UNCHANGED documentRows

DocumentsSpec == RequestsInit /\ DocumentsInit /\ [][DocumentsNext]_<<calls, documentRows>>
-----------------------------------------------------------------------------
Made(d, op, ended, stages) ==
    \E r \in Request : req[r].op = op /\ req[r].on = d /\ req[r].pc \in ended \cup stages

\* A hash is of an object that exists, and was announced in the timeline unless a run
\* of the function died: the check "already hashed" of the next run hides that death
\* for good (compute-document-hash/index.ts:76-83).
HashHasHistory ==
    \A d \in Doc : Exists(d) /\ doc[d].hashed =>
      /\ doc[d].filed
      /\ \E r \in Request : /\ Target(r) = d
                            /\ \/ <<"hash_computed", d, r>> \in docEvents
                               \/ hashing[r] \in {"event_hashed", "killed"}

\* The status of a document is what a confirmation or a reviewer wrote last: with no
\* two of them at work at once, and none cut off, a status of uploaded has its event in
\* the timeline and a verdict has its row in the audit log.
StatusHasHistory ==
    \A d \in Doc : Exists(d) =>
      \/ doc[d].status = "pending"
      \/ doc[d].status = "uploaded" /\ Made(d, "confirm", {"done", "killed"},
                                            {"event_uploaded", "audit_uploaded"})
      \/ \E r \in Request :
           /\ req[r].op = "verify" /\ Target(r) = d /\ req[r].arg.verdict = doc[d].status
           /\ <<doc[d].status, r>> \in trail \/ req[r].pc \in {"audit_verdict", "killed"}

DocumentHistory == HashHasHistory /\ StatusHasHistory
=============================================================================
