------------------------------ MODULE FileXfer ------------------------------
(***************************************************************************)
(* Sending files: vk-filexfer.cpp, the upload of documents of              *)
(* vk-upload.cpp with the repetition of httputils.cpp, and the list of     *)
(* uploaded documents that VkData keeps from session to session.           *)
(*                                                                         *)
(* A transfer first asks the server which documents still exist.  One that *)
(* has been uploaded before is sent again, any other file is uploaded; the *)
(* answer of docs.get is one page here.  Meanwhile the user may cancel the *)
(* transfer in libpurple, which drops its reference and sets the status;   *)
(* the code finds out later, or never.  A UI that shows transfers may hold *)
(* one more reference, not counted here.                                   *)
(***************************************************************************)
EXTENDS Integers, Sequences, FiniteSets

CONSTANTS
    Transfers,          \* files the user will send
    Files,              \* contents and names of files
    MaxHttpRetries,     \* MAX_HTTP_RETRIES of httputils.cpp
    MaxDeletes,         \* bound: documents deleted or renamed elsewhere
    MaxCrashes          \* bound: crashes of the program

ASSUME XferAssumption == {MaxHttpRetries, MaxDeletes, MaxCrashes} \subseteq Nat

VARIABLES
    session,    \* "on" between vk_login and vk_close
    xfer,       \* the transfers, see TypeOK
    docs,       \* the files of all documents saved on the server, by id
    deleted,    \* ids of documents that were deleted or renamed
    uploaded,   \* ids in VkData::uploaded_docs
    stored,     \* ids in the setting uploaded_docs of the account
    crashes,
    \* History
    remembered, \* ids that were in uploaded_docs at some time
    forgotten,  \* and were taken out by one of the accidents CacheIsAccountedFor names
    unsaved,    \* and came into the list in this session
    overdrawn   \* transfers cancelled while listing, and sent all the same

server  == <<docs, deleted>>
cache   == <<uploaded, stored, remembered, forgotten, unsaved>>
vars == <<session, xfer, server, cache, crashes, overdrawn>>

Ids == DOMAIN docs

\* What a transfer waits for: the answer of docs.get, before and after the
\* server gave it; docs.getWallUploadServer; the upload; the timer that
\* repeats it; the answer of docs.save, before and after.
Busy   == {"listing", "listed", "server", "upload", "retry", "save", "saved"}
Ended  == {"end", "gone"}   \* xfer_fini was called, or will never be
Stages == {"new"} \cup Busy \cup Ended

\* The status of a PurpleXfer, as far as it matters.
Statuses == {"active", "cancelled", "over"}

TypeOK ==
    /\ session \in {"off", "on"}
    /\ xfer \in [Transfers -> [at : Stages, file : Files, status : Statuses, refs : Int,
                               existing : SUBSET Nat, seen : Nat, doc : Nat, watched : BOOLEAN,
                               retries : 0..MaxHttpRetries, sends : Nat]]
    /\ docs \in Seq(Files)
    /\ deleted \in SUBSET Nat
    /\ uploaded \in SUBSET Nat /\ stored \in SUBSET Nat
    /\ remembered \in SUBSET Nat /\ forgotten \in SUBSET Nat /\ unsaved \in SUBSET Nat
    /\ crashes \in 0..MaxCrashes
    /\ overdrawn \in SUBSET Transfers

\* new_xfer: libpurple holds the only reference.
Fresh(f) == [at |-> "new", file |-> f, status |-> "active", refs |-> 1, existing |-> {},
             seen |-> 0, doc |-> 0, watched |-> FALSE, retries |-> 0, sends |-> 0]

Init ==
    /\ session = "off"
    /\ xfer \in [Transfers -> {Fresh(f) : f \in Files}]
    /\ docs = <<>> /\ deleted = {}
    /\ uploaded = {} /\ stored = {} /\ remembered = {} /\ forgotten = {} /\ unsaved = {}
    /\ crashes = 0
    /\ overdrawn = {}

-----------------------------------------------------------------------------
(* A definition named X_Y before a definition X is X with a bug seeded, for  *)
(* the mutation runs that show what each property detects.                   *)

Become(t, x) == xfer' = [xfer EXCEPT ![t] = x]

\* xfer_fini
Fini(x) == [x EXCEPT !.at = "end", !.refs = @ - 1]

\* purple_xfer_cancel_remote, purple_xfer_end: libpurple drops its reference.
Over(x) == [x EXCEPT !.status = "over", !.refs = @ - 1]

\* What the error callback of upload_doc_for_im makes of a transfer.
Failed_AlwaysCancels(x) == Fini(Over(x))
Failed(x) == IF x.status = "cancelled" THEN Fini(x) ELSE Fini(Over(x))

\* send_doc_url
Send(x) == [x EXCEPT !.sends = @ + 1]

-----------------------------------------------------------------------------
(* The user and libpurple *)

\* xfer_init: the file is there and not too large, or not.
Start(t) ==
    /\ session = "on"
    /\ xfer[t].at = "new"
    /\ LET held == [xfer[t] EXCEPT !.refs = @ + 1]
       IN \/ Become(t, [held EXCEPT !.at = "listing"])
          \/ Become(t, Fini([held EXCEPT !.status = "cancelled", !.refs = @ - 1]))
          \/ Become(t, Fini(Over(held)))
    /\ UNCHANGED <<session, server, cache, crashes, overdrawn>>

\* purple_xfer_cancel_local, from the list of transfers.
Cancel(t) ==
    /\ xfer[t].at \in Busy \cup {"gone"}
    /\ xfer[t].status = "active"
    /\ Become(t, [xfer[t] EXCEPT !.status = "cancelled", !.refs = @ - 1])
    /\ UNCHANGED <<session, server, cache, crashes, overdrawn>>

\* The user, or someone else, deletes or renames a document on the site.
Delete(d) ==
    /\ Cardinality(deleted) < MaxDeletes
    /\ deleted' = deleted \cup {d}
    /\ UNCHANGED <<session, xfer, docs, cache, crashes, overdrawn>>

-----------------------------------------------------------------------------
(* Looking for the document *)

\* The server answers docs.get with the documents of this moment; history
\* keeps which documents had been saved by then.
ServerLists(t) ==
    /\ xfer[t].at = "listing"
    /\ Become(t, [xfer[t] EXCEPT !.at = "listed", !.existing = Ids \ deleted,
                             !.seen = Len(docs)])
    /\ UNCHANGED <<session, server, cache, crashes, overdrawn>>

\* find_or_upload_doc, once uploaded_docs holds only what exists: one of the
\* documents with the file is sent, without a look at the status.
FindOrUpload(t, left) ==
    LET matching == {d \in left : docs[d] = xfer[t].file}
    IN  \/ /\ matching = {}
           /\ Become(t, [xfer[t] EXCEPT !.at = "server", !.existing = {}, !.seen = 0])
           /\ UNCHANGED overdrawn
        \/ \E d \in matching :
             /\ Become(t, Fini(Over(Send([xfer[t] EXCEPT !.doc = d, !.existing = {}, !.seen = 0]))))
             /\ overdrawn' = IF xfer[t].status = "cancelled" THEN overdrawn \cup {t}
                                                             ELSE overdrawn

\* The answer of docs.get comes, and all but the documents in it are erased:
\* also those that were saved, and added to the list, since it was given.
Listed_Others(t) ==
    /\ xfer[t].at = "listed"
    /\ LET left == {d \in uploaded \cap xfer[t].existing : docs[d] = xfer[t].file}
       IN /\ uploaded' = left
          /\ forgotten' = forgotten \cup {d \in uploaded \ left : d > xfer[t].seen}
          /\ FindOrUpload(t, left)
    /\ UNCHANGED <<session, server, stored, remembered, unsaved, crashes>>

Listed(t) ==
    /\ xfer[t].at = "listed"
    /\ LET left == uploaded \cap xfer[t].existing
       IN /\ uploaded' = left
          /\ forgotten' = forgotten \cup {d \in uploaded \ left : d > xfer[t].seen}
          /\ FindOrUpload(t, left)
    /\ UNCHANGED <<session, server, stored, remembered, unsaved, crashes>>

\* docs.get fails: nothing is known of any document, and all are erased.
ListFails(t) ==
    /\ xfer[t].at \in {"listing", "listed"}
    /\ uploaded' = {}
    /\ forgotten' = forgotten \cup uploaded
    /\ FindOrUpload(t, {})
    /\ UNCHANGED <<session, server, stored, remembered, unsaved, crashes>>

-----------------------------------------------------------------------------
(* Uploading it *)

\* docs.getWallUploadServer answers, and the first request to it has a watcher.
ServerFound(t) ==
    /\ xfer[t].at = "server"
    /\ Become(t, [xfer[t] EXCEPT !.at = "upload", !.watched = TRUE])
    /\ UNCHANGED <<session, server, cache, crashes, overdrawn>>

\* http_cb is given no answer, or an error of the server.
NoAnswer(x) == IF x.retries < MaxHttpRetries
               THEN [x EXCEPT !.at = "retry", !.watched = FALSE]
               ELSE Failed([x EXCEPT !.watched = FALSE])

UploadLost(t) ==
    /\ xfer[t].at = "upload"
    /\ Become(t, NoAnswer(xfer[t]))
    /\ UNCHANGED <<session, server, cache, crashes, overdrawn>>

\* xfer_upload_progress sees that the user has cancelled the transfer, and
\* cancels the request: for http_cb one that got no answer.  The function that
\* called it then goes on with the connection it has freed; if the program
\* dies of that, see Crash.
ProgressCancels(t) ==
    /\ xfer[t].at = "upload" /\ xfer[t].watched
    /\ xfer[t].status = "cancelled"
    /\ Become(t, NoAnswer(xfer[t]))
    /\ UNCHANGED <<session, server, cache, crashes, overdrawn>>

\* The timer of http_cb: the same request again, with no watcher.
UploadAgain_Endless(t) ==
    /\ xfer[t].at = "retry"
    /\ Become(t, [xfer[t] EXCEPT !.at = "upload"])
    /\ UNCHANGED <<session, server, cache, crashes, overdrawn>>

UploadAgain(t) ==
    /\ xfer[t].at = "retry"
    /\ Become(t, [xfer[t] EXCEPT !.at = "upload", !.retries = @ + 1])
    /\ UNCHANGED <<session, server, cache, crashes, overdrawn>>

\* The upload server has the file, and docs.save is called.
FileUploaded(t) ==
    /\ xfer[t].at = "upload"
    /\ Become(t, [xfer[t] EXCEPT !.at = "save", !.watched = FALSE])
    /\ UNCHANGED <<session, server, cache, crashes, overdrawn>>

\* Any of the three answers is an error or makes no sense.
UploadFails(t) ==
    /\ xfer[t].at \in {"server", "upload", "save", "saved"}
    /\ Become(t, Failed([xfer[t] EXCEPT !.watched = FALSE]))
    /\ UNCHANGED <<session, server, cache, crashes, overdrawn>>

\* The server carries out docs.save.
ServerSaves(t) ==
    /\ xfer[t].at = "save"
    /\ docs' = Append(docs, xfer[t].file)
    /\ Become(t, [xfer[t] EXCEPT !.at = "saved", !.doc = Len(docs) + 1])
    /\ UNCHANGED <<session, deleted, cache, crashes, overdrawn>>

\* Its answer comes: send_doc, unless the user has cancelled the transfer.
Saved_Cancelled(t) ==
    /\ xfer[t].at = "saved"
    /\ Become(t, Fini(Over(Send(xfer[t]))))
    /\ uploaded' = uploaded \cup {xfer[t].doc}
    /\ remembered' = remembered \cup {xfer[t].doc}
    /\ unsaved' = unsaved \cup {xfer[t].doc}
    /\ UNCHANGED <<session, server, stored, forgotten, crashes, overdrawn>>

Saved(t) ==
    /\ xfer[t].at = "saved"
    /\ \/ /\ xfer[t].status = "cancelled"
          /\ Become(t, Fini(xfer[t]))
          /\ UNCHANGED <<uploaded, remembered, unsaved>>
       \/ /\ xfer[t].status # "cancelled"
          /\ Become(t, Fini(Over(Send(xfer[t]))))
          /\ uploaded' = uploaded \cup {xfer[t].doc}
          /\ remembered' = remembered \cup {xfer[t].doc}
          /\ unsaved' = unsaved \cup {xfer[t].doc}
    /\ UNCHANGED <<session, server, stored, forgotten, crashes, overdrawn>>

\* Flood control in answer to a call: nobody is called back.
Dropped(t) ==
    /\ xfer[t].at \in {"listing", "listed", "server", "save", "saved"}
    /\ Become(t, [xfer[t] EXCEPT !.at = "gone"])
    /\ UNCHANGED <<session, server, cache, crashes, overdrawn>>

-----------------------------------------------------------------------------
(* The session and the program *)

\* The constructor of VkData: what is stored is in the list again.
Login ==
    /\ session = "off"
    /\ session' = "on"
    /\ uploaded' = stored
    /\ forgotten' = forgotten \ stored
    /\ UNCHANGED <<xfer, server, stored, remembered, unsaved, crashes, overdrawn>>

\* vk_close: an upload ends with an error, http_cb does not repeat it; calls
\* of the API and timers die quietly.  The destructor of VkData stores the list.
AtClose(x) == IF x.at = "upload" THEN Failed([x EXCEPT !.watched = FALSE])
              ELSE IF x.at \in Busy THEN [x EXCEPT !.at = "gone"] ELSE x

Close ==
    /\ session = "on"
    /\ session' = "off"
    /\ xfer' = [t \in Transfers |-> AtClose(xfer[t])]
    /\ stored' = uploaded
    /\ uploaded' = {}
    /\ unsaved' = {}
    /\ UNCHANGED <<server, remembered, forgotten, crashes, overdrawn>>

\* The program dies, and with it transfers and what was not stored.
Crash ==
    /\ crashes < MaxCrashes
    /\ crashes' = crashes + 1
    /\ session' = "off"
    /\ xfer' = [t \in Transfers |->
                  IF xfer[t].at \in Busy \cup {"gone"}
                  THEN [xfer[t] EXCEPT !.at = "end", !.status = "over", !.refs = 0]
                  ELSE xfer[t]]
    /\ uploaded' = {}
    /\ forgotten' = forgotten \cup unsaved
    /\ unsaved' = {}
    /\ UNCHANGED <<server, stored, remembered, overdrawn>>

-----------------------------------------------------------------------------
Answer(t) ==
    \/ ServerLists(t) \/ Listed(t) \/ ListFails(t)
    \/ ServerFound(t) \/ UploadLost(t) \/ UploadAgain(t) \/ FileUploaded(t) \/ UploadFails(t)
    \/ ServerSaves(t) \/ Saved(t)

Next ==
    \/ \E t \in Transfers :
        Start(t) \/ Cancel(t) \/ Answer(t) \/ ProgressCancels(t) \/ Dropped(t)
    \/ \E d \in Ids \ deleted : Delete(d)
    \/ Login \/ Close \/ Crash

Spec == Init /\ [][Next]_vars

\* Calls and requests are answered or time out, and timers fire.
FairSpec == Spec /\ \A t \in Transfers : WF_vars(Answer(t))

-----------------------------------------------------------------------------
(* Properties *)

\* A transfer lives while the code may come back to it, with one reference of
\* libpurple's as long as it is neither over nor cancelled, and is destroyed
\* when it is done with: in whatever order the user cancels, requests fail,
\* and the connection is closed.  There are two exceptions: a transfer that
\* nobody calls back is never destroyed, and one that is cancelled while the
\* documents are listed and then sent is destroyed before xfer_fini.
ReferencesBalance ==
    \A t \in Transfers :
        LET x == xfer[t]
        IN  /\ x.at \in Busy \cup {"gone"} => x.refs = IF x.status = "active" THEN 2 ELSE 1
            /\ x.at = "end" => x.refs = IF t \in overdrawn THEN -1 ELSE 0

\* The list keeps every document that came into it and was not deleted or
\* renamed, from session to session, so that its file need not be uploaded
\* again.  Only three accidents take one out: it was saved after the server
\* had answered a docs.get whose answer came later; a docs.get failed; the
\* program died in the session that added it.  (That a file is uploaded once
\* is not promised: two transfers that both look before either is saved both
\* upload it.)
CacheIsAccountedFor ==
    \A d \in remembered \ deleted :
        d \in forgotten \/ d \in (IF session = "on" THEN uploaded ELSE stored)

\* Whatever the order of cancelling and answers, and whatever other transfers
\* do to the list of documents, nothing is sent twice; a file that must be
\* uploaded is not sent once its transfer was cancelled; and a document that is
\* sent again existed when the server was asked for this transfer.
SentAsWanted ==
    [][\A t \in Transfers :
        xfer'[t].sends # xfer[t].sends =>
            /\ xfer[t].sends = 0
            /\ \/ xfer[t].at = "saved" /\ xfer[t].status = "active"
               \/ /\ xfer[t].at = "listed"
                  /\ xfer'[t].doc \in xfer[t].existing
                  /\ docs[xfer'[t].doc] = xfer[t].file]_vars

\* Each transfer ends, or nobody will call it back: flood control, closing.
TransfersEnd == \A t \in Transfers : xfer[t].at \in Busy ~> xfer[t].at \in Ended

=============================================================================
