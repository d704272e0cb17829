--------------------------- MODULE TrackedDownload ---------------------------
(***************************************************************************)
(* Downloads of one project's files, one by one or as a zip, and the mark  *)
(* every user sees on a file once somebody has got it.                     *)
(*                                                                         *)
(* A page confirms what it holds completely.  A large download is left to  *)
(* the browser (`direct`): the server marks it once the last byte is out,  *)
(* and tells the page that asks how far it is.  A download lasts: files    *)
(* are attached, deleted, restored and purged meanwhile.                   *)
(***************************************************************************)
CONSTANTS
    Pieces,       \* the files there may be
    Downloads     \* the downloads there may be (bound: each happens once)

VARIABLES
    attached,    \* the rows: files of the project
    onDisk,      \* the files whose original is in uploads
    downloaded,  \* the mark
    download,    \* how far each download is, and what it delivers
    progress,    \* what download_progress knows of each
    sent,        \* history: what went out to its last byte, or came during a zip
    tripped      \* history: downloads that failed over an old zip

downloadVars == <<attached, onDisk, downloaded, download, progress, sent, tripped>>

----------------------------------------------------------------------------
NotYet == [step |-> "not yet", files |-> {}, whole |-> FALSE, direct |-> FALSE]
Over == [NotYet EXCEPT !.step = "over"]

AtStep(d, step) == download[d].step = step
Next1(d, step) == download' = [download EXCEPT ![d].step = step]
End(d) == download' = [download EXCEPT ![d] = Over]
Report(d, state) == progress' = [progress EXCEPT ![d] = state]

(* A zip is being built, sent or marked.                                   *)
ZipUnderWay == \E d \in Downloads :
    download[d].whole /\ download[d].step \notin {"not yet", "over"}

Comes(f) == sent' = IF ZipUnderWay THEN sent \cup {f} ELSE sent

----------------------------------------------------------------------------
(* The project's files: uploaded and attached, deleted to the bin and      *)
(* restored with the mark they had, purged by the retention job.           *)
AttachFile(f) ==
    /\ f \notin attached
    /\ attached' = attached \cup {f}
    /\ onDisk' = onDisk \cup {f}
    /\ Comes(f)
    /\ UNCHANGED <<downloaded, download, progress, tripped>>

DeleteFile(f) ==
    /\ f \in attached
    /\ attached' = attached \ {f}
    /\ onDisk' = onDisk \ {f}
    /\ UNCHANGED <<downloaded, download, progress, sent, tripped>>

PurgeFile(f) ==
    /\ f \in attached \cap onDisk
    /\ onDisk' = onDisk \ {f}
    /\ UNCHANGED <<attached, downloaded, download, progress, sent, tripped>>

----------------------------------------------------------------------------
(* download_file: what is there is looked up and the session closed. *)
DownloadFile(d, f, direct) ==
    /\ AtStep(d, "not yet") /\ f \in onDisk
    /\ download' = [download EXCEPT ![d] =
           [step |-> "ready", files |-> {f}, whole |-> FALSE, direct |-> direct]]
    /\ UNCHANGED <<attached, onDisk, downloaded, progress, sent, tripped>>

(* download_project_files: the files that are on disk. *)
DownloadProject(d, direct) ==
    /\ AtStep(d, "not yet") /\ attached \cap onDisk # {}
    /\ download' = [download EXCEPT ![d] =
           [step |-> "opened", files |-> attached \cap onDisk, whole |-> TRUE, direct |-> direct]]
    /\ IF direct THEN Report(d, "preparing") ELSE UNCHANGED progress
    /\ UNCHANGED <<attached, onDisk, downloaded, sent, tripped>>

(* Zips that were left behind hours ago go.  One that another download     *)
(* removes between being seen and being looked at fails this one, and its  *)
(* progress stays at "preparing".                                          *)
SweepZips(d) ==
    /\ AtStep(d, "opened")
    /\ Next1(d, "building")
    /\ UNCHANGED <<attached, onDisk, downloaded, progress, sent, tripped>>

TripOverZip(d) ==
    /\ AtStep(d, "opened")
    /\ \E e \in Downloads \ {d} : AtStep(e, "building")
    /\ End(d)
    /\ tripped' = tripped \cup {d}
    /\ UNCHANGED <<attached, onDisk, downloaded, progress, sent>>

(* A file that has gone since is an error, and the zip is removed. *)
BuildZip(d) ==
    /\ AtStep(d, "building")
    /\ IF download[d].files \subseteq onDisk
       THEN /\ Next1(d, "ready")
            /\ UNCHANGED progress
       ELSE /\ End(d)
            /\ IF download[d].direct THEN Report(d, "stopped") ELSE UNCHANGED progress
    /\ UNCHANGED <<attached, onDisk, downloaded, sent, tripped>>

(* Sending begins; a single file that has gone since is an error. *)
Serve(d) ==
    /\ AtStep(d, "ready")
    /\ IF download[d].whole \/ download[d].files \subseteq onDisk
       THEN /\ Next1(d, "sending")
            /\ IF download[d].direct THEN Report(d, "sending") ELSE UNCHANGED progress
       ELSE End(d) /\ UNCHANGED progress
    /\ UNCHANGED <<attached, onDisk, downloaded, sent, tripped>>

(* The last byte goes out, in one piece or resumed. *)
SendLast(d) ==
    /\ AtStep(d, "sending")
    /\ Next1(d, "sent")
    /\ sent' = sent \cup download[d].files
    /\ UNCHANGED <<attached, onDisk, downloaded, progress, tripped>>

(* The connection drops, the user cancels, or it was only a range of the   *)
(* file: not downloaded.                                                   *)
CutOff(d) ==
    /\ AtStep(d, "sending")
    /\ End(d)
    /\ IF download[d].direct THEN Report(d, "stopped") ELSE UNCHANGED progress
    /\ UNCHANGED <<attached, onDisk, downloaded, sent, tripped>>

(* What is marked: the file, or of the project what is on disk by now.     *)
Marked(d) ==
    IF download[d].whole THEN attached \cap onDisk ELSE download[d].files \cap attached

(* The server marks what it sent itself; for the rest the page confirms,   *)
(* if it is still open.                                                    *)
Confirm(d) ==
    /\ AtStep(d, "sent")
    /\ downloaded' = downloaded \cup Marked(d)
    /\ End(d)
    /\ IF download[d].direct THEN Report(d, "done") ELSE UNCHANGED progress
    /\ UNCHANGED <<attached, onDisk, sent, tripped>>

NeverConfirmed(d) ==
    /\ AtStep(d, "sent")
    /\ End(d)
    /\ IF download[d].direct THEN Report(d, "stopped") ELSE UNCHANGED progress
    /\ UNCHANGED <<attached, onDisk, downloaded, sent, tripped>>

DownloadsInit ==
    /\ attached = {} /\ onDisk = {} /\ downloaded = {}
    /\ download = [d \in Downloads |-> NotYet]
    /\ progress = [d \in Downloads |-> "unknown"]
    /\ sent = {} /\ tripped = {}

DownloadStep(d) ==
    \/ SweepZips(d) \/ TripOverZip(d) \/ BuildZip(d) \/ Serve(d)
    \/ SendLast(d) \/ CutOff(d) \/ Confirm(d) \/ NeverConfirmed(d)

DownloadsNext ==
    \/ \E f \in Pieces : AttachFile(f) \/ DeleteFile(f) \/ PurgeFile(f)
    \/ \E d \in Downloads, direct \in BOOLEAN :
        \/ \E f \in Pieces : DownloadFile(d, f, direct)
        \/ DownloadProject(d, direct)
    \/ \E d \in Downloads : DownloadStep(d)

----------------------------------------------------------------------------
(* A file is marked only when somebody got all of it: not when a transfer  *)
(* was cut off, not for what was gone when the zip was built.  What came   *)
(* to the project while a zip was under way is the exception.              *)
MarkedMeansDelivered == downloaded \subseteq sent

(* A page that follows a download learns of its end, whatever ends it, but *)
(* for a download that failed over an old zip.                             *)
ProgressEnds ==
    \A d \in Downloads :
        []<>(progress[d] \notin {"preparing", "sending"} \/ d \in tripped)

=============================================================================
