---------------------------- MODULE ServerProcess ----------------------------
(***************************************************************************)
(* What the server process does beside its requests' transactions: chunked *)
(* uploads, the read cache, tracked downloads, the activity log, shared    *)
(* links, backups and the health monitor.                                  *)
(*                                                                         *)
(* They keep their state apart, so nothing is lost by following one of     *)
(* them at a time: a behaviour is a behaviour of `exercised`, and the      *)
(* others stay as they began.                                              *)
(***************************************************************************)
EXTENDS ChunkedUpload, ReadCache, TrackedDownload, ActivityLog, SharedLinks,
        Backups, HealthMonitor

VARIABLE exercised

fileVars == <<uploadVars, downloadVars>>
recordVars == <<cacheVars, logVars, linkVars>>
jobVars == <<backupVars, healthVars>>
vars == <<fileVars, recordVars, jobVars, exercised>>

----------------------------------------------------------------------------
Init ==
    /\ exercised \in {"uploads", "cache", "downloads", "log", "links", "backups", "health"}
    /\ UploadsInit /\ CacheInit /\ DownloadsInit /\ LogInit
    /\ LinksInit /\ BackupsInit /\ HealthInit

ServeUploads ==
    /\ exercised = "uploads" /\ UploadsNext
    /\ UNCHANGED <<downloadVars, recordVars, jobVars, exercised>>

ServeDownloads ==
    /\ exercised = "downloads" /\ DownloadsNext
    /\ UNCHANGED <<uploadVars, recordVars, jobVars, exercised>>

ServeReads ==
    /\ exercised = "cache" /\ CacheNext
    /\ UNCHANGED <<fileVars, logVars, linkVars, jobVars, exercised>>

LogChanges ==
    /\ exercised = "log" /\ LogNext
    /\ UNCHANGED <<fileVars, cacheVars, linkVars, jobVars, exercised>>

ServeLinks ==
    /\ exercised = "links" /\ LinksNext
    /\ UNCHANGED <<fileVars, cacheVars, logVars, jobVars, exercised>>

BackUp ==
    /\ exercised = "backups" /\ BackupsNext
    /\ UNCHANGED <<fileVars, recordVars, healthVars, exercised>>

Monitor ==
    /\ exercised = "health" /\ HealthNext
    /\ UNCHANGED <<fileVars, recordVars, backupVars, exercised>>

Next == ServeUploads \/ ServeDownloads \/ ServeReads \/ LogChanges \/ ServeLinks
        \/ BackUp \/ Monitor

(* A thread or a job that has begun goes on, and so does a transfer: it    *)
(* ends with its last byte or with its connection.                         *)
Fairness ==
    /\ \A t \in Uploaders : WF_uploadVars(UploadStep(t))
    /\ \A d \in Downloads : WF_downloadVars(DownloadStep(d))
    /\ \A j \in ScanJobs : WF_healthVars(ScanStep(j))

Spec == Init /\ [][Next]_vars /\ Fairness

----------------------------------------------------------------------------
(* What is stored is the whole of what was sent, and what is marked as     *)
(* downloaded has been delivered to its last byte.                         *)
FilesArriveWhole == StoredFilesAreWhole /\ MarkedMeansDelivered

(* Every call gives its locks back, every transfer that is followed ends   *)
(* for who follows it, and every scan makes room for the next.             *)
EveryCallEnds == LocksAreGivenBack /\ ProgressEnds /\ ScansEnd

=============================================================================
