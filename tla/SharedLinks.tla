----------------------------- MODULE SharedLinks -----------------------------
(***************************************************************************)
(* The public link to one invoice or quotation: a row with a token and the *)
(* PDF it leads to.  Sharing the document again renews both; an admin may  *)
(* turn the link off, which deletes the PDF.                               *)
(*                                                                         *)
(* Sharing runs on the event loop, one at a time; turning off and opening  *)
(* the link are threads.  The file and the row change at different         *)
(* moments, and nothing locks the two together.                            *)
(***************************************************************************)
CONSTANTS
    Admins,     \* the requests that turn the link off at once
    Visitors    \* the requests that open it at once

VARIABLES
    link,       \* the row: none yet, on or off
    expired,    \* its expires_at has passed
    pdf,        \* the PDF is on disk
    sharing,    \* how far the request that shares is
    turningOff, \* how far each request that turns the link off is
    visit,      \* how far each visit is
    toldOff,    \* history: an admin was told it is off, and nobody shares since
    clash       \* history: the two overlapped, or the server stopped in one

linkVars == <<link, expired, pdf, sharing, turningOff, visit, toldOff, clash>>

----------------------------------------------------------------------------
NotSharing == [step |-> "idle", found |-> "none"]
NoVisit == [step |-> "idle", late |-> FALSE]

(* Known, not turned off and not past its time. *)
Active == link = "on" /\ ~expired

----------------------------------------------------------------------------
(* upsert: the row is looked up, the file written, the row saved. *)
Share ==
    /\ sharing = NotSharing
    /\ sharing' = [step |-> "found", found |-> link]
    /\ toldOff' = FALSE
    /\ clash' = (clash \/ \E a \in Admins : turningOff[a] # "idle")
    /\ UNCHANGED <<link, expired, pdf, turningOff, visit>>

WritePdf ==
    /\ sharing.step = "found"
    /\ pdf' = TRUE
    /\ sharing' = [sharing EXCEPT !.step = "written"]
    /\ UNCHANGED <<link, expired, turningOff, visit, toldOff, clash>>

(* Only what differs from the row as it was read is written: a link that   *)
(* was on then is not turned on again.                                     *)
(* Mutant: sharing again does not turn it on. *)
SavedAsIs(found) == IF found = "none" THEN "on" ELSE link
Saved(found) == IF found = "on" THEN link ELSE "on"

SaveShare ==
    /\ sharing.step = "written"
    /\ link' = Saved(sharing.found)
    /\ expired' = FALSE
    /\ sharing' = NotSharing
    /\ UNCHANGED <<pdf, turningOff, visit, toldOff, clash>>

----------------------------------------------------------------------------
(* revoke: no row is a 404; the file goes first, then the row is saved. *)
TurnOff(a) ==
    /\ turningOff[a] = "idle" /\ link # "none"
    /\ turningOff' = [turningOff EXCEPT ![a] = "found"]
    /\ clash' = (clash \/ sharing # NotSharing)
    /\ UNCHANGED <<link, expired, pdf, sharing, visit, toldOff>>

DeletePdf(a) ==
    /\ turningOff[a] = "found"
    /\ turningOff' = [turningOff EXCEPT ![a] = "deleted"]
    /\ pdf' = FALSE
    /\ UNCHANGED <<link, expired, sharing, visit, toldOff, clash>>

SaveOff(a) ==
    /\ turningOff[a] = "deleted"
    /\ turningOff' = [turningOff EXCEPT ![a] = "idle"]
    /\ link' = "off"
    /\ toldOff' = (sharing = NotSharing)
    /\ UNCHANGED <<expired, pdf, sharing, visit, clash>>

----------------------------------------------------------------------------
(* get_shared_document: the row and the file are looked at, then the file  *)
(* is opened to be sent; one that went in between is an error.             *)
OpenLink(v) ==
    /\ visit[v] = NoVisit
    /\ Active /\ pdf
    /\ visit' = [visit EXCEPT ![v] = [step |-> "found", late |-> toldOff]]
    /\ UNCHANGED <<link, expired, pdf, sharing, turningOff, toldOff, clash>>

SendPdf(v) ==
    /\ visit[v].step = "found"
    /\ visit' = [visit EXCEPT ![v] = IF pdf THEN [@ EXCEPT !.step = "served"] ELSE NoVisit]
    /\ UNCHANGED <<link, expired, pdf, sharing, turningOff, toldOff, clash>>

Leaves(v) ==
    /\ visit[v].step = "served"
    /\ visit' = [visit EXCEPT ![v] = NoVisit]
    /\ UNCHANGED <<link, expired, pdf, sharing, turningOff, toldOff, clash>>

----------------------------------------------------------------------------
LinkExpires ==
    /\ link # "none" /\ ~expired /\ expired' = TRUE
    /\ UNCHANGED <<link, pdf, sharing, turningOff, visit, toldOff, clash>>

RestartLinks ==
    /\ clash' = (clash \/ sharing # NotSharing \/ \E a \in Admins : turningOff[a] # "idle")
    /\ sharing' = NotSharing
    /\ turningOff' = [a \in Admins |-> "idle"]
    /\ visit' = [v \in Visitors |-> NoVisit]
    /\ UNCHANGED <<link, expired, pdf, toldOff>>

LinksInit ==
    /\ link = "none" /\ expired = FALSE /\ pdf = FALSE
    /\ sharing = NotSharing
    /\ turningOff = [a \in Admins |-> "idle"]
    /\ visit = [v \in Visitors |-> NoVisit]
    /\ toldOff = FALSE /\ clash = FALSE

LinksNext ==
    \/ Share \/ WritePdf \/ SaveShare \/ LinkExpires \/ RestartLinks
    \/ \E a \in Admins : TurnOff(a) \/ DeletePdf(a) \/ SaveOff(a)
    \/ \E v \in Visitors : OpenLink(v) \/ SendPdf(v) \/ Leaves(v)

----------------------------------------------------------------------------
(* A link an admin was told is off leads nowhere until the document is     *)
(* shared again, and no copy of the PDF stays; a link that is on leads to  *)
(* its PDF.  But for a sharing and a turning off that overlapped, or that  *)
(* a stop of the server cut short.                                         *)
LinksKeepTheirWord ==
    /\ \A v \in Visitors : visit[v].step = "served" => ~visit[v].late
    /\ sharing = NotSharing /\ (\A a \in Admins : turningOff[a] = "idle") /\ ~clash
       => (link = "on" <=> pdf)

=============================================================================
