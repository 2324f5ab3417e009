------------------------------ MODULE Documents -----------------------------
(***************************************************************************)
(* Private documents: the upload inside module_edit, which scans the file, *)
(* stores it and then writes its rows; and the later scans of what waits   *)
(* in quarantine (upload_document, rescan_document).  The scanner answers  *)
(* whatever it likes, or nothing.  A document has one version, and its     *)
(* form cannot be edited.                                                  *)
(***************************************************************************)
EXTENDS Desk

CONSTANT Docs

VARIABLES
  doc,    \* Document.status, "absent" before the insert
  scan,   \* DocumentVersion.scan_status
  file,   \* the documents whose file is in the private storage
  rescan  \* the document each scan holds, and what the scan found

docRows == <<doc, scan, file>>
docVars == <<docRows, rescan, job>>

Verdicts == {"pending", "clean", "rejected", "error"}

DocJobs == [action : {"upload"}, object : Docs]
             \cup [action : {"store"}, object : Docs, verdict : Verdicts]

Scans == [object : Docs, verdict : Verdicts]

ASSUME DocAssumption == None \notin DocJobs \cup Scans

DocInit ==
  /\ doc    = [d \in Docs |-> "absent"]
  /\ scan   = [d \in Docs |-> "absent"]
  /\ file   = {}
  /\ rescan = [q \in Requests |-> None]
  /\ DeskInit

-----------------------------------------------------------------------------
StatusAfter(verdict) ==
  IF verdict = "clean" THEN "available"
  ELSE IF verdict = "rejected" THEN "rejected" ELSE "quarantined"

(* Every attempt stores its file under a name of its own. *)
BeginUpload(q, d) ==
  /\ doc[d] = "absent" /\ d \notin file
  /\ Begin(q, [action |-> "upload", object |-> d])
  /\ UNCHANGED <<docRows, rescan>>

(* The scan comes first, then the file is written. *)
StoreFile(q) ==
  /\ Doing(q, {"upload"})
  /\ file' = file \cup {job[q].object}
  /\ \E v \in Verdicts :
       job' = [job EXCEPT ![q] = [action |-> "store", object |-> job[q].object, verdict |-> v]]
  /\ UNCHANGED <<doc, scan, rescan>>

CommitUpload(q) ==
  /\ Doing(q, {"store"})
  /\ doc' = [doc EXCEPT ![job[q].object] = StatusAfter(job[q].verdict)]
  /\ scan' = [scan EXCEPT ![job[q].object] = job[q].verdict]
  /\ End(q) /\ UNCHANGED <<file, rescan>>

(* A row that cannot be written takes the file with it; what fails later,   *)
(* in module_edit or at the commit, leaves the file behind.                *)
UploadFails(q) ==
  /\ file' = IF job[q] # None /\ job[q].action = "store" THEN file \ {job[q].object} ELSE file
  /\ End(q) /\ UNCHANGED <<doc, scan, rescan>>

CommitFails(q) == Doing(q, {"store"}) /\ End(q) /\ UNCHANGED <<docRows, rescan>>

RescannableUnlocked(d) == doc[d] \in {"quarantined", "rejected"}

(* Asked under the lock of the document's row, the only one that is taken. *)
Rescannable(d) ==
  /\ \A q \in Requests : rescan[q] # None => rescan[q].object # d
  /\ doc[d] \in {"quarantined", "rejected"}

BeginRescan(q, d) ==
  /\ rescan[q] = None /\ Rescannable(d)
  /\ \E v \in Verdicts : rescan' = [rescan EXCEPT ![q] = [object |-> d, verdict |-> v]]
  /\ UNCHANGED <<docRows, job>>

CommitRescan(q) ==
  /\ rescan[q] # None
  /\ doc' = [doc EXCEPT ![rescan[q].object] = StatusAfter(rescan[q].verdict)]
  /\ scan' = [scan EXCEPT ![rescan[q].object] = rescan[q].verdict]
  /\ rescan' = [rescan EXCEPT ![q] = None]
  /\ UNCHANGED <<file, job>>

RescanFails(q) ==
  /\ rescan[q] # None
  /\ rescan' = [rescan EXCEPT ![q] = None]
  /\ UNCHANGED <<docRows, job>>

DocNext ==
  \E q \in Requests :
    \/ \E d \in Docs : BeginUpload(q, d) \/ BeginRescan(q, d)
    \/ StoreFile(q) \/ CommitUpload(q) \/ UploadFails(q) \/ CommitFails(q)
    \/ CommitRescan(q) \/ RescanFails(q)

DocSpec == DocInit /\ [][DocNext]_docVars

-----------------------------------------------------------------------------
DocTypeOK ==
  /\ doc \in [Docs -> {"absent", "quarantined", "available", "rejected"}]
  /\ scan \in [Docs -> Verdicts \cup {"absent"}]
  /\ file \subseteq Docs
  /\ rescan \in [Requests -> Scans \cup {None}]
  /\ job \in [Requests -> DocJobs \cup {None}]

(* Evidence stays where others point to it: a document that was available   *)
(* stays available, with a clean scan and with its file, although it may be *)
(* scanned by two people at once and an upload may fail at any point; and   *)
(* nothing else becomes available than what a scan found clean.             *)
AvailableForGood ==
  [][\A d \in Docs :
       /\ doc[d] = "available" => doc'[d] = "available"
       /\ doc'[d] = "available" => scan'[d] = "clean"
       /\ doc'[d] # "absent" => d \in file']_docVars
=============================================================================
