---------------------------- MODULE ReleaseLedger ----------------------------
(***************************************************************************)
(* What the release history promises to a reader of the two tables: a row  *)
(* is opened as pending, goes to in progress, gets one result and keeps    *)
(* it; a service's version moves only to the tag of one of its successful  *)
(* releases. Nothing is said of who makes these steps or in how many calls.*)
(***************************************************************************)
CONSTANTS Release, Service, Tag, Empty, NoVersion

VARIABLES
  row,      \* row[r]: service and git_tag of release r, fixed
  status,   \* status[r]: "none" until the row exists
  version   \* version[s]: the version shown for service s

ledgerVars == <<row, status, version>>

Open(r) ==
  /\ status[r] = "none"
  /\ status' = [status EXCEPT ![r] = "pending"]
  /\ UNCHANGED <<row, version>>

Start(r) ==
  /\ status[r] = "pending"
  /\ status' = [status EXCEPT ![r] = "in_progress"]
  /\ UNCHANGED <<row, version>>

Finish(r) ==
  /\ status[r] = "in_progress"
  /\ \E result \in {"success", "failed"} : status' = [status EXCEPT ![r] = result]
  /\ UNCHANGED <<row, version>>

\* Only a successful release with a tag may show as the version.
Publish(r) ==
  /\ status[r] = "success"
  /\ row[r].git_tag # Empty
  /\ version' = [version EXCEPT ![row[r].service] = row[r].git_tag]
  /\ UNCHANGED <<row, status>>

LedgerInit ==
  /\ row \in [Release -> [service : Service, git_tag : Tag \cup {Empty}]]
  /\ status = [r \in Release |-> "none"]
  /\ version = [s \in Service |-> NoVersion]

LedgerNext == \E r \in Release : Open(r) \/ Start(r) \/ Finish(r) \/ Publish(r)

LedgerSpec == LedgerInit /\ [][LedgerNext]_ledgerVars
=============================================================================
