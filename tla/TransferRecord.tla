--------------------------- MODULE TransferRecord ---------------------------
(***************************************************************************)
(* What uploads and downloads have in common on the server: the            *)
(* transferState records in memory, the transfer_audit rows, the operator's*)
(* cancelTransfer and the two reapers.  Each operator below is a section   *)
(* under the lock of the record.                                           *)
(*                                                                         *)
(* Deadlines (resume 30s, cancel grace 30s, stall 10min) are not counted:  *)
(* any step may take that long, so a deadline may pass between any two.    *)
(***************************************************************************)
EXTENDS Naturals, Sequences

CONSTANTS
    Transfers,         \* transfer ids, one per operator request
    None,              \* no frame, no offset, no connection
    MaxCancels         \* bound on cancel requests

ASSUME RecordAssumption == None \notin Nat /\ MaxCancels \in Nat

VARIABLES
    status,            \* TransferStatus.Status of the record
    audit,             \* the status column of its transfer_audit row
    live,              \* transfers in the service's map
    cancelSig,         \* transfers whose cancelCh is closed
    cancelling,        \* cancel requests about to send their frame
    reap,              \* what the reaper pass still has to do with a record
    cancels            \* cancel requests so far

recordVars == <<status, audit, live, cancelSig, cancelling, reap, cancels>>

Settled  == {"success", "failed", "canceled"}
Statuses == {"none", "absent", "queued", "requested", "running", "waiting_remote",
             "cancel_requested", "lost"} \cup Settled

RecordTypeOK ==
    /\ status \in [Transfers -> Statuses]
    /\ audit \in [Transfers -> Statuses]
    /\ live \in SUBSET Transfers
    /\ cancelSig \in SUBSET Transfers
    /\ cancelling \in SUBSET Transfers
    /\ reap \in [Transfers -> {"idle", "look", "due"}]
    /\ cancels \in 0..MaxCancels

\* Some transfers will be asked for and some canceled, the others are "absent".
RecordInit(asked, requests) ==
    /\ status = [t \in Transfers |-> IF t \in asked THEN "none" ELSE "absent"]
    /\ audit = [t \in Transfers |-> "none"]
    /\ live = {} /\ cancelSig = {} /\ cancelling = {}
    /\ reap = [t \in Transfers |-> "idle"]
    /\ cancels = MaxCancels - requests

\* The status changes and persistTransferLocked writes the row.
SetStatus(t, s) ==
    /\ status' = [status EXCEPT ![t] = s]
    /\ audit' = [audit EXCEPT ![t] = s]

\* putTransfer and persistTransfer of a new record.
PutTransfer(t, s) ==
    /\ SetStatus(t, s)
    /\ live' = live \cup {t}
    /\ UNCHANGED <<cancelSig, cancelling, reap, cancels>>

\* A status that ends nothing.
Update(t, s) ==
    /\ SetStatus(t, s)
    /\ UNCHANGED <<live, cancelSig, cancelling, reap, cancels>>

\* The end of a transfer: status, row, and out of the map.
Settle(t, s) ==
    /\ SetStatus(t, s)
    /\ live' = live \ {t}
    /\ UNCHANGED <<cancelSig, cancelling, cancels>>

\* Mutant: the terminal guard is missing.
SettleOnceUnguarded(t, s) == Settle(t, s)

\* finishTransferWithError, finalizeCanceled and handleTransferDone of an
\* upload: the first terminal status stays.  (The caller says what becomes of
\* the reaper's work.)
SettleOnce(t, s) ==
    IF status[t] \in Settled
    THEN UNCHANGED <<status, audit, live, cancelSig, cancelling, cancels>>
    ELSE Settle(t, s)

\* The server dies: the map and what works on it are gone, the rows are not.
\* Nothing writes the row of a transfer under way again.
ForgetTransfers ==
    /\ status' = [t \in Transfers |-> IF t \in live THEN "lost" ELSE status[t]]
    /\ live' = {} /\ cancelSig' = {} /\ cancelling' = {}
    /\ reap' = [t \in Transfers |-> "idle"]
    /\ UNCHANGED <<audit, cancels>>

\* cancelTransfer under the lock: a settled record is only reported; a repeated
\* request signals again.
CancelTransfer(t) ==
    /\ t \in live /\ status[t] \notin Settled
    /\ cancels < MaxCancels /\ cancels' = cancels + 1
    /\ SetStatus(t, "cancel_requested")
    /\ cancelSig' = cancelSig \cup {t}
    /\ cancelling' = cancelling \cup {t}
    /\ UNCHANGED <<live, reap>>

\* A reaper pass copies the map ...
ReapStart ==
    /\ live # {} /\ \A t \in Transfers : reap[t] = "idle"
    /\ reap' = [t \in Transfers |-> IF t \in live THEN "look" ELSE "idle"]
    /\ UNCHANGED <<status, audit, live, cancelSig, cancelling, cancels>>

ReapGoes(t, from, to) == reap[t] = from /\ reap' = [reap EXCEPT ![t] = to]

\* ... a record that is settled, or neither stalled nor canceled for long
\* enough, is passed over ...
ReapSkip(t) ==
    /\ ReapGoes(t, "look", "idle")
    /\ UNCHANGED <<status, audit, live, cancelSig, cancelling, cancels>>

\* Mutant: only a transfer under way counts as stalled.
ReapStalledRunningOnly(t) ==
    /\ ReapGoes(t, "look", "idle")
    /\ status[t] = "running"
    /\ Settle(t, "failed")

\* ... a stalled one fails ...
ReapStalled(t) ==
    /\ ReapGoes(t, "look", "idle")
    /\ status[t] \notin Settled
    /\ Settle(t, "failed")

\* ... and one whose cancel is past its grace is found due under the lock, and
\* finalized under the lock once more.
ReapDue(t) ==
    /\ ReapGoes(t, "look", "due")
    /\ status[t] = "cancel_requested"
    /\ UNCHANGED <<status, audit, live, cancelSig, cancelling, cancels>>

ReapCanceled(t) ==
    /\ ReapGoes(t, "due", "idle")
    /\ SettleOnce(t, "canceled")

Reap == ReapStart \/ \E t \in Transfers :
            ReapSkip(t) \/ ReapStalled(t) \/ ReapDue(t) \/ ReapCanceled(t)
=============================================================================
