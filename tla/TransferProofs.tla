--------------------------- MODULE TransferProofs ---------------------------
(***************************************************************************)
(* What the proofs about uploads and downloads share: sequences of frames, *)
(* and what each section under a record's lock does to record and row.     *)
(***************************************************************************)
EXTENDS TransferLink, Integers, TLAPS

\* A settled record is not in the map.
SettledGone == \A t \in Transfers : status[t] \in Settled => t \notin live

\* Types of the record, and what the map holds.
RecordOK == RecordTypeOK /\ SettledGone

\* The record or its row says the transfer succeeded.
Marked(t) == status[t] = "success" \/ audit[t] = "success"

\* A step keeps the terminal statuses, and calls no other transfer a success.
KeepsSettled == \A t \in Transfers : status[t] \in Settled => status'[t] = status[t]
NoSuccess    == \A t \in Transfers : Marked(t)' => Marked(t)

\* A step makes no record look new again.
NoneIsNew == \A t \in Transfers : status'[t] = "none" => status[t] = "none"

-----------------------------------------------------------------------------
(***************************************************************************)
(* Sequences.                                                              *)
(***************************************************************************)

LEMMA SeqAppend ==
    ASSUME NEW S, NEW s \in Seq(S), NEW e \in S
    PROVE  /\ Append(s, e) \in Seq(S)
           /\ Len(s) \in Nat /\ Len(Append(s, e)) = Len(s) + 1
           /\ DOMAIN s = 1..Len(s) /\ DOMAIN Append(s, e) = 1..(Len(s) + 1)
           /\ \A i \in 1..Len(s) : Append(s, e)[i] = s[i]
           /\ Append(s, e)[Len(s) + 1] = e
OBVIOUS

LEMMA SeqTail ==
    ASSUME NEW S, NEW s \in Seq(S), s # <<>>
    PROVE  /\ Tail(s) \in Seq(S)
           /\ Len(s) \in Nat \ {0} /\ Len(Tail(s)) = Len(s) - 1
           /\ DOMAIN s = 1..Len(s) /\ DOMAIN Tail(s) = 1..(Len(s) - 1)
           /\ \A i \in 1..(Len(s) - 1) : Tail(s)[i] = s[i + 1]
           /\ Head(s) = s[1] /\ Head(s) \in S
OBVIOUS

-----------------------------------------------------------------------------
(***************************************************************************)
(* Records.                                                                *)
(***************************************************************************)

LEMMA PutRecord ==
    ASSUME RecordOK, NEW t \in Transfers, status[t] = "none",
           NEW s \in Statuses \ (Settled \cup {"none"}), PutTransfer(t, s)
    PROVE  RecordOK' /\ KeepsSettled /\ NoSuccess /\ NoneIsNew /\ status'[t] # "none"
BY DEF RecordOK, RecordTypeOK, SettledGone, KeepsSettled, NoSuccess, NoneIsNew, Marked,
       PutTransfer, SetStatus, Statuses, Settled

LEMMA SameRecord ==
    ASSUME RecordOK, UNCHANGED <<status, audit, live>>,
           cancelSig' \in SUBSET Transfers, cancelling' \in SUBSET Transfers,
           reap' \in [Transfers -> {"idle", "look", "due"}], cancels' \in 0..MaxCancels
    PROVE  RecordOK' /\ KeepsSettled /\ NoSuccess /\ NoneIsNew
BY DEF RecordOK, RecordTypeOK, SettledGone, KeepsSettled, NoSuccess, NoneIsNew, Marked

\* Update with the status the record has.
LEMMA PersistRecord ==
    ASSUME RecordOK, NEW t \in Transfers, Update(t, status[t])
    PROVE  RecordOK' /\ KeepsSettled /\ NoSuccess /\ NoneIsNew
BY DEF RecordOK, RecordTypeOK, SettledGone, KeepsSettled, NoSuccess, NoneIsNew, Marked,
       Update, SetStatus, Statuses, Settled

\* Update with a status that ends nothing; the one it replaces may be terminal.
LEMMA UpdateRecord ==
    ASSUME RecordOK, NEW t \in Transfers, NEW s \in Statuses \ (Settled \cup {"none"}),
           Update(t, s)
    PROVE  /\ RecordOK' /\ NoSuccess /\ NoneIsNew
           /\ \A u \in Transfers : status'[u] = IF u = t THEN s ELSE status[u]
BY DEF RecordOK, RecordTypeOK, SettledGone, NoSuccess, NoneIsNew, Marked, Update, SetStatus,
       Statuses, Settled

\* The end of a transfer, without a look at the status it replaces.
LEMMA SettleRecord ==
    ASSUME RecordOK, NEW t \in Transfers, NEW s \in Settled, Settle(t, s),
           reap' \in [Transfers -> {"idle", "look", "due"}]
    PROVE  /\ RecordOK' /\ NoneIsNew
           /\ \A u \in Transfers : Marked(u)' => Marked(u) \/ (u = t /\ s = "success")
           /\ \A u \in Transfers : status'[u] = IF u = t THEN s ELSE status[u]
BY DEF RecordOK, RecordTypeOK, SettledGone, NoneIsNew, Marked, Settle, SetStatus,
       Statuses, Settled

\* With the terminal guard.
LEMMA SettleOnceRecord ==
    ASSUME RecordOK, NEW t \in Transfers, NEW s \in Settled, SettleOnce(t, s),
           reap' \in [Transfers -> {"idle", "look", "due"}]
    PROVE  /\ RecordOK' /\ KeepsSettled /\ NoneIsNew
           /\ \A u \in Transfers : Marked(u)' => Marked(u) \/ (u = t /\ s = "success")
<1>1. CASE status[t] \in Settled
  <2>1. RecordOK' /\ KeepsSettled /\ NoSuccess /\ NoneIsNew
    BY <1>1, SameRecord DEF SettleOnce, RecordOK, RecordTypeOK
  <2> QED BY <2>1 DEF NoSuccess
<1>2. CASE status[t] \notin Settled
  <2>1. Settle(t, s)
    BY <1>2 DEF SettleOnce
  <2> QED BY <1>2, <2>1, SettleRecord DEF KeepsSettled
<1> QED BY <1>1, <1>2

LEMMA FailRecord ==
    ASSUME RecordOK, NEW t \in Transfers, NEW s \in Settled \ {"success"}, SettleOnce(t, s),
           reap' \in [Transfers -> {"idle", "look", "due"}]
    PROVE  RecordOK' /\ KeepsSettled /\ NoSuccess /\ NoneIsNew
BY SettleOnceRecord DEF NoSuccess

LEMMA CancelRecord ==
    ASSUME RecordOK, NEW t \in Transfers, CancelTransfer(t)
    PROVE  RecordOK' /\ KeepsSettled /\ NoSuccess /\ NoneIsNew
<1>1. cancels' \in 0..MaxCancels
  BY RecordAssumption DEF RecordOK, RecordTypeOK, CancelTransfer
<1> QED
  BY <1>1 DEF RecordOK, RecordTypeOK, SettledGone, KeepsSettled, NoSuccess, NoneIsNew, Marked,
         CancelTransfer, SetStatus, Statuses, Settled

LEMMA ForgetRecords ==
    ASSUME RecordOK, ForgetTransfers
    PROVE  RecordOK' /\ KeepsSettled /\ NoSuccess /\ NoneIsNew
<1>1. /\ status' = [t \in Transfers |-> IF t \in live THEN "lost" ELSE status[t]]
      /\ live' = {} /\ cancelSig' = {} /\ cancelling' = {}
      /\ reap' = [t \in Transfers |-> "idle"] /\ UNCHANGED <<audit, cancels>>
  BY DEF ForgetTransfers
<1>2. RecordTypeOK'
  BY <1>1 DEF RecordOK, RecordTypeOK, Statuses
<1> QED BY <1>1, <1>2 DEF RecordOK, SettledGone, KeepsSettled, NoSuccess, NoneIsNew, Marked, Settled

LEMMA ReapRecord ==
    ASSUME RecordOK, Reap
    PROVE  RecordOK' /\ KeepsSettled /\ NoSuccess /\ NoneIsNew
<1>0. RecordTypeOK
  BY DEF RecordOK
<1>1. CASE ReapStart
  BY <1>0, <1>1, SameRecord DEF ReapStart, RecordTypeOK
<1>2. ASSUME NEW t \in Transfers, ReapSkip(t) \/ ReapDue(t)
      PROVE  RecordOK' /\ KeepsSettled /\ NoSuccess /\ NoneIsNew
  BY <1>0, <1>2, SameRecord DEF ReapSkip, ReapDue, ReapGoes, RecordTypeOK
<1>3. ASSUME NEW t \in Transfers, ReapStalled(t) \/ ReapCanceled(t)
      PROVE  RecordOK' /\ KeepsSettled /\ NoSuccess /\ NoneIsNew
  <2>1. reap' \in [Transfers -> {"idle", "look", "due"}]
    BY <1>0, <1>3 DEF ReapStalled, ReapCanceled, ReapGoes, RecordTypeOK
  <2>2. SettleOnce(t, "failed") \/ SettleOnce(t, "canceled")
    BY <1>3 DEF ReapStalled, ReapCanceled, SettleOnce
  <2> QED BY <2>1, <2>2, FailRecord DEF Settled
<1> QED BY <1>1, <1>2, <1>3 DEF Reap
=============================================================================
