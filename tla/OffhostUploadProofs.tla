------------------------ MODULE OffhostUploadProofs ------------------------
(***************************************************************************)
(* Proofs about OffhostUpload for any processes, identifiers and times.    *)
(***************************************************************************)
EXTENDS OffhostUpload, TLAPS

\* The fields of a command that runs.
LEMMA RunningShape ==
  ASSUME TypeOK, NEW p \in Processes, ~At(p, "idle")
  PROVE  procs[p] \in Running
<1>1. procs[p] \in {Idle} \cup Running
  BY DEF TypeOK
<1>2. procs[p] # Idle
  BY DEF At, Idle
<1> QED
  BY <1>1, <1>2

\* Saving a journal that has the type of one keeps commands and files typed.
LEMMA SaveTyped ==
  ASSUME TypeOK, NEW p \in Processes, procs[p] \in Running,
         NEW state \in Intent, NEW next \in Steps \ {"sync"},
         save_upload_intent(p, state, next)
  PROVE  /\ procs' \in [Processes -> {Idle} \cup Running]
         /\ files' \in Directory
<1>1. [procs[p] EXCEPT !.pc = "sync", !.next = next, !.state = state] \in Running
  BY DEF Running, Steps
<1>2. procs' = [procs EXCEPT ![p] =
                  [procs[p] EXCEPT !.pc = "sync", !.next = next, !.state = state]]
  BY DEF save_upload_intent, TypeOK
<1> QED
  BY <1>1, <1>2 DEF save_upload_intent, TypeOK, Directory

LEMMA FinishTyped ==
  ASSUME TypeOK, NEW p \in Processes, Finish(p)
  PROVE  /\ procs' \in [Processes -> {Idle} \cup Running]
         /\ lock' \in Processes \cup {NoProcess}
BY DEF TypeOK, Finish

LEMMA GotoTyped ==
  ASSUME TypeOK, NEW p \in Processes, procs[p] \in Running,
         NEW pc \in Steps, Goto(p, pc)
  PROVE  procs' \in [Processes -> {Idle} \cup Running]
<1>1. [procs[p] EXCEPT !.pc = pc] \in Running
  BY DEF Running
<1>2. procs' = [procs EXCEPT ![p] = [procs[p] EXCEPT !.pc = pc]]
  BY DEF Goto, TypeOK
<1> QED
  BY <1>1, <1>2 DEF TypeOK

LEMMA InitTypeOK == Init => TypeOK
<1> SUFFICES ASSUME Init PROVE TypeOK
  OBVIOUS
<1>1. NoIntent \in Intent
  BY DEF NoIntent, Intent, Completion, Kinds
<1>2. NoReceipt \in Receipt
  BY DEF Receipt
<1>3. files \in Directory
  BY <1>1, <1>2 DEF Init, Directory
<1>4. disk \in Directory
  BY <1>3 DEF Init
<1> QED
  BY <1>3, <1>4 DEF Init, TypeOK, Version

\* The commands take the lock with a journal of its type in their hands.
LEMMA BeginTyped ==
  ASSUME TypeOK, NEW p \in Processes,
         BeginUpload(p) \/ BeginReconcile(p) \/ BeginRefused(p)
  PROVE  TypeOK'
<1>1. Prepared \in Intent
  BY DEF Prepared, NoIntent, Intent, Completion, Kinds
<1>2. files.journal \in Intent
  BY DEF TypeOK, Directory
<1>3. \A name \in {"upload", "reconcile"}, pc \in Steps, next \in Steps \ {"sync"} :
        \A state \in Intent : Command(name, pc, next, state) \in Running
  BY DEF Command, Running, Kinds
<1>4. disk' \in Directory
  BY DEF BeginUpload, BeginReconcile, BeginRefused, sync_directory, TypeOK
<1>5. CASE BeginUpload(p) /\ files.journal # NoIntent
  <2>1. procs' = [procs EXCEPT ![p] = Command("upload", "send", "send", files.journal)]
    BY <1>5 DEF BeginUpload
  <2>2. Command("upload", "send", "send", files.journal) \in Running
    BY <1>2, <1>3 DEF Steps
  <2>3. procs' \in [Processes -> {Idle} \cup Running]
    BY <2>1, <2>2 DEF TypeOK
  <2> QED
    BY <1>4, <1>5, <2>3 DEF BeginUpload, TypeOK
<1>6. CASE BeginUpload(p) /\ files.journal = NoIntent
  <2>1. procs' = [procs EXCEPT ![p] = Command("upload", "sync", "send", Prepared)]
    BY <1>6 DEF BeginUpload
  <2>2. Command("upload", "sync", "send", Prepared) \in Running
    BY <1>1, <1>3 DEF Steps
  <2>3. procs' \in [Processes -> {Idle} \cup Running]
    BY <2>1, <2>2 DEF TypeOK
  <2>4. files' \in Directory
    BY <1>1, <1>6 DEF BeginUpload, TypeOK, Directory
  <2> QED
    BY <1>4, <1>6, <2>3, <2>4 DEF BeginUpload, TypeOK
<1>7. CASE BeginReconcile(p)
  <2>1. procs' = [procs EXCEPT ![p] = Command("reconcile", "lookup", "lookup", files.journal)]
    BY <1>7 DEF BeginReconcile
  <2>2. Command("reconcile", "lookup", "lookup", files.journal) \in Running
    BY <1>2, <1>3 DEF Steps
  <2>3. procs' \in [Processes -> {Idle} \cup Running]
    BY <2>1, <2>2 DEF TypeOK
  <2> QED
    BY <1>4, <1>7, <2>3 DEF BeginReconcile, TypeOK
<1>8. CASE BeginRefused(p)
  BY <1>4, <1>8 DEF BeginRefused, TypeOK
<1> QED
  BY <1>5, <1>6, <1>7, <1>8

\* Saved journals: armed, acknowledged, completed.
LEMMA IntentUpdates ==
  ASSUME NEW state \in Intent, NEW k \in Kinds
  PROVE  /\ [state EXCEPT !.status[k] = "pending"] \in Intent
         /\ \A id \in Ids :
              [state EXCEPT !.status[k] = "acknowledged", !.file_id[k] = id] \in Intent
         /\ \A c \in CompletionRecord : [state EXCEPT !.completion = c] \in Intent
BY DEF Intent, Completion

LEMMA TransmitTyped ==
  ASSUME TypeOK, NEW p \in Processes, Transmit(p)
  PROVE  TypeOK'
<1>1. procs[p] \in Running
  BY RunningShape DEF Transmit, At
<1>2. PICK id \in Ids :
        /\ sent' = [sent EXCEPT ![procs[p].kind] = @ \cup
             {[file_id |-> id, content |-> Content(procs[p].kind, procs[p].state)]}]
        /\ procs' = [procs EXCEPT ![p].pc = "await", ![p].file_id = id]
  BY DEF Transmit
<1>3. [procs[p] EXCEPT !.pc = "await", !.file_id = id] \in Running
  BY <1>1 DEF Running, Steps
<1>4. procs' = [procs EXCEPT ![p] = [procs[p] EXCEPT !.pc = "await", !.file_id = id]]
  BY <1>2 DEF TypeOK
<1>5. procs' \in [Processes -> {Idle} \cup Running]
  BY <1>3, <1>4 DEF TypeOK
<1>6. Content(procs[p].kind, procs[p].state) \in Completion
  BY <1>1 DEF Running, Content, Intent, Completion
<1>7. [file_id |-> id, content |-> Content(procs[p].kind, procs[p].state)] \in Version
  BY <1>6 DEF Version
<1>8. procs[p].kind \in Kinds
  BY <1>1 DEF Running
<1>9. sent' \in [Kinds -> SUBSET Version]
  BY <1>2, <1>7, <1>8 DEF TypeOK
<1> QED
  BY <1>5, <1>9 DEF Transmit, TypeOK

LEMMA CompleteTyped ==
  ASSUME TypeOK, NEW p \in Processes, procs[p].state.file_id["ciphertext"] \in Ids,
         Complete(p)
  PROVE  TypeOK'
<1>1. procs[p] \in Running
  BY RunningShape DEF Complete, At
<1> DEFINE record(t) == [file_id |-> procs[p].state.file_id["ciphertext"], verified_at |-> t]
           state(t)  == [procs[p].state EXCEPT !.completion = record(t)]
<1>2. PICK t \in Times :
        /\ files' = [files EXCEPT !.journal = state(t)]
        /\ procs' = [procs EXCEPT ![p] =
             [procs[p] EXCEPT !.pc = "sync", !.next = MarkerStep(p),
                              !.kind = "marker", !.state = state(t)]]
  BY DEF Complete
<1>3. record(t) \in CompletionRecord
  BY DEF CompletionRecord
<1>4. state(t) \in Intent
  BY <1>1, <1>3 DEF Running, Intent, Completion
<1> HIDE DEF state
<1>5. MarkerStep(p) \in Steps \ {"sync"}
  BY DEF MarkerStep, Steps
<1>6. [procs[p] EXCEPT !.pc = "sync", !.next = MarkerStep(p),
                       !.kind = "marker", !.state = state(t)] \in Running
  BY <1>1, <1>4, <1>5 DEF Running, Steps, Kinds
<1>7. procs' \in [Processes -> {Idle} \cup Running]
  BY <1>2, <1>6 DEF TypeOK
<1>8. files' \in Directory
  BY <1>2, <1>4 DEF TypeOK, Directory
<1> QED
  BY <1>7, <1>8 DEF Complete, TypeOK

LEMMA PublishTyped ==
  ASSUME TypeOK, NEW p \in Processes, procs[p].state.file_id["marker"] \in Ids,
         procs[p].state.completion # NoCompletion, publish_upload_receipt(p)
  PROVE  TypeOK'
<1>1. procs[p] \in Running
  BY RunningShape DEF publish_upload_receipt, At
<1>2. procs[p].state.completion \in CompletionRecord
  BY <1>1 DEF Running, Intent, Completion
<1>3. [completion |-> procs[p].state.completion,
       file_id |-> procs[p].state.file_id["marker"]] \in Receipt
  BY <1>2 DEF Receipt
<1>4. files' \in Directory
  BY <1>3 DEF publish_upload_receipt, TypeOK, Directory
<1>5. [procs[p] EXCEPT !.pc = "sync", !.next = "done"] \in Running
  BY <1>1 DEF Running, Steps
<1>6. procs' = [procs EXCEPT ![p] = [procs[p] EXCEPT !.pc = "sync", !.next = "done"]]
  BY DEF publish_upload_receipt, TypeOK
<1>7. procs' \in [Processes -> {Idle} \cup Running]
  BY <1>5, <1>6 DEF TypeOK
<1> QED
  BY <1>4, <1>7 DEF publish_upload_receipt, TypeOK

\* What a command at the given position knows of its own object.
LEMMA Acknowledged ==
  ASSUME TypeOK, UploadInvariant, NEW p \in Processes,
         At(p, "verify") \/ At(p, "complete") \/ At(p, "publish")
  PROVE  /\ procs[p] \in Running
         /\ procs[p].state.status[procs[p].kind] = "acknowledged"
         /\ procs[p].state.file_id[procs[p].kind] \in Ids
<1>1. ~At(p, "idle") /\ ~At(p, "sync")
  BY DEF At
<1>2. procs[p] \in Running
  BY <1>1, RunningShape
<1>3. CommandConsistent(p)
  BY <1>1 DEF UploadInvariant
<1>4. Position(p) \in {"verify", "complete", "publish"}
  BY <1>1 DEF Position, At
<1>5. procs[p].state.status[procs[p].kind] = "acknowledged"
  BY <1>3, <1>4 DEF CommandConsistent
<1>6. procs[p].kind \in Kinds /\ ValidIntent(procs[p].state)
  BY <1>2, <1>3 DEF Running, CommandConsistent
<1>7. procs[p].state.file_id[procs[p].kind] # NoId
  BY <1>5, <1>6 DEF ValidIntent
<1>8. procs[p].state.file_id[procs[p].kind] \in Ids \cup {NoId}
  BY <1>2, <1>6 DEF Running, Intent
<1> QED
  BY <1>2, <1>5, <1>7, <1>8

LEMMA Completing ==
  ASSUME TypeOK, UploadInvariant, NEW p \in Processes, At(p, "complete")
  PROVE  procs[p].kind = "ciphertext"
<1>1. ~At(p, "idle") /\ ~At(p, "sync")
  BY DEF At
<1>2. CommandConsistent(p)
  BY <1>1 DEF UploadInvariant
<1>3. Position(p) = "complete"
  BY <1>1 DEF Position, At
<1> QED
  BY <1>2, <1>3 DEF CommandConsistent

LEMMA Publishing ==
  ASSUME TypeOK, UploadInvariant, NEW p \in Processes, At(p, "publish")
  PROVE  /\ procs[p].kind = "marker"
         /\ procs[p].state.completion # NoCompletion
<1>1. ~At(p, "idle") /\ ~At(p, "sync")
  BY DEF At
<1>2. CommandConsistent(p)
  BY <1>1 DEF UploadInvariant
<1>3. Position(p) = "publish"
  BY <1>1 DEF Position, At
<1> QED
  BY <1>2, <1>3 DEF CommandConsistent

LEMMA ProceedTyped ==
  ASSUME TypeOK, UploadInvariant, NEW p \in Processes, Proceed(p)
  PROVE  TypeOK'
<1>1. ~At(p, "idle")
  BY DEF Proceed, At, Sync, Return, SendRefused, Arm, AlreadySent, Transmit,
         Answer, verify_remote_file, Lookup, Absent, Adopt, Complete,
         AlreadyComplete, publish_upload_receipt
<1>2. procs[p] \in Running
  BY <1>1, RunningShape
<1>3. /\ procs[p].kind \in Kinds
      /\ procs[p].state \in Intent
      /\ procs[p].next \in Steps \ {"sync"}
      /\ procs[p].file_id \in Ids \cup {NoId}
  BY <1>2 DEF Running
<1>4. CASE Sync(p)
  <2>1. procs' \in [Processes -> {Idle} \cup Running]
    BY <1>2, <1>3, <1>4, GotoTyped DEF Sync
  <2> QED
    BY <1>4, <2>1 DEF Sync, sync_directory, TypeOK
<1>5. CASE Return(p) \/ SendRefused(p) \/ Absent(p)
  <2>1. /\ procs' \in [Processes -> {Idle} \cup Running]
        /\ lock' \in Processes \cup {NoProcess}
    BY <1>5, FinishTyped DEF Return, SendRefused, Absent
  <2> QED
    BY <1>5, <2>1 DEF Return, SendRefused, Absent, TypeOK
<1>6. CASE Arm(p)
  <2>1. [procs[p].state EXCEPT !.status[procs[p].kind] = "pending"] \in Intent
    BY <1>3, IntentUpdates
  <2>2. "transmit" \in Steps \ {"sync"}
    BY DEF Steps
  <2>3. /\ procs' \in [Processes -> {Idle} \cup Running]
        /\ files' \in Directory
    BY <1>2, <1>6, <2>1, <2>2, SaveTyped DEF Arm
  <2> QED
    BY <1>6, <2>3 DEF Arm, TypeOK
<1>7. CASE AlreadySent(p) \/ verify_remote_file(p)
  <2>1. {"verify", After(procs[p].kind)} \subseteq Steps
    BY DEF After, Steps
  <2>2. procs' \in [Processes -> {Idle} \cup Running]
    BY <1>2, <1>7, <2>1, GotoTyped DEF AlreadySent, verify_remote_file
  <2> QED
    BY <1>7, <2>2 DEF AlreadySent, verify_remote_file, TypeOK
<1>8. CASE Transmit(p)
  BY <1>8, TransmitTyped
<1>9. CASE Answer(p) \/ Adopt(p)
  <2>1. PICK next \in Steps \ {"sync"} : Acknowledge(p, procs[p].file_id, next)
    BY <1>9 DEF Answer, Adopt, After, Steps
  <2>2. Stored(procs[p].kind, procs[p].file_id, procs[p].state)
    BY <1>9 DEF Answer, Adopt
  <2>3. procs[p].file_id \in Ids
    BY <1>3, <2>2 DEF Stored, TypeOK, Version
  <2>4. [procs[p].state EXCEPT !.status[procs[p].kind] = "acknowledged",
                               !.file_id[procs[p].kind] = procs[p].file_id] \in Intent
    BY <1>3, <2>3, IntentUpdates
  <2>5. /\ procs' \in [Processes -> {Idle} \cup Running]
        /\ files' \in Directory
    BY <1>2, <2>1, <2>4, SaveTyped DEF Acknowledge
  <2> QED
    BY <1>9, <2>5 DEF Answer, Adopt, TypeOK
<1>10. CASE Lookup(p)
  <2>1. PICK v \in remote[procs[p].kind] :
          procs' = [procs EXCEPT ![p].pc = "adopt", ![p].file_id = v.file_id]
    BY <1>10 DEF Lookup
  <2>2. v.file_id \in Ids
    BY <1>3, <2>1 DEF TypeOK, Version
  <2>3. [procs[p] EXCEPT !.pc = "adopt", !.file_id = v.file_id] \in Running
    BY <1>2, <2>2 DEF Running, Steps
  <2>4. procs' = [procs EXCEPT ![p] =
                    [procs[p] EXCEPT !.pc = "adopt", !.file_id = v.file_id]]
    BY <2>1 DEF TypeOK
  <2>5. procs' \in [Processes -> {Idle} \cup Running]
    BY <2>3, <2>4 DEF TypeOK
  <2> QED
    BY <1>10, <2>5 DEF Lookup, TypeOK
<1>11. CASE Complete(p)
  <2>1. procs[p].state.file_id["ciphertext"] \in Ids
    BY <1>11, Acknowledged, Completing DEF Complete
  <2> QED
    BY <1>11, <2>1, CompleteTyped
<1>12. CASE AlreadyComplete(p)
  <2>1. MarkerStep(p) \in Steps
    BY DEF MarkerStep, Steps
  <2>2. [procs[p] EXCEPT !.pc = MarkerStep(p), !.kind = "marker"] \in Running
    BY <1>2, <2>1 DEF Running, Kinds
  <2>3. procs' = [procs EXCEPT ![p] =
                    [procs[p] EXCEPT !.pc = MarkerStep(p), !.kind = "marker"]]
    BY <1>12 DEF AlreadyComplete, TypeOK
  <2>4. procs' \in [Processes -> {Idle} \cup Running]
    BY <2>2, <2>3 DEF TypeOK
  <2> QED
    BY <1>12, <2>4 DEF AlreadyComplete, TypeOK
<1>13. CASE publish_upload_receipt(p)
  <2>1. procs[p].state.file_id["marker"] \in Ids
    BY <1>13, Acknowledged, Publishing DEF publish_upload_receipt
  <2>2. procs[p].state.completion # NoCompletion
    BY <1>13, Publishing DEF publish_upload_receipt
  <2> QED
    BY <1>13, <2>1, <2>2, PublishTyped
<1> QED
  BY <1>4, <1>5, <1>6, <1>7, <1>8, <1>9, <1>10, <1>11, <1>12, <1>13 DEF Proceed

\* Every step keeps the types, given what the invariant says of commands.
LEMMA StepTypeOK == TypeOK /\ UploadInvariant /\ [Next]_vars => TypeOK'
<1> SUFFICES ASSUME TypeOK, UploadInvariant, [Next]_vars PROVE TypeOK'
  OBVIOUS
<1>1. ASSUME NEW p \in Processes, BeginUpload(p) \/ BeginReconcile(p) \/ BeginRefused(p)
      PROVE  TypeOK'
  BY <1>1, BeginTyped
<1>2. ASSUME NEW p \in Processes, Proceed(p) PROVE TypeOK'
  BY <1>2, ProceedTyped
<1>3. ASSUME NEW p \in Processes, Fail(p) PROVE TypeOK'
  <2>1. /\ procs' \in [Processes -> {Idle} \cup Running]
        /\ lock' \in Processes \cup {NoProcess}
    BY <1>3, FinishTyped DEF Fail
  <2> QED
    BY <1>3, <2>1 DEF Fail, TypeOK
<1>4. ASSUME NEW k \in Kinds, Store(k) PROVE TypeOK'
  BY <1>4 DEF Store, TypeOK
<1>5. CASE PowerLoss
  <2>1. files' \in Directory
    BY <1>5 DEF PowerLoss, TypeOK, Directory
  <2> QED
    BY <1>5, <2>1 DEF PowerLoss, TypeOK
<1>6. CASE UNCHANGED vars
  BY <1>6 DEF vars, TypeOK
<1> QED
  BY <1>1, <1>2, <1>3, <1>4, <1>5, <1>6 DEF Next

-----------------------------------------------------------------------------
(* The bucket, the journals and the receipts *)

LEMMA NullsAreDistinct ==
  /\ NoCompletion \notin CompletionRecord
  /\ \A r \in Receipt : r # NoReceipt =>
       r.file_id \in Ids /\ r.completion \in CompletionRecord
BY NoIdIsNotAnId DEF NoCompletion, CompletionRecord, Receipt

LEMMA SameStorage ==
  ASSUME StorageInvariant, UNCHANGED <<files, disk, sent, remote>>
  PROVE  StorageInvariant'
BY DEF StorageInvariant, SentOnce, Survivors, JournalConsistent, ValidIntent,
       Stored, Content, Precedes, ReceiptConsistent

\* An fsync of the directory makes the visible entries durable.
LEMMA SyncStorage ==
  ASSUME TypeOK, StorageInvariant, disk' = files, UNCHANGED <<files, sent, remote>>
  PROVE  StorageInvariant'
<1>1. \A j \in Survivors' : JournalConsistent(j)'
  BY DEF StorageInvariant, Survivors, JournalConsistent, ValidIntent, Stored, Content
<1>2. Precedes(disk.journal, files.journal)'
  BY DEF Precedes
<1>3. ReceiptConsistent(files.receipt)'
  <2>1. SUFFICES ASSUME files.receipt # NoReceipt
                 PROVE  /\ files.receipt.file_id = files.journal.file_id["marker"]
                        /\ files.receipt.completion = files.journal.completion
    BY DEF ReceiptConsistent
  <2>2. files.receipt \in Receipt
    BY DEF TypeOK, Directory
  <2>3. /\ files.receipt.file_id # NoId
        /\ files.receipt.completion # NoCompletion
    BY <2>1, <2>2, NullsAreDistinct, NoIdIsNotAnId
  <2>4. /\ files.receipt.file_id = disk.journal.file_id["marker"]
        /\ files.receipt.completion = disk.journal.completion
    BY <2>1 DEF StorageInvariant, ReceiptConsistent
  <2> QED
    BY <2>3, <2>4 DEF StorageInvariant, Precedes, Kinds
<1>4. SentOnce' /\ \A k \in Kinds : remote'[k] \subseteq sent'[k]
  BY DEF StorageInvariant, SentOnce
<1> QED
  BY <1>1, <1>2, <1>3, <1>4 DEF StorageInvariant

\* A consistent successor of the durable journal may become visible.
LEMMA SaveStorage ==
  ASSUME TypeOK, StorageInvariant, disk.journal = files.journal,
         NEW j, JournalConsistent(j), Precedes(files.journal, j),
         files' = [files EXCEPT !.journal = j], UNCHANGED <<disk, sent, remote>>
  PROVE  StorageInvariant'
<1>1. files'.journal = j /\ files'.receipt = files.receipt
  BY DEF TypeOK, Directory
<1>2. \A i \in Survivors' : i = j \/ i = disk.journal
  BY <1>1 DEF Survivors
<1>3. JournalConsistent(disk.journal)
  BY DEF StorageInvariant, Survivors
<1>4. \A i \in Survivors' : JournalConsistent(i)'
  BY <1>2, <1>3 DEF JournalConsistent, ValidIntent, Stored, Content
<1>5. Precedes(disk.journal, files.journal)'
  BY <1>1 DEF Precedes
<1>6. \A r \in {files'.receipt, disk'.receipt} : ReceiptConsistent(r)'
  BY <1>1 DEF StorageInvariant, ReceiptConsistent
<1>7. SentOnce' /\ \A k \in Kinds : remote'[k] \subseteq sent'[k]
  BY DEF StorageInvariant, SentOnce
<1> QED
  BY <1>1, <1>4, <1>5, <1>6, <1>7 DEF StorageInvariant

LEMMA InitStorage == Init => StorageInvariant
BY DEF Init, StorageInvariant, SentOnce, Survivors, JournalConsistent, NoIntent,
       Precedes, ReceiptConsistent, Kinds

\* The journal an upload starts with, the durable one being absent.
LEMMA CreateStorage ==
  ASSUME TypeOK, StorageInvariant, files.journal = NoIntent, files.receipt = NoReceipt,
         files' = [files EXCEPT !.journal = Prepared], disk' = files,
         UNCHANGED <<sent, remote>>
  PROVE  StorageInvariant'
<1>1. files'.journal = Prepared /\ files'.receipt = NoReceipt
  BY DEF TypeOK, Directory
<1>2. \A k \in Kinds : sent[k] = {}
  BY DEF StorageInvariant, Survivors, JournalConsistent, NoIntent
<1>3. /\ Prepared.status = [k \in Kinds |-> "ready"]
      /\ Prepared.file_id = [k \in Kinds |-> NoId]
      /\ Prepared.completion = NoCompletion
      /\ NoIntent.file_id = [k \in Kinds |-> NoId]
      /\ NoIntent.completion = NoCompletion
  BY DEF Prepared, NoIntent
<1>4. ValidIntent(Prepared)
  BY <1>3 DEF ValidIntent, Kinds
<1>5. JournalConsistent(Prepared)' /\ JournalConsistent(NoIntent)'
  BY <1>2, <1>3, <1>4 DEF JournalConsistent, ValidIntent
<1>6. \A j \in Survivors' : j = Prepared \/ j = NoIntent
  BY <1>1 DEF Survivors
<1>7. \A j \in Survivors' : JournalConsistent(j)'
  BY <1>5, <1>6
<1>8. Precedes(disk.journal, files.journal)'
  BY <1>1, <1>3 DEF Precedes
<1>9. \A r \in {files'.receipt, disk'.receipt} : ReceiptConsistent(r)'
  BY <1>1 DEF ReceiptConsistent
<1>10. SentOnce' /\ \A k \in Kinds : remote'[k] \subseteq sent'[k]
  BY DEF StorageInvariant, SentOnce
<1> QED
  BY <1>1, <1>7, <1>8, <1>9, <1>10 DEF StorageInvariant

\* A request for an object never requested before, armed on disk.
LEMMA SendStorage ==
  ASSUME TypeOK, StorageInvariant, disk.journal = files.journal,
         NEW k \in Kinds, NEW v, sent[k] = {},
         files.journal.status[k] = "pending",
         v.content = Content(k, files.journal),
         sent' = [sent EXCEPT ![k] = @ \cup {v}], UNCHANGED <<files, disk, remote>>
  PROVE  StorageInvariant'
<1>1. sent'[k] = {v} /\ \A i \in Kinds \ {k} : sent'[i] = sent[i]
  BY DEF TypeOK
<1>2. SentOnce'
  BY <1>1 DEF StorageInvariant, SentOnce
<1>3. \A i \in Kinds : remote'[i] \subseteq sent'[i]
  BY <1>1 DEF StorageInvariant
<1>4. \A j \in Survivors : j = files.journal
  BY DEF Survivors
<1>5. JournalConsistent(files.journal)
  BY DEF StorageInvariant, Survivors
<1>6. files.journal = NoIntent \/ ValidIntent(files.journal)
  BY <1>5 DEF JournalConsistent
<1>7. \A i \in Kinds :
        /\ files.journal.status[i] \in {"absent", "ready"} => sent'[i] = {}
        /\ files.journal.file_id[i] # NoId =>
             Stored(i, files.journal.file_id[i], files.journal)
        /\ \A u \in sent'[i] : u.content = Content(i, files.journal)
  BY <1>1, <1>5 DEF JournalConsistent
<1>8. \A j \in Survivors' : JournalConsistent(j)'
  BY <1>4, <1>6, <1>7 DEF JournalConsistent, ValidIntent, Stored, Content, Survivors
<1> QED
  BY <1>2, <1>3, <1>8 DEF StorageInvariant, Precedes, ReceiptConsistent

LEMMA StoreStorage ==
  ASSUME TypeOK, StorageInvariant, NEW k \in Kinds, Store(k)
  PROVE  StorageInvariant'
<1>1. PICK v \in sent[k] \ remote[k] : remote' = [remote EXCEPT ![k] = @ \cup {v}]
  BY DEF Store
<1>2. \A i \in Kinds : remote[i] \subseteq remote'[i] /\ remote'[i] \subseteq sent[i]
  BY <1>1 DEF StorageInvariant, TypeOK
<1>3. \A j \in Survivors' : JournalConsistent(j)'
  BY <1>2 DEF Store, StorageInvariant, Survivors, JournalConsistent, ValidIntent,
              Stored, Content
<1> QED
  BY <1>2, <1>3 DEF Store, StorageInvariant, SentOnce, Precedes, ReceiptConsistent

LEMMA PublishStorage ==
  ASSUME TypeOK, StorageInvariant, NEW r, ReceiptConsistent(r),
         files.receipt \in {NoReceipt, r},
         files' = [files EXCEPT !.receipt = r], UNCHANGED <<disk, sent, remote>>
  PROVE  StorageInvariant'
<1>1. files'.journal = files.journal /\ files'.receipt = r
  BY DEF TypeOK, Directory
<1>2. \A j \in Survivors' : JournalConsistent(j)'
  BY <1>1 DEF StorageInvariant, Survivors, JournalConsistent, ValidIntent, Stored, Content
<1>3. \A s \in {files'.receipt, disk'.receipt} : ReceiptConsistent(s)'
  BY <1>1 DEF StorageInvariant, ReceiptConsistent
<1>4. disk'.receipt # NoReceipt => files'.receipt = disk'.receipt
  BY <1>1 DEF StorageInvariant
<1>5. SentOnce' /\ \A k \in Kinds : remote'[k] \subseteq sent'[k]
  BY DEF StorageInvariant, SentOnce
<1>6. Precedes(disk.journal, files.journal)'
  BY <1>1 DEF StorageInvariant, Precedes
<1> QED
  BY <1>2, <1>3, <1>4, <1>5, <1>6 DEF StorageInvariant

\* Whichever entries survive, they are true of the bucket.
LEMMA PowerLossStorage ==
  ASSUME TypeOK, StorageInvariant, PowerLoss
  PROVE  StorageInvariant'
<1>1. PICK j \in {files.journal, disk.journal}, r \in {files.receipt, disk.receipt} :
        files' = [journal |-> j, receipt |-> r]
  BY DEF PowerLoss
<1>2. /\ files'.journal = j /\ files'.receipt = r /\ disk' = files'
      /\ UNCHANGED <<sent, remote>>
  BY <1>1 DEF PowerLoss
<1>3. JournalConsistent(j)
  BY DEF StorageInvariant, Survivors
<1>4. \A i \in Survivors' : i = j
  BY <1>2 DEF Survivors
<1>5. \A i \in Survivors' : JournalConsistent(i)'
  BY <1>2, <1>3, <1>4 DEF JournalConsistent, ValidIntent, Stored, Content
<1>6. ReceiptConsistent(r)'
  <2>1. SUFFICES ASSUME r # NoReceipt
                 PROVE  r.file_id = j.file_id["marker"] /\ r.completion = j.completion
    BY <1>2 DEF ReceiptConsistent
  <2>2. r \in Receipt
    BY DEF TypeOK, Directory
  <2>3. r.file_id # NoId /\ r.completion # NoCompletion
    BY <2>1, <2>2, NullsAreDistinct, NoIdIsNotAnId
  <2>4. /\ r.file_id = disk.journal.file_id["marker"]
        /\ r.completion = disk.journal.completion
    BY <2>1 DEF StorageInvariant, ReceiptConsistent
  <2> QED
    BY <2>3, <2>4 DEF StorageInvariant, Precedes, Kinds
<1>7. SentOnce' /\ \A k \in Kinds : remote'[k] \subseteq sent'[k]
  BY <1>2 DEF StorageInvariant, SentOnce
<1>8. Precedes(disk.journal, files.journal)'
  BY <1>2 DEF Precedes
<1> QED
  BY <1>2, <1>5, <1>6, <1>7, <1>8 DEF StorageInvariant

-----------------------------------------------------------------------------
(* The command that holds the lock *)

\* What a command that has begun and is not in an fsync knows.
LEMMA Holding ==
  ASSUME TypeOK, UploadInvariant, NEW p \in Processes,
         ~At(p, "idle"), ~At(p, "sync")
  PROVE  /\ procs[p] \in Running
         /\ procs[p].kind \in Kinds
         /\ lock = p
         /\ procs[p].state = files.journal
         /\ disk.journal = files.journal
         /\ ValidIntent(files.journal)
         /\ JournalConsistent(files.journal)
         /\ procs[p].kind = "marker" => files.journal.completion # NoCompletion
         /\ Position(p) = procs[p].pc
         /\ CommandConsistent(p)
<1>1. procs[p] \in Running
  BY RunningShape
<1>2. CommandConsistent(p)
  BY DEF UploadInvariant
<1>3. JournalConsistent(files.journal)
  BY DEF UploadInvariant, StorageInvariant, Survivors
<1> QED
  BY <1>1, <1>2, <1>3 DEF CommandConsistent, Position, Running

\* No other process runs a command beside the one that holds the lock.
LEMMA Alone ==
  ASSUME TypeOK, UploadInvariant, NEW p \in Processes, NEW r \in Processes,
         lock = p \/ lock = NoProcess, r # p
  PROVE  At(r, "idle")
BY NoProcessIsNone DEF UploadInvariant, CommandConsistent

\* A step of the lock's holder preserves the invariant when it preserves the
\* invariant of storage and its own.
LEMMA HolderStep ==
  ASSUME TypeOK, UploadInvariant, NEW p \in Processes,
         lock = p \/ lock = NoProcess,
         \A r \in Processes \ {p} : procs'[r] = procs[r],
         StorageInvariant',
         procs'[p].pc # "idle" => CommandConsistent(p)'
  PROVE  UploadInvariant'
<1>1. \A r \in Processes \ {p} : At(r, "idle")'
  BY Alone DEF At
<1>2. \A r \in Processes : ~At(r, "idle")' => CommandConsistent(r)'
  BY <1>1 DEF At
<1> QED
  BY <1>2 DEF UploadInvariant

\* The command ends: nothing is left to be shown of it.
LEMMA FinishStep ==
  ASSUME TypeOK, UploadInvariant, NEW p \in Processes, ~At(p, "idle"), Finish(p),
         UNCHANGED <<files, disk, sent, remote>>
  PROVE  UploadInvariant'
<1>1. lock = p
  BY DEF UploadInvariant, CommandConsistent
<1>2. procs'[p] = Idle /\ \A r \in Processes \ {p} : procs'[r] = procs[r]
  BY DEF Finish, TypeOK
<1>3. StorageInvariant'
  BY SameStorage DEF UploadInvariant
<1> QED
  BY <1>1, <1>2, <1>3, HolderStep DEF Idle

\* The fields of the command after a step that moves its pc only.
LEMMA GotoFields ==
  ASSUME TypeOK, NEW p \in Processes, procs[p] \in Running, NEW pc, Goto(p, pc)
  PROVE  /\ procs'[p].pc = pc
         /\ procs'[p].state = procs[p].state
         /\ procs'[p].kind = procs[p].kind
         /\ \A r \in Processes \ {p} : procs'[r] = procs[r]
BY DEF Goto, TypeOK, Running

LEMMA SyncStep ==
  ASSUME TypeOK, UploadInvariant, NEW p \in Processes, Sync(p)
  PROVE  UploadInvariant'
<1>1. ~At(p, "idle")
  BY DEF Sync, At
<1>2. procs[p] \in Running /\ CommandConsistent(p)
  BY <1>1, RunningShape DEF UploadInvariant
<1>3. /\ procs'[p].pc = procs[p].next
      /\ procs'[p].state = procs[p].state
      /\ procs'[p].kind = procs[p].kind
      /\ \A r \in Processes \ {p} : procs'[r] = procs[r]
  BY <1>2, GotoFields DEF Sync
<1>4. StorageInvariant'
  BY SyncStorage DEF Sync, sync_directory, UploadInvariant
<1>5. Position(p) = procs[p].next /\ Position(p)' = procs[p].next
  BY <1>2, <1>3 DEF Sync, Position, At, Running
<1>6. /\ lock = p /\ lock' = p /\ sent' = sent
      /\ files' = files /\ disk' = files
  BY <1>2 DEF Sync, sync_directory, CommandConsistent
<1>7. CommandConsistent(p)'
  BY <1>2, <1>3, <1>5, <1>6 DEF CommandConsistent, ValidIntent
<1> QED
  BY <1>3, <1>4, <1>6, <1>7, HolderStep

LEMMA ArmStep ==
  ASSUME TypeOK, UploadInvariant, NEW p \in Processes, Arm(p)
  PROVE  UploadInvariant'
<1>1. ~At(p, "idle") /\ ~At(p, "sync")
  BY DEF Arm, At
<1> DEFINE i == files.journal
           k == procs[p].kind
           j == [i EXCEPT !.status[k] = "pending"]
<1>2. /\ procs[p] \in Running /\ k \in Kinds /\ lock = p
      /\ procs[p].state = i /\ disk.journal = i
      /\ ValidIntent(i) /\ JournalConsistent(i)
      /\ k = "marker" => i.completion # NoCompletion
  BY <1>1, Holding
<1>3. i \in Intent
  BY DEF TypeOK, Directory
<1>4. i.status[k] = "ready" /\ save_upload_intent(p, j, "transmit")
  BY <1>2 DEF Arm
<1>5. /\ j.status = [i.status EXCEPT ![k] = "pending"]
      /\ j.file_id = i.file_id /\ j.completion = i.completion
  BY <1>3 DEF Intent
<1> HIDE DEF j
<1>6. j.status[k] = "pending" /\ \A c \in Kinds \ {k} : j.status[c] = i.status[c]
  BY <1>2, <1>3, <1>5 DEF Intent
<1>7. sent[k] = {}
  BY <1>2, <1>4 DEF JournalConsistent
<1>8. ValidIntent(j)
  BY <1>2, <1>4, <1>5, <1>6 DEF ValidIntent, Kinds
<1>9. JournalConsistent(j)
  BY <1>2, <1>5, <1>6, <1>7, <1>8 DEF JournalConsistent, Stored, Content
<1>10. Precedes(i, j)
  BY <1>5 DEF Precedes
<1>11. /\ files' = [files EXCEPT !.journal = j]
       /\ procs'[p] = [procs[p] EXCEPT !.pc = "sync", !.next = "transmit", !.state = j]
       /\ \A r \in Processes \ {p} : procs'[r] = procs[r]
  BY <1>4 DEF save_upload_intent, TypeOK
<1>12. UNCHANGED <<lock, disk, sent, remote>>
  BY DEF Arm
<1>13. StorageInvariant'
  BY <1>2, <1>9, <1>10, <1>11, <1>12, SaveStorage DEF UploadInvariant
<1>14. /\ procs'[p].pc = "sync" /\ procs'[p].next = "transmit"
       /\ procs'[p].state = j /\ procs'[p].kind = k /\ files'.journal = j
  BY <1>2, <1>11 DEF Running, TypeOK, Directory
<1>15. ~At(p, "idle")' /\ At(p, "sync")' /\ Position(p)' = "transmit"
  BY <1>14 DEF At, Position
<1>16. ValidIntent(procs'[p].state)
  BY <1>8, <1>14
<1>17. CommandConsistent(p)'
  BY <1>2, <1>5, <1>6, <1>7, <1>12, <1>14, <1>15, <1>16 DEF CommandConsistent, ValidIntent
<1> QED
  BY <1>2, <1>11, <1>13, <1>17, HolderStep

\* The object is marked acknowledged under an identifier the bucket holds.
LEMMA AcknowledgeStep ==
  ASSUME TypeOK, UploadInvariant, NEW p \in Processes,
         At(p, "await") \/ At(p, "adopt"),
         Stored(procs[p].kind, procs[p].file_id, procs[p].state),
         NEW next \in {"verify", After(procs[p].kind)},
         Acknowledge(p, procs[p].file_id, next),
         UNCHANGED <<lock, disk, sent, remote>>
  PROVE  UploadInvariant'
<1>1. ~At(p, "idle") /\ ~At(p, "sync")
  BY DEF At
<1> DEFINE i == files.journal
           k == procs[p].kind
           id == procs[p].file_id
           j == [i EXCEPT !.status[k] = "acknowledged", !.file_id[k] = id]
<1>2. /\ procs[p] \in Running /\ k \in Kinds /\ lock = p
      /\ procs[p].state = i /\ disk.journal = i
      /\ ValidIntent(i) /\ JournalConsistent(i)
      /\ k = "marker" => i.completion # NoCompletion
  BY <1>1, Holding
<1>3. i \in Intent
  BY DEF TypeOK, Directory
<1>4. save_upload_intent(p, j, next)
  BY <1>2 DEF Acknowledge
<1>5. /\ j.status = [i.status EXCEPT ![k] = "acknowledged"]
      /\ j.file_id = [i.file_id EXCEPT ![k] = id]
      /\ j.completion = i.completion
  BY <1>3 DEF Intent
<1> HIDE DEF j
<1>6. /\ j.status[k] = "acknowledged" /\ j.file_id[k] = id
      /\ \A c \in Kinds \ {k} : j.status[c] = i.status[c] /\ j.file_id[c] = i.file_id[c]
  BY <1>2, <1>3, <1>5 DEF Intent
<1>7. Stored(k, id, i)
  BY <1>2
<1>8. id \in Ids
  BY <1>2, <1>7 DEF Stored, TypeOK, Version
<1>9. [file_id |-> id, content |-> Content(k, i)] \in sent[k]
  BY <1>2, <1>7 DEF Stored, UploadInvariant, StorageInvariant
<1>10. i.file_id[k] \in {NoId, id}
  <2>1. CASE i.file_id[k] # NoId
    <3>1. [file_id |-> i.file_id[k], content |-> Content(k, i)] \in sent[k]
      BY <1>2, <2>1 DEF JournalConsistent, Stored, UploadInvariant, StorageInvariant
    <3> QED
      BY <1>2, <1>9, <3>1 DEF UploadInvariant, StorageInvariant, SentOnce
  <2> QED
    BY <2>1
<1>11. ValidIntent(j)
  <2>1. \A c \in Kinds :
          /\ j.status[c] \in {"ready", "pending", "acknowledged"}
          /\ j.status[c] = "acknowledged" <=> j.file_id[c] # NoId
    BY <1>2, <1>6, <1>8, NoIdIsNotAnId DEF ValidIntent
  <2>2. j.completion # NoCompletion =>
          /\ j.status["ciphertext"] = "acknowledged"
          /\ j.completion.file_id = j.file_id["ciphertext"]
    BY <1>2, <1>5, <1>6, <1>8, <1>10, NoIdIsNotAnId DEF ValidIntent, Kinds
  <2>3. j.status["marker"] # "ready" => j.completion # NoCompletion
    BY <1>2, <1>5, <1>6 DEF ValidIntent, Kinds
  <2> QED
    BY <2>1, <2>2, <2>3 DEF ValidIntent
<1>12. \A c \in Kinds : Content(c, j) = Content(c, i)
  BY <1>5 DEF Content
<1>13. JournalConsistent(j)
  <2>1. SUFFICES ASSUME NEW c \in Kinds
                 PROVE  /\ j.status[c] \in {"absent", "ready"} => sent[c] = {}
                        /\ j.file_id[c] # NoId => Stored(c, j.file_id[c], j)
                        /\ \A v \in sent[c] : v.content = Content(c, j)
    BY <1>11 DEF JournalConsistent
  <2>2. /\ i.status[c] \in {"absent", "ready"} => sent[c] = {}
        /\ i.file_id[c] # NoId => Stored(c, i.file_id[c], i)
        /\ \A v \in sent[c] : v.content = Content(c, i)
    BY <1>2 DEF JournalConsistent
  <2>3. Content(c, j) = Content(c, i)
    BY <1>12
  <2>4. j.file_id[c] # NoId => Stored(c, j.file_id[c], i)
    BY <1>6, <1>7, <2>2
  <2> QED
    BY <1>6, <2>2, <2>3, <2>4 DEF Stored
<1>14. Precedes(i, j)
  BY <1>5, <1>6, <1>10 DEF Precedes
<1>15. /\ files' = [files EXCEPT !.journal = j]
       /\ procs'[p] = [procs[p] EXCEPT !.pc = "sync", !.next = next, !.state = j]
       /\ \A r \in Processes \ {p} : procs'[r] = procs[r]
  BY <1>4 DEF save_upload_intent, TypeOK
<1>16. StorageInvariant'
  BY <1>2, <1>13, <1>14, <1>15, SaveStorage DEF UploadInvariant
<1>17. /\ procs'[p].pc = "sync" /\ procs'[p].next = next
       /\ procs'[p].state = j /\ procs'[p].kind = k /\ files'.journal = j
  BY <1>2, <1>15 DEF Running, TypeOK, Directory
<1>18. ~At(p, "idle")' /\ At(p, "sync")' /\ Position(p)' = next
  BY <1>17 DEF At, Position
<1>19. /\ next \in {"verify", "complete", "publish"}
       /\ next = "complete" => k = "ciphertext"
       /\ next = "publish" => k = "marker"
  BY <1>2 DEF After, Kinds
<1>20. ValidIntent(procs'[p].state)
  BY <1>11, <1>17
<1>21. CommandConsistent(p)'
  BY <1>2, <1>5, <1>6, <1>17, <1>18, <1>19, <1>20 DEF CommandConsistent, ValidIntent
<1> QED
  BY <1>2, <1>15, <1>16, <1>21, HolderStep

\* A step that moves the command on and touches neither files nor bucket.
LEMMA MoveStep ==
  ASSUME TypeOK, UploadInvariant, NEW p \in Processes,
         ~At(p, "idle"), ~At(p, "sync"),
         UNCHANGED <<lock, files, disk, sent, remote>>,
         \A r \in Processes \ {p} : procs'[r] = procs[r],
         procs'[p].state = procs[p].state,
         procs'[p].pc \in Steps \ {"sync", "transmit", "await"},
         LET k == procs'[p].kind  pc == procs'[p].pc IN
         /\ k = "marker" => files.journal.completion # NoCompletion
         /\ pc \in {"verify", "complete", "publish"} =>
              files.journal.status[k] = "acknowledged"
         /\ pc = "complete" => k = "ciphertext"
         /\ pc = "publish" => k = "marker"
  PROVE  UploadInvariant'
<1>1. /\ lock = p /\ procs[p].state = files.journal
      /\ disk.journal = files.journal /\ ValidIntent(files.journal)
  BY Holding
<1>2. StorageInvariant'
  BY SameStorage DEF UploadInvariant
<1>3. Position(p)' = procs'[p].pc /\ ~At(p, "sync")'
  BY DEF Position, At, Steps
<1>4. ValidIntent(procs'[p].state)
  BY <1>1
<1>5. CommandConsistent(p)'
  BY <1>1, <1>3, <1>4 DEF CommandConsistent, ValidIntent
<1> QED
  BY <1>1, <1>2, <1>5, HolderStep

LEMMA MovingSteps ==
  ASSUME TypeOK, UploadInvariant, NEW p \in Processes,
         AlreadySent(p) \/ verify_remote_file(p) \/ Lookup(p) \/ AlreadyComplete(p)
  PROVE  UploadInvariant'
<1>1. ~At(p, "idle") /\ ~At(p, "sync")
  BY DEF AlreadySent, verify_remote_file, Lookup, AlreadyComplete, At
<1>2. /\ procs[p] \in Running /\ procs[p].kind \in Kinds
      /\ procs[p].state = files.journal
      /\ procs[p].kind = "marker" => files.journal.completion # NoCompletion
  BY <1>1, Holding
<1>3. CASE AlreadySent(p)
  <2>1. /\ procs'[p].pc = "verify" /\ procs'[p].state = procs[p].state
        /\ procs'[p].kind = procs[p].kind
        /\ \A r \in Processes \ {p} : procs'[r] = procs[r]
    BY <1>2, <1>3, GotoFields DEF AlreadySent
  <2>2. files.journal.status[procs[p].kind] = "acknowledged"
    BY <1>2, <1>3 DEF AlreadySent
  <2> QED
    BY <1>1, <1>2, <1>3, <2>1, <2>2, MoveStep DEF AlreadySent, Steps
<1>4. CASE verify_remote_file(p)
  <2>1. /\ procs'[p].pc = After(procs[p].kind) /\ procs'[p].state = procs[p].state
        /\ procs'[p].kind = procs[p].kind
        /\ \A r \in Processes \ {p} : procs'[r] = procs[r]
    BY <1>2, <1>4, GotoFields DEF verify_remote_file
  <2>2. files.journal.status[procs[p].kind] = "acknowledged"
    BY <1>2, <1>4, Acknowledged DEF verify_remote_file
  <2>3. /\ After(procs[p].kind) \in {"complete", "publish"}
        /\ After(procs[p].kind) = "complete" => procs[p].kind = "ciphertext"
        /\ After(procs[p].kind) = "publish" => procs[p].kind = "marker"
    BY <1>2 DEF After, Kinds
  <2> QED
    BY <1>1, <1>2, <1>4, <2>1, <2>2, <2>3, MoveStep DEF verify_remote_file, Steps
<1>5. CASE Lookup(p)
  <2>1. PICK v \in remote[procs[p].kind] :
          procs' = [procs EXCEPT ![p].pc = "adopt", ![p].file_id = v.file_id]
    BY <1>5 DEF Lookup
  <2>2. /\ procs'[p].pc = "adopt" /\ procs'[p].state = procs[p].state
        /\ procs'[p].kind = procs[p].kind
        /\ \A r \in Processes \ {p} : procs'[r] = procs[r]
    BY <1>2, <2>1 DEF TypeOK, Running
  <2> QED
    BY <1>1, <1>2, <1>5, <2>2, MoveStep DEF Lookup, Steps
<1>6. CASE AlreadyComplete(p)
  <2>1. /\ procs'[p].pc = MarkerStep(p) /\ procs'[p].state = procs[p].state
        /\ procs'[p].kind = "marker"
        /\ \A r \in Processes \ {p} : procs'[r] = procs[r]
    BY <1>2, <1>6 DEF AlreadyComplete, TypeOK, Running
  <2>2. MarkerStep(p) \in {"send", "lookup"}
    BY DEF MarkerStep
  <2>3. files.journal.completion # NoCompletion
    BY <1>2, <1>6 DEF AlreadyComplete
  <2> QED
    BY <1>1, <1>6, <2>1, <2>2, <2>3, MoveStep DEF AlreadyComplete, Steps
<1> QED
  BY <1>3, <1>4, <1>5, <1>6

LEMMA TransmitStep ==
  ASSUME TypeOK, UploadInvariant, NEW p \in Processes, Transmit(p)
  PROVE  UploadInvariant'
<1>1. ~At(p, "idle") /\ ~At(p, "sync") /\ procs[p].pc = "transmit"
  BY DEF Transmit, At
<1>2. /\ procs[p] \in Running /\ procs[p].kind \in Kinds /\ lock = p
      /\ procs[p].state = files.journal /\ disk.journal = files.journal
      /\ ValidIntent(files.journal)
      /\ procs[p].kind = "marker" => files.journal.completion # NoCompletion
      /\ Position(p) = procs[p].pc /\ CommandConsistent(p)
  BY <1>1, Holding
<1>3. /\ files.journal.status[procs[p].kind] = "pending"
      /\ sent[procs[p].kind] = {}
  BY <1>1, <1>2 DEF CommandConsistent
<1>4. PICK id \in Ids :
        /\ sent' = [sent EXCEPT ![procs[p].kind] = @ \cup
             {[file_id |-> id, content |-> Content(procs[p].kind, procs[p].state)]}]
        /\ procs' = [procs EXCEPT ![p].pc = "await", ![p].file_id = id]
  BY DEF Transmit
<1>5. UNCHANGED <<lock, files, disk, remote>>
  BY DEF Transmit
<1> DEFINE v == [file_id |-> id, content |-> Content(procs[p].kind, procs[p].state)]
<1>6. v.content = Content(procs[p].kind, files.journal)
  BY <1>2
<1> HIDE DEF v
<1>7. sent' = [sent EXCEPT ![procs[p].kind] = @ \cup {v}]
  BY <1>4 DEF v
<1>8. StorageInvariant'
  BY <1>2, <1>3, <1>5, <1>6, <1>7, SendStorage DEF UploadInvariant
<1>9. /\ procs'[p].pc = "await" /\ procs'[p].state = procs[p].state
      /\ procs'[p].kind = procs[p].kind
      /\ \A r \in Processes \ {p} : procs'[r] = procs[r]
  BY <1>2, <1>4 DEF TypeOK, Running
<1>10. Position(p)' = "await" /\ ~At(p, "sync")'
  BY <1>9 DEF Position, At
<1>11. ValidIntent(procs'[p].state)
  BY <1>2, <1>9
<1>12. CommandConsistent(p)'
  BY <1>2, <1>3, <1>5, <1>9, <1>10, <1>11 DEF CommandConsistent, ValidIntent
<1> QED
  BY <1>2, <1>8, <1>9, <1>12, HolderStep

LEMMA CompleteStep ==
  ASSUME TypeOK, UploadInvariant, NEW p \in Processes, Complete(p)
  PROVE  UploadInvariant'
<1>1. ~At(p, "idle") /\ ~At(p, "sync") /\ At(p, "complete")
  BY DEF Complete, At
<1> DEFINE i == files.journal
<1>2. /\ procs[p] \in Running /\ lock = p
      /\ procs[p].state = i /\ disk.journal = i
      /\ ValidIntent(i) /\ JournalConsistent(i)
  BY <1>1, Holding
<1>3. i \in Intent
  BY DEF TypeOK, Directory
<1>4. i.file_id["ciphertext"] \in Ids
  BY <1>1, <1>2, Acknowledged, Completing
<1>5. i.completion = NoCompletion
  BY <1>2 DEF Complete
<1>6. i.status["marker"] = "ready" /\ sent["marker"] = {}
  BY <1>2, <1>5 DEF ValidIntent, JournalConsistent, Kinds
<1>7. i.file_id["marker"] = NoId
  BY <1>2, <1>6 DEF ValidIntent, Kinds
<1> DEFINE c(t) == [file_id |-> i.file_id["ciphertext"], verified_at |-> t]
           state(t) == [i EXCEPT !.completion = c(t)]
<1>8. PICK t \in Times :
        /\ files' = [files EXCEPT !.journal = state(t)]
        /\ procs' = [procs EXCEPT ![p] =
             [procs[p] EXCEPT !.pc = "sync", !.next = MarkerStep(p),
                              !.kind = "marker", !.state = state(t)]]
  BY <1>2 DEF Complete
<1> DEFINE j == state(t)
<1>9. /\ j.status = i.status /\ j.file_id = i.file_id
      /\ j.completion = c(t)
  BY <1>3 DEF Intent
<1>10. c(t).file_id = i.file_id["ciphertext"] /\ c(t) # NoCompletion
  BY <1>4, NoIdIsNotAnId DEF NoCompletion
<1>11. /\ files' = [files EXCEPT !.journal = j]
       /\ procs'[p] = [procs[p] EXCEPT !.pc = "sync", !.next = MarkerStep(p),
                                       !.kind = "marker", !.state = j]
       /\ \A r \in Processes \ {p} : procs'[r] = procs[r]
  BY <1>8 DEF TypeOK
<1> HIDE DEF j, c
<1>12. i.status["ciphertext"] = "acknowledged"
  BY <1>1, <1>2, Acknowledged, Completing
<1>13. ValidIntent(j)
  BY <1>2, <1>9, <1>10, <1>12 DEF ValidIntent
<1>14. /\ Content("ciphertext", j) = Content("ciphertext", i)
       /\ i.file_id["ciphertext"] # NoId =>
            Stored("ciphertext", i.file_id["ciphertext"], j)
  BY <1>2 DEF Content, JournalConsistent, Stored, Kinds
<1>15. JournalConsistent(j)
  BY <1>2, <1>6, <1>7, <1>9, <1>13, <1>14 DEF JournalConsistent, Kinds
<1>16. Precedes(i, j)
  BY <1>5, <1>9 DEF Precedes
<1>17. UNCHANGED <<lock, disk, sent, remote>>
  BY DEF Complete
<1>18. StorageInvariant'
  BY <1>2, <1>11, <1>15, <1>16, <1>17, SaveStorage DEF UploadInvariant
<1>19. /\ procs'[p].pc = "sync" /\ procs'[p].next = MarkerStep(p)
       /\ procs'[p].state = j /\ procs'[p].kind = "marker" /\ files'.journal = j
  BY <1>2, <1>11 DEF Running, TypeOK, Directory
<1>20. MarkerStep(p) \in {"send", "lookup"}
  BY DEF MarkerStep
<1>21. At(p, "sync")' /\ Position(p)' \in {"send", "lookup"}
  BY <1>19, <1>20 DEF At, Position
<1>22. ValidIntent(procs'[p].state)
  BY <1>13, <1>19
<1>23. CommandConsistent(p)'
  BY <1>2, <1>9, <1>10, <1>17, <1>19, <1>21, <1>22 DEF CommandConsistent, ValidIntent
<1> QED
  BY <1>2, <1>11, <1>18, <1>23, HolderStep

LEMMA PublishStep ==
  ASSUME TypeOK, UploadInvariant, NEW p \in Processes, publish_upload_receipt(p)
  PROVE  UploadInvariant'
<1>1. ~At(p, "idle") /\ ~At(p, "sync") /\ At(p, "publish")
  BY DEF publish_upload_receipt, At
<1>2. /\ procs[p] \in Running /\ lock = p
      /\ procs[p].state = files.journal /\ disk.journal = files.journal
      /\ ValidIntent(files.journal) /\ CommandConsistent(p)
  BY <1>1, Holding
<1>3. procs[p].kind = "marker"
  BY <1>1, Publishing
<1> DEFINE r == [completion |-> procs[p].state.completion,
                 file_id |-> procs[p].state.file_id["marker"]]
<1>4. /\ files.receipt \in {NoReceipt, r}
      /\ files' = [files EXCEPT !.receipt = r]
      /\ procs' = [procs EXCEPT ![p].pc = "sync", ![p].next = "done"]
      /\ UNCHANGED <<lock, disk, sent, remote>>
  BY DEF publish_upload_receipt
<1>5. ReceiptConsistent(r)
  BY <1>2 DEF ReceiptConsistent
<1> HIDE DEF r
<1>6. StorageInvariant'
  BY <1>4, <1>5, PublishStorage DEF UploadInvariant
<1>7. /\ procs'[p].pc = "sync" /\ procs'[p].next = "done"
      /\ procs'[p].state = procs[p].state /\ procs'[p].kind = procs[p].kind
      /\ \A q \in Processes \ {p} : procs'[q] = procs[q]
      /\ files'.journal = files.journal
  BY <1>2, <1>4 DEF TypeOK, Running, Directory
<1>8. At(p, "sync")' /\ Position(p)' = "done"
  BY <1>7 DEF At, Position
<1>9. ValidIntent(procs'[p].state)
  BY <1>2, <1>7
<1>10. CommandConsistent(p)'
  BY <1>2, <1>4, <1>7, <1>8, <1>9 DEF CommandConsistent, ValidIntent
<1> QED
  BY <1>2, <1>6, <1>7, <1>10, HolderStep

LEMMA ProceedStep ==
  ASSUME TypeOK, UploadInvariant, NEW p \in Processes, Proceed(p)
  PROVE  UploadInvariant'
<1>1. CASE Return(p) \/ SendRefused(p) \/ Absent(p)
  BY <1>1, FinishStep DEF Return, SendRefused, Absent, At
<1>2. CASE Answer(p)
  BY <1>2, AcknowledgeStep DEF Answer
<1>3. CASE Adopt(p)
  BY <1>3, AcknowledgeStep DEF Adopt
<1> QED
  BY <1>1, <1>2, <1>3, SyncStep, ArmStep, TransmitStep, MovingSteps, CompleteStep,
     PublishStep DEF Proceed

LEMMA BeginStep ==
  ASSUME TypeOK, UploadInvariant, NEW p \in Processes,
         BeginUpload(p) \/ BeginReconcile(p) \/ BeginRefused(p)
  PROVE  UploadInvariant'
<1>1. CASE BeginRefused(p)
  <2>1. StorageInvariant'
    BY <1>1, SyncStorage DEF BeginRefused, sync_directory, UploadInvariant
  <2>2. procs'[p].pc = "idle" /\ \A r \in Processes \ {p} : procs'[r] = procs[r]
    BY <1>1 DEF BeginRefused, At
  <2> QED
    BY <1>1, <2>1, <2>2, HolderStep DEF BeginRefused
<1>2. CASE BeginUpload(p) /\ files.journal = NoIntent
  <2>1. StorageInvariant'
    BY <1>2, CreateStorage DEF BeginUpload, sync_directory, UploadInvariant
  <2>2. /\ procs'[p] = Command("upload", "sync", "send", Prepared)
        /\ \A r \in Processes \ {p} : procs'[r] = procs[r]
        /\ files'.journal = Prepared /\ lock' = p /\ lock = NoProcess
    BY <1>2 DEF BeginUpload, TypeOK, Directory
  <2>3. /\ procs'[p].pc = "sync" /\ procs'[p].next = "send"
        /\ procs'[p].state = Prepared /\ procs'[p].kind = "ciphertext"
    BY <2>2 DEF Command
  <2>4. Position(p)' = "send" /\ At(p, "sync")'
    BY <2>3 DEF Position, At
  <2>5. ValidIntent(Prepared)
    BY DEF ValidIntent, Prepared, NoIntent, Kinds
  <2>6. ValidIntent(procs'[p].state)
    BY <2>3, <2>5
  <2>7. CommandConsistent(p)'
    BY <2>2, <2>3, <2>4, <2>6 DEF CommandConsistent, ValidIntent
  <2> QED
    BY <2>1, <2>2, <2>7, HolderStep
<1>3. CASE BeginReconcile(p) \/ (BeginUpload(p) /\ files.journal # NoIntent)
  <2>1. StorageInvariant'
    BY <1>3, SyncStorage DEF BeginUpload, BeginReconcile, sync_directory, UploadInvariant
  <2>2. PICK name \in {"upload", "reconcile"}, pc \in {"send", "lookup"} :
          procs' = [procs EXCEPT ![p] = Command(name, pc, pc, files.journal)]
    BY <1>3 DEF BeginUpload, BeginReconcile
  <2>3. /\ files' = files /\ disk' = files /\ lock' = p /\ lock = NoProcess
        /\ ValidIntent(files.journal)
    BY <1>3 DEF BeginUpload, BeginReconcile, sync_directory
  <2>4. /\ procs'[p].pc = pc /\ procs'[p].state = files.journal
        /\ procs'[p].kind = "ciphertext"
        /\ \A r \in Processes \ {p} : procs'[r] = procs[r]
    BY <2>2 DEF Command, TypeOK
  <2>5. Position(p)' = pc /\ ~At(p, "sync")'
    BY <2>4 DEF Position, At
  <2>6. ValidIntent(procs'[p].state)
    BY <2>3, <2>4
  <2>7. CommandConsistent(p)'
    BY <2>3, <2>4, <2>5, <2>6 DEF CommandConsistent, ValidIntent
  <2> QED
    BY <2>1, <2>3, <2>4, <2>7, HolderStep
<1> QED
  BY <1>1, <1>2, <1>3

-----------------------------------------------------------------------------
(* The invariant *)

Inv == TypeOK /\ UploadInvariant

LEMMA InitInvariant == Init => Inv
<1> SUFFICES ASSUME Init PROVE Inv
  OBVIOUS
<1>1. \A p \in Processes : At(p, "idle")
  BY DEF Init, At, Idle
<1> QED
  BY <1>1, InitTypeOK, InitStorage DEF Inv, UploadInvariant

LEMMA StepInvariant == Inv /\ [Next]_vars => Inv'
<1> SUFFICES ASSUME TypeOK, UploadInvariant, [Next]_vars PROVE UploadInvariant'
  BY StepTypeOK DEF Inv
<1>1. ASSUME NEW p \in Processes, BeginUpload(p) \/ BeginReconcile(p) \/ BeginRefused(p)
      PROVE  UploadInvariant'
  BY <1>1, BeginStep
<1>2. ASSUME NEW p \in Processes, Proceed(p) PROVE UploadInvariant'
  BY <1>2, ProceedStep
<1>3. ASSUME NEW p \in Processes, Fail(p) PROVE UploadInvariant'
  BY <1>3, FinishStep DEF Fail
<1>4. ASSUME NEW k \in Kinds, Store(k) PROVE UploadInvariant'
  <2>1. StorageInvariant'
    BY <1>4, StoreStorage DEF UploadInvariant
  <2>2. \A p \in Processes : CommandConsistent(p) => CommandConsistent(p)'
    BY <1>4 DEF Store, CommandConsistent, ValidIntent, Position, At
  <2> QED
    BY <1>4, <2>1, <2>2 DEF Store, UploadInvariant, At
<1>5. CASE PowerLoss
  <2>1. \A p \in Processes : At(p, "idle")'
    BY <1>5 DEF PowerLoss, At, Idle
  <2> QED
    BY <1>5, <2>1, PowerLossStorage DEF UploadInvariant
<1>6. CASE UNCHANGED vars
  <2>1. StorageInvariant'
    BY <1>6, SameStorage DEF vars, UploadInvariant
  <2>2. \A p \in Processes : CommandConsistent(p) => CommandConsistent(p)'
    BY <1>6 DEF vars, CommandConsistent, ValidIntent, Position, At
  <2> QED
    BY <1>6, <2>1, <2>2 DEF vars, UploadInvariant, At
<1> QED
  BY <1>1, <1>2, <1>3, <1>4, <1>5, <1>6 DEF Next

\* The inductive invariant holds in every reachable state, whatever commands
\* run, fail and lose power.
THEOREM InvariantHolds == Spec => []Inv
<1>1. Init => Inv
  BY InitInvariant
<1>2. Inv /\ [Next]_vars => Inv'
  BY StepInvariant
<1> QED
  BY <1>1, <1>2, PTL DEF Spec

-----------------------------------------------------------------------------
(* What follows from it *)

\* Commands, files and versions keep their types.
THEOREM TypeCorrect == Spec => []TypeOK
BY InvariantHolds, PTL DEF Inv

\* Each object is requested of the bucket at most once, ever.
THEOREM NeverSentTwice == Spec => []SentOnce
<1>1. Inv => SentOnce
  BY DEF Inv, UploadInvariant, StorageInvariant
<1> QED
  BY <1>1, InvariantHolds, PTL

\* A journal that lets an object be sent is of an object not yet sent, also
\* after a power loss has taken the youngest journal back.
THEOREM ReadyIsHonest == Spec => []ReadyMeansNeverSent
<1>1. Inv => ReadyMeansNeverSent
  BY DEF Inv, UploadInvariant, StorageInvariant, JournalConsistent, ReadyMeansNeverSent
<1> QED
  BY <1>1, InvariantHolds, PTL

LEMMA MarkerNeedsCiphertext == Inv => MarkerImpliesCiphertext
<1> SUFFICES ASSUME Inv, NEW v \in sent["marker"]
             PROVE  /\ \E c \in remote["ciphertext"] : c.file_id = v.content.file_id
                    /\ \A j \in Survivors : j.completion = v.content
  BY DEF MarkerImpliesCiphertext
<1>1. \A j \in Survivors : JournalConsistent(j) /\ j \in Intent
  BY DEF Inv, UploadInvariant, StorageInvariant, Survivors, TypeOK, Directory
<1>2. \A j \in Survivors : j.completion = v.content
  BY <1>1 DEF JournalConsistent, Content, Kinds
<1>3. files.journal \in Survivors /\ files.journal.status["marker"] \notin {"absent", "ready"}
  BY <1>1 DEF JournalConsistent, Survivors, Kinds
<1>4. files.journal # NoIntent
  BY <1>3 DEF NoIntent, Kinds
<1>5. ValidIntent(files.journal)
  BY <1>1, <1>3, <1>4 DEF JournalConsistent
<1>6. files.journal.completion # NoCompletion
  BY <1>3, <1>5 DEF ValidIntent
<1>7. /\ files.journal.completion.file_id = files.journal.file_id["ciphertext"]
      /\ files.journal.file_id["ciphertext"] # NoId
  BY <1>5, <1>6 DEF ValidIntent, Kinds
<1>8. Stored("ciphertext", files.journal.file_id["ciphertext"], files.journal)
  BY <1>1, <1>3, <1>7 DEF JournalConsistent, Kinds
<1>9. \E c \in remote["ciphertext"] : c.file_id = files.journal.file_id["ciphertext"]
  BY <1>8 DEF Stored
<1> QED
  BY <1>2, <1>3, <1>7, <1>9

\* A marker in the bucket, or on its way there, has its ciphertext in the
\* bucket and its completion record in every journal that may survive.
THEOREM MarkerComesSecond == Spec => []MarkerImpliesCiphertext
BY MarkerNeedsCiphertext, InvariantHolds, PTL

LEMMA ReceiptNeedsVersions == Inv => ReceiptTruthful
<1> SUFFICES ASSUME Inv, NEW r \in {files.receipt, disk.receipt} \ {NoReceipt}
             PROVE  /\ [file_id |-> r.file_id, content |-> r.completion] \in remote["marker"]
                    /\ \E c \in remote["ciphertext"] : c.file_id = r.completion.file_id
                    /\ disk.journal.file_id["marker"] = r.file_id
  BY DEF ReceiptTruthful
<1>1. r \in Receipt /\ ReceiptConsistent(r)
  BY DEF Inv, UploadInvariant, StorageInvariant, TypeOK, Directory
<1>2. r.file_id # NoId
  BY <1>1, NullsAreDistinct, NoIdIsNotAnId
<1>3. /\ disk.journal.file_id["marker"] = r.file_id
      /\ disk.journal.completion = r.completion
  BY <1>1 DEF ReceiptConsistent
<1>4. JournalConsistent(disk.journal)
  BY DEF Inv, UploadInvariant, StorageInvariant, Survivors
<1>5. Stored("marker", r.file_id, disk.journal)
  BY <1>2, <1>3, <1>4 DEF JournalConsistent, Kinds
<1>6. [file_id |-> r.file_id, content |-> r.completion] \in remote["marker"]
  BY <1>3, <1>5 DEF Stored, Content
<1>7. [file_id |-> r.file_id, content |-> r.completion] \in sent["marker"]
  BY <1>6 DEF Inv, UploadInvariant, StorageInvariant, Kinds
<1>8. \E c \in remote["ciphertext"] : c.file_id = r.completion.file_id
  BY <1>7, MarkerNeedsCiphertext DEF MarkerImpliesCiphertext
<1> QED
  BY <1>3, <1>6, <1>8

\* A receipt names versions that the bucket holds.
THEOREM ReceiptsAreTrue == Spec => []ReceiptTruthful
BY ReceiptNeedsVersions, InvariantHolds, PTL

LEMMA Reconcilable == Inv => AlwaysReconcilable
<1> SUFFICES ASSUME Inv, NEW j \in Survivors \ {NoIntent}
             PROVE  /\ ValidIntent(j)
                    /\ \A k \in Kinds : \A v \in sent[k] :
                         /\ j.file_id[k] \in {NoId, v.file_id}
                         /\ v.content = Content(k, j)
  BY DEF AlwaysReconcilable
<1>1. JournalConsistent(j)
  BY DEF Inv, UploadInvariant, StorageInvariant
<1>2. ASSUME NEW k \in Kinds, NEW v \in sent[k], j.file_id[k] # NoId
      PROVE  j.file_id[k] = v.file_id
  <2>1. [file_id |-> j.file_id[k], content |-> Content(k, j)] \in sent[k]
    BY <1>1, <1>2 DEF JournalConsistent, Stored, Inv, UploadInvariant, StorageInvariant
  <2> QED
    BY <2>1 DEF Inv, UploadInvariant, StorageInvariant, SentOnce
<1> QED
  BY <1>1, <1>2 DEF JournalConsistent

\* What the bucket holds is what reconcile looks for, whichever journal a
\* crash or power loss has left.
THEOREM RepairStaysPossible == Spec => []AlwaysReconcilable
BY Reconcilable, InvariantHolds, PTL

\* The durable entries are replaced by visible ones only.
LEMMA DiskStep ==
  ASSUME Inv, [Next]_vars
  PROVE  /\ disk'.journal \in {disk.journal, files.journal}
         /\ disk'.receipt \in {disk.receipt, files.receipt}
<1>1. ASSUME NEW p \in Processes, BeginUpload(p) \/ BeginReconcile(p) \/ BeginRefused(p)
      PROVE  disk' = files
  BY <1>1 DEF BeginUpload, BeginReconcile, BeginRefused, sync_directory
<1>2. ASSUME NEW p \in Processes, Proceed(p)
      PROVE  disk' = files \/ disk' = disk
  BY <1>2 DEF Proceed, Sync, sync_directory, Return, SendRefused, Arm, AlreadySent,
     Transmit, Answer, verify_remote_file, Lookup, Absent, Adopt, Complete,
     AlreadyComplete, publish_upload_receipt
<1>3. ASSUME NEW p \in Processes, Fail(p) PROVE disk' = disk
  BY <1>3 DEF Fail
<1>4. ASSUME NEW k \in Kinds, Store(k) PROVE disk' = disk
  BY <1>4 DEF Store
<1>5. CASE PowerLoss
  <2>1. PICK j \in {files.journal, disk.journal}, r \in {files.receipt, disk.receipt} :
          disk' = [journal |-> j, receipt |-> r]
    BY <1>5 DEF PowerLoss
  <2> QED
    BY <2>1
<1>6. CASE UNCHANGED vars
  BY <1>6 DEF vars
<1> QED
  BY <1>1, <1>2, <1>3, <1>4, <1>5, <1>6 DEF Next

LEMMA DurableStaysStep ==
  ASSUME Inv, [Next]_vars
  PROVE  /\ \A k \in Kinds :
              disk.journal.file_id[k] # NoId =>
                disk'.journal.file_id[k] = disk.journal.file_id[k]
         /\ disk.journal.completion # NoCompletion =>
              disk'.journal.completion = disk.journal.completion
         /\ disk.receipt # NoReceipt => disk'.receipt = disk.receipt
<1>1. Precedes(disk.journal, files.journal)
  BY DEF Inv, UploadInvariant, StorageInvariant
<1>2. disk.receipt # NoReceipt => files.receipt = disk.receipt
  BY DEF Inv, UploadInvariant, StorageInvariant
<1> QED
  BY <1>1, <1>2, DiskStep DEF Precedes

\* Durable ids, completion records and receipts are never taken back.
THEOREM DurableStays == Spec => DurableIsFinal
<1>1. Inv /\ [Next]_vars =>
        [/\ \A k \in Kinds :
              disk.journal.file_id[k] # NoId =>
                disk'.journal.file_id[k] = disk.journal.file_id[k]
         /\ disk.journal.completion # NoCompletion =>
              disk'.journal.completion = disk.journal.completion
         /\ disk.receipt # NoReceipt => disk'.receipt = disk.receipt]_vars
  BY DurableStaysStep
<1> QED
  BY <1>1, InvariantHolds, PTL DEF Spec, DurableIsFinal

-----------------------------------------------------------------------------
(* The protocol *)

LEMMA ProtocolTransmit ==
  ASSUME Inv, Inv', NEW p \in Processes, Transmit(p)
  PROVE  \E k \in Kinds : Contract!Send(k)
<1>1. ~At(p, "idle") /\ ~At(p, "sync") /\ procs[p].pc = "transmit"
  BY DEF Transmit, At
<1>2. PICK k \in Kinds : k = procs[p].kind
  BY <1>1, Holding DEF Inv
<1>3. sent[k] = {} /\ remote[k] = {}
  BY <1>1, <1>2, Holding DEF Inv, CommandConsistent, UploadInvariant, StorageInvariant
<1>4. PICK v : sent' = [sent EXCEPT ![k] = @ \cup {v}]
  BY <1>2 DEF Transmit
<1>5. v \in sent'[k] /\ remote' = remote /\ disk' = disk
  BY <1>2, <1>4 DEF Transmit, Inv, TypeOK
<1>6. \A i \in Kinds \ {k} : sent'[i] = sent[i]
  BY <1>4 DEF Inv, TypeOK
<1>7. k = "marker" => Phase("ciphertext") = "stored"
  <2>1. MarkerImpliesCiphertext'
    BY MarkerNeedsCiphertext, PTL
  <2> QED
    BY <1>5, <2>1 DEF MarkerImpliesCiphertext, Phase
<1>8. Phase(k) = "unsent" /\ Phase(k)' = "sent"
  BY <1>3, <1>5 DEF Phase
<1>9. \A i \in Kinds \ {k} : Phase(i)' = Phase(i)
  BY <1>5, <1>6 DEF Phase
<1>10. [i \in Kinds |-> Phase(i)'] = [[i \in Kinds |-> Phase(i)] EXCEPT ![k] = "sent"]
  BY <1>8, <1>9
<1>11. UNCHANGED (disk.receipt # NoReceipt)
  BY <1>5
<1>12. Contract!Send(k)
  BY <1>7, <1>8, <1>10, <1>11 DEF Contract!Send, Kinds
<1> QED
  BY <1>12

LEMMA ProtocolStore ==
  ASSUME Inv, NEW k \in Kinds, Store(k)
  PROVE  Contract!Arrive(k)
<1>1. PICK v \in sent[k] \ remote[k] : remote' = [remote EXCEPT ![k] = @ \cup {v}]
  BY DEF Store
<1>2. remote[k] = {}
  BY <1>1 DEF Inv, UploadInvariant, StorageInvariant, SentOnce
<1>3. /\ remote'[k] # {} /\ \A i \in Kinds \ {k} : remote'[i] = remote[i]
      /\ UNCHANGED <<sent, disk>>
  BY <1>1 DEF Store, Inv, TypeOK
<1>4. Phase(k) = "sent" /\ Phase(k)' = "stored"
  BY <1>1, <1>2, <1>3 DEF Phase
<1>5. \A i \in Kinds \ {k} : Phase(i)' = Phase(i)
  BY <1>3 DEF Phase
<1>6. [i \in Kinds |-> Phase(i)'] = [[i \in Kinds |-> Phase(i)] EXCEPT ![k] = "stored"]
  BY <1>4, <1>5
<1>7. UNCHANGED (disk.receipt # NoReceipt)
  BY <1>3
<1> QED
  BY <1>4, <1>6, <1>7 DEF Contract!Arrive

\* Anything else is the publication, or a step the protocol does not see.
LEMMA ProtocolDisk ==
  ASSUME Inv, Inv', [Next]_vars, UNCHANGED <<sent, remote>>
  PROVE  Contract!Publish \/ UNCHANGED Contract!vars
<1>1. disk.receipt # NoReceipt => disk'.receipt # NoReceipt
  BY DurableStaysStep
<1>2. UNCHANGED [k \in Kinds |-> Phase(k)]
  BY DEF Phase
<1>3. CASE disk.receipt = NoReceipt /\ disk'.receipt # NoReceipt
  <2>1. ReceiptTruthful'
    BY ReceiptNeedsVersions, PTL
  <2>2. \A k \in Kinds : remote'[k] # {}
    BY <1>3, <2>1 DEF ReceiptTruthful, Kinds
  <2>3. \A k \in Kinds : Phase(k) = "stored"
    BY <2>2 DEF Phase
  <2> QED
    BY <1>2, <1>3, <2>3 DEF Contract!Publish, Contract!Objects, Kinds
<1>4. CASE (disk.receipt # NoReceipt)' = (disk.receipt # NoReceipt)
  BY <1>2, <1>4 DEF Contract!vars
<1> QED
  BY <1>1, <1>3, <1>4

LEMMA ProtocolStep == Inv /\ Inv' /\ [Next]_vars => [Contract!Next]_(Contract!vars)
<1> SUFFICES ASSUME Inv, Inv', [Next]_vars
             PROVE  Contract!Next \/ UNCHANGED Contract!vars
  OBVIOUS
<1>1. CASE UNCHANGED <<sent, remote>>
  BY <1>1, ProtocolDisk DEF Contract!Next
<1>2. ASSUME NEW p \in Processes, Transmit(p) PROVE Contract!Next
  BY <1>2, ProtocolTransmit DEF Contract!Next, Contract!Objects, Kinds
<1>3. ASSUME NEW k \in Kinds, Store(k) PROVE Contract!Next
  BY <1>3, ProtocolStore DEF Contract!Next, Contract!Objects, Kinds
<1>4. UNCHANGED <<sent, remote>> \/ (\E p \in Processes : Transmit(p))
        \/ (\E k \in Kinds : Store(k))
  BY DEF Next, Proceed, Sync, Return, SendRefused, Arm, AlreadySent, Answer,
     verify_remote_file, Lookup, Absent, Adopt, Complete, AlreadyComplete,
     publish_upload_receipt, Fail, PowerLoss, BeginUpload, BeginReconcile,
     BeginRefused, vars
<1> QED
  BY <1>1, <1>2, <1>3, <1>4

\* The commands implement the protocol: each object sent at most once, the
\* marker after the ciphertext is stored, the receipt after both, for good.
THEOREM KeepsProtocol == Spec => ImplementsContract
<1>1. Init => Contract!Init
  <2> SUFFICES ASSUME Init PROVE Contract!Init
    OBVIOUS
  <2>1. \A k \in Kinds : Phase(k) = "unsent"
    BY DEF Init, Phase
  <2>2. disk.receipt = NoReceipt
    BY DEF Init
  <2>3. (disk.receipt # NoReceipt) = FALSE
    BY <2>2
  <2> QED
    BY <2>1, <2>3 DEF Contract!Init, Contract!Objects, Kinds
<1>2. Inv /\ [Next]_vars => Inv'
  BY StepInvariant
<1> QED
  BY <1>1, <1>2, ProtocolStep, InvariantHolds, PTL
     DEF Spec, ImplementsContract, Contract!Spec
=============================================================================
