--------------------------- MODULE OffhostUpload ---------------------------
(***************************************************************************)
(* The upload and reconcile commands of scripts/saaoe_offhost.py for one   *)
(* sealed package: a ciphertext and a completion marker are stored in a    *)
(* bucket that keeps every version it is sent, with a journal in the       *)
(* package directory (upload-intent.json) that says how far this has got.  *)
(*                                                                         *)
(* A command may fail, be killed or lose power between any two steps; a    *)
(* request it has sent may arrive after that, and its answer may be lost.  *)
(* atomic_json makes a file visible with a rename or a link and durable    *)
(* with an fsync of the directory: the two are separate steps, and after a *)
(* power loss a directory entry is what it was at the last fsync or any    *)
(* younger visible one.                                                    *)
(*                                                                         *)
(* The package and its destination do not change, or upload_package and    *)
(* the binding check of upload_intent refuse the command; so the content   *)
(* of the ciphertext is left out, and only the completion record is data.  *)
(***************************************************************************)
EXTENDS Naturals

CONSTANTS
  Processes,   \* operating-system processes that run a command
  NoProcess,
  Ids,         \* version identifiers the bucket hands out
  NoId,
  Times        \* readings of the clock for remote_verified_at

ASSUME NoProcessIsNone == NoProcess \notin Processes
ASSUME NoIdIsNotAnId   == NoId \notin Ids
ASSUME TimesAreNatural == Times \subseteq Nat

VARIABLES
  procs,    \* procs[p]: the command process p runs
  lock,     \* holder of the flock on .upload.lock
  files,    \* journal and receipt as programs see them
  disk,     \* the same two as of the last fsync of the directory
  sent,     \* sent[k]: versions of object k requested of the bucket, ever
  remote    \* remote[k]: those the bucket has stored

vars == <<procs, lock, files, disk, sent, remote>>

Kinds == {"ciphertext", "marker"}

\* completion_record: which ciphertext version was verified, and when.
NoCompletion == [file_id |-> NoId, verified_at |-> 0]
CompletionRecord == [file_id : Ids, verified_at : Times]
Completion == CompletionRecord \cup {NoCompletion}

NoReceipt == [completion |-> NoCompletion, file_id |-> NoId]

\* upload-intent.json.  Ids are NULL until the object is acknowledged.
NoIntent ==
  [ status |-> [k \in Kinds |-> "absent"],
    file_id |-> [k \in Kinds |-> NoId], completion |-> NoCompletion ]
Prepared == [NoIntent EXCEPT !.status = [k \in Kinds |-> "ready"]]

\* What object k contains: a marker is the completion record.
Content(k, state) == IF k = "marker" THEN state.completion ELSE NoCompletion

Idle == [pc |-> "idle"]

Init ==
  /\ procs = [p \in Processes |-> Idle]
  /\ lock = NoProcess
  /\ files = [journal |-> NoIntent, receipt |-> NoReceipt]
  /\ disk = files
  /\ sent = [k \in Kinds |-> {}]
  /\ remote = [k \in Kinds |-> {}]

-----------------------------------------------------------------------------
(* Steps that several operations share *)

At(p, pc) == procs[p].pc = pc

Goto(p, pc) == procs' = [procs EXCEPT ![p].pc = pc]

\* The context manager closes the lock's descriptor, or the kernel does.
Finish(p) ==
  /\ procs' = [procs EXCEPT ![p] = Idle]
  /\ lock' = NoProcess

\* atomic_json up to os.replace or os.link; the fsync comes next.
save_upload_intent(p, state, next) ==
  /\ files' = [files EXCEPT !.journal = state]
  /\ procs' = [procs EXCEPT ![p].pc = "sync", ![p].next = next,
                            ![p].state = state]

sync_directory == disk' = files

\* The rest of atomic_json.
Sync(p) ==
  /\ At(p, "sync")
  /\ sync_directory
  /\ Goto(p, procs[p].next)
  /\ UNCHANGED <<lock, files, sent, remote>>

Return(p) ==
  /\ At(p, "done")
  /\ Finish(p)
  /\ UNCHANGED <<files, disk, sent, remote>>

-----------------------------------------------------------------------------
(* upload_lock and upload_intent *)

\* The checks of a journal that is loaded; without them a command stops.
ValidIntent(state) ==
  /\ \A k \in Kinds :
       /\ state.status[k] \in {"ready", "pending", "acknowledged"}
       /\ state.status[k] = "acknowledged" <=> state.file_id[k] # NoId
  /\ state.completion # NoCompletion =>
       /\ state.status["ciphertext"] = "acknowledged"
       /\ state.completion.file_id = state.file_id["ciphertext"]
  /\ state.status["marker"] # "ready" => state.completion # NoCompletion

Command(name, pc, next, state) ==
  [ pc |-> pc, next |-> next, command |-> name, kind |-> "ciphertext",
    state |-> state, file_id |-> NoId ]

\* Variant: no lock.
BeginUploadUnlocked(p) ==
  /\ At(p, "idle")
  /\ files.receipt = NoReceipt
  /\ sync_directory
  /\ lock' = p
  /\ \/ /\ files.journal # NoIntent
        /\ ValidIntent(files.journal)
        /\ procs' = [procs EXCEPT ![p] =
                       Command("upload", "send", "send", files.journal)]
        /\ UNCHANGED files
     \/ /\ files.journal = NoIntent
        /\ files' = [files EXCEPT !.journal = Prepared]
        /\ procs' = [procs EXCEPT ![p] =
                       Command("upload", "sync", "send", Prepared)]
  /\ UNCHANGED <<sent, remote>>

\* upload: take the lock, load the journal or create it.
BeginUpload(p) ==
  /\ At(p, "idle")
  /\ lock = NoProcess
  /\ files.receipt = NoReceipt
  /\ sync_directory
  /\ lock' = p
  /\ \/ /\ files.journal # NoIntent
        /\ ValidIntent(files.journal)
        /\ procs' = [procs EXCEPT ![p] =
                       Command("upload", "send", "send", files.journal)]
        /\ UNCHANGED files
     \/ /\ files.journal = NoIntent
        /\ files' = [files EXCEPT !.journal = Prepared]
        /\ procs' = [procs EXCEPT ![p] =
                       Command("upload", "sync", "send", Prepared)]
  /\ UNCHANGED <<sent, remote>>

\* reconcile_upload: take the lock, load the journal, which must exist.
BeginReconcile(p) ==
  /\ At(p, "idle")
  /\ lock = NoProcess
  /\ files.journal # NoIntent
  /\ ValidIntent(files.journal)
  /\ sync_directory
  /\ lock' = p
  /\ procs' = [procs EXCEPT ![p] =
                 Command("reconcile", "lookup", "lookup", files.journal)]
  /\ UNCHANGED <<files, sent, remote>>

\* A command that stops at a missing journal or an existing receipt has
\* still flushed the directory when it took the lock.
BeginRefused(p) ==
  /\ At(p, "idle")
  /\ lock = NoProcess
  /\ files.receipt # NoReceipt \/ files.journal = NoIntent
  /\ sync_directory
  /\ UNCHANGED <<procs, lock, files, sent, remote>>

-----------------------------------------------------------------------------
(* send_once, B2.upload and verify_remote_file *)

\* A pending object may be on its way: it is never sent again.
SendRefused(p) ==
  /\ At(p, "send")
  /\ procs[p].state.status[procs[p].kind] = "pending"
  /\ Finish(p)
  /\ UNCHANGED <<files, disk, sent, remote>>

\* Variant: a pending object is sent again.
ArmAgain(p) ==
  LET q == procs[p] IN
  /\ At(p, "send")
  /\ q.state.status[q.kind] \in {"ready", "pending"}
  /\ save_upload_intent(p, [q.state EXCEPT !.status[q.kind] = "pending"],
                        "transmit")
  /\ UNCHANGED <<lock, disk, sent, remote>>

Arm(p) ==
  LET q == procs[p] IN
  /\ At(p, "send")
  /\ q.state.status[q.kind] = "ready"
  /\ save_upload_intent(p, [q.state EXCEPT !.status[q.kind] = "pending"],
                        "transmit")
  /\ UNCHANGED <<lock, disk, sent, remote>>

AlreadySent(p) ==
  LET q == procs[p] IN
  /\ At(p, "send")
  /\ q.state.status[q.kind] = "acknowledged"
  /\ Goto(p, "verify")
  /\ UNCHANGED <<lock, files, disk, sent, remote>>

\* The bucket's identifier is fresh; it is fixed here, for the request it
\* will name, and known to the sender only with the answer.
Transmit(p) ==
  LET q == procs[p] IN
  /\ At(p, "transmit")
  /\ \E id \in Ids :
       /\ \A k \in Kinds : \A v \in sent[k] : v.file_id # id
       /\ sent' = [sent EXCEPT ![q.kind] = @ \cup
                     {[file_id |-> id, content |-> Content(q.kind, q.state)]}]
       /\ procs' = [procs EXCEPT ![p].pc = "await", ![p].file_id = id]
  /\ UNCHANGED <<lock, files, disk, remote>>

\* The bucket stores a version it was sent, whoever still waits for it.
Store(k) ==
  /\ \E v \in sent[k] \ remote[k] :
       remote' = [remote EXCEPT ![k] = @ \cup {v}]
  /\ UNCHANGED <<procs, lock, files, disk, sent>>

Stored(k, id, state) ==
  [file_id |-> id, content |-> Content(k, state)] \in remote[k]

\* Variant: the acknowledgement is not flushed.
AcknowledgeUnsynced(p, id, next) ==
  LET q == procs[p]
      state == [q.state EXCEPT !.status[q.kind] = "acknowledged",
                               !.file_id[q.kind] = id]
  IN /\ files' = [files EXCEPT !.journal = state]
     /\ procs' = [procs EXCEPT ![p].pc = next, ![p].state = state]

\* send_once and reconcile_file: the object has this identifier.
Acknowledge(p, id, next) ==
  LET q == procs[p] IN
  save_upload_intent(p, [q.state EXCEPT !.status[q.kind] = "acknowledged",
                                        !.file_id[q.kind] = id], next)

Answer(p) ==
  LET q == procs[p] IN
  /\ At(p, "await")
  /\ Stored(q.kind, q.file_id, q.state)
  /\ Acknowledge(p, q.file_id, "verify")
  /\ UNCHANGED <<lock, disk, sent, remote>>

\* What follows the verification of an object.
After(k) == IF k = "marker" THEN "publish" ELSE "complete"

\* Metadata and readback of the acknowledged version match.
verify_remote_file(p) ==
  LET q == procs[p] IN
  /\ At(p, "verify")
  /\ Stored(q.kind, q.state.file_id[q.kind], q.state)
  /\ Goto(p, After(q.kind))
  /\ UNCHANGED <<lock, files, disk, sent, remote>>

-----------------------------------------------------------------------------
(* reconcile_file *)

\* Variant: an object whose id is known already is not looked up again.
LookupUnknown(p) ==
  LET q == procs[p] IN
  /\ At(p, "lookup")
  /\ q.state.file_id[q.kind] = NoId
  /\ \E v \in remote[q.kind] :
       /\ remote[q.kind] = {v}
       /\ procs' = [procs EXCEPT ![p].pc = "adopt", ![p].file_id = v.file_id]
  /\ UNCHANGED <<lock, files, disk, sent, remote>>

\* Exactly one version, and not another one than the journal knows.
Lookup(p) ==
  LET q == procs[p]  known == q.state.file_id[q.kind] IN
  /\ At(p, "lookup")
  /\ \E v \in remote[q.kind] :
       /\ remote[q.kind] = {v}
       /\ known \in {NoId, v.file_id}
       /\ procs' = [procs EXCEPT ![p].pc = "adopt", ![p].file_id = v.file_id]
  /\ UNCHANGED <<lock, files, disk, sent, remote>>

\* Variant: absence starts the upload over.
AbsentRestarts(p) ==
  /\ At(p, "lookup")
  /\ remote[procs[p].kind] = {}
  /\ save_upload_intent(p, Prepared, "done")
  /\ UNCHANGED <<lock, disk, sent, remote>>

\* No version: ready_to_resume if the object was never armed, else a
\* failure, for absence does not exclude a request still in flight.  The
\* command ends either way.
Absent(p) ==
  /\ At(p, "lookup")
  /\ remote[procs[p].kind] = {}
  /\ Finish(p)
  /\ UNCHANGED <<files, disk, sent, remote>>

Adopt(p) ==
  LET q == procs[p] IN
  /\ At(p, "adopt")
  /\ Stored(q.kind, q.file_id, q.state)
  /\ Acknowledge(p, q.file_id, After(q.kind))
  /\ UNCHANGED <<lock, disk, sent, remote>>

-----------------------------------------------------------------------------
(* The completion record and the receipt *)

\* Variant: reconcile does not look for the marker.
MarkerStepSkipped(p) == IF procs[p].command = "upload" THEN "send" ELSE "publish"

\* Where a command turns to the marker.
MarkerStep(p) == IF procs[p].command = "upload" THEN "send" ELSE "lookup"

\* Variant: the record is made anew by every command.
CompleteAgain(p) ==
  LET q == procs[p] IN
  /\ At(p, "complete")
  /\ \E t \in Times :
       LET record == [file_id |-> q.state.file_id["ciphertext"], verified_at |-> t]
           state  == [q.state EXCEPT !.completion = record]
       IN /\ files' = [files EXCEPT !.journal = state]
          /\ procs' = [procs EXCEPT ![p] =
                         [q EXCEPT !.pc = "sync", !.next = MarkerStep(p),
                                   !.kind = "marker", !.state = state]]
  /\ UNCHANGED <<lock, disk, sent, remote>>

\* Variant: the record names the marker's version.
CompleteOfMarker(p) ==
  LET q == procs[p] IN
  /\ At(p, "complete")
  /\ q.state.completion = NoCompletion
  /\ \E t \in Times :
       LET record == [file_id |-> q.state.file_id["marker"], verified_at |-> t]
           state  == [q.state EXCEPT !.completion = record]
       IN save_upload_intent(p, state, MarkerStep(p))
  /\ UNCHANGED <<lock, disk, sent, remote>>

Complete(p) ==
  LET q == procs[p] IN
  /\ At(p, "complete")
  /\ q.state.completion = NoCompletion
  /\ \E t \in Times :
       LET record == [file_id |-> q.state.file_id["ciphertext"], verified_at |-> t]
           state  == [q.state EXCEPT !.completion = record]
       IN /\ files' = [files EXCEPT !.journal = state]
          /\ procs' = [procs EXCEPT ![p] =
                         [q EXCEPT !.pc = "sync", !.next = MarkerStep(p),
                                   !.kind = "marker", !.state = state]]
  /\ UNCHANGED <<lock, disk, sent, remote>>

AlreadyComplete(p) ==
  /\ At(p, "complete")
  /\ procs[p].state.completion # NoCompletion
  /\ procs' = [procs EXCEPT ![p].pc = MarkerStep(p), ![p].kind = "marker"]
  /\ UNCHANGED <<lock, files, disk, sent, remote>>

\* A receipt is published exclusively, or must equal the one that exists.
publish_upload_receipt(p) ==
  LET state   == procs[p].state
      receipt == [completion |-> state.completion,
                  file_id |-> state.file_id["marker"]]
  IN /\ At(p, "publish")
     /\ files.receipt \in {NoReceipt, receipt}
     /\ files' = [files EXCEPT !.receipt = receipt]
     /\ procs' = [procs EXCEPT ![p].pc = "sync", ![p].next = "done"]
     /\ UNCHANGED <<lock, disk, sent, remote>>

-----------------------------------------------------------------------------
(* Failures *)

\* The command raises (a network or storage error, a failed check, a time-
\* out) or its process is killed, at any step.
Fail(p) ==
  /\ ~At(p, "idle")
  /\ Finish(p)
  /\ UNCHANGED <<files, disk, sent, remote>>

\* Every process is gone; an entry not flushed may be old or new.
PowerLoss ==
  /\ procs' = [p \in Processes |-> Idle]
  /\ lock' = NoProcess
  /\ \E j \in {files.journal, disk.journal}, r \in {files.receipt, disk.receipt} :
       files' = [journal |-> j, receipt |-> r]
  /\ disk' = files'
  /\ UNCHANGED <<sent, remote>>

-----------------------------------------------------------------------------
\* The next step of a command that does not fail.
Proceed(p) ==
  \/ Sync(p) \/ Return(p)
  \/ SendRefused(p) \/ Arm(p) \/ AlreadySent(p) \/ Transmit(p) \/ Answer(p)
  \/ verify_remote_file(p)
  \/ Lookup(p) \/ Absent(p) \/ Adopt(p)
  \/ Complete(p) \/ AlreadyComplete(p) \/ publish_upload_receipt(p)

Next ==
  \/ \E p \in Processes :
       \/ BeginUpload(p) \/ BeginReconcile(p) \/ BeginRefused(p)
       \/ Proceed(p)
       \/ Fail(p)
  \/ \E k \in Kinds : Store(k)
  \/ PowerLoss

Spec == Init /\ [][Next]_vars

\* The operating system runs a command that has begun, and an operator keeps
\* trying to reconcile.  Nothing is assumed of the network.
FairSpec ==
  /\ Spec
  /\ \A p \in Processes : WF_vars(Proceed(p)) /\ SF_vars(BeginReconcile(p))

-----------------------------------------------------------------------------
(* Properties *)

Version == [file_id : Ids, content : Completion]

Intent ==
  [ status : [Kinds -> {"absent", "ready", "pending", "acknowledged"}],
    file_id : [Kinds -> Ids \cup {NoId}], completion : Completion ]

Receipt == [completion : CompletionRecord, file_id : Ids] \cup {NoReceipt}

Directory == [journal : Intent, receipt : Receipt]

Steps ==
  { "sync", "done", "send", "transmit", "await", "verify", "lookup", "adopt",
    "complete", "publish" }

Running ==
  [ pc : Steps, next : Steps \ {"sync"}, command : {"upload", "reconcile"},
    kind : Kinds, state : Intent, file_id : Ids \cup {NoId} ]

\* Commands, files and versions keep their types.
TypeOK ==
  /\ procs \in [Processes -> {Idle} \cup Running]
  /\ lock \in Processes \cup {NoProcess}
  /\ files \in Directory
  /\ disk \in Directory
  /\ sent \in [Kinds -> SUBSET Version]
  /\ remote \in [Kinds -> SUBSET Version]

\* "Multiple versions ... fail closed", so there must never be a second one:
\* however often commands run, die or lose their answer, each object is
\* requested of the bucket at most once.
SentOnce == \A k \in Kinds : \A v, w \in sent[k] : v = w

\* Every journal a power loss may leave: each entry survives on its own.
Survivors == {files.journal, disk.journal}

\* "`ready`: no transmission has been armed", even after a power loss: a
\* journal that would let an upload send, or reconcile answer
\* ready_to_resume, belongs to an object that was never sent.
ReadyMeansNeverSent ==
  \A j \in Survivors, k \in Kinds :
    j.status[k] \in {"absent", "ready"} => sent[k] = {}

\* "The marker is sent only after ciphertext verification", and it names that
\* version with the completion record that is durable: whoever finds a marker
\* in the bucket finds its ciphertext there, and can rebuild it locally.
MarkerImpliesCiphertext ==
  \A v \in sent["marker"] :
    /\ \E c \in remote["ciphertext"] : c.file_id = v.content.file_id
    /\ \A j \in Survivors : j.completion = v.content

\* A receipt, durable or only visible, names versions the bucket holds, and a
\* journal that has acknowledged them: what retrieve downloads is there.
ReceiptTruthful ==
  \A r \in {files.receipt, disk.receipt} \ {NoReceipt} :
    /\ [file_id |-> r.file_id, content |-> r.completion] \in remote["marker"]
    /\ \E c \in remote["ciphertext"] : c.file_id = r.completion.file_id
    /\ disk.journal.file_id["marker"] = r.file_id

\* Repair stays possible: what the bucket holds is what reconcile looks for,
\* with every journal that may survive, and each of these journals loads.
AlwaysReconcilable ==
  \A j \in Survivors \ {NoIntent} :
    /\ ValidIntent(j)
    /\ \A k \in Kinds : \A v \in sent[k] :
         /\ j.file_id[k] \in {NoId, v.file_id}
         /\ v.content = Content(k, j)

\* Version ids are immutable: no later command, crash or power loss takes a
\* durable id, completion record or receipt back, or replaces it.
DurableIsFinal ==
  [][/\ \A k \in Kinds :
          disk.journal.file_id[k] # NoId =>
            disk'.journal.file_id[k] = disk.journal.file_id[k]
     /\ disk.journal.completion # NoCompletion =>
          disk'.journal.completion = disk.journal.completion
     /\ disk.receipt # NoReceipt => disk'.receipt = disk.receipt]_vars

\* Once both objects are stored, and commands end only by steps of their own
\* and no longer by failures and power losses, the repeated reconcile leads to
\* a durable receipt, whatever state the crashes left behind and however often
\* uploads are tried in between.
StoredIsRecovered ==
  (<>[][(PowerLoss \/ \E p \in Processes : Fail(p))
          => \E p \in Processes : Proceed(p)]_vars)
    => ((\A k \in Kinds : remote[k] # {}) ~> (disk.receipt # NoReceipt))

\* How far an object is, without the commands that got it there.
Phase(k) ==
  IF remote[k] # {} THEN "stored" ELSE IF sent[k] # {} THEN "sent" ELSE "unsent"

\* What the bucket and the receipt go through.
Contract == INSTANCE UploadContract WITH
  First     <- "ciphertext",
  Second    <- "marker",
  phase     <- [k \in Kinds |-> Phase(k)],
  published <- disk.receipt # NoReceipt

\* Every step of the commands is one the protocol promises, or none of its.
ImplementsContract == Contract!Spec

-----------------------------------------------------------------------------
(* The inductive invariant behind the properties *)

\* What a journal says of the bucket; it holds of each survivor.
JournalConsistent(j) ==
  /\ j = NoIntent \/ ValidIntent(j)
  /\ \A k \in Kinds :
       /\ j.status[k] \in {"absent", "ready"} => sent[k] = {}
       /\ j.file_id[k] # NoId => Stored(k, j.file_id[k], j)
       /\ \A v \in sent[k] : v.content = Content(k, j)

\* j is as old as i, or older.
Precedes(j, i) ==
  /\ \A k \in Kinds : j.file_id[k] # NoId => i.file_id[k] = j.file_id[k]
  /\ j.completion # NoCompletion => i.completion = j.completion

ReceiptConsistent(r) ==
  r # NoReceipt =>
    /\ r.file_id = disk.journal.file_id["marker"]
    /\ r.completion = disk.journal.completion

\* Where a command is, or will be when the fsync in progress is done.
Position(p) == IF At(p, "sync") THEN procs[p].next ELSE procs[p].pc

\* What a running command may rely on.
CommandConsistent(p) ==
  LET q == procs[p]  status == q.state.status[q.kind] IN
  /\ lock = p
  /\ q.state = files.journal
  /\ ValidIntent(q.state)
  /\ ~At(p, "sync") \/ Position(p) = "done" => disk.journal = files.journal
  /\ q.kind = "marker" => q.state.completion # NoCompletion
  /\ Position(p) = "transmit" => status = "pending" /\ sent[q.kind] = {}
  /\ Position(p) = "await" => status = "pending"
  /\ Position(p) \in {"verify", "complete", "publish"} => status = "acknowledged"
  /\ Position(p) = "complete" => q.kind = "ciphertext"
  /\ Position(p) = "publish" => q.kind = "marker"

\* The journals and receipts that may survive are all true of the bucket, and
\* the durable ones are the visible ones or their predecessors.
StorageInvariant ==
  /\ SentOnce
  /\ \A k \in Kinds : remote[k] \subseteq sent[k]
  /\ \A j \in Survivors : JournalConsistent(j)
  /\ Precedes(disk.journal, files.journal)
  /\ \A r \in {files.receipt, disk.receipt} : ReceiptConsistent(r)
  /\ disk.receipt # NoReceipt => files.receipt = disk.receipt

\* Whichever command runs holds the lock and works on the visible journal.
UploadInvariant ==
  /\ StorageInvariant
  /\ \A p \in Processes : ~At(p, "idle") => CommandConsistent(p)
=============================================================================
