----------------------------- MODULE FolderSync -----------------------------
(***************************************************************************)
(* The mirror of the folder-sync example: a directory on disk, kept in     *)
(* step with a folder on a server by a process that may stop at any time,  *)
(* while someone edits the files and others write to the folder            *)
(* (examples/folder-sync, sync/ and server/).                              *)
(*                                                                         *)
(* One folder, one path, one mirror.  A content stands for its hash.  The  *)
(* server keeps every change of the folder in a stream; the version of a   *)
(* change is its place there, 0 standing for "null".  A wake stream tells  *)
(* mirrors that the folder's stream grew.                                  *)
(*                                                                         *)
(* The mirror's process is several fibers: a reader (start, then follow    *)
(* the wake stream), a sender (deliver) and a scan.  What they do to the   *)
(* disk and to the observations is a job: a sequence of steps under one    *)
(* gate, between which the user may edit and the process may stop.         *)
(***************************************************************************)
EXTENDS Naturals, Sequences, FiniteSets

CONSTANTS
  Contents,      \* what a file may contain
  Refused,       \* contents the server answers with a 4xx (too large, for one)
  None,          \* no file
  Memory,        \* RETRY_MEMORY: how many changes the server knows the txids of
  RefreshFails,  \* whether the read of the head after a settlement may fail, which leaves
                 \* the file at an older content until the next change (push.ts:63)
  Budgets        \* bounds: how many edits (and refused ones), writes and faults there are

ASSUME MemoryAssumption == Memory \in Nat

VARIABLES
  history,     \* server: the changes of the folder, [txid, parent, hash]
  wake,        \* server: the tail in the last row of the wake stream
  air,         \* requests the mirror gave up that may still arrive
  disk,        \* the file
  known,       \* SQLite: the row of the path in "known"
  outbox,      \* SQLite: queued operations, [txid, base, hash]
  aside,       \* contents kept beside the mirror: rejected writes, read-only edits
  cursor,      \* SQLite: how far the folder's stream is installed; None before
  wakeCursor,  \* SQLite: the last wake row that is handled
  writable,    \* whether this mirror may write to the folder
  reader,      \* the fiber that starts the folder, then follows the wake stream
  sender,      \* the fiber that delivers the outbox
  job,         \* who holds the gate, and what it still has to do
  shown,       \* history variable: the versions the disk was ever based on
  unqueued,    \* history variable: contents that "keep" took for queued and were not
  txids,       \* how many operations were queued
  left         \* what is left of the budget

server == <<history, wake, air>>
stored == <<known, outbox, aside, cursor, wakeCursor>>
fibers == <<reader, sender, job>>
counters == <<txids, left>>
seen == <<shown, unqueued>>
vars == <<server, disk, stored, writable, fibers, seen, counters>>
-----------------------------------------------------------------------------
Files == Contents \union {None}

NoRow == [saved |-> FALSE, version |-> 0, localHash |-> None, localVersion |-> 0]
NoJob == [by |-> "nobody", todo |-> << >>, value |-> 0, local |-> None]
Down == [at |-> "down", to |-> 0, next |-> 0]
Following == [Down EXCEPT !.at = "follow"]
Idle == [at |-> "idle", version |-> 0]

Tip == Len(history)
Content(v) == IF v = 0 THEN None ELSE history[v].hash

Pending == outbox # << >>
\* isEcho: what is on disk is no edit of the user's.
Echo(hash, pending) ==
  hash = known.localHash \/ (~pending /\ hash = Content(known.version))

\* The loops of runSync: watch, scan and deliver run from the end of the start.
Running == reader.at = "follow" \/ reader.next > 0
Free == job = NoJob

Spend(what) == left[what] > 0 /\ left' = [left EXCEPT ![what] = @ - 1]

Init ==
  /\ history = << >> /\ disk = None /\ writable \in BOOLEAN
  /\ wake = 0 /\ air = {}
  /\ known = NoRow /\ outbox = << >> /\ aside = {} /\ cursor = None /\ wakeCursor = 0
  /\ reader = Down /\ sender = Idle /\ job = NoJob
  /\ shown = {0} /\ unqueued = {} /\ txids = 0 /\ left \in Budgets
-----------------------------------------------------------------------------
(***************************************************************************)
(* The server (server/folder-store.ts).  A write is decided on the folder  *)
(* view and appended at the offset that was read, so it is one step.       *)
(***************************************************************************)
\* The change of a txid in the retry memory. Only the mirror repeats a write: a txid of 0
\* stands for one that is used once.
Recalled(txid) == {v \in 1..Tip : txid > 0 /\ v + Memory > Tip /\ history[v].txid = txid}

\* commit and remove: a known txid gets its first answer; a write of what is there
\* changes nothing; any other becomes the head.
Lands(op) == Recalled(op.txid) = {} /\ op.hash # Content(Tip)

Answer(op) ==
  IF Recalled(op.txid) # {} THEN CHOOSE v \in Recalled(op.txid) : TRUE
  ELSE IF op.hash # Content(Tip) THEN Tip + 1
  ELSE IF op.hash = None THEN 0 ELSE Tip

Handle(op) ==
  history' = IF Lands(op) THEN Append(history, [txid |-> op.txid, parent |-> op.base, hash |-> op.hash])
             ELSE history

\* Another client, which read the head before it writes.
Write(c) ==
  /\ c \notin Refused /\ c # Content(Tip)
  /\ Spend("writes")
  /\ Handle([txid |-> 0, base |-> Tip, hash |-> c])
  /\ UNCHANGED <<wake, air, disk, stored, writable, fibers, seen, txids>>

\* The attached files-wake projection: a row with the tail, some time after the commit.
Publish ==
  /\ wake < Tip
  /\ wake' = Tip
  /\ UNCHANGED <<history, air, disk, stored, writable, fibers, seen, counters>>

\* A request whose sender gave it up is handled late.
Arrive(op) ==
  /\ op \in air /\ air' = air \ {op}
  /\ Handle(op)
  /\ UNCHANGED <<wake, disk, stored, writable, fibers, seen, counters>>
-----------------------------------------------------------------------------
(***************************************************************************)
(* The user, at any time, also while the mirror's process is down.         *)
(***************************************************************************)
Edit(c) ==
  /\ c # disk /\ disk' = c
  /\ Spend(IF c \in Refused THEN "refused" ELSE "edits")
  /\ UNCHANGED <<server, stored, writable, fibers, seen, txids>>
-----------------------------------------------------------------------------
(***************************************************************************)
(* The reader: runSync up to "ready", pull.ts and sync/wake.ts.            *)
(***************************************************************************)
\* runSync: a folder without a cursor is initialised, any other is caught up once.
Start ==
  /\ reader = Down
  /\ reader' = [Down EXCEPT !.at = IF cursor = None THEN "initialise" ELSE "read"]
  /\ UNCHANGED <<server, disk, stored, writable, sender, job, seen, counters>>

\* initialiseFolder: read to the tail, then reconcile under the gate.  A path that
\* neither the server nor the mirror knows is a create.
ReadAll ==
  /\ reader.at = "initialise"
  /\ reader' = [reader EXCEPT !.at = "apply", !.to = Tip]
  /\ UNCHANGED <<server, disk, stored, writable, sender, job, seen, counters>>

\* pullFolder: the pages after the cursor, to the tail.
ReadPage ==
  /\ reader.at = "read"
  /\ reader' = [reader EXCEPT !.at = "apply", !.to = Tip]
  /\ UNCHANGED <<server, disk, stored, writable, sender, job, seen, counters>>

\* applyPage, or the reconciliation of initialiseFolder: the last change of the path,
\* then the cursor, under the gate.
Apply ==
  /\ reader.at = "apply" /\ Free
  /\ job' = [NoJob EXCEPT !.by = "reader", !.value = reader.to, !.todo =
               IF cursor = None
               THEN <<IF reader.to = 0 /\ ~known.saved THEN "observe" ELSE "install", "cursor">>
               ELSE IF reader.to > cursor THEN <<"observe", "install", "cursor">>
               ELSE <<"cursor">>]
  /\ UNCHANGED <<server, disk, stored, writable, reader, sender, seen, counters>>

\* runSync: an interrupted install or refresh left the disk on an older observation.
CheckHeads ==
  /\ reader.at = "heads" /\ Free
  /\ IF known.localVersion # known.version /\ ~Pending
     THEN /\ job' = [NoJob EXCEPT !.by = "reader", !.todo = <<"observe", "fetch", "install">>]
          /\ UNCHANGED reader
     ELSE /\ reader' = Following
          /\ UNCHANGED job
  /\ UNCHANGED <<server, disk, stored, writable, sender, seen, counters>>

\* A slip: the wake cursor is saved before the folder is read.
FollowUnread ==
  /\ reader.at = "follow" /\ wake > wakeCursor
  /\ wakeCursor' = wake
  /\ reader' = [reader EXCEPT !.next = wake,
                              !.at = IF wake > cursor THEN "read" ELSE "acknowledge"]
  /\ UNCHANGED <<server, disk, known, outbox, aside, cursor, writable, sender, job, seen, counters>>

\* follow of sync/wake.ts and wakeActions: the rows of a folder collapse to the last; one
\* past the saved cursor catches the folder up.
FollowWake ==
  /\ reader.at = "follow" /\ wake > wakeCursor
  /\ reader' = [reader EXCEPT !.next = wake,
                              !.at = IF wake > cursor THEN "read" ELSE "acknowledge"]
  /\ UNCHANGED <<server, disk, stored, writable, sender, job, seen, counters>>

Acknowledge ==
  /\ reader.at = "acknowledge"
  /\ wakeCursor' = reader.next
  /\ reader' = Following
  /\ UNCHANGED <<server, disk, known, outbox, aside, cursor, writable, sender, job, seen, counters>>

\* What the reader does when its job is done.
NextAt ==
  IF reader.at = "heads" THEN Following
  ELSE [reader EXCEPT !.to = 0, !.at = IF cursor = None THEN "read"
                                       ELSE IF reader.next = 0 THEN "heads" ELSE "acknowledge"]
-----------------------------------------------------------------------------
(***************************************************************************)
(* The sender (push.ts): the oldest operation, again until it is settled.  *)
(***************************************************************************)
Send ==
  /\ Running /\ sender = Idle /\ job.by # "sender" /\ Pending
  /\ \/ /\ Head(outbox).hash = None /\ Head(outbox).base = 0 /\ Free
        /\ job' = [NoJob EXCEPT !.by = "sender", !.todo = <<"discard", "fetch", "install">>]
        /\ UNCHANGED sender
     \/ /\ Head(outbox).hash # None \/ Head(outbox).base > 0
        /\ sender' = [Idle EXCEPT !.at = "sent"]
        /\ UNCHANGED job
  /\ UNCHANGED <<server, disk, stored, writable, reader, seen, counters>>

\* The server handles the request.  A refused write leaves the outbox and is kept.
Receive ==
  /\ sender.at = "sent"
  /\ LET op == Head(outbox) IN
       IF op.hash \in Refused
       THEN /\ outbox' = Tail(outbox) /\ aside' = aside \union {op.hash}
            /\ sender' = Idle
            /\ UNCHANGED history
       ELSE /\ Handle(op)
            /\ sender' = [at |-> "answered", version |-> Answer(op)]
            /\ UNCHANGED <<outbox, aside>>
  /\ UNCHANGED <<wake, air, disk, known, cursor, wakeCursor, writable, reader, job, seen, counters>>

\* deliver, with the answer in hand.
Conclude ==
  /\ sender.at = "answered" /\ Free
  /\ job' = [NoJob EXCEPT !.by = "sender", !.todo = <<"observe", "settle", "fetch", "install">>]
  /\ UNCHANGED <<server, disk, stored, writable, reader, sender, seen, counters>>

\* The request or its answer is lost: retryRemote runs deliver again.
LoseAnswer ==
  /\ sender.at = "sent" /\ Head(outbox).hash \notin Refused /\ Spend("faults")
  /\ \/ Handle(Head(outbox)) /\ UNCHANGED air
     \/ air' = air \union {Head(outbox)} /\ UNCHANGED history
  /\ sender' = Idle
  /\ UNCHANGED <<wake, disk, stored, writable, reader, job, seen, txids>>
-----------------------------------------------------------------------------
(***************************************************************************)
(* The steps of a job (install.ts, state.ts).                              *)
(***************************************************************************)
Does(step) == job.todo # << >> /\ Head(job.todo) = step

\* Go on with job j: the rest of its steps, or whatever its fiber does next.
Proceed(j) ==
  IF j.todo # << >> THEN job' = j /\ UNCHANGED <<reader, sender>>
  ELSE /\ job' = NoJob
       /\ reader' = IF j.by = "reader" THEN NextAt ELSE reader
       /\ sender' = IF j.by = "sender" THEN Idle ELSE sender

Rest == [job EXCEPT !.todo = Tail(@)]

\* Queue what is on disk as a write based on the version the disk copy came from.
Enqueue ==
  /\ txids' = txids + 1
  /\ outbox' = Append(outbox, [txid |-> txids + 1, base |-> known.localVersion, hash |-> disk])
  /\ known' = [known EXCEPT !.saved = TRUE, !.localHash = disk]

Observes ==
  IF writable /\ ~Echo(disk, Pending) THEN Enqueue ELSE UNCHANGED <<txids, outbox, known>>

Observe ==
  /\ Does("observe") /\ Observes /\ Proceed(Rest)
  /\ UNCHANGED <<server, disk, aside, cursor, wakeCursor, writable, seen, left>>

\* Later operations, and the disk, are now based on what the server answered.
Rebased(op, version) ==
  /\ outbox' = [n \in 1..Len(outbox) - 1 |->
                  [outbox[n + 1] EXCEPT !.base = IF @ = op.base THEN version ELSE @]]
  /\ known' = [known EXCEPT !.localVersion = IF @ = op.base THEN version ELSE @]

Settle ==
  /\ Does("settle") /\ Proceed(Rest)
  /\ Rebased(Head(outbox), sender.version)
  /\ shown' = shown \union {sender.version}
  /\ UNCHANGED <<unqueued, server, disk, aside, cursor, wakeCursor, writable, counters>>

\* A delete of a file the server never showed: nothing to send.
Discard ==
  /\ Does("discard") /\ Proceed(Rest)
  /\ outbox' = Tail(outbox)
  /\ UNCHANGED <<server, disk, known, aside, cursor, wakeCursor, writable, seen, counters>>

\* refresh: the present head of the path, with its content.
Fetch ==
  /\ Does("fetch") /\ Proceed([Rest EXCEPT !.value = Tip])
  /\ UNCHANGED <<server, disk, stored, writable, seen, counters>>

(***************************************************************************)
(* install.  With an operation queued only the version is noted.  A local  *)
(* edit that is not queued yet is queued, or kept beside a read-only       *)
(* mirror, before anything replaces it.                                    *)
(***************************************************************************)
\* A slip: a first sync takes the server's copy.
EditedKnown == disk # None /\ disk # Content(job.value) /\ known.saved /\ ~Echo(disk, FALSE)

Edited == disk # None /\ disk # Content(job.value) /\ ~Echo(disk, FALSE)

\* A slip: the version that was only heard of becomes the base of the next edit.
NoteAsBase ==
  /\ Pending
  /\ known' = IF known.saved THEN [known EXCEPT !.version = job.value, !.localVersion = job.value]
              ELSE known
  /\ Proceed(Rest)
  /\ UNCHANGED <<outbox, aside, txids>>

Note ==
  /\ Pending
  /\ known' = IF known.saved THEN [known EXCEPT !.version = job.value] ELSE known
  /\ Proceed(Rest)
  /\ UNCHANGED <<outbox, aside, txids>>

\* keepFirstSyncEdit: the local file becomes the head, with parent null.
KeepFirst ==
  /\ ~Pending /\ Edited /\ writable /\ ~known.saved
  /\ txids' = txids + 1
  /\ outbox' = <<[txid |-> txids + 1, base |-> 0, hash |-> disk]>>
  /\ known' = [saved |-> TRUE, version |-> job.value, localHash |-> disk, localVersion |-> 0]
  /\ Proceed(Rest)
  /\ UNCHANGED aside

QueueFirst ==
  /\ ~Pending /\ Edited /\ writable /\ known.saved
  /\ Proceed([job EXCEPT !.todo = <<"observe", "keep">> \o Tail(@), !.local = disk])
  /\ UNCHANGED <<known, outbox, aside, txids>>

Take ==
  /\ ~Pending /\ (Edited => ~writable)
  /\ aside' = IF Edited THEN aside \union {disk} ELSE aside
  /\ known' = [known EXCEPT !.saved = TRUE, !.version = job.value]
  /\ Proceed([job EXCEPT !.todo = <<"replace", "record">> \o Tail(@), !.local = disk])
  /\ UNCHANGED <<outbox, txids>>

Install ==
  /\ Does("install")
  /\ Note \/ KeepFirst \/ QueueFirst \/ Take
  /\ UNCHANGED <<server, disk, cursor, wakeCursor, writable, seen, left>>

\* install saves the content it captured as the local copy. Between its read and the one of
\* "observe" the user may have put an echo back, and nothing was queued.
Keep ==
  /\ Does("keep") /\ Proceed(Rest)
  /\ known' = [known EXCEPT !.version = job.value, !.localHash = job.local]
  /\ unqueued' = unqueued \union ({job.local} \ {known.localHash})
  /\ UNCHANGED <<server, disk, outbox, aside, cursor, wakeCursor, writable, shown, counters>>

\* The rename that puts the content, or nothing, in the place of the file.
Replace ==
  /\ Does("replace") /\ Proceed(Rest)
  /\ disk' = Content(job.value)
  /\ shown' = shown \union {job.value}
  /\ UNCHANGED <<unqueued, server, stored, writable, counters>>

Record ==
  /\ Does("record") /\ Proceed(Rest)
  /\ known' = [known EXCEPT !.version = job.value, !.localHash = Content(job.value),
                            !.localVersion = job.value]
  /\ UNCHANGED <<server, disk, outbox, aside, cursor, wakeCursor, writable, seen, counters>>

SaveCursor ==
  /\ Does("cursor") /\ Proceed([Rest EXCEPT !.value = 0])
  /\ cursor' = reader.to
  /\ UNCHANGED <<server, disk, known, outbox, aside, wakeCursor, writable, seen, counters>>
-----------------------------------------------------------------------------
(***************************************************************************)
(* The scan (scan.ts): a writable mirror queues what changed, a read-only  *)
(* one puts the server's copy back.                                        *)
(***************************************************************************)
Scan ==
  /\ Running /\ Free /\ ~Echo(disk, writable /\ Pending)
  /\ IF writable THEN Enqueue /\ UNCHANGED job
     ELSE /\ job' = [NoJob EXCEPT !.by = "scan", !.todo = <<"fetch", "install">>]
          /\ UNCHANGED <<txids, outbox, known>>
  /\ UNCHANGED <<server, disk, aside, cursor, wakeCursor, writable, reader, sender, seen, left>>

(***************************************************************************)
(* Faults.  A read of the server fails: the start ends the process, the    *)
(* wake follower, the scan and deliver begin again.                        *)
(***************************************************************************)
AfterFailure == IF reader.next = 0 THEN Down ELSE Following

ReadFails ==
  /\ Spend("faults")
  /\ \/ /\ reader.at = "read"
        /\ reader' = AfterFailure
        /\ UNCHANGED <<sender, job>>
     \/ /\ \/ Does("fetch") /\ (job.by = "sender" => RefreshFails)
           \/ Does("install") /\ job.by = "reader" /\ reader.at = "apply"
        /\ job' = NoJob
        /\ reader' = IF job.by = "reader" THEN AfterFailure ELSE reader
        /\ sender' = IF job.by = "sender" THEN Idle ELSE sender
  /\ UNCHANGED <<server, disk, stored, writable, seen, txids>>

\* The process stops, between any two steps; a request under way may still arrive.
Crash ==
  /\ reader # Down /\ Spend("faults")
  /\ reader' = Down /\ sender' = Idle /\ job' = NoJob
  /\ \/ UNCHANGED air
     \/ sender.at = "sent" /\ Head(outbox).hash \notin Refused /\ air' = air \union {Head(outbox)}
  /\ UNCHANGED <<history, wake, disk, stored, writable, seen, txids>>
-----------------------------------------------------------------------------
Reads == ReadAll \/ ReadPage \/ Apply \/ CheckHeads \/ FollowWake \/ Acknowledge
Delivers == Send \/ Receive \/ Conclude
Works ==
  \/ Observe \/ Settle \/ Discard \/ Fetch \/ Install \/ Keep \/ Replace \/ Record \/ SaveCursor

Next ==
  \/ \E c \in Files : Write(c) \/ Edit(c)
  \/ Publish \/ \E op \in air : Arrive(op)
  \/ Start \/ Reads \/ Delivers \/ Works \/ Scan
  \/ LoseAnswer \/ ReadFails \/ Crash

Spec == Init /\ [][Next]_vars

\* The attached projection publishes; whoever runs the mirror starts it again; its
\* fibers run; the gate is first come, first served.
Fairness ==
  /\ WF_vars(Publish) /\ WF_vars(Start)
  /\ WF_vars(Reads) /\ WF_vars(Delivers) /\ WF_vars(Works) /\ WF_vars(Scan)

FairSpec == Spec /\ Fairness
-----------------------------------------------------------------------------
(***************************************************************************)
(* A change the mirror sent lands once, however often it was sent, while   *)
(* the server remembers it, and names as its parent a version that the     *)
(* file on disk came from: "localVersion", and not the version that was    *)
(* merely heard of (state.ts:12, README "A local edit names the version    *)
(* that its disk copy came from as its parent").                           *)
(***************************************************************************)
HistoryIsTrue ==
  /\ \A v, w \in 1..Tip :
       v < w /\ w < v + Memory /\ history[v].txid > 0 => history[v].txid # history[w].txid
  /\ \A v \in 1..Tip : history[v].txid > 0 => history[v].parent \in shown
  /\ \A n \in 1..Len(outbox) : outbox[n].base \in shown

(***************************************************************************)
(* No edit is overwritten unseen: a content that the mirror replaces on    *)
(* disk is one that the folder's history holds, that waits in the outbox   *)
(* or that is kept aside.  Two cases are left out: it was saved between    *)
(* the capture and the rename of one install (README, "an external editor  *)
(* can save during the final local read-to-rename window"), or it is one   *)
(* that install.ts:146 recorded as queued when it was not ("unqueued").    *)
(***************************************************************************)
Safe ==
  {None} \union aside \union {history[v].hash : v \in 1..Tip}
         \union {outbox[n].hash : n \in 1..Len(outbox)}

NothingLost ==
  [][Does("replace") /\ disk = job.local /\ disk' # disk => disk \in Safe \union unqueued]_vars

(***************************************************************************)
(* When users and other writers pause, the outbox drains and the file      *)
(* becomes the folder's head, whatever stopped, failed or was lost         *)
(* meanwhile.  Only a write the server refused stays where it is, or one   *)
(* that was recorded as queued when it was not.  Checked where             *)
(* RefreshFails is FALSE: that every read of the head after a settlement   *)
(* succeeds (push.ts:63).                                                  *)
(***************************************************************************)
Converges ==
  <>[](/\ outbox = << >>
       /\ disk = Content(Tip) \/ disk \in (aside \intersect Refused) \union unqueued)
=============================================================================
