------------------------- MODULE FolderSyncProofs -------------------------
(***************************************************************************)
(* Proofs about FolderSync, for any contents, any memory of the server and *)
(* any budgets: what the folder's history says is true, and no edit is     *)
(* overwritten unseen.                                                     *)
(***************************************************************************)
EXTENDS FolderSync, TLAPS

Places == {"down", "initialise", "read", "apply", "heads", "follow", "acknowledge"}
Sendings == {"idle", "sent", "answered"}
Owners == {"nobody", "reader", "sender", "scan"}
Steps ==
  {"observe", "install", "cursor", "fetch", "settle", "discard", "replace", "record", "keep"}

Op == [txid : Nat, base : Nat, hash : Files]

Types ==
  /\ history \in Seq([txid : Nat, parent : Nat, hash : Files])
  /\ air \subseteq Op /\ outbox \in Seq(Op)
  /\ disk \in Files /\ wake \in Nat /\ txids \in Nat
  /\ known \in [saved : BOOLEAN, version : Nat, localHash : Files, localVersion : Nat]
  /\ reader \in [at : Places, to : Nat, next : Nat]
  /\ sender \in [at : Sendings, version : Nat]
  /\ job \in [by : Owners, todo : Seq(Steps), value : Nat, local : Files]

\* What was read of the server is there: its history only grows.
InTime == known.version <= Tip /\ job.value <= Tip /\ reader.to <= Tip

\* The operations that may reach the server have a txid of their own, but for copies of
\* them; a change with such a txid has the content of the operation.
Sent == air \union {outbox[n] : n \in 1..Len(outbox)}

OwnTxids == \A op \in Sent : op.txid \in 1..txids /\ op.base \in shown
CopiesAgree == \A op \in Sent, other \in Sent : op.txid = other.txid => op.hash = other.hash
GivenTxids == \A v \in 1..Tip : history[v].txid \in 0..txids
ChangesAgree ==
  \A op \in Sent, v \in 1..Tip : op.txid = history[v].txid => op.hash = history[v].hash

OpsOK == OwnTxids /\ CopiesAgree /\ GivenTxids /\ ChangesAgree

\* The retry memory keeps the repetition of a change out.
HistoryOK ==
  /\ \A v, w \in 1..Tip :
       v < w /\ w < v + Memory /\ history[v].txid > 0 => history[v].txid # history[w].txid
  /\ \A v \in 1..Tip : history[v].txid > 0 => history[v].parent \in shown

\* The steps of a job: what they may rely on when their turn comes.
Todo == 1..Len(job.todo)

JobOK ==
  /\ \A i \in Todo : job.todo[i] \in {"replace", "discard"} => i = 1
  /\ \A i \in Todo : job.todo[i] = "record" =>
       (i = 1 /\ job.value \in shown) \/ (i = 2 /\ job.todo[1] = "replace")
  /\ \A i, j \in Todo :
       job.todo[i] \in {"settle", "discard"} /\ job.todo[j] \in {"settle", "discard"} => i = j

\* The head of the outbox while it is being delivered.
Past == {None} \union {history[v].hash : v \in 1..Tip}

HeadLanded == outbox # << >> /\ outbox[1].hash \in Past

DeliveryOK ==
  /\ \A i \in Todo : job.todo[i] = "settle" => job.by = "sender" /\ sender.at = "answered" /\ HeadLanded
  /\ \A i \in Todo : job.todo[i] = "discard" =>
       job.by = "sender" /\ sender.at = "idle" /\ outbox # << >> /\ outbox[1].hash = None
  /\ sender.at = "answered" /\ job.by # "sender" => HeadLanded
  /\ sender.at = "sent" => outbox # << >>

\* The copy on disk that counts as no edit, and the one that is about to be replaced.
Held == Safe \union unqueued

CopyOK ==
  /\ known.localVersion \in shown /\ 0 \in shown
  /\ known.localHash \in Held
  /\ \A i \in Todo : job.todo[i] = "replace" => job.local \in Held

IInv ==
  /\ Types /\ InTime /\ OpsOK /\ HistoryOK /\ JobOK /\ DeliveryOK /\ CopyOK
-----------------------------------------------------------------------------
HistoryGrows ==
  /\ Len(history) <= Len(history')
  /\ \A v \in 1..Len(history) : history'[v] = history[v]

LEMMA TipIsNat ==
  ASSUME Types
  PROVE  Tip \in Nat
BY DEF Types, Tip

LEMMA ChangesAreTyped ==
  ASSUME Types
  PROVE  \A v \in 1..Tip : history[v].hash \in Files
<1>1. PICK S : S = [txid : Nat, parent : Nat, hash : Files]
  OBVIOUS
<1>2. history \in Seq(S)
  BY <1>1 DEF Types
<1>3. \A v \in 1..Tip : history[v] \in S
  BY <1>2 DEF Tip
<1> QED
  BY <1>1, <1>3

LEMMA SentAreOps ==
  ASSUME Types
  PROVE  Sent \subseteq Op
<1>1. \A n \in 1..Len(outbox) : outbox[n] \in Op
  BY DEF Types
<1> QED
  BY <1>1 DEF Sent, Types

\* What the server makes of an operation.
LEMMA HandleOK ==
  ASSUME Types, OpsOK, HistoryOK, NEW op \in Op, Handle(op),
         op.txid = 0 \/ op \in Sent,
         txids' = txids, shown' = shown, outbox' = outbox, air' \subseteq air
  PROVE  /\ history' \in Seq([txid : Nat, parent : Nat, hash : Files])
         /\ HistoryGrows /\ OpsOK' /\ HistoryOK'
         /\ op.hash \in Past'
<1>0. op.txid = 0 \/ op.txid \in 1..txids
  BY DEF OpsOK, OwnTxids
<1> DEFINE r == [txid |-> op.txid, parent |-> op.base, hash |-> op.hash]
<1>1. CASE ~Lands(op)
  <2>1. history' = history
    BY <1>1 DEF Handle
  <2>2. Past' = Past
    BY <2>1 DEF Past, Tip
  <2>3. op.hash \in Past
    <3>1. CASE Recalled(op.txid) # {}
      <4>1. PICK v \in 1..Tip : op.txid > 0 /\ history[v].txid = op.txid
        BY <3>1 DEF Recalled
      <4>2. history[v].hash = op.hash
        BY <4>1, <1>0 DEF OpsOK, ChangesAgree
      <4> QED
        BY <4>1, <4>2 DEF Past
    <3>2. CASE op.hash = Content(Tip)
      <4>1. Tip \in Nat
        BY TipIsNat
      <4> QED
        BY <3>2, <4>1 DEF Content, Past
    <3> QED
      BY <1>1, <3>1, <3>2 DEF Lands
  <2>4. Sent' \subseteq Sent
    BY DEF Sent
  <2> QED
    <3>1. HistoryGrows /\ HistoryOK'
      <4>1. Tip \in Nat
        BY TipIsNat
      <4> QED
        BY <2>1, <4>1 DEF HistoryOK, HistoryGrows, Tip
    <3>2. OpsOK'
      BY <2>1, <2>4 DEF OpsOK, OwnTxids, CopiesAgree, GivenTxids, ChangesAgree, Tip
    <3> QED
      BY <2>1, <2>2, <2>3, <3>1, <3>2 DEF Types
<1>2. CASE Lands(op)
  <2>1. history' = Append(history, r)
    BY <1>2 DEF Handle
  <2>2. r \in [txid : Nat, parent : Nat, hash : Files]
    BY DEF Op
  <2>3. /\ history' \in Seq([txid : Nat, parent : Nat, hash : Files])
        /\ Tip \in Nat /\ Tip' = Tip + 1
        /\ \A v \in 1..Tip : history'[v] = history[v]
        /\ history'[Tip + 1] = r
    BY <2>1, <2>2 DEF Types, Tip
  <2>4. HistoryGrows
    BY <2>3 DEF HistoryGrows, Tip
  <2>5. Sent' \subseteq Sent
    BY DEF Sent
  <2>6. r.txid = op.txid /\ r.hash = op.hash /\ r.parent = op.base
    OBVIOUS
  <2>7. \A v \in 1..Tip' : v \in 1..Tip \/ v = Tip + 1
    BY <2>3
  <2>8. op.txid \in Nat /\ txids \in Nat
    BY DEF Op, Types
  <2> HIDE DEF r
  <2>9. OpsOK'
    <3>1. \A o \in Sent' : o.txid \in 1..txids' /\ o.base \in shown'
      BY <2>5 DEF OpsOK, OwnTxids
    <3>2. \A o \in Sent', other \in Sent' : o.txid = other.txid => o.hash = other.hash
      BY <2>5 DEF OpsOK, CopiesAgree
    <3>3. \A v \in 1..Tip' : history'[v].txid \in 0..txids'
      <4> SUFFICES ASSUME NEW v \in 1..Tip'
                   PROVE  history'[v].txid \in 0..txids'
        OBVIOUS
      <4>1. CASE v \in 1..Tip
        BY <4>1, <2>3 DEF OpsOK, GivenTxids
      <4>2. CASE v = Tip + 1
        <5>1. history'[v].txid = op.txid
          BY <4>2, <2>3, <2>6
        <5>2. op.txid \in 0..txids
          BY <2>8, <1>0
        <5> QED
          BY <5>1, <5>2
      <4> QED
        BY <4>1, <4>2, <2>7
    <3>4. \A o \in Sent', v \in 1..Tip' : o.txid = history'[v].txid => o.hash = history'[v].hash
      <4> SUFFICES ASSUME NEW o \in Sent', NEW v \in 1..Tip', o.txid = history'[v].txid
                   PROVE  o.hash = history'[v].hash
        OBVIOUS
      <4>0. o \in Sent /\ o.txid \in 1..txids
        BY <2>5 DEF OpsOK, OwnTxids
      <4>1. CASE v \in 1..Tip
        <5>1. o.txid = history[v].txid /\ history'[v] = history[v]
          BY <4>1, <2>3
        <5>2. o.hash = history[v].hash
          BY <5>1, <4>0, <4>1 DEF OpsOK, ChangesAgree
        <5> QED
          BY <5>1, <5>2
      <4>2. CASE v = Tip + 1
        <5>1. op \in Sent
          BY <4>0, <4>2, <2>3, <2>6, <2>8
        <5> QED
          BY <5>1, <4>0, <4>2, <2>3, <2>6 DEF OpsOK, CopiesAgree
      <4> QED
        BY <4>1, <4>2, <2>7
    <3> QED
      BY <3>1, <3>2, <3>3, <3>4 DEF OpsOK, OwnTxids, CopiesAgree, GivenTxids, ChangesAgree
  <2>10. HistoryOK'
    <3>1. ASSUME NEW v \in 1..Tip', NEW w \in 1..Tip', v < w, w < v + Memory, history'[v].txid > 0
          PROVE  history'[v].txid # history'[w].txid
      <4>1. v \in 1..Tip
        BY <3>1, <2>3
      <4>2. CASE w \in 1..Tip
        BY <3>1, <4>1, <4>2, <2>3 DEF HistoryOK
      <4>3. CASE w = Tip + 1
        <5>1. v + Memory > Tip
          BY <3>1, <4>1, <4>3, <2>3, MemoryAssumption
        <5>2. history'[v] = history[v] /\ history'[w].txid = op.txid
          BY <4>1, <4>3, <2>3, <2>6
        <5>3. Recalled(op.txid) = {}
          BY <1>2 DEF Lands
        <5> QED
          BY <5>1, <5>2, <5>3, <4>1, <3>1, <2>8 DEF Recalled
      <4> QED
        BY <4>2, <4>3, <2>7
    <3>2. ASSUME NEW v \in 1..Tip', history'[v].txid > 0
          PROVE  history'[v].parent \in shown'
      <4>1. CASE v \in 1..Tip
        BY <3>2, <4>1, <2>3 DEF HistoryOK
      <4>2. CASE v = Tip + 1
        <5>1. op \in Sent
          BY <3>2, <4>2, <2>3, <2>6, <2>8
        <5> QED
          BY <5>1, <4>2, <2>3, <2>6 DEF OpsOK, OwnTxids
      <4> QED
        BY <4>1, <4>2, <2>7
    <3> QED
      BY <3>1, <3>2 DEF HistoryOK
  <2>11. op.hash \in Past'
    BY <2>3, <2>6 DEF Past
  <2> QED
    BY <2>3, <2>4, <2>9, <2>10, <2>11
<1> QED
  BY <1>1, <1>2

\* The parts that stand while nothing they speak of changes.
LEMMA PastStays ==
  ASSUME Types, HistoryGrows
  PROVE  /\ Tip <= Tip' /\ Tip \in Nat
         /\ Past \subseteq Past'
         /\ \A v \in 0..Tip : (Content(v))' = Content(v) /\ Content(v) \in Past
<1>1. Tip \in Nat /\ Tip <= Tip'
  BY TipIsNat DEF HistoryGrows, Tip
<1>2. \A v \in 1..Tip : v \in 1..Tip' /\ history'[v] = history[v]
  BY <1>1 DEF HistoryGrows, Tip
<1>3. Past \subseteq Past'
  BY <1>2 DEF Past
<1>4. ASSUME NEW v \in 0..Tip
      PROVE  (Content(v))' = Content(v) /\ Content(v) \in Past
  <2>1. CASE v = 0
    BY <2>1 DEF Content, Past
  <2>2. CASE v \in 1..Tip
    BY <2>2, <1>2 DEF Content, Past
  <2> QED
    BY <2>1, <2>2, <1>1
<1> QED
  BY <1>1, <1>3, <1>4

LEMMA SafeStays ==
  ASSUME Types, HistoryGrows, aside \subseteq aside',
         \A n \in 1..Len(outbox) : outbox[n].hash \in Safe',
         unqueued \subseteq unqueued'
  PROVE  Held \subseteq Held' /\ Past \subseteq Safe
<1>1. \A v \in 1..Tip : v \in 1..Tip' /\ history'[v] = history[v]
  BY TipIsNat DEF HistoryGrows, Tip
<1>2. {history[v].hash : v \in 1..Tip} \subseteq {history'[v].hash : v \in 1..Tip'}
  BY <1>1
<1>3. {outbox[n].hash : n \in 1..Len(outbox)} \subseteq Safe'
  OBVIOUS
<1>4. Safe \subseteq Safe'
  BY <1>2, <1>3 DEF Safe
<1>5. Past \subseteq Safe
  BY DEF Past, Safe
<1> QED
  BY <1>4, <1>5 DEF Held

LEMMA OpsStay ==
  ASSUME OpsOK, HistoryOK, history' = history, txids' = txids, shown \subseteq shown',
         \A op \in Sent' : /\ op.base \in shown'
                          /\ \E o \in Sent : op.txid = o.txid /\ op.hash = o.hash
  PROVE  OpsOK' /\ HistoryOK'
<1>1. Tip' = Tip
  BY DEF Tip
<1>2. \A op \in Sent' : op.txid \in 1..txids' /\ op.base \in shown'
  BY DEF OpsOK, OwnTxids
<1>3. \A op \in Sent', other \in Sent' : op.txid = other.txid => op.hash = other.hash
  <2> SUFFICES ASSUME NEW op \in Sent', NEW other \in Sent', op.txid = other.txid
               PROVE  op.hash = other.hash
    OBVIOUS
  <2>1. PICK o \in Sent : op.txid = o.txid /\ op.hash = o.hash
    OBVIOUS
  <2>2. PICK p \in Sent : other.txid = p.txid /\ other.hash = p.hash
    OBVIOUS
  <2> QED
    BY <2>1, <2>2 DEF OpsOK, CopiesAgree
<1>4. \A v \in 1..Tip' : history'[v].txid \in 0..txids'
  BY <1>1 DEF OpsOK, GivenTxids
<1>5. \A op \in Sent', v \in 1..Tip' : op.txid = history'[v].txid => op.hash = history'[v].hash
  <2> SUFFICES ASSUME NEW op \in Sent', NEW v \in 1..Tip', op.txid = history'[v].txid
               PROVE  op.hash = history'[v].hash
    OBVIOUS
  <2>1. PICK o \in Sent : op.txid = o.txid /\ op.hash = o.hash
    OBVIOUS
  <2> QED
    BY <2>1, <1>1 DEF OpsOK, ChangesAgree
<1>6. HistoryOK'
  BY <1>1 DEF HistoryOK
<1>7. OpsOK'
  BY <1>2, <1>3, <1>4, <1>5 DEF OpsOK, OwnTxids, CopiesAgree, GivenTxids, ChangesAgree
<1> QED
  BY <1>6, <1>7

LEMMA OpsQueued ==
  ASSUME Types, OpsOK, HistoryOK, NEW op \in Op, op.txid = txids + 1, op.base \in shown,
         txids' = txids + 1, history' = history, shown' = shown,
         Sent' \subseteq Sent \union {op}
  PROVE  OpsOK' /\ HistoryOK'
<1>1. Tip' = Tip /\ Tip \in Nat /\ txids \in Nat
  BY DEF Tip, Types
<1>2. \A o \in Sent : o.txid \in 1..txids /\ o.base \in shown
  BY DEF OpsOK, OwnTxids
<1>3. \A v \in 1..Tip : history[v].txid \in 0..txids
  BY DEF OpsOK, GivenTxids
<1>4. \A o \in Sent' : o.txid \in 1..txids' /\ o.base \in shown'
  BY <1>1, <1>2
<1>5. \A o \in Sent', other \in Sent' : o.txid = other.txid => o.hash = other.hash
  <2> SUFFICES ASSUME NEW o \in Sent', NEW other \in Sent', o.txid = other.txid
               PROVE  o.hash = other.hash
    OBVIOUS
  <2>1. (o \in Sent \/ o = op) /\ (other \in Sent \/ other = op)
    OBVIOUS
  <2>2. CASE o \in Sent /\ other \in Sent
    BY <2>2 DEF OpsOK, CopiesAgree
  <2>3. CASE o = op /\ other = op
    BY <2>3
  <2>4. \A p \in Sent : p.txid # op.txid
    BY <1>1, <1>2
  <2> QED
    BY <2>1, <2>2, <2>3, <2>4
<1>6. \A v \in 1..Tip' : history'[v].txid \in 0..txids'
  BY <1>1, <1>3
<1>7. \A o \in Sent', v \in 1..Tip' : o.txid = history'[v].txid => o.hash = history'[v].hash
  <2> SUFFICES ASSUME NEW o \in Sent', NEW v \in 1..Tip, o.txid = history[v].txid
               PROVE  o.hash = history[v].hash
    BY <1>1
  <2>1. history[v].txid # op.txid
    BY <1>1, <1>3
  <2>2. o \in Sent
    BY <2>1
  <2> QED
    BY <2>2 DEF OpsOK, ChangesAgree
<1>8. HistoryOK'
  BY <1>1 DEF HistoryOK
<1>9. OpsOK'
  BY <1>4, <1>5, <1>6, <1>7 DEF OpsOK, OwnTxids, CopiesAgree, GivenTxids, ChangesAgree
<1> QED
  BY <1>8, <1>9

JobType == [by : Owners, todo : Seq(Steps), value : Nat, local : Files]

\* One step of a job is done: the rest of them follow, or the job ends.
LEMMA StepDone ==
  ASSUME Types, InTime, NEW step, Does(step), NEW j \in JobType,
         j.todo = Tail(job.todo), j.by = job.by, Proceed(j)
  PROVE  /\ 1 \in Todo /\ job.todo[1] = step
         /\ \A i \in Todo' : i + 1 \in Todo /\ job'.todo[i] = job.todo[i + 1] /\ job' = j
         /\ \/ job' = j /\ sender' = sender /\ reader' = reader
            \/ job' = NoJob /\ (IF job.by = "sender" THEN sender' = Idle ELSE sender' = sender)
         /\ job' \in JobType /\ reader' \in [at : Places, to : Nat, next : Nat]
         /\ sender' \in [at : Sendings, version : Nat]
         /\ reader'.to <= reader.to
<1>1. job.todo \in Seq(Steps) /\ job.todo # << >> /\ Len(job.todo) \in Nat
  BY DEF Types, Does
<1>2. 1 \in Todo /\ job.todo[1] = step
  BY <1>1 DEF Does, Todo
<1>3. Len(j.todo) = Len(job.todo) - 1 /\ \A i \in 1..Len(j.todo) : j.todo[i] = job.todo[i + 1]
  BY <1>1
<1>4. NextAt \in [at : Places, to : Nat, next : Nat] /\ NextAt.to <= reader.to
  <2>1. reader.to \in Nat /\ reader.next \in Nat
    BY DEF Types
  <2>2. CASE reader.at = "heads"
    <3>1. NextAt = [at |-> "follow", to |-> 0, next |-> 0]
      BY <2>2 DEF NextAt, Following, Down
    <3> QED
      BY <2>1, <3>1 DEF Places
  <2>3. CASE reader.at # "heads"
    <3> DEFINE at == IF cursor = None THEN "read"
                     ELSE IF reader.next = 0 THEN "heads" ELSE "acknowledge"
    <3>1. NextAt = [reader EXCEPT !.to = 0, !.at = at]
      BY <2>3 DEF NextAt
    <3>2. at \in Places
      BY DEF Places
    <3> HIDE DEF at
    <3>3. NextAt = [at |-> at, to |-> 0, next |-> reader.next]
      BY <3>1 DEF Types
    <3> QED
      BY <2>1, <3>2, <3>3
  <2> QED
    BY <2>2, <2>3
<1>5. NoJob \in JobType /\ Len(NoJob.todo) = 0
  <2>1. << >> \in Seq(Steps) /\ Len(<< >>) = 0 /\ None \in Files
    BY DEF Files
  <2> QED
    BY <2>1 DEF NoJob, JobType, Owners
<1>6. CASE j.todo # << >>
  <2>1. job' = j /\ sender' = sender /\ reader' = reader
    BY <1>6 DEF Proceed
  <2>2. \A i \in Todo' : i + 1 \in Todo /\ job'.todo[i] = job.todo[i + 1]
    <3>1. PICK n \in Nat : n = Len(job.todo)
      BY <1>1
    <3>2. Todo' = 1..n - 1 /\ Todo = 1..n
      BY <2>1, <3>1, <1>3 DEF Todo
    <3>3. \A i \in 1..n - 1 : i + 1 \in 1..n
      BY <3>1
    <3>4. \A i \in 1..n - 1 : j.todo[i] = job.todo[i + 1]
      BY <3>1, <1>3
    <3> QED
      BY <2>1, <3>2, <3>3, <3>4
  <2>3. reader \in [at : Places, to : Nat, next : Nat] /\ sender \in [at : Sendings, version : Nat]
    BY DEF Types
  <2>4. reader.to <= reader.to
    BY <2>3
  <2> QED
    BY <2>1, <2>2, <2>3, <2>4, <1>2
<1>7. CASE j.todo = << >>
  <2>1. /\ job' = NoJob /\ reader' = IF j.by = "reader" THEN NextAt ELSE reader
        /\ sender' = IF j.by = "sender" THEN Idle ELSE sender
    BY <1>7 DEF Proceed
  <2>2. Todo' = {}
    BY <2>1, <1>5 DEF Todo
  <2>3. reader \in [at : Places, to : Nat, next : Nat] /\ sender \in [at : Sendings, version : Nat]
    BY DEF Types
  <2>4. reader.to <= reader.to
    BY <2>3
  <2>5. Idle \in [at : Sendings, version : Nat]
    BY DEF Idle, Sendings
  <2> QED
    BY <2>1, <2>2, <2>3, <2>4, <2>5, <1>2, <1>4, <1>5
<1> QED
  BY <1>6, <1>7
-----------------------------------------------------------------------------
(***************************************************************************)
(* The conditions on jobs and deliveries, for any step of a job.           *)
(***************************************************************************)
LEMMA JobGoesOn ==
  ASSUME JobOK, Types,
         \A i \in Todo' : i + 1 \in Todo /\ job'.todo[i] = job.todo[i + 1],
         job.todo[1] # "replace"
  PROVE  JobOK'
<1>1. \A i \in Todo' : job'.todo[i] \notin {"replace", "discard"}
  BY DEF JobOK, Todo
<1>2. \A i \in Todo' : job'.todo[i] # "record"
  BY DEF JobOK, Todo
<1>3. \A i, j \in Todo' :
        job'.todo[i] \in {"settle", "discard"} /\ job'.todo[j] \in {"settle", "discard"} => i = j
  <2> SUFFICES ASSUME NEW i \in Todo', NEW j \in Todo',
                      job'.todo[i] \in {"settle", "discard"}, job'.todo[j] \in {"settle", "discard"}
               PROVE  i = j
    OBVIOUS
  <2>1. i + 1 = j + 1
    BY DEF JobOK
  <2> QED
    BY <2>1 DEF Todo
<1> QED
  BY <1>1, <1>2, <1>3 DEF JobOK

\* A step other than "settle" and "discard" leaves the head of the outbox.
HeadStays == outbox # << >> => outbox' # << >> /\ outbox'[1] = outbox[1]

LEMMA DeliveryGoesOn ==
  ASSUME DeliveryOK, Past \subseteq Past', HeadStays,
         \A i \in Todo' : /\ i + 1 \in Todo /\ job'.todo[i] = job.todo[i + 1]
                         /\ job'.by = job.by,
         \/ job'.by = job.by /\ sender' = sender
         \/ job'.by = "nobody" /\ Todo' = {}
            /\ (IF job.by = "sender" THEN sender' = Idle ELSE sender' = sender),
         \A i \in Todo' : job'.todo[i] # "discard"
  PROVE  DeliveryOK'
<1>1. HeadLanded => HeadLanded'
  BY DEF HeadStays, HeadLanded
<1>2. CASE job'.by = job.by /\ sender' = sender
  <2>1. \A i \in Todo' : job'.todo[i] = "settle" =>
          job'.by = "sender" /\ sender'.at = "answered" /\ HeadLanded'
    BY <1>1, <1>2 DEF DeliveryOK
  <2> QED
    BY <1>1, <1>2, <2>1 DEF DeliveryOK, HeadStays
<1>3. CASE /\ job'.by = "nobody" /\ Todo' = {}
           /\ (IF job.by = "sender" THEN sender' = Idle ELSE sender' = sender)
  BY <1>1, <1>3 DEF DeliveryOK, HeadStays, Idle
<1> QED
  BY <1>2, <1>3

\* The same for a step of which only the two kinds of fact above are of interest.
LEMMA CopyGoesOn ==
  ASSUME CopyOK, Held \subseteq Held', shown \subseteq shown',
         known'.localVersion \in shown', known'.localHash \in Held',
         \A i \in Todo' : job'.todo[i] # "replace"
  PROVE  CopyOK'
BY DEF CopyOK
-----------------------------------------------------------------------------
(***************************************************************************)
(* The server, the user, and the reader between its jobs.                  *)
(***************************************************************************)
LEMMA ServerStep ==
  ASSUME IInv, Types', HistoryGrows, OpsOK', HistoryOK', DeliveryOK',
         UNCHANGED <<known, outbox, aside, job, shown, unqueued, reader>>
  PROVE  IInv'
<1> USE DEF IInv
<1>1. /\ Tip <= Tip' /\ Tip \in Nat
      /\ \A v \in 0..Tip : (Content(v))' = Content(v)
  BY PastStays
<1>2. Tip' \in Nat /\ known.version \in Nat /\ job.value \in Nat /\ reader.to \in Nat
  <2>1. Tip' \in Nat
    BY DEF Types, Tip
  <2> QED
    BY <2>1 DEF Types
<1>3. InTime'
  BY <1>1, <1>2 DEF InTime
<1>4. JobOK'
  BY DEF JobOK, Todo
<1>5. Held \subseteq Held'
  <2>1. \A n \in 1..Len(outbox) : outbox[n].hash \in Safe'
    BY DEF Safe
  <2> QED
    BY <2>1, SafeStays
<1>6. CopyOK'
  <2>1. Todo' = Todo
    BY DEF Todo
  <2> QED
    BY <2>1, <1>5 DEF CopyOK
<1> QED
  BY <1>3, <1>4, <1>6

LEMMA WriteKeeps ==
  ASSUME IInv, NEW c \in Files, Write(c)
  PROVE  IInv'
<1> DEFINE op == [txid |-> 0, base |-> Tip, hash |-> c]
<1>1. Tip \in Nat
  BY TipIsNat DEF IInv
<1>2. op \in Op /\ op.txid = 0
  BY <1>1 DEF Op
<1>3. Handle(op)
  BY DEF Write
<1>4. UNCHANGED <<wake, air, disk, stored, fibers, seen, txids>>
  BY DEF Write
<1> HIDE DEF op
<1>5. /\ history' \in Seq([txid : Nat, parent : Nat, hash : Files])
      /\ HistoryGrows /\ OpsOK' /\ HistoryOK'
  BY <1>2, <1>3, <1>4, HandleOK DEF IInv, stored, seen
<1>6. Types'
  BY <1>4, <1>5 DEF IInv, Types, stored, fibers
<1>7. Past \subseteq Past'
  BY <1>5, PastStays DEF IInv
<1>8. DeliveryOK'
  BY <1>4, <1>7 DEF IInv, DeliveryOK, HeadLanded, Todo, stored, fibers
<1> QED
  BY <1>4, <1>5, <1>6, <1>8, ServerStep DEF stored, fibers, seen

LEMMA ArriveKeeps ==
  ASSUME IInv, NEW op \in air, Arrive(op)
  PROVE  IInv'
<1>1. air' = air \ {op} /\ Handle(op)
  BY DEF Arrive
<1>2. UNCHANGED <<wake, disk, stored, fibers, seen, txids>>
  BY DEF Arrive, counters
<1>3. op \in Op /\ op \in Sent
  BY DEF IInv, Types, Sent
<1>5. /\ history' \in Seq([txid : Nat, parent : Nat, hash : Files])
      /\ HistoryGrows /\ OpsOK' /\ HistoryOK'
  BY <1>1, <1>2, <1>3, HandleOK DEF IInv, stored, seen
<1>6. Types'
  BY <1>1, <1>2, <1>5 DEF IInv, Types, stored, fibers
<1>7. Past \subseteq Past'
  BY <1>5, PastStays DEF IInv
<1>8. DeliveryOK'
  BY <1>2, <1>7 DEF IInv, DeliveryOK, HeadLanded, Todo, stored, fibers
<1> QED
  BY <1>2, <1>5, <1>6, <1>8, ServerStep DEF stored, fibers, seen

LEMMA LoseAnswerKeeps ==
  ASSUME IInv, LoseAnswer
  PROVE  IInv'
<1>1. sender.at = "sent" /\ sender' = Idle
  BY DEF LoseAnswer
<1>2. UNCHANGED <<wake, disk, stored, reader, job, seen, txids>>
  BY DEF LoseAnswer
<1>3. outbox # << >>
  BY <1>1 DEF IInv, DeliveryOK
<1>4. PICK op \in Op : op = Head(outbox) /\ op \in Sent
  <2>1. 1 \in 1..Len(outbox) /\ Head(outbox) = outbox[1] /\ outbox[1] \in Op
    BY <1>3 DEF IInv, Types
  <2> QED
    BY <2>1 DEF Sent
<1>5. \/ Handle(op) /\ air' = air
      \/ air' = air \union {op} /\ history' = history
  BY <1>4 DEF LoseAnswer
<1>6. /\ history' \in Seq([txid : Nat, parent : Nat, hash : Files])
      /\ HistoryGrows /\ OpsOK' /\ HistoryOK'
  <2>1. CASE Handle(op) /\ air' = air
    BY <2>1, <1>2, <1>4, HandleOK DEF IInv, stored, seen
  <2>2. CASE air' = air \union {op} /\ history' = history
    <3>1. Sent' \subseteq Sent
      BY <2>2, <1>2, <1>4 DEF Sent, stored
    <3>2. \A o \in Sent' : o.base \in shown' /\ \E p \in Sent : o.txid = p.txid /\ o.hash = p.hash
      BY <3>1, <1>2 DEF IInv, OpsOK, OwnTxids, seen
    <3>3. OpsOK' /\ HistoryOK'
      BY <3>2, <2>2, <1>2, OpsStay DEF IInv, seen
    <3>4. Tip \in Nat
      BY TipIsNat DEF IInv
    <3> QED
      BY <3>3, <3>4, <2>2 DEF IInv, Types, HistoryGrows, Tip
  <2> QED
    BY <1>5, <2>1, <2>2
<1>7. Types'
  BY <1>1, <1>2, <1>4, <1>5, <1>6 DEF IInv, Types, stored, Idle, Sendings
<1>8. DeliveryOK'
  BY <1>1, <1>2 DEF IInv, DeliveryOK, Todo, stored, Idle
<1> QED
  BY <1>2, <1>6, <1>7, <1>8, ServerStep DEF stored, seen

LEMMA ReceiveKeeps ==
  ASSUME IInv, Receive
  PROVE  IInv'
<1>1. sender.at = "sent"
  BY DEF Receive
<1>2. UNCHANGED <<wake, air, disk, known, reader, job, seen, txids>>
  BY DEF Receive, counters
<1>3. outbox # << >> /\ outbox \in Seq(Op)
  BY <1>1 DEF IInv, DeliveryOK, Types
<1>4. PICK op \in Op : op = Head(outbox) /\ op = outbox[1] /\ op \in Sent
  <2>1. 1 \in 1..Len(outbox) /\ Head(outbox) = outbox[1] /\ outbox[1] \in Op
    BY <1>3
  <2> QED
    BY <2>1 DEF Sent
<1>5. \A i \in Todo : job.todo[i] \notin {"settle", "discard"}
  BY <1>1 DEF IInv, DeliveryOK
<1>6. CASE op.hash \in Refused
  <2>1. /\ outbox' = Tail(outbox) /\ aside' = aside \union {op.hash}
        /\ sender' = Idle /\ history' = history
    BY <1>4, <1>6 DEF Receive
  <2>2. /\ outbox' \in Seq(Op)
        /\ \A n \in 1..Len(outbox') : n + 1 \in 1..Len(outbox) /\ outbox'[n] = outbox[n + 1]
    BY <2>1, <1>3
  <2>3. Sent' \subseteq Sent
    BY <2>2, <1>2 DEF Sent
  <2>4. \A o \in Sent' : o.base \in shown' /\ \E p \in Sent : o.txid = p.txid /\ o.hash = p.hash
    BY <2>3, <1>2 DEF IInv, OpsOK, OwnTxids, seen
  <2>5. OpsOK' /\ HistoryOK'
    BY <2>1, <2>4, <1>2, OpsStay DEF IInv, seen
  <2>6. Types'
    BY <2>1, <2>2, <1>2 DEF IInv, Types, Idle, Sendings
  <2>7. InTime' /\ JobOK'
    BY <2>1, <1>2 DEF IInv, InTime, JobOK, Todo, Tip, seen
  <2>8. DeliveryOK'
    BY <2>1, <1>2, <1>5 DEF DeliveryOK, Todo, Idle
  <2>9. Held \subseteq Held'
    <3>1. \A n \in 1..Len(outbox) : n = 1 \/ (n - 1 \in 1..Len(outbox') /\ outbox[n] = outbox'[n - 1])
      BY <2>1, <1>3
    <3>2. \A n \in 1..Len(outbox) : outbox[n].hash \in Safe'
      BY <3>1, <2>1, <1>4 DEF Safe
    <3>3. HistoryGrows
      <4>1. Tip \in Nat
        BY TipIsNat DEF IInv
      <4> QED
        BY <2>1, <4>1 DEF HistoryGrows, Tip
    <3> QED
      BY <3>2, <3>3, <2>1, <1>2, SafeStays DEF IInv, seen
  <2>10. CopyOK'
    BY <2>1, <2>9, <1>2 DEF IInv, CopyOK, Todo, seen
  <2> QED
    BY <2>5, <2>6, <2>7, <2>8, <2>10 DEF IInv
<1>7. CASE op.hash \notin Refused
  <2>1. Handle(op) /\ sender' = [at |-> "answered", version |-> Answer(op)] /\ UNCHANGED <<outbox, aside>>
    BY <1>4, <1>7 DEF Receive
  <2>2. /\ history' \in Seq([txid : Nat, parent : Nat, hash : Files])
        /\ HistoryGrows /\ OpsOK' /\ HistoryOK' /\ op.hash \in Past'
    BY <2>1, <1>2, <1>4, HandleOK DEF IInv, seen
  <2>3. Answer(op) \in Nat
    <3>1. Tip \in Nat
      BY TipIsNat DEF IInv
    <3>2. CASE Recalled(op.txid) # {}
      <4>1. Answer(op) \in Recalled(op.txid)
        BY <3>2 DEF Answer
      <4> QED
        BY <4>1, <3>1 DEF Recalled
    <3>3. CASE Recalled(op.txid) = {}
      BY <3>1, <3>3 DEF Answer
    <3> QED
      BY <3>2, <3>3
  <2>4. Types'
    BY <2>1, <2>2, <2>3, <1>2 DEF IInv, Types, Sendings
  <2>5. HeadLanded'
    BY <2>1, <2>2, <1>3, <1>4 DEF HeadLanded
  <2>6. DeliveryOK'
    BY <2>1, <2>5, <1>2, <1>5 DEF DeliveryOK, Todo
  <2> QED
    BY <2>1, <2>2, <2>4, <2>6, <1>2, ServerStep DEF seen
<1> QED
  BY <1>6, <1>7
-----------------------------------------------------------------------------
(***************************************************************************)
(* The fibers between jobs, and the start of a job.                        *)
(***************************************************************************)
LEMMA FiberStep ==
  ASSUME IInv, Types', InTime', JobOK', DeliveryOK',
         UNCHANGED <<history, air, known, outbox, aside, shown, unqueued, txids>>,
         job' = job \/ \A i \in Todo' : job'.todo[i] # "replace"
  PROVE  IInv'
<1>1. Sent' = Sent /\ Tip' = Tip
  BY DEF Sent, Tip
<1>2. OpsOK' /\ HistoryOK'
  BY <1>1 DEF IInv, OpsOK, OwnTxids, CopiesAgree, GivenTxids, ChangesAgree, HistoryOK
<1>3. Held' = Held
  BY <1>1 DEF Held, Safe
<1>4. CopyOK'
  BY <1>3 DEF IInv, CopyOK, Todo
<1> QED
  BY <1>2, <1>4 DEF IInv

Plans ==
  {<<"install", "cursor">>, <<"observe", "cursor">>, <<"observe", "install", "cursor">>,
   <<"cursor">>, <<"observe", "fetch", "install">>, <<"discard", "fetch", "install">>,
   <<"observe", "settle", "fetch", "install">>, <<"fetch", "install">>}

LEMMA PlansFit ==
  ASSUME NEW t \in Plans
  PROVE  /\ t \in Seq(Steps)
         /\ \A i \in 1..Len(t) : /\ t[i] \notin {"replace", "record"}
                                 /\ t[i] = "discard" => i = 1 /\ t = <<"discard", "fetch", "install">>
                                 /\ t[i] = "settle" =>
                                      i = 2 /\ t = <<"observe", "settle", "fetch", "install">>
<1>1. CASE t = <<"install", "cursor">>
  BY <1>1 DEF Steps
<1>2. CASE t = <<"observe", "cursor">>
  BY <1>2 DEF Steps
<1>3. CASE t = <<"observe", "install", "cursor">>
  BY <1>3 DEF Steps
<1>4. CASE t = <<"cursor">>
  BY <1>4 DEF Steps
<1>5. CASE t = <<"observe", "fetch", "install">>
  BY <1>5 DEF Steps
<1>6. CASE t = <<"discard", "fetch", "install">>
  BY <1>6 DEF Steps
<1>7. CASE t = <<"observe", "settle", "fetch", "install">>
  BY <1>7 DEF Steps
<1>8. CASE t = <<"fetch", "install">>
  BY <1>8 DEF Steps
<1> QED
  BY <1>1, <1>2, <1>3, <1>4, <1>5, <1>6, <1>7, <1>8 DEF Plans

Job(by, todo, value) == [by |-> by, todo |-> todo, value |-> value, local |-> None]

LEMMA JobStarts ==
  ASSUME IInv, Free, NEW by \in Owners, NEW t \in Plans, NEW value \in Nat, value <= Tip,
         job' = Job(by, t, value),
         t = <<"discard", "fetch", "install">> =>
           by = "sender" /\ sender.at = "idle" /\ outbox # << >> /\ outbox[1].hash = None,
         t = <<"observe", "settle", "fetch", "install">> =>
           by = "sender" /\ sender.at = "answered",
         UNCHANGED <<history, air, known, outbox, aside, shown, unqueued, txids>>,
         UNCHANGED <<disk, wake, reader, sender>>
  PROVE  IInv'
<1>1. job'.by = by /\ job'.todo = t /\ job'.value = value /\ job'.local = None
  BY DEF Job
<1>2. /\ t \in Seq(Steps)
      /\ \A i \in 1..Len(t) : /\ t[i] \notin {"replace", "record"}
                              /\ t[i] = "discard" => i = 1 /\ t = <<"discard", "fetch", "install">>
                              /\ t[i] = "settle" =>
                                   i = 2 /\ t = <<"observe", "settle", "fetch", "install">>
  BY PlansFit
<1>3. Todo' = 1..Len(t)
  BY <1>1 DEF Todo
<1>4. Types'
  <2>1. None \in Files
    BY DEF Files
  <2>2. job' \in JobType
    BY <1>2, <2>1 DEF Job, JobType
  <2> QED
    BY <2>2 DEF IInv, Types, JobType
<1>5. InTime'
  BY <1>1 DEF IInv, InTime, Tip
<1>6. \A i, j \in 1..Len(t) : t[i] \in {"settle", "discard"} /\ t[j] \in {"settle", "discard"} => i = j
  <2> SUFFICES ASSUME NEW i \in 1..Len(t), NEW j \in 1..Len(t),
                      t[i] \in {"settle", "discard"}, t[j] \in {"settle", "discard"}
               PROVE  i = j
    OBVIOUS
  <2>1. CASE t = <<"discard", "fetch", "install">>
    BY <2>1, <1>2
  <2>2. CASE t # <<"discard", "fetch", "install">>
    BY <2>2, <1>2
  <2> QED
    BY <2>1, <2>2
<1>7. JobOK'
  BY <1>1, <1>2, <1>3, <1>6 DEF JobOK
<1>8. job.by = "nobody"
  BY DEF Free, NoJob
<1>9. DeliveryOK'
  <2>1. sender.at = "answered" => HeadLanded
    BY <1>8 DEF IInv, DeliveryOK
  <2>2. HeadLanded' = HeadLanded
    BY DEF HeadLanded, Past, Tip
  <2> QED
    BY <1>1, <1>2, <1>3, <2>1, <2>2 DEF IInv, DeliveryOK
<1>10. \A i \in Todo' : job'.todo[i] # "replace"
  BY <1>1, <1>2, <1>3
<1> QED
  BY <1>4, <1>5, <1>7, <1>9, <1>10, FiberStep

\* A step of the reader alone.
LEMMA ReaderStep ==
  ASSUME IInv, reader' \in [at : Places, to : Nat, next : Nat], reader'.to <= Tip,
         UNCHANGED <<history, air, known, outbox, aside, shown, unqueued, txids>>,
         UNCHANGED <<sender, job>>, disk' \in Files, wake' \in Nat
  PROVE  IInv'
<1>1. Types' /\ InTime'
  BY DEF IInv, Types, InTime, Tip
<1>2. JobOK' /\ DeliveryOK'
  BY DEF IInv, JobOK, DeliveryOK, Todo, HeadLanded, Past, Tip
<1> QED
  BY <1>1, <1>2, FiberStep

ReaderType == [at : Places, to : Nat, next : Nat]

LEMMA DownIsReader ==
  /\ Down \in ReaderType /\ Down.to = 0 /\ Down.next = 0
  /\ Following \in ReaderType /\ Following.to = 0
<1>1. Down \in ReaderType /\ Down.to = 0 /\ Down.next = 0
  BY DEF Down, ReaderType, Places
<1>2. Following = [Down EXCEPT !.at = "follow"]
  BY DEF Following
<1>3. "follow" \in Places
  BY DEF Places
<1>4. Following = [at |-> "follow", to |-> Down.to, next |-> Down.next]
  BY <1>1, <1>2 DEF ReaderType
<1> QED
  BY <1>1, <1>3, <1>4 DEF ReaderType

LEMMA ReaderMoves ==
  ASSUME NEW r \in ReaderType, NEW place \in Places, NEW n \in Nat
  PROVE  /\ [r EXCEPT !.at = place] \in ReaderType
         /\ [r EXCEPT !.at = place].to = r.to
         /\ [r EXCEPT !.at = place, !.to = n] \in ReaderType
         /\ [r EXCEPT !.at = place, !.to = n].to = n
         /\ [r EXCEPT !.next = n, !.at = place] \in ReaderType
         /\ [r EXCEPT !.next = n, !.at = place].to = r.to
BY DEF ReaderType

LEMMA ReaderKeeps ==
  ASSUME IInv, Start \/ ReadAll \/ ReadPage \/ FollowWake
  PROVE  IInv'
<1>1. Tip \in Nat
  BY TipIsNat DEF IInv
<1>2. reader \in ReaderType /\ wake \in Nat /\ disk \in Files /\ reader.to <= Tip
  BY DEF IInv, Types, InTime, ReaderType
<1>3. /\ UNCHANGED <<server, stored, seen, counters, writable>>
      /\ UNCHANGED <<sender, job, disk>>
  BY DEF Start, ReadAll, ReadPage, FollowWake
<1>4. UNCHANGED <<history, wake, air, known, outbox, aside, shown, unqueued, txids, sender, job, disk>>
  BY <1>3 DEF server, stored, seen, counters
<1>5. reader' \in ReaderType /\ reader'.to <= Tip
  <2>1. CASE Start
    <3>1. PICK at \in Places : reader' = [Down EXCEPT !.at = at]
      <4>1. (IF cursor = None THEN "initialise" ELSE "read") \in Places
        BY DEF Places
      <4> QED
        BY <2>1, <4>1 DEF Start
    <3>2. reader' \in ReaderType /\ reader'.to = 0
      BY <3>1, DownIsReader, ReaderMoves
    <3> QED
      BY <3>2, <1>1
  <2>2. CASE ReadAll \/ ReadPage
    <3>1. reader' = [reader EXCEPT !.at = "apply", !.to = Tip]
      BY <2>2 DEF ReadAll, ReadPage
    <3>2. "apply" \in Places
      BY DEF Places
    <3>3. reader' = [at |-> "apply", to |-> Tip, next |-> reader.next] /\ reader.next \in Nat
      BY <3>1, <1>2 DEF ReaderType
    <3> QED
      BY <3>2, <3>3, <1>1 DEF ReaderType
  <2>3. CASE FollowWake
    <3>1. PICK at \in Places : reader' = [reader EXCEPT !.next = wake, !.at = at]
      <4>1. (IF wake > cursor THEN "read" ELSE "acknowledge") \in Places
        BY DEF Places
      <4> QED
        BY <2>3, <4>1 DEF FollowWake
    <3>2. reader' \in ReaderType /\ reader'.to = reader.to
      BY <3>1, <1>2, ReaderMoves
    <3> QED
      BY <3>2, <1>2
  <2> QED
    BY <2>1, <2>2, <2>3
<1> QED
  BY <1>2, <1>4, <1>5, ReaderStep DEF ReaderType

\* Steps of the environment and of the reader that touch nothing the invariant is about.
LEMMA QuietKeeps ==
  ASSUME IInv, (\E c \in Files : Edit(c)) \/ Publish \/ Acknowledge
  PROVE  IInv'
<1>1. Tip \in Nat
  BY TipIsNat DEF IInv
<1>2. reader \in ReaderType /\ wake \in Nat /\ disk \in Files /\ reader.to <= Tip
  BY DEF IInv, Types, InTime, ReaderType
<1>3. CASE \E c \in Files : Edit(c)
  <2>1. disk' \in Files /\ UNCHANGED <<server, stored, fibers, seen, txids>>
    BY <1>3 DEF Edit
  <2>2. UNCHANGED <<history, wake, air, known, outbox, aside, shown, unqueued, txids, sender, job, reader>>
    BY <2>1 DEF server, stored, seen, fibers
  <2> QED
    BY <2>1, <2>2, <1>2, ReaderStep DEF ReaderType
<1>4. CASE Publish
  <2>1. wake' = Tip /\ UNCHANGED <<history, air, disk, stored, fibers, seen, counters>>
    BY <1>4 DEF Publish
  <2>2. UNCHANGED <<history, disk, air, known, outbox, aside, shown, unqueued, txids, sender, job, reader>>
    BY <2>1 DEF counters, stored, seen, fibers
  <2> QED
    BY <2>1, <2>2, <1>1, <1>2, ReaderStep DEF ReaderType
<1>5. CASE Acknowledge
  <2>1. reader' = Following /\ UNCHANGED <<server, disk, known, outbox, aside, sender, job, seen, counters>>
    BY <1>5 DEF Acknowledge
  <2>2. UNCHANGED <<history, disk, wake, air, known, outbox, aside, shown, unqueued, txids, sender, job>>
    BY <2>1 DEF counters, server, seen
  <2>3. reader' \in ReaderType /\ reader'.to <= Tip
    BY <2>1, <1>1, DownIsReader
  <2> QED
    BY <2>2, <2>3, <1>2, ReaderStep DEF ReaderType
<1> QED
  BY <1>3, <1>4, <1>5

LEMMA NoJobIsAJob ==
  NoJob \in JobType /\ NoJob = Job("nobody", << >>, 0)
<1>1. << >> \in Seq(Steps) /\ None \in Files
  BY DEF Files
<1> QED
  BY <1>1 DEF NoJob, Job, JobType, Owners

LEMMA NewJob ==
  ASSUME NEW by \in Owners, NEW t \in Seq(Steps), NEW r,
         r = [NoJob EXCEPT !.by = by, !.todo = t]
  PROVE  r = Job(by, t, 0)
<1>1. NoJob \in JobType /\ NoJob.value = 0 /\ NoJob.local = None
  BY NoJobIsAJob DEF Job
<1> HIDE DEF NoJob
<1> QED
  BY <1>1 DEF Job, JobType

LEMMA NewJobWith ==
  ASSUME NEW by \in Owners, NEW t \in Seq(Steps), NEW value \in Nat, NEW r,
         r = [NoJob EXCEPT !.by = by, !.value = value, !.todo = t]
  PROVE  r = Job(by, t, value)
<1>1. NoJob \in JobType /\ NoJob.value = 0 /\ NoJob.local = None
  BY NoJobIsAJob DEF Job
<1> HIDE DEF NoJob
<1> QED
  BY <1>1 DEF Job, JobType

LEMMA ApplyKeeps ==
  ASSUME IInv, Apply
  PROVE  IInv'
<1>1. UNCHANGED <<server, disk, stored, writable, reader, sender, seen, counters>> /\ Free
  BY DEF Apply
<1>2. reader.to \in Nat /\ reader.to <= Tip
  BY DEF IInv, Types, InTime
<1>3. PICK t \in Plans :
        /\ job' = [NoJob EXCEPT !.by = "reader", !.value = reader.to, !.todo = t]
        /\ t # <<"discard", "fetch", "install">> /\ t # <<"observe", "settle", "fetch", "install">>
  <2> DEFINE u == IF cursor = None
               THEN <<IF reader.to = 0 /\ ~known.saved THEN "observe" ELSE "install", "cursor">>
               ELSE IF reader.to > cursor THEN <<"observe", "install", "cursor">>
               ELSE <<"cursor">>
  <2>1. u \in Plans
    BY DEF Plans
  <2>2. u # <<"discard", "fetch", "install">> /\ u # <<"observe", "settle", "fetch", "install">>
    OBVIOUS
  <2>3. job' = [NoJob EXCEPT !.by = "reader", !.value = reader.to, !.todo = u]
    BY DEF Apply
  <2> HIDE DEF u
  <2> QED
    BY <2>1, <2>2, <2>3
<1>5. "reader" \in Owners
  BY DEF Owners
<1>4. job' = Job("reader", t, reader.to)
  <2>1. t \in Seq(Steps)
    BY PlansFit
  <2> QED
    BY <1>2, <1>3, <1>5, <2>1, NewJobWith, Zenon
<1> QED
  BY <1>1, <1>2, <1>3, <1>4, <1>5, JobStarts DEF server, stored, seen, counters

LEMMA CheckHeadsKeeps ==
  ASSUME IInv, CheckHeads
  PROVE  IInv'
<1>1. UNCHANGED <<server, disk, stored, writable, sender, seen, counters>> /\ Free
  BY DEF CheckHeads
<1>2. Tip \in Nat /\ disk \in Files /\ wake \in Nat
  BY TipIsNat DEF IInv, Types
<1>3. CASE /\ job' = [NoJob EXCEPT !.by = "reader", !.todo = <<"observe", "fetch", "install">>]
           /\ UNCHANGED reader
  <2> DEFINE t == <<"observe", "fetch", "install">>
  <2>1. /\ t \in Plans
        /\ t # <<"discard", "fetch", "install">> /\ t # <<"observe", "settle", "fetch", "install">>
    BY DEF Plans
  <2>2. "reader" \in Owners
    BY DEF Owners
  <2>3. job' = [NoJob EXCEPT !.by = "reader", !.todo = t]
    BY <1>3
  <2> HIDE DEF t
  <2>4. t \in Seq(Steps)
    BY <2>1, PlansFit
  <2>5. job' = Job("reader", t, 0)
    BY <2>2, <2>3, <2>4, NewJob, Zenon
  <2> QED
    BY <1>1, <1>2, <1>3, <2>1, <2>2, <2>5, JobStarts DEF server, stored, seen, counters
<1>4. CASE reader' = Following /\ UNCHANGED job
  <2>1. reader' \in ReaderType /\ reader'.to <= Tip
    BY <1>2, <1>4, DownIsReader
  <2>2. UNCHANGED <<history, disk, wake, air, known, outbox, aside, shown, unqueued, txids, sender, job>>
    BY <1>1, <1>4 DEF server, stored, seen, counters
  <2> QED
    BY <1>2, <2>1, <2>2, ReaderStep DEF ReaderType
<1> QED
  BY <1>3, <1>4 DEF CheckHeads

LEMMA SendKeeps ==
  ASSUME IInv, Send
  PROVE  IInv'
<1>1. /\ UNCHANGED <<server, disk, stored, writable, reader, seen, counters>>
      /\ sender = Idle /\ outbox # << >> /\ job.by # "sender"
  BY DEF Send, Pending
<1>2. Tip \in Nat /\ outbox \in Seq(Op)
  BY TipIsNat DEF IInv, Types
<1>3. CASE /\ Head(outbox).hash = None /\ Free
           /\ job' = [NoJob EXCEPT !.by = "sender", !.todo = <<"discard", "fetch", "install">>]
           /\ UNCHANGED sender
  <2> DEFINE t == <<"discard", "fetch", "install">>
  <2>1. t \in Plans /\ t # <<"observe", "settle", "fetch", "install">>
    BY DEF Plans
  <2>2. "sender" \in Owners
    BY DEF Owners
  <2>3. job' = [NoJob EXCEPT !.by = "sender", !.todo = t]
    BY <1>3
  <2> HIDE DEF t
  <2>4. t \in Seq(Steps)
    BY <2>1, PlansFit
  <2>5. job' = Job("sender", t, 0)
    BY <2>2, <2>3, <2>4, NewJob, Zenon
  <2>6. outbox[1].hash = None /\ sender.at = "idle"
    BY <1>1, <1>2, <1>3 DEF Idle
  <2> QED
    BY <1>1, <1>2, <1>3, <2>1, <2>2, <2>5, <2>6, JobStarts DEF server, stored, seen, counters
<1>4. CASE sender' = [Idle EXCEPT !.at = "sent"] /\ UNCHANGED job
  <2>1. sender' = [at |-> "sent", version |-> 0]
    <3>1. Idle \in [at : Sendings, version : Nat] /\ Idle.version = 0
      BY DEF Idle, Sendings
    <3> HIDE DEF Idle
    <3> QED
      BY <1>4, <3>1
  <2>2. UNCHANGED <<history, disk, wake, air, known, outbox, aside, shown, unqueued, txids, reader, job>>
    BY <1>1, <1>4 DEF server, stored, seen, counters
  <2>3. Types'
    BY <2>1, <2>2 DEF IInv, Types, Sendings
  <2>4. InTime' /\ JobOK'
    BY <2>2 DEF IInv, InTime, JobOK, Todo, Tip
  <2>5. \A i \in Todo : job.todo[i] \notin {"settle", "discard"}
    BY <1>1 DEF IInv, DeliveryOK
  <2>7. DeliveryOK'
    BY <1>1, <2>1, <2>2, <2>5 DEF DeliveryOK, Todo
  <2> QED
    BY <2>2, <2>3, <2>4, <2>7, FiberStep
<1> QED
  BY <1>3, <1>4 DEF Send

LEMMA ConcludeKeeps ==
  ASSUME IInv, Conclude
  PROVE  IInv'
<1>1. /\ UNCHANGED <<server, disk, stored, writable, reader, sender, seen, counters>>
      /\ sender.at = "answered" /\ Free
  BY DEF Conclude
<1>2. Tip \in Nat
  BY TipIsNat DEF IInv
<1> DEFINE t == <<"observe", "settle", "fetch", "install">>
<1>3. t \in Plans /\ t # <<"discard", "fetch", "install">>
  BY DEF Plans
<1>4. "sender" \in Owners
  BY DEF Owners
<1>5. job' = [NoJob EXCEPT !.by = "sender", !.todo = t]
  BY DEF Conclude
<1> HIDE DEF t
<1>6. t \in Seq(Steps)
  BY <1>3, PlansFit
<1>7. job' = Job("sender", t, 0)
  BY <1>4, <1>5, <1>6, NewJob, Zenon
<1> QED
  BY <1>1, <1>2, <1>3, <1>4, <1>7, JobStarts DEF server, stored, seen, counters
-----------------------------------------------------------------------------
(***************************************************************************)
(* The steps of a job.                                                     *)
(***************************************************************************)
LEMMA RestIsAJob ==
  ASSUME Types, NEW step, Does(step)
  PROVE  /\ Rest \in JobType /\ Rest.todo = Tail(job.todo) /\ Rest.by = job.by
         /\ Rest.value = job.value /\ Rest.local = job.local
<1>1. job \in JobType /\ job.todo # << >> /\ job.todo \in Seq(Steps)
  BY DEF Types, JobType, Does
<1>2. Tail(job.todo) \in Seq(Steps)
  BY <1>1
<1>3. PICK r : r = Rest
  OBVIOUS
<1>4. r = [by |-> job.by, todo |-> Tail(job.todo), value |-> job.value, local |-> job.local]
  BY <1>1, <1>3 DEF Rest, JobType
<1> QED
  BY <1>1, <1>2, <1>3, <1>4 DEF JobType

\* What every step leaves to the next one.
GoesOn ==
  /\ job' \in JobType /\ reader' \in ReaderType /\ sender' \in [at : Sendings, version : Nat]
  /\ job'.value <= Tip /\ reader'.to <= Tip
  /\ JobOK' /\ DeliveryOK'

LEMMA JobStep ==
  ASSUME IInv, NEW step, Does(step), step # "replace",
         NEW j \in JobType, j.todo = Tail(job.todo), j.by = job.by, j.value <= Tip,
         Proceed(j), history' = history, HeadStays \/ step \in {"settle", "discard"}
  PROVE  GoesOn /\ \A i \in Todo' : job'.todo[i] # "replace"
<1>1. /\ 1 \in Todo /\ job.todo[1] = step
      /\ \A i \in Todo' : i + 1 \in Todo /\ job'.todo[i] = job.todo[i + 1] /\ job' = j
      /\ \/ job' = j /\ sender' = sender /\ reader' = reader
         \/ job' = NoJob /\ (IF job.by = "sender" THEN sender' = Idle ELSE sender' = sender)
      /\ job' \in JobType /\ reader' \in [at : Places, to : Nat, next : Nat]
      /\ sender' \in [at : Sendings, version : Nat]
      /\ reader'.to <= reader.to
  BY StepDone DEF IInv
<1>2. Tip \in Nat /\ reader.to \in Nat /\ reader.to <= Tip
  BY TipIsNat DEF IInv, Types, InTime
<1>3. reader'.to <= Tip
  <2>1. PICK m \in Nat, n \in Nat, k \in Nat : m = reader'.to /\ n = reader.to /\ k = Tip
    BY <1>1, <1>2
  <2> QED
    BY <1>1, <1>2, <2>1
<1>4. NoJob.value = 0 /\ NoJob.by = "nobody" /\ Len(NoJob.todo) = 0
  BY DEF NoJob
<1>5. job'.value <= Tip
  BY <1>1, <1>2, <1>4
<1>6. JobOK'
  BY <1>1, JobGoesOn DEF IInv
<1>7. \A i \in Todo' : job'.todo[i] \notin {"replace", "discard"}
  BY <1>1 DEF IInv, JobOK, Todo
<1>8. Past' = Past
  BY DEF Past, Tip
<1>9. \/ job'.by = job.by /\ sender' = sender
      \/ /\ job'.by = "nobody" /\ Todo' = {}
         /\ (IF job.by = "sender" THEN sender' = Idle ELSE sender' = sender)
  <2>1. job' = NoJob => Todo' = {}
    BY <1>4 DEF Todo
  <2> QED
    BY <1>1, <1>4, <2>1
<1>10. DeliveryOK'
  <2>1. CASE HeadStays
    BY <1>1, <1>7, <1>8, <1>9, <2>1, DeliveryGoesOn DEF IInv
  <2>2. CASE step \in {"settle", "discard"}
    <3>1. job.by = "sender" /\ sender.at \in {"answered", "idle"}
      BY <1>1, <2>2 DEF IInv, DeliveryOK
    <3>2. \A i \in Todo' : job'.todo[i] # "settle"
      <4> SUFFICES ASSUME NEW i \in Todo', job'.todo[i] = "settle"
                   PROVE  FALSE
        OBVIOUS
      <4>1. i + 1 \in Todo /\ job.todo[i + 1] = "settle"
        BY <1>1
      <4>2. i + 1 = 1
        BY <4>1, <1>1, <2>2 DEF IInv, JobOK
      <4> QED
        BY <4>2 DEF Todo
    <3>3. sender'.at # "sent"
      BY <1>9, <3>1 DEF Idle
    <3>4. sender'.at = "answered" => job'.by = "sender"
      BY <1>9, <3>1 DEF Idle
    <3> QED
      BY <1>7, <3>2, <3>3, <3>4 DEF DeliveryOK
  <2> QED
    BY <2>1, <2>2
<1> QED
  BY <1>1, <1>3, <1>5, <1>6, <1>7, <1>10 DEF GoesOn, ReaderType

LEMMA StepKeeps ==
  ASSUME IInv, GoesOn,
         UNCHANGED <<history, air, wake>>, disk' \in Files, txids' \in Nat,
         outbox' \in Seq(Op),
         known' \in [saved : BOOLEAN, version : Nat, localHash : Files, localVersion : Nat],
         known'.version <= Tip, OpsOK', HistoryOK', CopyOK'
  PROVE  IInv'
<1>1. Types'
  BY DEF IInv, Types, GoesOn, JobType, ReaderType
<1>2. InTime'
  BY DEF GoesOn, InTime, Tip
<1> QED
  BY <1>1, <1>2 DEF GoesOn, IInv

\* What a step finds in the state.
LEMMA StateFacts ==
  ASSUME IInv
  PROVE  /\ Types /\ Tip \in Nat /\ disk \in Files /\ txids \in Nat /\ outbox \in Seq(Op)
         /\ known \in [saved : BOOLEAN, version : Nat, localHash : Files, localVersion : Nat]
         /\ known.version <= Tip /\ OpsOK /\ HistoryOK
         /\ known.localVersion \in shown /\ known.localHash \in Held /\ 0 \in shown
         /\ job.value \in Nat /\ job.value <= Tip /\ job.local \in Files
         /\ job \in JobType
BY TipIsNat DEF IInv, Types, InTime, CopyOK, JobType

LEMMA HeldStays ==
  ASSUME Types, history' = history, aside \subseteq aside',
         \A n \in 1..Len(outbox) : outbox[n].hash \in Safe',
         unqueued \subseteq unqueued'
  PROVE  Held \subseteq Held' /\ Past \subseteq Held
<1>1. HistoryGrows
  BY TipIsNat DEF HistoryGrows, Tip
<1> QED
  BY <1>1, SafeStays DEF Held

LEMMA NothingQueued ==
  ASSUME IInv, UNCHANGED <<history, air, outbox, txids, shown>>
  PROVE  OpsOK' /\ HistoryOK' /\ HeadStays
<1>1. Sent' = Sent /\ Tip' = Tip
  BY DEF Sent, Tip
<1> QED
  BY <1>1 DEF IInv, OpsOK, OwnTxids, CopiesAgree, GivenTxids, ChangesAgree, HistoryOK, HeadStays

\* A new operation at the end of the outbox.
LEMMA Queued ==
  ASSUME IInv, NEW op \in Op, op.txid = txids + 1, op.base \in shown, txids' = txids + 1,
         outbox' = Append(outbox, op), UNCHANGED <<history, air, aside, shown, unqueued>>
  PROVE  /\ outbox' \in Seq(Op) /\ txids' \in Nat
         /\ OpsOK' /\ HistoryOK' /\ HeadStays /\ Held \subseteq Held' /\ op.hash \in Held'
<1>1. Types /\ outbox \in Seq(Op) /\ txids \in Nat
  BY StateFacts
<1>2. /\ outbox' \in Seq(Op) /\ Len(outbox') = Len(outbox) + 1 /\ Len(outbox) \in Nat
      /\ \A n \in 1..Len(outbox) : outbox'[n] = outbox[n]
      /\ outbox'[Len(outbox) + 1] = op
  BY <1>1
<1>3. HeadStays
  BY <1>1, <1>2 DEF HeadStays
<1>4. \A n \in 1..Len(outbox') : n \in 1..Len(outbox) \/ n = Len(outbox) + 1
  BY <1>2
<1>5. Sent' \subseteq Sent \union {op}
  BY <1>2, <1>4 DEF Sent
<1>6. OpsOK' /\ HistoryOK'
  BY <1>1, <1>5, OpsQueued DEF IInv
<1>7. {outbox'[n].hash : n \in 1..Len(outbox')} \subseteq Safe'
  BY DEF Safe
<1>8. \A n \in 1..Len(outbox) : n \in 1..Len(outbox') /\ outbox[n] = outbox'[n]
  BY <1>2
<1>9. \A n \in 1..Len(outbox) : outbox[n].hash \in Safe'
  BY <1>7, <1>8
<1>10. Held \subseteq Held'
  BY <1>1, <1>9, HeldStays
<1>11. op.hash \in Held'
  <2>1. Len(outbox) + 1 \in 1..Len(outbox')
    BY <1>2
  <2>2. outbox'[Len(outbox) + 1].hash \in Safe'
    BY <1>7, <2>1
  <2> QED
    BY <1>2, <2>2 DEF Held
<1> QED
  BY <1>1, <1>2, <1>3, <1>6, <1>10, <1>11

LEMMA Enqueued ==
  ASSUME IInv, Enqueue, UNCHANGED <<history, air, aside, shown, unqueued>>
  PROVE  /\ outbox' \in Seq(Op) /\ txids' \in Nat
         /\ known' \in [saved : BOOLEAN, version : Nat, localHash : Files, localVersion : Nat]
         /\ known'.version = known.version /\ known'.localVersion = known.localVersion
         /\ known'.localHash \in Held'
         /\ OpsOK' /\ HistoryOK' /\ HeadStays /\ Held \subseteq Held'
<1>1. /\ txids \in Nat /\ disk \in Files /\ known.localVersion \in shown
      /\ known \in [saved : BOOLEAN, version : Nat, localHash : Files, localVersion : Nat]
  BY StateFacts
<1> DEFINE op == [txid |-> txids + 1, base |-> known.localVersion, hash |-> disk]
<1>2. /\ op \in Op /\ op.txid = txids + 1 /\ op.base \in shown /\ op.hash = disk
  BY <1>1 DEF Op
<1>3. /\ txids' = txids + 1 /\ outbox' = Append(outbox, op)
      /\ known' = [known EXCEPT !.saved = TRUE, !.localHash = disk]
  BY DEF Enqueue
<1> HIDE DEF op
<1>4. /\ outbox' \in Seq(Op) /\ txids' \in Nat
      /\ OpsOK' /\ HistoryOK' /\ HeadStays /\ Held \subseteq Held' /\ op.hash \in Held'
  BY <1>2, <1>3, Queued
<1>5. known' = [saved |-> TRUE, version |-> known.version, localHash |-> disk,
                localVersion |-> known.localVersion]
  BY <1>1, <1>3
<1> QED
  BY <1>1, <1>2, <1>4, <1>5

\* With the copy on disk still accounted for, a step that is not "take" keeps CopyOK.
LEMMA CopyStays ==
  ASSUME IInv, GoesOn, Held \subseteq Held', shown \subseteq shown',
         known'.localVersion \in shown', known'.localHash \in Held',
         \A i \in Todo' : job'.todo[i] # "replace"
  PROVE  CopyOK'
BY CopyGoesOn DEF IInv, CopyOK

LEMMA ObserveKeeps ==
  ASSUME IInv, Observe
  PROVE  IInv'
<1>1. /\ Does("observe") /\ Proceed(Rest)
      /\ UNCHANGED <<history, wake, air, disk, aside, shown, unqueued>>
  BY DEF Observe, server, seen
<1>2. /\ Types /\ Tip \in Nat /\ disk \in Files /\ txids \in Nat /\ outbox \in Seq(Op)
      /\ known \in [saved : BOOLEAN, version : Nat, localHash : Files, localVersion : Nat]
      /\ known.version <= Tip /\ known.localVersion \in shown /\ known.localHash \in Held
      /\ job.value <= Tip
  BY StateFacts
<1>3. /\ Rest \in JobType /\ Rest.todo = Tail(job.todo) /\ Rest.by = job.by /\ Rest.value <= Tip
  BY <1>1, <1>2, RestIsAJob
<1>4. /\ outbox' \in Seq(Op) /\ txids' \in Nat
      /\ known' \in [saved : BOOLEAN, version : Nat, localHash : Files, localVersion : Nat]
      /\ known'.version = known.version /\ known'.localVersion = known.localVersion
      /\ known'.localHash \in Held'
      /\ OpsOK' /\ HistoryOK' /\ HeadStays /\ Held \subseteq Held'
  <2>1. CASE Enqueue
    BY <1>1, <2>1, Enqueued
  <2>2. CASE UNCHANGED <<txids, outbox, known>>
    <3>1. Held' = Held
      BY <1>1, <2>2 DEF Held, Safe, Tip
    <3> QED
      BY <1>1, <1>2, <2>2, <3>1, NothingQueued
  <2> QED
    BY <2>1, <2>2 DEF Observe, Observes
<1>5. GoesOn /\ \A i \in Todo' : job'.todo[i] # "replace"
  BY <1>1, <1>3, <1>4, JobStep
<1>6. CopyOK'
  BY <1>1, <1>2, <1>4, <1>5, CopyStays
<1> QED
  BY <1>1, <1>2, <1>4, <1>5, <1>6, StepKeeps

LEMMA ScanKeeps ==
  ASSUME IInv, Scan
  PROVE  IInv'
<1>1. /\ Free /\ UNCHANGED <<server, disk, aside, writable, reader, sender, seen>>
  BY DEF Scan
<1>2. /\ Types /\ Tip \in Nat /\ txids \in Nat
      /\ known.version <= Tip /\ known.localVersion \in shown /\ known.localHash \in Held
  BY StateFacts
<1>3. CASE Enqueue /\ UNCHANGED job
  <2>1. UNCHANGED <<history, air, wake, aside, shown, unqueued>>
    BY <1>1 DEF server, seen
  <2>2. /\ outbox' \in Seq(Op) /\ txids' \in Nat
        /\ known' \in [saved : BOOLEAN, version : Nat, localHash : Files, localVersion : Nat]
        /\ known'.version = known.version /\ known'.localVersion = known.localVersion
        /\ known'.localHash \in Held'
        /\ OpsOK' /\ HistoryOK' /\ HeadStays /\ Held \subseteq Held'
    BY <1>3, <2>1, Enqueued
  <2>3. Todo = {}
    BY <1>1 DEF Free, NoJob, Todo
  <2>4. Todo' = {}
    BY <1>3, <2>3 DEF Todo
  <2>5. HeadLanded => HeadLanded'
    BY <2>1, <2>2 DEF HeadLanded, HeadStays, Past, Tip
  <2>6. GoesOn
    <3>1. JobOK'
      BY <2>4 DEF JobOK
    <3>2. DeliveryOK'
      BY <1>1, <1>3, <2>2, <2>4, <2>5 DEF IInv, DeliveryOK, HeadStays
    <3> QED
      BY <1>1, <1>2, <1>3, <3>1, <3>2 DEF GoesOn, IInv, Types, JobType, ReaderType, InTime
  <2>7. CopyOK'
    BY <1>1, <1>2, <2>1, <2>2, <2>4, <2>6, CopyStays
  <2> QED
    BY <1>1, <1>2, <2>1, <2>2, <2>6, <2>7, StepKeeps DEF Types
<1>4. CASE /\ job' = [NoJob EXCEPT !.by = "scan", !.todo = <<"fetch", "install">>]
           /\ UNCHANGED <<txids, outbox, known>>
  <2> DEFINE t == <<"fetch", "install">>
  <2>1. /\ t \in Plans
        /\ t # <<"discard", "fetch", "install">> /\ t # <<"observe", "settle", "fetch", "install">>
    BY DEF Plans
  <2>2. "scan" \in Owners
    BY DEF Owners
  <2>3. job' = [NoJob EXCEPT !.by = "scan", !.todo = t]
    BY <1>4
  <2> HIDE DEF t
  <2>4. t \in Seq(Steps)
    BY <2>1, PlansFit
  <2>5. job' = Job("scan", t, 0)
    BY <2>2, <2>3, <2>4, NewJob, Zenon
  <2> QED
    BY <1>1, <1>2, <1>4, <2>1, <2>2, <2>5, JobStarts DEF server, seen
<1> QED
  BY <1>3, <1>4 DEF Scan

LEMMA SettleKeeps ==
  ASSUME IInv, Settle
  PROVE  IInv'
<1>1. /\ Does("settle") /\ Proceed(Rest) /\ Rebased(Head(outbox), sender.version)
      /\ shown' = shown \union {sender.version}
      /\ UNCHANGED <<history, wake, air, disk, aside, unqueued, txids>>
  BY DEF Settle, server, counters
<1>2. /\ Types /\ Tip \in Nat /\ disk \in Files /\ txids \in Nat /\ outbox \in Seq(Op)
      /\ known \in [saved : BOOLEAN, version : Nat, localHash : Files, localVersion : Nat]
      /\ known.version <= Tip /\ known.localVersion \in shown /\ known.localHash \in Held
      /\ job.value <= Tip
  BY StateFacts
<1>3. /\ Rest \in JobType /\ Rest.todo = Tail(job.todo) /\ Rest.by = job.by /\ Rest.value <= Tip
  BY <1>1, <1>2, RestIsAJob
<1>4. sender.version \in Nat
  BY <1>2 DEF Types
<1>5. HeadLanded
  <2>1. job.todo # << >> /\ Head(job.todo) = "settle" /\ job.todo \in Seq(Steps)
    BY <1>1, <1>2 DEF Does, Types
  <2>2. 1 \in Todo /\ job.todo[1] = "settle"
    BY <2>1 DEF Todo
  <2> QED
    BY <2>2 DEF IInv, DeliveryOK
<1>6. PICK head \in Op : head = Head(outbox) /\ head = outbox[1] /\ outbox # << >>
  BY <1>2, <1>5 DEF HeadLanded
<1>7. PICK size \in Nat : size = Len(outbox) /\ size > 0
  BY <1>2, <1>6
<1>8. PICK version \in Nat : version = sender.version
  BY <1>4
<1>9. outbox' = [n \in 1..size - 1 |->
                  [outbox[n + 1] EXCEPT !.base = IF @ = head.base THEN version ELSE @]]
  BY <1>1, <1>6, <1>7, <1>8 DEF Rebased
<1>10. ASSUME NEW n \in 1..size - 1
       PROVE  /\ n + 1 \in 1..size /\ outbox[n + 1] \in Op /\ outbox'[n] \in Op
              /\ outbox'[n].txid = outbox[n + 1].txid /\ outbox'[n].hash = outbox[n + 1].hash
              /\ outbox'[n].base = outbox[n + 1].base \/ outbox'[n].base = version
  <2>1. n + 1 \in 1..size
    BY <1>7
  <2>2. PICK q \in Op : q = outbox[n + 1]
    BY <2>1, <1>2, <1>7
  <2>3. PICK o : o = [q EXCEPT !.base = IF @ = head.base THEN version ELSE @]
    OBVIOUS
  <2>4. outbox'[n] = o
    BY <1>9, <2>2, <2>3, Zenon
  <2>5. o = [txid |-> q.txid, base |-> IF q.base = head.base THEN version ELSE q.base, hash |-> q.hash]
    BY <2>2, <2>3 DEF Op
  <2> QED
    BY <2>1, <2>2, <2>4, <2>5, <1>8 DEF Op
<1>11. /\ outbox' \in Seq(Op) /\ Len(outbox') = size - 1
       /\ \A n \in 1..size - 1 :
            /\ n + 1 \in 1..size /\ outbox[n + 1] \in Op
            /\ outbox'[n].txid = outbox[n + 1].txid /\ outbox'[n].hash = outbox[n + 1].hash
            /\ outbox'[n].base = outbox[n + 1].base \/ outbox'[n].base = version
  <2>1. size - 1 \in Nat
    BY <1>7
  <2>2. outbox' = [n \in 1..size - 1 |-> outbox'[n]]
    BY <1>9, Zenon
  <2>3. outbox' \in [1..size - 1 -> Op]
    BY <2>2, <1>10, Zenon
  <2>4. outbox' \in Seq(Op) /\ Len(outbox') = size - 1
    BY <2>1, <2>3
  <2> QED
    BY <2>4, <1>10
<1>12. \A op \in Sent' : /\ op.base \in shown'
                        /\ \E o \in Sent : op.txid = o.txid /\ op.hash = o.hash
  <2> SUFFICES ASSUME NEW op \in Sent'
               PROVE  /\ op.base \in shown'
                      /\ \E o \in Sent : op.txid = o.txid /\ op.hash = o.hash
    OBVIOUS
  <2>1. \A o \in Sent : o.base \in shown
    BY DEF IInv, OpsOK, OwnTxids
  <2>2. CASE op \in air
    BY <2>1, <2>2, <1>1 DEF Sent
  <2>3. CASE op \notin air
    <3>1. PICK n \in 1..size - 1 : op = outbox'[n]
      BY <2>3, <1>1, <1>11 DEF Sent
    <3>2. outbox[n + 1] \in Sent
      BY <1>7, <1>11 DEF Sent
    <3> QED
      BY <3>1, <3>2, <2>1, <1>1, <1>8, <1>11
  <2> QED
    BY <2>2, <2>3
<1>13. OpsOK' /\ HistoryOK'
  BY <1>1, <1>12, OpsStay DEF IInv
<1>14. known' \in [saved : BOOLEAN, version : Nat, localHash : Files, localVersion : Nat]
       /\ known'.version = known.version /\ known'.localHash = known.localHash
       /\ known'.localVersion \in shown'
  <2>1. known' = [known EXCEPT !.localVersion = IF known.localVersion = head.base THEN version ELSE @]
    BY <1>1, <1>6, <1>8 DEF Rebased
  <2>2. known' = [saved |-> known.saved, version |-> known.version, localHash |-> known.localHash,
                  localVersion |-> IF known.localVersion = head.base THEN version ELSE known.localVersion]
    BY <2>1, <1>2
  <2> QED
    BY <2>2, <1>1, <1>2, <1>8
<1>15. Held \subseteq Held'
  <2>1. \A n \in 1..Len(outbox) : outbox[n].hash \in Safe'
    <3> SUFFICES ASSUME NEW n \in 1..size
                 PROVE  outbox[n].hash \in Safe'
      BY <1>7
    <3>1. CASE n = 1
      BY <3>1, <1>1, <1>5 DEF HeadLanded, Past, Safe, Tip
    <3>2. CASE n # 1
      <4>1. n - 1 \in 1..size - 1 /\ (n - 1) + 1 = n
        BY <3>2, <1>7
      <4>2. outbox'[n - 1].hash = outbox[n].hash
        BY <4>1, <1>11
      <4> QED
        BY <4>1, <4>2, <1>11 DEF Safe
    <3> QED
      BY <3>1, <3>2
  <2> QED
    BY <1>1, <1>2, <2>1, HeldStays
<1>16. GoesOn /\ \A i \in Todo' : job'.todo[i] # "replace"
  BY <1>1, <1>3, JobStep
<1>17. CopyOK'
  BY <1>1, <1>2, <1>14, <1>15, <1>16, CopyStays
<1> QED
  BY <1>1, <1>2, <1>11, <1>13, <1>14, <1>16, <1>17, StepKeeps

LEMMA DiscardKeeps ==
  ASSUME IInv, Discard
  PROVE  IInv'
<1>1. /\ Does("discard") /\ Proceed(Rest) /\ outbox' = Tail(outbox)
      /\ UNCHANGED <<history, wake, air, disk, known, aside, shown, unqueued, txids>>
  BY DEF Discard, server, counters, seen
<1>2. /\ Types /\ Tip \in Nat /\ disk \in Files /\ txids \in Nat /\ outbox \in Seq(Op)
      /\ known \in [saved : BOOLEAN, version : Nat, localHash : Files, localVersion : Nat]
      /\ known.version <= Tip /\ known.localVersion \in shown /\ known.localHash \in Held
      /\ job.value <= Tip
  BY StateFacts
<1>3. /\ Rest \in JobType /\ Rest.todo = Tail(job.todo) /\ Rest.by = job.by /\ Rest.value <= Tip
  BY <1>1, <1>2, RestIsAJob
<1>4. outbox # << >> /\ outbox[1].hash = None
  <2>1. job.todo # << >> /\ Head(job.todo) = "discard" /\ job.todo \in Seq(Steps)
    BY <1>1, <1>2 DEF Does, Types
  <2>2. 1 \in Todo /\ job.todo[1] = "discard"
    BY <2>1 DEF Todo
  <2> QED
    BY <2>2 DEF IInv, DeliveryOK
<1>5. PICK size \in Nat : size = Len(outbox) /\ size > 0
  BY <1>2, <1>4
<1>6. /\ outbox' \in Seq(Op) /\ Len(outbox') = size - 1
      /\ \A n \in 1..size - 1 : n + 1 \in 1..size /\ outbox'[n] = outbox[n + 1]
  BY <1>1, <1>2, <1>4, <1>5
<1>7. Sent' \subseteq Sent
  BY <1>1, <1>5, <1>6 DEF Sent
<1>8. OpsOK' /\ HistoryOK'
  <2>1. \A op \in Sent' : op.base \in shown' /\ \E o \in Sent : op.txid = o.txid /\ op.hash = o.hash
    BY <1>1, <1>7 DEF IInv, OpsOK, OwnTxids
  <2> QED
    BY <1>1, <2>1, OpsStay DEF IInv
<1>9. Held \subseteq Held'
  <2>1. \A n \in 1..Len(outbox) : outbox[n].hash \in Safe'
    <3> SUFFICES ASSUME NEW n \in 1..size
                 PROVE  outbox[n].hash \in Safe'
      BY <1>5
    <3>1. CASE n = 1
      BY <3>1, <1>4 DEF Safe
    <3>2. CASE n # 1
      <4>1. n - 1 \in 1..size - 1 /\ (n - 1) + 1 = n
        BY <3>2, <1>5
      <4>2. outbox'[n - 1].hash = outbox[n].hash
        BY <4>1, <1>6
      <4> QED
        BY <4>1, <4>2, <1>6 DEF Safe
    <3> QED
      BY <3>1, <3>2
  <2> QED
    BY <1>1, <1>2, <2>1, HeldStays
<1>10. GoesOn /\ \A i \in Todo' : job'.todo[i] # "replace"
  BY <1>1, <1>3, JobStep
<1>11. CopyOK'
  BY <1>1, <1>2, <1>9, <1>10, CopyStays
<1> QED
  BY <1>1, <1>2, <1>6, <1>8, <1>10, <1>11, StepKeeps

\* Steps that change the known row at most.
LEMMA RowStep ==
  ASSUME IInv, NEW step, Does(step), step # "replace",
         NEW j \in JobType, j.todo = Tail(job.todo), j.by = job.by, j.value <= Tip, Proceed(j),
         UNCHANGED <<history, wake, air, disk, outbox, aside, shown, txids>>,
         unqueued \subseteq unqueued',
         known' \in [saved : BOOLEAN, version : Nat, localHash : Files, localVersion : Nat],
         known'.version <= Tip, known'.localVersion \in shown,
         known'.localHash \in Held \union Past \union unqueued'
  PROVE  IInv'
<1>1. /\ Types /\ disk \in Files /\ txids \in Nat /\ outbox \in Seq(Op)
  BY StateFacts
<1>2. OpsOK' /\ HistoryOK' /\ HeadStays
  BY NothingQueued
<1>3. Held \subseteq Held' /\ Past \subseteq Held
  <2>1. \A n \in 1..Len(outbox) : outbox[n].hash \in Safe'
    BY DEF Safe
  <2> QED
    BY <1>1, <2>1, HeldStays
<1>4. GoesOn /\ \A i \in Todo' : job'.todo[i] # "replace"
  BY <1>2, JobStep
<1>5. known'.localHash \in Held'
  BY <1>3 DEF Held
<1>6. CopyOK'
  BY <1>3, <1>4, <1>5, CopyStays
<1> QED
  BY <1>1, <1>2, <1>4, <1>6, StepKeeps

LEMMA ValueChanges ==
  ASSUME NEW j \in JobType, NEW v \in Nat, NEW r, r = [j EXCEPT !.value = v]
  PROVE  r \in JobType /\ r.value = v /\ r.todo = j.todo /\ r.by = j.by
<1>1. r = [by |-> j.by, todo |-> j.todo, value |-> v, local |-> j.local]
  BY DEF JobType
<1> QED
  BY <1>1 DEF JobType

LEMMA FetchKeeps ==
  ASSUME IInv, Fetch \/ SaveCursor
  PROVE  IInv'
<1>1. /\ Types /\ Tip \in Nat /\ disk \in Files
      /\ known \in [saved : BOOLEAN, version : Nat, localHash : Files, localVersion : Nat]
      /\ known.version <= Tip /\ known.localVersion \in shown /\ known.localHash \in Held
  BY StateFacts
<1>2. PICK v \in Nat, step \in {"fetch", "cursor"} :
        v <= Tip /\ Does(step) /\ Proceed([Rest EXCEPT !.value = v])
  <2>1. CASE Fetch
    <3>1. Does("fetch") /\ Proceed([Rest EXCEPT !.value = Tip]) /\ Tip <= Tip
      BY <2>1, <1>1 DEF Fetch
    <3> QED
      BY <3>1, <1>1
  <2>2. CASE SaveCursor
    <3>1. Does("cursor") /\ Proceed([Rest EXCEPT !.value = 0]) /\ 0 <= Tip
      BY <2>2, <1>1 DEF SaveCursor
    <3> QED
      BY <3>1
  <2> QED
    BY <2>1, <2>2
<1>3. Rest \in JobType /\ Rest.todo = Tail(job.todo) /\ Rest.by = job.by
  BY <1>1, <1>2, RestIsAJob
<1>6. PICK j : j = [Rest EXCEPT !.value = v]
  OBVIOUS
<1>4. j \in JobType /\ j.value = v /\ j.todo = Rest.todo /\ j.by = Rest.by
  BY <1>3, <1>6, ValueChanges
<1>5. UNCHANGED <<history, wake, air, disk, known, outbox, aside, shown, unqueued, txids>>
  BY DEF Fetch, SaveCursor, server, stored, seen, counters
<1>7. Proceed(j)
  BY <1>2, <1>6
<1> QED
  BY <1>1, <1>2, <1>3, <1>4, <1>5, <1>7, RowStep

LEMMA KeepKeeps ==
  ASSUME IInv, Keep
  PROVE  IInv'
<1>1. /\ Does("keep") /\ Proceed(Rest)
      /\ known' = [known EXCEPT !.version = job.value, !.localHash = job.local]
      /\ unqueued' = unqueued \union ({job.local} \ {known.localHash})
      /\ UNCHANGED <<history, wake, air, disk, outbox, aside, shown, txids>>
  BY DEF Keep, server, counters
<1>2. /\ Types /\ Tip \in Nat
      /\ known \in [saved : BOOLEAN, version : Nat, localHash : Files, localVersion : Nat]
      /\ known.localVersion \in shown /\ known.localHash \in Held
      /\ job.value \in Nat /\ job.value <= Tip /\ job.local \in Files
  BY StateFacts
<1>3. /\ Rest \in JobType /\ Rest.todo = Tail(job.todo) /\ Rest.by = job.by /\ Rest.value <= Tip
  BY <1>1, <1>2, RestIsAJob
<1>4. known' = [saved |-> known.saved, version |-> job.value, localHash |-> job.local,
                localVersion |-> known.localVersion]
  BY <1>1, <1>2
<1>5. job.local \in Held \union unqueued'
  BY <1>1, <1>2
<1> QED
  BY <1>1, <1>2, <1>3, <1>4, <1>5, RowStep

LEMMA RecordKeeps ==
  ASSUME IInv, Record
  PROVE  IInv'
<1>1. /\ Does("record") /\ Proceed(Rest)
      /\ known' = [known EXCEPT !.version = job.value, !.localHash = Content(job.value),
                                !.localVersion = job.value]
      /\ UNCHANGED <<history, wake, air, disk, outbox, aside, shown, unqueued, txids>>
  BY DEF Record, server, counters, seen
<1>2. /\ Types /\ Tip \in Nat
      /\ known \in [saved : BOOLEAN, version : Nat, localHash : Files, localVersion : Nat]
      /\ job.value \in Nat /\ job.value <= Tip
  BY StateFacts
<1>3. /\ Rest \in JobType /\ Rest.todo = Tail(job.todo) /\ Rest.by = job.by /\ Rest.value <= Tip
  BY <1>1, <1>2, RestIsAJob
<1>4. job.value \in shown
  <2>1. job.todo # << >> /\ Head(job.todo) = "record" /\ job.todo \in Seq(Steps)
    BY <1>1, <1>2 DEF Does, Types
  <2>2. 1 \in Todo /\ job.todo[1] = "record"
    BY <2>1 DEF Todo
  <2> QED
    BY <2>2 DEF IInv, JobOK
<1>5. PICK c : c = Content(job.value)
  OBVIOUS
<1>6. c \in Past /\ c \in Files
  <2>1. CASE job.value = 0
    BY <2>1, <1>5 DEF Content, Past, Files
  <2>2. CASE job.value # 0
    <3>1. job.value \in 1..Tip /\ c = history[job.value].hash
      BY <2>2, <1>2, <1>5 DEF Content
    <3>2. \A v \in 1..Tip : history[v].hash \in Files
      BY <1>2, ChangesAreTyped
    <3> QED
      BY <3>1, <3>2 DEF Past
  <2> QED
    BY <2>1, <2>2
<1>7. known' = [known EXCEPT !.version = job.value, !.localHash = c, !.localVersion = job.value]
  BY <1>1, <1>5
<1>8. known' = [saved |-> known.saved, version |-> job.value, localHash |-> c, localVersion |-> job.value]
  BY <1>2, <1>7
<1>9. /\ known' \in [saved : BOOLEAN, version : Nat, localHash : Files, localVersion : Nat]
      /\ known'.version <= Tip /\ known'.localVersion \in shown /\ known'.localHash \in Past
  BY <1>2, <1>4, <1>6, <1>8
<1> QED
  BY <1>1, <1>3, <1>9, RowStep

LEMMA ReplaceKeeps ==
  ASSUME IInv, Replace
  PROVE  IInv'
<1>1. /\ Does("replace") /\ Proceed(Rest)
      /\ disk' = Content(job.value) /\ shown' = shown \union {job.value}
      /\ UNCHANGED <<history, wake, air, known, outbox, aside, unqueued, txids>>
  BY DEF Replace, server, stored, counters
<1>2. /\ Types /\ Tip \in Nat /\ txids \in Nat /\ outbox \in Seq(Op)
      /\ known \in [saved : BOOLEAN, version : Nat, localHash : Files, localVersion : Nat]
      /\ known.version <= Tip /\ known.localVersion \in shown /\ known.localHash \in Held
      /\ job.value \in Nat /\ job.value <= Tip
  BY StateFacts
<1>3. /\ Rest \in JobType /\ Rest.todo = Tail(job.todo) /\ Rest.by = job.by /\ Rest.value = job.value
  BY <1>1, <1>2, RestIsAJob
<1>4. disk' \in Files
  <2>1. \A v \in 1..Tip : history[v].hash \in Files
    BY <1>2, ChangesAreTyped
  <2>2. CASE job.value = 0
    BY <2>2, <1>1 DEF Content, Files
  <2>3. CASE job.value # 0
    BY <2>1, <2>3, <1>1, <1>2 DEF Content
  <2> QED
    BY <2>2, <2>3
<1>5. /\ 1 \in Todo /\ job.todo[1] = "replace"
      /\ \A i \in Todo' : i + 1 \in Todo /\ job'.todo[i] = job.todo[i + 1] /\ job' = Rest
      /\ \/ job' = Rest /\ sender' = sender /\ reader' = reader
         \/ job' = NoJob /\ (IF job.by = "sender" THEN sender' = Idle ELSE sender' = sender)
      /\ job' \in JobType /\ reader' \in [at : Places, to : Nat, next : Nat]
      /\ sender' \in [at : Sendings, version : Nat]
      /\ reader'.to <= reader.to
  <2>1. InTime
    BY DEF IInv
  <2> QED
    BY <1>1, <1>2, <1>3, <2>1, StepDone
<1>6. reader'.to <= Tip
  <2>1. reader.to \in Nat /\ reader.to <= Tip /\ reader'.to \in Nat
    BY <1>5 DEF IInv, Types, InTime
  <2>2. PICK m \in Nat, n \in Nat, k \in Nat : m = reader'.to /\ n = reader.to /\ k = Tip
    BY <1>2, <2>1
  <2> QED
    BY <1>5, <2>1, <2>2
<1>7. NoJob.value = 0 /\ NoJob.by = "nobody" /\ Len(NoJob.todo) = 0
  BY DEF NoJob
<1>8. job'.value <= Tip
  BY <1>2, <1>3, <1>5, <1>7
<1>9. \A i \in Todo' : job'.todo[i] \notin {"replace", "discard"}
  BY <1>5 DEF IInv, JobOK, Todo
<1>10. \A i \in Todo' : job'.todo[i] = "record" => i = 1 /\ job'.value \in shown'
  <2> SUFFICES ASSUME NEW i \in Todo', job'.todo[i] = "record"
               PROVE  i = 1 /\ job'.value \in shown'
    OBVIOUS
  <2>1. i \in Nat /\ i >= 1
    BY DEF Todo
  <2>2. i + 1 = 2
    BY <1>5, <2>1 DEF IInv, JobOK
  <2> QED
    BY <2>1, <2>2, <1>1, <1>3, <1>5
<1>11. \A i, k \in Todo' :
        job'.todo[i] \in {"settle", "discard"} /\ job'.todo[k] \in {"settle", "discard"} => i = k
  <2> SUFFICES ASSUME NEW i \in Todo', NEW k \in Todo',
                      job'.todo[i] \in {"settle", "discard"}, job'.todo[k] \in {"settle", "discard"}
               PROVE  i = k
    OBVIOUS
  <2>1. i + 1 = k + 1
    BY <1>5 DEF IInv, JobOK
  <2> QED
    BY <2>1 DEF Todo
<1>12. JobOK'
  BY <1>9, <1>10, <1>11 DEF JobOK
<1>13. DeliveryOK'
  <2>1. Past' = Past /\ HeadStays
    BY <1>1 DEF Past, Tip, HeadStays
  <2>2. \/ job'.by = job.by /\ sender' = sender
        \/ /\ job'.by = "nobody" /\ Todo' = {}
           /\ (IF job.by = "sender" THEN sender' = Idle ELSE sender' = sender)
    <3>1. job' = NoJob => Todo' = {}
      BY <1>7 DEF Todo
    <3> QED
      BY <1>3, <1>5, <1>7, <3>1
  <2> QED
    BY <1>3, <1>5, <1>9, <2>1, <2>2, DeliveryGoesOn DEF IInv
<1>14. GoesOn
  BY <1>5, <1>6, <1>8, <1>12, <1>13 DEF GoesOn, ReaderType
<1>15. OpsOK' /\ HistoryOK'
  <2>1. \A op \in Sent' : op.base \in shown' /\ \E o \in Sent : op.txid = o.txid /\ op.hash = o.hash
    BY <1>1 DEF IInv, OpsOK, OwnTxids, Sent
  <2> QED
    BY <1>1, <2>1, OpsStay DEF IInv
<1>16. Held' = Held
  BY <1>1 DEF Held, Safe, Tip
<1>17. CopyOK'
  BY <1>1, <1>2, <1>9, <1>14, <1>16, CopyStays
<1> QED
  BY <1>1, <1>2, <1>4, <1>14, <1>15, <1>17, StepKeeps

\* The rest of a job, with two new steps in the place of "install".
LEMMA StepsInserted ==
  ASSUME IInv, Does("install"), NEW a \in Steps, NEW b \in Steps, NEW local \in Files, NEW j,
         j = [job EXCEPT !.todo = <<a, b>> \o Tail(@), !.local = local], Proceed(j)
  PROVE  /\ job' \in JobType /\ job'.by = job.by /\ job'.value = job.value /\ job'.local = local
         /\ 1 \in Todo' /\ job'.todo[1] = a /\ 2 \in Todo' /\ job'.todo[2] = b
         /\ \A i \in Todo' : i = 1 \/ i = 2 \/ (i - 1 \in Todo \ {1} /\ job'.todo[i] = job.todo[i - 1])
         /\ UNCHANGED <<reader, sender>>
<1>1. job \in JobType /\ job.todo \in Seq(Steps) /\ job.todo # << >>
  BY DEF IInv, Types, JobType, Does
<1>2. PICK t : t = <<a, b>> \o Tail(job.todo)
  OBVIOUS
<1>3. PICK n \in Nat : n = Len(job.todo) /\ n > 0
  BY <1>1
<1>4. PICK rest \in Seq(Steps) : rest = Tail(job.todo) /\ Len(rest) = n - 1
  <2>1. Tail(job.todo) \in Seq(Steps) /\ Len(Tail(job.todo)) = n - 1
    BY <1>1, <1>3
  <2> QED
    BY <2>1
<1>5. \A i \in 1..n - 1 : rest[i] = job.todo[i + 1]
  BY <1>1, <1>3, <1>4
<1>6. /\ t \in Seq(Steps) /\ Len(t) = n + 1 /\ t[1] = a /\ t[2] = b
      /\ \A i \in 3..n + 1 : t[i] = rest[i - 2]
  <2>1. <<a, b>> \in Seq(Steps) /\ Len(<<a, b>>) = 2 /\ <<a, b>>[1] = a /\ <<a, b>>[2] = b
    OBVIOUS
  <2> QED
    BY <1>2, <1>4, <2>1
<1>7. j = [by |-> job.by, todo |-> t, value |-> job.value, local |-> local]
  <2>1. j = [job EXCEPT !.todo = t, !.local = local]
    BY <1>2
  <2> QED
    BY <1>1, <2>1 DEF JobType
<1>8. j.todo # << >>
  BY <1>6, <1>7
<1>9. job' = j /\ UNCHANGED <<reader, sender>>
  BY <1>8 DEF Proceed
<1>10. \A i \in 3..n + 1 : i - 1 \in 2..n /\ t[i] = job.todo[i - 1]
  <2> SUFFICES ASSUME NEW i \in 3..n + 1
               PROVE  i - 1 \in 2..n /\ t[i] = job.todo[i - 1]
    OBVIOUS
  <2>1. i - 2 \in 1..n - 1 /\ (i - 2) + 1 = i - 1 /\ i - 1 \in 2..n
    OBVIOUS
  <2> QED
    BY <1>5, <1>6, <2>1
<1>11. Todo' = 1..n + 1 /\ Todo = 1..n
  BY <1>3, <1>6, <1>7, <1>9 DEF Todo
<1>12. job' \in JobType /\ job'.by = job.by /\ job'.value = job.value /\ job'.local = local /\ job'.todo = t
  BY <1>1, <1>6, <1>7, <1>9 DEF JobType
<1>13. \A i \in Todo' : i = 1 \/ i = 2 \/ (i - 1 \in Todo \ {1} /\ t[i] = job.todo[i - 1])
  <2> SUFFICES ASSUME NEW i \in 1..n + 1, i # 1, i # 2
               PROVE  i - 1 \in (1..n) \ {1} /\ t[i] = job.todo[i - 1]
    BY <1>11
  <2>1. i \in 3..n + 1
    OBVIOUS
  <2> QED
    BY <1>10, <2>1
<1> QED
  BY <1>6, <1>9, <1>11, <1>12, <1>13

\* What the steps after two inserted ones may rely on is what they could rely on before.
LEMMA InsertionGoesOn ==
  ASSUME IInv, Does("install"), NEW a \in Steps, NEW b \in Steps,
         <<a, b>> = <<"observe", "keep">> \/ <<a, b>> = <<"replace", "record">>,
         NEW local \in Files, NEW j,
         j = [job EXCEPT !.todo = <<a, b>> \o Tail(@), !.local = local], Proceed(j),
         UNCHANGED <<history, outbox>>, shown' = shown
  PROVE  /\ GoesOn
         /\ job'.local = local /\ job'.value = job.value
         /\ \A i \in Todo' : job'.todo[i] = "replace" => a = "replace"
<1>1. /\ job' \in JobType /\ job'.by = job.by /\ job'.value = job.value /\ job'.local = local
      /\ 1 \in Todo' /\ job'.todo[1] = a /\ 2 \in Todo' /\ job'.todo[2] = b
      /\ \A i \in Todo' : i = 1 \/ i = 2 \/ (i - 1 \in Todo \ {1} /\ job'.todo[i] = job.todo[i - 1])
      /\ UNCHANGED <<reader, sender>>
  BY StepsInserted
<1>2. (a = "observe" /\ b = "keep") \/ (a = "replace" /\ b = "record")
  OBVIOUS
<1>3. job.todo[1] = "install"
  <2>1. job.todo # << >> /\ Head(job.todo) = "install" /\ job.todo \in Seq(Steps)
    BY DEF IInv, Does, Types
  <2> QED
    BY <2>1
<1>4. \A k \in Todo \ {1} : job.todo[k] \notin {"replace", "discard", "record"}
  BY <1>3 DEF IInv, JobOK, Todo
<1>5. \A i \in Todo' : i = 1 \/ i = 2 \/ job'.todo[i] \notin {"replace", "discard", "record"}
  BY <1>1, <1>4
<1>6. JobOK'
  <2>1. \A i \in Todo' : job'.todo[i] \in {"replace", "discard"} => i = 1
    BY <1>1, <1>2, <1>5
  <2>2. \A i \in Todo' : job'.todo[i] = "record" => i = 2 /\ job'.todo[1] = "replace"
    BY <1>1, <1>2, <1>5
  <2>3. \A i, k \in Todo' :
          job'.todo[i] \in {"settle", "discard"} /\ job'.todo[k] \in {"settle", "discard"} => i = k
    <3> SUFFICES ASSUME NEW i \in Todo', NEW k \in Todo',
                        job'.todo[i] \in {"settle", "discard"}, job'.todo[k] \in {"settle", "discard"}
                 PROVE  i = k
      OBVIOUS
    <3>1. i # 1 /\ i # 2 /\ k # 1 /\ k # 2
      BY <1>1, <1>2
    <3>2. i - 1 = k - 1
      BY <3>1, <1>1 DEF IInv, JobOK
    <3> QED
      BY <3>2 DEF Todo
  <2> QED
    BY <2>1, <2>2, <2>3 DEF JobOK
<1>7. DeliveryOK'
  <2>1. HeadLanded' = HeadLanded
    BY DEF HeadLanded, Past, Tip
  <2>2. \A i \in Todo' : job'.todo[i] = "settle" => \E k \in Todo : job.todo[k] = "settle"
    BY <1>1, <1>2
  <2>3. \A i \in Todo' : job'.todo[i] # "discard"
    BY <1>1, <1>2, <1>5
  <2> QED
    BY <1>1, <2>1, <2>2, <2>3 DEF IInv, DeliveryOK
<1>8. GoesOn
  BY <1>1, <1>6, <1>7 DEF IInv, Types, InTime, GoesOn, ReaderType
<1>9. \A i \in Todo' : job'.todo[i] = "replace" => a = "replace"
  BY <1>1, <1>2, <1>5
<1> QED
  BY <1>1, <1>8, <1>9

LEMMA QueueFirstKeeps ==
  ASSUME IInv, Install, QueueFirst
  PROVE  IInv'
<1>1. /\ Does("install")
      /\ Proceed([job EXCEPT !.todo = <<"observe", "keep">> \o Tail(@), !.local = disk])
      /\ UNCHANGED <<history, wake, air, disk, known, outbox, aside, shown, unqueued, txids>>
  BY DEF Install, QueueFirst, server, seen
<1>2. /\ Types /\ Tip \in Nat /\ disk \in Files /\ txids \in Nat /\ outbox \in Seq(Op)
      /\ known \in [saved : BOOLEAN, version : Nat, localHash : Files, localVersion : Nat]
      /\ known.version <= Tip /\ known.localVersion \in shown /\ known.localHash \in Held
  BY StateFacts
<1>3. PICK a \in Steps, b \in Steps : a = "observe" /\ b = "keep"
  BY DEF Steps
<1>4. PICK j : j = [job EXCEPT !.todo = <<a, b>> \o Tail(@), !.local = disk]
  OBVIOUS
<1>5. Proceed(j)
  BY <1>1, <1>3, <1>4
<1>6. /\ GoesOn
      /\ \A i \in Todo' : job'.todo[i] = "replace" => a = "replace"
  BY <1>1, <1>2, <1>3, <1>4, <1>5, InsertionGoesOn
<1>7. \A i \in Todo' : job'.todo[i] # "replace"
  BY <1>3, <1>6
<1>8. OpsOK' /\ HistoryOK'
  BY <1>1, NothingQueued
<1>9. Held' = Held
  BY <1>1 DEF Held, Safe, Tip
<1>10. CopyOK'
  BY <1>1, <1>2, <1>6, <1>7, <1>9, CopyStays
<1> QED
  BY <1>1, <1>2, <1>6, <1>8, <1>10, StepKeeps

LEMMA TakeKeeps ==
  ASSUME IInv, Install, Take
  PROVE  IInv'
<1>1. /\ Does("install") /\ (Edited => ~writable)
      /\ aside' = IF Edited THEN aside \union {disk} ELSE aside
      /\ known' = [known EXCEPT !.saved = TRUE, !.version = job.value]
      /\ Proceed([job EXCEPT !.todo = <<"replace", "record">> \o Tail(@), !.local = disk])
      /\ UNCHANGED <<history, wake, air, disk, outbox, shown, unqueued, txids>>
  BY DEF Install, Take, server, seen
<1>2. /\ Types /\ Tip \in Nat /\ disk \in Files /\ txids \in Nat /\ outbox \in Seq(Op)
      /\ known \in [saved : BOOLEAN, version : Nat, localHash : Files, localVersion : Nat]
      /\ known.version <= Tip /\ known.localVersion \in shown /\ known.localHash \in Held
      /\ job.value \in Nat /\ job.value <= Tip
  BY StateFacts
<1>3. PICK a \in Steps, b \in Steps : a = "replace" /\ b = "record"
  BY DEF Steps
<1>4. PICK j : j = [job EXCEPT !.todo = <<a, b>> \o Tail(@), !.local = disk]
  OBVIOUS
<1>5. Proceed(j)
  BY <1>1, <1>3, <1>4
<1>6. GoesOn /\ job'.local = disk /\ job'.value = job.value
  BY <1>1, <1>2, <1>3, <1>4, <1>5, InsertionGoesOn
<1>7. OpsOK' /\ HistoryOK'
  BY <1>1, NothingQueued
<1>8. Held \subseteq Held' /\ Past \subseteq Held
  <2>1. \A n \in 1..Len(outbox) : outbox[n].hash \in Safe'
    BY <1>1 DEF Safe
  <2> QED
    BY <1>1, <1>2, <2>1, HeldStays
<1>9. known' = [saved |-> TRUE, version |-> job.value, localHash |-> known.localHash,
                localVersion |-> known.localVersion]
  BY <1>1, <1>2
<1>10. disk \in Held'
  <2>1. CASE Edited
    BY <2>1, <1>1 DEF Held, Safe
  <2>2. CASE disk = None
    BY <2>2 DEF Held, Safe
  <2>3. CASE disk = known.localHash
    BY <2>3, <1>2, <1>8
  <2>4. CASE disk = Content(known.version)
    <3>1. Content(known.version) \in Past
      BY <1>2 DEF Content, Past
    <3> QED
      BY <2>4, <3>1, <1>8
  <2>5. CASE disk = Content(job.value)
    <3>1. Content(job.value) \in Past
      BY <1>2 DEF Content, Past
    <3> QED
      BY <2>5, <3>1, <1>8
  <2> QED
    BY <2>1, <2>2, <2>3, <2>4, <2>5 DEF Edited, Echo
<1>13. CopyOK'
  <2>1. 0 \in shown' /\ known'.localVersion \in shown' /\ known'.localHash \in Held'
    BY <1>1, <1>2, <1>8, <1>9 DEF IInv, CopyOK
  <2> QED
    BY <1>6, <1>10, <2>1 DEF CopyOK
<1>14. /\ known' \in [saved : BOOLEAN, version : Nat, localHash : Files, localVersion : Nat]
       /\ known'.version <= Tip
  BY <1>2, <1>9
<1> QED
  BY <1>1, <1>2, <1>6, <1>7, <1>13, <1>14, StepKeeps

LEMMA NoteKeeps ==
  ASSUME IInv, Install, Note
  PROVE  IInv'
<1>1. /\ Does("install") /\ Proceed(Rest)
      /\ known' = IF known.saved THEN [known EXCEPT !.version = job.value] ELSE known
      /\ UNCHANGED <<history, wake, air, disk, outbox, aside, shown, unqueued, txids>>
  BY DEF Install, Note, server, seen
<1>2. /\ Types /\ Tip \in Nat
      /\ known \in [saved : BOOLEAN, version : Nat, localHash : Files, localVersion : Nat]
      /\ known.version <= Tip /\ known.localVersion \in shown /\ known.localHash \in Held
      /\ job.value \in Nat /\ job.value <= Tip
  BY StateFacts
<1>3. /\ Rest \in JobType /\ Rest.todo = Tail(job.todo) /\ Rest.by = job.by /\ Rest.value <= Tip
  BY <1>1, <1>2, RestIsAJob
<1>4. /\ known' \in [saved : BOOLEAN, version : Nat, localHash : Files, localVersion : Nat]
      /\ known'.version <= Tip /\ known'.localVersion \in shown /\ known'.localHash \in Held
  <2>1. CASE known.saved
    <3>1. known' = [known EXCEPT !.version = job.value]
      BY <1>1, <2>1
    <3>2. known' = [saved |-> known.saved, version |-> job.value, localHash |-> known.localHash,
                    localVersion |-> known.localVersion]
      BY <1>2, <3>1
    <3> QED
      BY <1>2, <3>2
  <2>2. CASE ~known.saved
    BY <1>1, <1>2, <2>2
  <2> QED
    BY <2>1, <2>2
<1> QED
  BY <1>1, <1>3, <1>4, RowStep

LEMMA KeepFirstKeeps ==
  ASSUME IInv, Install, KeepFirst
  PROVE  IInv'
<1>1. /\ Does("install") /\ Proceed(Rest) /\ outbox = << >> /\ txids' = txids + 1
      /\ outbox' = <<[txid |-> txids + 1, base |-> 0, hash |-> disk]>>
      /\ known' = [saved |-> TRUE, version |-> job.value, localHash |-> disk, localVersion |-> 0]
      /\ UNCHANGED <<history, wake, air, disk, aside, shown, unqueued>>
  BY DEF Install, KeepFirst, Pending, server, seen
<1>2. /\ Types /\ Tip \in Nat /\ disk \in Files /\ txids \in Nat /\ 0 \in shown
      /\ job.value \in Nat /\ job.value <= Tip
  BY StateFacts
<1>3. /\ Rest \in JobType /\ Rest.todo = Tail(job.todo) /\ Rest.by = job.by /\ Rest.value <= Tip
  BY <1>1, <1>2, RestIsAJob
<1>4. PICK op \in Op : op = [txid |-> txids + 1, base |-> 0, hash |-> disk]
  <2>1. 0 \in Nat /\ txids + 1 \in Nat
    BY <1>2
  <2>2. [txid |-> txids + 1, base |-> 0, hash |-> disk] \in Op
    BY <1>2, <2>1 DEF Op
  <2> QED
    BY <2>2, Zenon
<1>5. outbox' = Append(outbox, op)
  BY <1>1, <1>4
<1>6. /\ outbox' \in Seq(Op) /\ txids' \in Nat
      /\ OpsOK' /\ HistoryOK' /\ HeadStays /\ Held \subseteq Held' /\ disk \in Held'
  BY <1>1, <1>2, <1>4, <1>5, Queued
<1>7. GoesOn /\ \A i \in Todo' : job'.todo[i] # "replace"
  BY <1>1, <1>3, <1>6, JobStep
<1>8. /\ known' \in [saved : BOOLEAN, version : Nat, localHash : Files, localVersion : Nat]
      /\ known'.version <= Tip /\ known'.localVersion \in shown /\ known'.localHash \in Held'
  BY <1>1, <1>2, <1>6
<1>9. CopyOK'
  BY <1>1, <1>6, <1>7, <1>8, CopyStays
<1> QED
  BY <1>1, <1>2, <1>6, <1>7, <1>8, <1>9, StepKeeps
-----------------------------------------------------------------------------
(***************************************************************************)
(* Failures: a job that is dropped leaves nothing behind.                  *)
(***************************************************************************)
LEMMA JobDropped ==
  ASSUME IInv, job' = NoJob, reader' \in ReaderType, reader'.to <= Tip,
         sender' = Idle \/ (sender' = sender /\ job.by # "sender"),
         UNCHANGED <<history, wake, disk, known, outbox, aside, shown, unqueued, txids>>,
         air' = air \/ \E op \in Sent : air' = air \union {op}
  PROVE  IInv'
<1>1. Types /\ Tip \in Nat
  BY StateFacts
<1>2. NoJob \in JobType /\ NoJob.value = 0 /\ NoJob.by = "nobody" /\ Len(NoJob.todo) = 0
  BY NoJobIsAJob DEF NoJob
<1>3. Todo' = {}
  BY <1>2 DEF Todo
<1>4. Sent' \subseteq Sent
  BY DEF Sent
<1>5. OpsOK' /\ HistoryOK'
  <2>1. \A op \in Sent' : op.base \in shown' /\ \E o \in Sent : op.txid = o.txid /\ op.hash = o.hash
    BY <1>4 DEF IInv, OpsOK, OwnTxids
  <2> QED
    BY <2>1, OpsStay DEF IInv
<1>6. Types'
  <2>1. Idle \in [at : Sendings, version : Nat]
    BY DEF Idle, Sendings
  <2>2. air' \subseteq Op
    BY <1>1, SentAreOps DEF Types
  <2> QED
    BY <1>1, <1>2, <2>1, <2>2 DEF Types, JobType, ReaderType
<1>7. InTime' /\ JobOK'
  BY <1>1, <1>2, <1>3 DEF IInv, InTime, JobOK, Tip
<1>8. DeliveryOK'
  <2>1. HeadLanded' = HeadLanded
    BY DEF HeadLanded, Past, Tip
  <2> QED
    BY <1>3, <2>1 DEF IInv, DeliveryOK, Idle
<1>9. Held' = Held
  BY DEF Held, Safe, Tip
<1>10. CopyOK'
  BY <1>3, <1>9 DEF IInv, CopyOK
<1> QED
  BY <1>5, <1>6, <1>7, <1>8, <1>10 DEF IInv

LEMMA ReadFailsKeeps ==
  ASSUME IInv, ReadFails
  PROVE  IInv'
<1>1. UNCHANGED <<history, wake, air, disk, known, outbox, aside, shown, unqueued, txids>>
  BY DEF ReadFails, server, stored, seen
<1>2. /\ Tip \in Nat /\ disk \in Files /\ wake \in Nat
      /\ reader \in ReaderType /\ reader.to <= Tip
  BY TipIsNat DEF IInv, Types, InTime, ReaderType
<1>3. AfterFailure \in ReaderType /\ AfterFailure.to <= Tip
  BY <1>2, DownIsReader DEF AfterFailure
<1>4. CASE reader' = AfterFailure /\ UNCHANGED <<sender, job>>
  BY <1>1, <1>2, <1>3, <1>4, ReaderStep DEF ReaderType
<1>5. CASE /\ job' = NoJob
           /\ reader' = IF job.by = "reader" THEN AfterFailure ELSE reader
           /\ sender' = IF job.by = "sender" THEN Idle ELSE sender
  <2>1. reader' \in ReaderType /\ reader'.to <= Tip
    BY <1>2, <1>3, <1>5
  <2>2. sender' = Idle \/ (sender' = sender /\ job.by # "sender")
    BY <1>5
  <2> QED
    BY <1>1, <1>5, <2>1, <2>2, JobDropped
<1> QED
  BY <1>4, <1>5 DEF ReadFails

LEMMA CrashKeeps ==
  ASSUME IInv, Crash
  PROVE  IInv'
<1>1. /\ reader' = Down /\ sender' = Idle /\ job' = NoJob
      /\ UNCHANGED <<history, wake, disk, known, outbox, aside, shown, unqueued, txids>>
  BY DEF Crash, stored, seen
<1>2. Tip \in Nat /\ outbox \in Seq(Op)
  BY StateFacts
<1>3. reader' \in ReaderType /\ reader'.to <= Tip
  BY <1>1, <1>2, DownIsReader
<1>4. air' = air \/ \E op \in Sent : air' = air \union {op}
  <2>1. CASE sender.at = "sent" /\ air' = air \union {Head(outbox)}
    <3>1. outbox # << >>
      BY <2>1 DEF IInv, DeliveryOK
    <3>2. 1 \in 1..Len(outbox) /\ Head(outbox) = outbox[1]
      BY <1>2, <3>1
    <3> QED
      BY <2>1, <3>2 DEF Sent
  <2> QED
    BY <2>1 DEF Crash
<1> QED
  BY <1>1, <1>3, <1>4, JobDropped
-----------------------------------------------------------------------------
LEMMA InitHolds ==
  ASSUME Init
  PROVE  IInv
<1>1. /\ history = << >> /\ air = {} /\ outbox = << >> /\ disk = None /\ wake = 0 /\ txids = 0
      /\ known = NoRow /\ reader = Down /\ sender = Idle /\ job = NoJob /\ shown = {0}
  BY DEF Init
<1>2. NoJob \in JobType /\ NoJob.value = 0 /\ NoJob.by = "nobody" /\ Len(NoJob.todo) = 0
  BY NoJobIsAJob DEF NoJob
<1>3. Tip = 0 /\ Len(outbox) = 0 /\ Todo = {} /\ Sent = {}
  BY <1>1, <1>2 DEF Tip, Todo, Sent
<1>4. None \in Files
  BY DEF Files
<1>5. Types
  <2>1. NoRow \in [saved : BOOLEAN, version : Nat, localHash : Files, localVersion : Nat]
    BY <1>4 DEF NoRow
  <2>2. Idle \in [at : Sendings, version : Nat]
    BY DEF Idle, Sendings
  <2>3. << >> \in Seq(Op) /\ << >> \in Seq([txid : Nat, parent : Nat, hash : Files])
    OBVIOUS
  <2> QED
    BY <1>1, <1>2, <1>4, <2>1, <2>2, <2>3, DownIsReader DEF Types, JobType, ReaderType
<1>6. InTime
  BY <1>1, <1>2, <1>3, DownIsReader DEF InTime, NoRow
<1>7. OpsOK /\ HistoryOK
  BY <1>3 DEF OpsOK, OwnTxids, CopiesAgree, GivenTxids, ChangesAgree, HistoryOK
<1>8. JobOK
  BY <1>3 DEF JobOK
<1>9. DeliveryOK
  BY <1>1, <1>3 DEF DeliveryOK, Idle
<1>10. CopyOK
  BY <1>1, <1>3 DEF CopyOK, NoRow, Held, Safe
<1> QED
  BY <1>5, <1>6, <1>7, <1>8, <1>9, <1>10 DEF IInv

LEMMA StutterKeeps ==
  ASSUME IInv, UNCHANGED vars
  PROVE  IInv'
<1>1. /\ UNCHANGED <<history, wake, air, disk, known, outbox, aside, reader, sender, job>>
      /\ UNCHANGED <<shown, unqueued, txids>>
  BY DEF vars, server, stored, fibers, seen, counters
<1>2. /\ disk \in Files /\ wake \in Nat /\ reader \in ReaderType /\ reader.to <= Tip
  BY DEF IInv, Types, InTime, ReaderType
<1> QED
  BY <1>1, <1>2, ReaderStep DEF ReaderType

LEMMA NextKeeps ==
  ASSUME IInv, Next
  PROVE  IInv'
<1>1. CASE \E c \in Files : Write(c)
  BY <1>1, WriteKeeps
<1>2. CASE (\E c \in Files : Edit(c)) \/ Publish \/ Acknowledge
  BY <1>2, QuietKeeps
<1>3. CASE \E op \in air : Arrive(op)
  BY <1>3, ArriveKeeps
<1>4. CASE Start \/ ReadAll \/ ReadPage \/ FollowWake
  BY <1>4, ReaderKeeps
<1>5. CASE Apply \/ CheckHeads
  BY <1>5, ApplyKeeps, CheckHeadsKeeps
<1>6. CASE Delivers
  BY <1>6, SendKeeps, ReceiveKeeps, ConcludeKeeps DEF Delivers
<1>7. CASE Install
  BY <1>7, NoteKeeps, KeepFirstKeeps, QueueFirstKeeps, TakeKeeps DEF Install
<1>8. CASE Observe \/ Settle \/ Discard \/ Fetch \/ Keep \/ Replace \/ Record \/ SaveCursor
  BY <1>8, ObserveKeeps, SettleKeeps, DiscardKeeps, FetchKeeps, KeepKeeps, ReplaceKeeps, RecordKeeps
<1>9. CASE Scan \/ LoseAnswer \/ ReadFails \/ Crash
  BY <1>9, ScanKeeps, LoseAnswerKeeps, ReadFailsKeeps, CrashKeeps
<1> QED
  BY <1>1, <1>2, <1>3, <1>4, <1>5, <1>6, <1>7, <1>8, <1>9 DEF Next, Reads, Works

LEMMA Inductive == Spec => []IInv
<1>1. Init => IInv
  BY InitHolds
<1>2. IInv /\ [Next]_vars => IInv'
  BY NextKeeps, StutterKeeps
<1> QED
  BY <1>1, <1>2, PTL DEF Spec

(***************************************************************************)
(* A change the mirror sends lands once while the server remembers it, and *)
(* names a version that the disk was based on: commit and recall of        *)
(* folder-store.ts, enqueue and settle of state.ts.                        *)
(***************************************************************************)
THEOREM HistoryStaysTrue == Spec => []HistoryIsTrue
<1>1. IInv => HistoryIsTrue
  <2> SUFFICES ASSUME IInv
               PROVE  HistoryIsTrue
    OBVIOUS
  <2>1. \A n \in 1..Len(outbox) : outbox[n].base \in shown
    BY DEF IInv, OpsOK, OwnTxids, Sent
  <2> QED
    BY <2>1 DEF IInv, HistoryOK, HistoryIsTrue
<1> QED
  BY <1>1, Inductive, PTL

(***************************************************************************)
(* What install.ts replaces on disk is in the folder's history, in the     *)
(* outbox or kept aside, but for the two cases that NothingLost names.     *)
(***************************************************************************)
THEOREM NoEditIsOverwrittenUnseen == Spec => NothingLost
<1>1. ASSUME IInv, [Next]_vars, Does("replace"), disk = job.local, disk' # disk
      PROVE  disk \in Safe \union unqueued
  <2>1. job.todo # << >> /\ Head(job.todo) = "replace" /\ job.todo \in Seq(Steps)
    BY <1>1 DEF IInv, Types, Does
  <2>2. 1 \in Todo /\ job.todo[1] = "replace"
    BY <2>1 DEF Todo
  <2> QED
    BY <1>1, <2>2 DEF IInv, CopyOK, Held
<1>2. IInv /\ [Next]_vars => [Does("replace") /\ disk = job.local /\ disk' # disk => disk \in Safe \union unqueued]_vars
  BY <1>1
<1> QED
  BY <1>2, Inductive, PTL DEF Spec, NothingLost
=============================================================================
