-------------------------- MODULE MCStreamProtocol --------------------------
(***************************************************************************)
(* Instances of StreamProtocol for TLC.                                    *)
(***************************************************************************)
EXTENDS StreamWire, TLC

CONSTANTS text, json, p1, c1, c2

AppendOf(count, close, position, expected, streamSeq, contentType) ==
  [kind |-> "append", bytes |-> count > 0, count |-> count, close |-> close,
   position |-> position, expected |-> expected, streamSeq |-> streamSeq,
   contentType |-> contentType]

Pos(epoch, seq) == [id |-> p1, epoch |-> epoch, seq |-> seq]

CreateOf(count, contentType, ttl) ==
  [kind |-> "create", count |-> count, close |-> FALSE, contentType |-> contentType,
   ttl |-> ttl, expiresAt |-> None]

PlainOf(kind) == [kind |-> kind]

\* Writers that race: a producer with its retries, its next position and a new
\* epoch, a conditional write, two Stream-Seq writers and two ways to close.
RaceRequests ==
  {CreateOf(0, text, None),
   AppendOf(2, FALSE, Pos(0, 0), None, 0, text),
   AppendOf(1, FALSE, Pos(0, 1), None, 0, text),
   AppendOf(1, FALSE, Pos(1, 0), None, 0, text),
   AppendOf(1, FALSE, None, 0, 0, text),
   AppendOf(1, FALSE, None, None, 2, text),
   AppendOf(1, TRUE, None, 2, 3, text),
   AppendOf(0, TRUE, Pos(0, 0), None, 1, text)}

\* The life of a stream with a TTL: renewals, sweeps, removal and re-creation.
LifeRequests ==
  {CreateOf(0, text, 1),
   AppendOf(1, FALSE, Pos(0, 0), None, 0, text),
   AppendOf(0, TRUE, None, None, 0, text),
   PlainOf("read"), PlainOf("remove"), PlainOf("sweep")}

\* A stream that is removed and created again under the feet of its writers, perhaps
\* with another content type.
RebornRequests ==
  {CreateOf(0, text, None), CreateOf(0, json, None),
   AppendOf(1, FALSE, None, None, 1, text),
   AppendOf(1, FALSE, None, None, 2, text),
   PlainOf("remove")}

Symmetry == Permutations(Calls)
-----------------------------------------------------------------------------
(***************************************************************************)
(* A run takes one of its workloads at the start.  Writers race on a       *)
(* stream whose clock stands still.                                        *)
(***************************************************************************)
CONSTANT Workloads

VARIABLE workload

RequestsOf(w) ==
  CASE w = "race" -> RaceRequests
    [] w = "life" -> LifeRequests
    [] w = "reborn" -> RebornRequests

AllRequests == UNION {RequestsOf(w) : w \in Workloads}

Within ==
  /\ \A c \in Calls : fiber[c].req \in RequestsOf(workload) \cup {None}
  /\ workload # "life" => now = 0
  /\ workload = "life" => started <= 4

MCInit == Init /\ workload \in Workloads
MCNext == Next /\ UNCHANGED workload /\ Within'
MCSpec == MCInit /\ [][MCNext]_<<vars, workload>>
=============================================================================
