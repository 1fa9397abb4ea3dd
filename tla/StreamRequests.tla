--------------------------- MODULE StreamRequests ---------------------------
(***************************************************************************)
(* The requests callers make of one stream and the messages they carry     *)
(* (packages/core/src/protocol/options.ts).  A body is abstracted to the   *)
(* number of messages it frames into and to whether it has any bytes: the  *)
(* JSON body [] has bytes and no message.  An offset is the number of      *)
(* messages up to and including the one it names, so ZERO_OFFSET is 0 and  *)
(* `next` adds one.  A Stream-Seq is its rank, 0 when absent.              *)
(***************************************************************************)
EXTENDS Sequences, ProducerPolicy

CONSTANT ContentTypes

Optional(S) == S \cup {None}

AppendRequest ==
  [kind : {"append"}, bytes : BOOLEAN, count : Nat, close : BOOLEAN,
   position : Optional(Position), expected : Optional(Nat),
   streamSeq : Nat, contentType : ContentTypes]

CreateRequest ==
  [kind : {"create"}, count : Nat, close : BOOLEAN, contentType : ContentTypes,
   ttl : Optional(Nat), expiresAt : Optional(Nat)]

\* "sweep" is the host's expireDue; the others are protocol operations.
PlainRequest == [kind : {"read", "remove", "sweep"}]

Request == AppendRequest \cup CreateRequest \cup PlainRequest

CloseOnly(req) == req.close /\ ~req.bytes

(***************************************************************************)
(* A stored message, named by the request it came from and the commit that *)
(* stored it.  The payload is left out: what matters is which append a     *)
(* message belongs to.                                                     *)
(***************************************************************************)
Message == [position : Optional(Position), streamSeq : Nat,
            contentType : ContentTypes, stamp : Nat]

Framed(req, stamp) ==
  IF req.kind = "append"
  THEN [position |-> req.position, streamSeq |-> req.streamSeq,
        contentType |-> req.contentType, stamp |-> stamp]
  ELSE [position |-> None, streamSeq |-> 0,
        contentType |-> req.contentType, stamp |-> stamp]

Batch(req, stamp) == [i \in 1..req.count |-> Framed(req, stamp)]
=============================================================================
