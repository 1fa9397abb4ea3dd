------------------------------ MODULE Lineage -------------------------------
(***************************************************************************)
(* What a storage promises about streams and their forks: each mutation is *)
(* one step, a fork keeps the messages it was made with, and a removed     *)
(* stream stays, soft-deleted, exactly as long as some fork reads it.      *)
(* The storages are shown to implement this: Forks for the one in memory,  *)
(* SqlMutations for the one in SQL.                                        *)
(***************************************************************************)
EXTENDS StreamTree

VARIABLES
  chain,     \* whether forks share the prefix of their source, or copy it
  table,     \* the streams
  children,  \* the forks that hold on to a stream
  held       \* the messages each stream was given, as created and appended

vars == <<chain, table, children, held>>

\* What a stream created with this entry is given.
Given(entry) ==
  entry.log \cup (IF chain /\ entry.parent # None
                  THEN UpTo(held[entry.parent], entry.at) ELSE {})

\* Forks and their sources belong together: a fork's parent is there and has the
\* messages, a soft-deleted stream has forks, and what a stream was given is what
\* it wrote and its part of what its parent was given.
Sound ==
  /\ chain \in BOOLEAN /\ table \in Table
  /\ children \in [Ids -> SUBSET Ids] /\ held \in [Ids -> SUBSET Message]
  /\ \A id \in Ids : table[id] = None => children[id] = {} /\ held[id] = {}
  /\ \A id, c \in Ids : c \in children[id] <=>
       chain /\ c \in Present(table) /\ table[c].parent = id
  /\ \A c \in Present(table) : chain /\ table[c].parent # None =>
       table[c].parent \in Present(table) /\ table[c].at <= table[table[c].parent].tail
  /\ \A id \in Present(table) : table[id].softDeleted => children[id] # {}
  /\ \A id \in Present(table) : \A m \in table[id].log :
       m.offset <= table[id].tail /\ (chain /\ table[id].parent # None => m.offset > table[id].at)
  /\ \A id \in Present(table) : held[id] = Given(table[id])

\* A storage opens on whatever it was left with.
Init == Sound

\* The new stream is the one table' has at id: any, but for a fork of a shared
\* prefix one of a live parent that has the messages.
Create(id) ==
  /\ table[id] = None /\ table'[id] \in Entry
  /\ table' = [table EXCEPT ![id] = table'[id]]
  /\ LET entry == table'[id]
     IN  /\ ~entry.softDeleted /\ entry.at <= entry.tail
         /\ \A m \in entry.log : m.offset <= entry.tail
         /\ chain => \A m \in entry.log : m.offset > entry.at
         /\ IF chain /\ entry.parent # None
            THEN /\ entry.parent # id /\ ~SourceGone(table, entry.parent, entry.at)
                 /\ children' = [children EXCEPT ![entry.parent] = @ \cup {id}]
            ELSE UNCHANGED children
         /\ held' = [held EXCEPT ![id] = Given(entry)]
  /\ UNCHANGED chain

Append(id) ==
  /\ id \in Live(table) /\ table'[id] \in Entry
  /\ LET more == After(table'[id].log, table[id].tail)
     IN  /\ table[id].tail <= table'[id].tail
         /\ \A m \in more : m.offset <= table'[id].tail
         /\ table' = [table EXCEPT ![id].tail = table'[id].tail, ![id].log = @ \cup more]
         /\ held' = [held EXCEPT ![id] = @ \cup more]
  /\ UNCHANGED <<chain, children>>

SoftDelete(id) ==
  /\ id \in Live(table) /\ children[id] # {}
  /\ table' = [table EXCEPT ![id].softDeleted = TRUE]
  /\ UNCHANGED <<chain, children, held>>

Purge(id, gone) ==
  /\ id \in Live(table) /\ children[id] = {}
  /\ Reclaims(table, children, id, gone)
  /\ table' = Without(table, gone)
  /\ children' = [x \in Ids |-> IF x \in gone THEN {} ELSE children[x] \ gone]
  /\ held' = [x \in Ids |-> IF x \in gone THEN {} ELSE held[x]]
  /\ UNCHANGED chain

Next ==
  \E id \in Ids :
    \/ Create(id) \/ Append(id) \/ SoftDelete(id)
    \/ \E gone \in SUBSET Ids : Purge(id, gone)

Spec == Init /\ [][Next]_vars
=============================================================================
