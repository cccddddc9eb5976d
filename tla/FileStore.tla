------------------------------ MODULE FileStore ------------------------------
(***************************************************************************)
(* What a cached volume promises its callers.  Every file block has the    *)
(* contents the last write gave it, whatever the cache does in between,    *)
(* and a copy on the medium that lags behind and only ever catches up.     *)
(* Unwritten data may be thrown away in four cases.  Two the caller asks   *)
(* for: the file was cut off in front of the block, or the block is being  *)
(* purged.  Two leave the block "unsaved", with contents the cache can     *)
(* forget at any time: the write failed half way, or the block was past    *)
(* the end of the file when its turn to be written back came.              *)
(***************************************************************************)
EXTENDS Integers

CONSTANTS
  Key,        \* the blocks
  Value,      \* the contents each can have, 0 among them
  Sizes,      \* the sizes the file can have
  Inside(_, _) \* Inside(k, n): block k is part of the volume when the file has size n

VARIABLES
  size,       \* where the file ends
  alloc,      \* how far the space allocated for it goes
  content,    \* what a read returns
  durable,    \* what is on the medium
  unsaved,    \* blocks whose contents may be forgotten
  writing,    \* blocks whose buffer a caller has in hand to write to
  purging     \* blocks whose unwritten contents a caller is purging

vars == <<size, alloc, content, durable, unsaved, writing, purging>>
callers == <<writing, purging>>

Init ==
  /\ size \in Sizes /\ alloc \in Sizes
  /\ content = [k \in Key |-> 0]
  /\ durable = content
  /\ unsaved = {} /\ writing = {} /\ purging = {}

\* Callers come and go.
Ask ==
  /\ UNCHANGED <<size, alloc, content, durable, unsaved>>
  /\ writing' \in SUBSET Key /\ purging' \in SUBSET Key

\* A caller writes to its block.
Write(k, v) ==
  /\ k \in writing /\ Inside(k, size)
  /\ content' = [content EXCEPT ![k] = v]
  /\ unsaved' = unsaved \ {k}
  /\ writing' \in SUBSET writing
  /\ UNCHANGED <<size, alloc, durable, purging>>

\* The caller's own buffer fails it half way.
FailedWrite(k, v) ==
  /\ k \in writing /\ Inside(k, size)
  /\ content' = [content EXCEPT ![k] = v]
  /\ unsaved' \in {unsaved, unsaved \cup {k}}
  /\ writing' \in SUBSET writing
  /\ UNCHANGED <<size, alloc, durable, purging>>

\* The medium catches up with one block.
WriteBack(k) ==
  /\ durable' = [durable EXCEPT ![k] = content[k]]
  /\ UNCHANGED <<size, alloc, content, unsaved, callers>>

\* It cannot: the file ends in front of the block.
PastEnd(k) ==
  /\ ~Inside(k, size)
  /\ unsaved' = unsaved \cup {k}
  /\ UNCHANGED <<size, alloc, content, durable, callers>>

\* Unsaved contents are forgotten.
Revert(K) ==
  /\ K \subseteq unsaved
  /\ content' = [k \in Key |-> IF k \in K THEN durable[k] ELSE content[k]]
  /\ unsaved' = unsaved \ K
  /\ UNCHANGED <<size, alloc, durable, callers>>

\* The file gets another size.  Blocks in it before and after keep their
\* contents, blocks cut off hold nothing.  Blocks added hold whatever their
\* place on the medium held, or, if the place was the file's already, what
\* the file had there once.
Resize(n, a) ==
  /\ size' = n /\ alloc' = a
  /\ DOMAIN content' = Key /\ DOMAIN durable' = Key
  /\ \A k \in Key :
       CASE ~Inside(k, n) -> content'[k] = 0 /\ durable'[k] = 0
         [] Inside(k, n) /\ Inside(k, size) ->
              content'[k] = content[k] /\ durable'[k] = durable[k]
         [] Inside(k, n) /\ ~Inside(k, size) /\ Inside(k, alloc) ->
              content'[k] \in Value[k] /\ durable'[k] \in Value[k]
         [] Inside(k, n) /\ ~Inside(k, size) /\ ~Inside(k, alloc) ->
              content'[k] \in Value[k] /\ durable'[k] = content'[k]
  /\ UNCHANGED <<unsaved, callers>>

\* The purge drops what is not on the medium.
Purge ==
  /\ content' = [k \in Key |-> IF k \in purging THEN durable[k] ELSE content[k]]
  /\ unsaved' = unsaved \ purging
  /\ purging' = {}
  /\ UNCHANGED <<size, alloc, durable, writing>>

Next ==
  \/ Ask \/ Purge
  \/ \E k \in Key : WriteBack(k) \/ PastEnd(k)
  \/ \E k \in Key : \E v \in Value[k] : Write(k, v) \/ FailedWrite(k, v)
  \/ \E n, a \in Sizes : Resize(n, a)
  \/ \E K \in SUBSET Key : Revert(K)

Spec == Init /\ [][Next]_vars
===============================================================================
