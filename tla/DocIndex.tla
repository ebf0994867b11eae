------------------------------ MODULE DocIndex ------------------------------
(***************************************************************************)
(* What the index manager promises to a caller of class Indexer: a set of  *)
(* documents.  insertDocument() adds a new one, removeDocument() takes one *)
(* out for good.  Flushing, merging, optimizing, pausing and reopening     *)
(* readers are invisible at this level.                                    *)
(***************************************************************************)
EXTENDS Naturals

CONSTANT MaxDoc      \* document ids are 1 .. MaxDoc, handed out in order

VARIABLES
  used,       \* the greatest document id inserted so far
  contents    \* the documents of the index

Init == used = 0 /\ contents = {}

Insert ==
  /\ used < MaxDoc
  /\ used' = used + 1
  /\ contents' = contents \cup {used + 1}

Remove(d) ==
  /\ contents' = contents \ {d}
  /\ UNCHANGED used

Next == Insert \/ \E d \in 1 .. MaxDoc : Remove(d)

Spec == Init /\ [][Next]_<<used, contents>>
=============================================================================
