----------------------------- MODULE VectorStore ------------------------------
(***************************************************************************)
(* What the indexes that store vectors under ids promise to their caller:   *)
(* a map from ids to codes, and one call at a time.  A call that adds may   *)
(* store its vectors in any order, several at a time, each of them once;    *)
(* nothing that a call does not name changes.  IndexIDMap shows that        *)
(* IndexIVF, with each kind of direct map, and IndexIDMap2 implement it.    *)
(***************************************************************************)
EXTENDS Functions, TLC

VARIABLES
  store,     \* the code under each id
  call       \* [op, vectors (ids and codes to store), ids (to remove)]

vars == <<store, call>>

Idle == [op |-> "idle", vectors |-> <<>>, ids |-> {}]

Without(f, S) == Restrict(f, DOMAIN f \ S)

Init == store = <<>> /\ call = Idle

\* The caller begins any call; new vectors have fresh ids.
Invoke ==
  /\ call = Idle
  /\ call'.op \in {"put", "replace", "delete", "clear", "none"}
  /\ call'.op = "put" => DOMAIN call'.vectors \cap DOMAIN store = {}
  /\ UNCHANGED store

Put ==
  /\ call.op = "put"
  /\ \E S \in SUBSET (DOMAIN call.vectors \ DOMAIN store) :
       store' = store @@ Restrict(call.vectors, S)
  /\ \/ UNCHANGED call
     \/ DOMAIN call.vectors \subseteq DOMAIN store' /\ call' = Idle

\* At once, or as a removal and what is then left to put.
Replace ==
  /\ call.op = "replace"
  /\ DOMAIN call.vectors \subseteq DOMAIN store
  /\ \/ store' = call.vectors @@ store /\ call' = Idle
     \/ /\ store' = Without(store, DOMAIN call.vectors)
        /\ call' = [call EXCEPT !.op = "put"]

\* A replacement of ids of which some are not there fails.  All the others it
\* names are gone then, or some have been replaced and none is lost.
ReplaceMissing ==
  LET found == DOMAIN call.vectors \cap DOMAIN store IN
  /\ call.op = "replace"
  /\ found # DOMAIN call.vectors
  /\ \/ store' = Without(store, found)
     \/ \E R \in SUBSET found : store' = Restrict(call.vectors, R) @@ store
  /\ call' = Idle

Delete ==
  /\ call.op = "delete"
  /\ store' = Without(store, call.ids)
  /\ call' = Idle

Clear == call.op = "clear" /\ store' = <<>> /\ call' = Idle

\* A call that is refused, or that is about something else.
ReturnOnly == call.op = "none" /\ call' = Idle /\ UNCHANGED store

Step == Put \/ Replace \/ ReplaceMissing \/ Delete \/ Clear \/ ReturnOnly

Next == Invoke \/ Step

\* Every call returns.
FairSpec == Init /\ [][Next]_vars /\ WF_vars(Step)
=============================================================================
