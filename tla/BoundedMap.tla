----------------------------- MODULE BoundedMap -----------------------------
(***************************************************************************)
(* What a shard promises its users, with no queues, counters, ghosts or    *)
(* frequencies: a map of at most Cap entries (any number when Cap = 0) in  *)
(* which an entry keeps the value last written to it until it is removed,  *)
(* or until the insertion of another key into a bounded map gives it up.   *)
(* One insertion gives up at most one entry.                               *)
(***************************************************************************)
EXTENDS Naturals, FiniteSets

CONSTANTS Key, Value, Cap

VARIABLES
  content,   \* key -> value
  pending    \* <<>>, or the insertion in progress and the entries it may give up

bvars == <<content, pending>>

Present == DOMAIN content

(* Overwrite the value of a key that is there.                             *)
Write(k, v) ==
  /\ pending = <<>>
  /\ k \in Present
  /\ content' = [content EXCEPT ![k] = v]
  /\ UNCHANGED pending

(* Remove the keys in S and give the others the values of w.               *)
Filter(S, w) ==
  /\ pending = <<>>
  /\ content' = [k \in Present \ S |-> w[k]]
  /\ UNCHANGED pending

Begin(k, v) ==
  /\ pending = <<>>
  /\ k \notin Present
  /\ pending' = <<k, v, 1>>
  /\ UNCHANGED content

GiveUp(k) ==
  /\ Cap > 0
  /\ pending # <<>>
  /\ pending[3] = 1
  /\ content' = [x \in Present \ {k} |-> content[x]]
  /\ pending' = <<pending[1], pending[2], 0>>

Commit ==
  /\ pending # <<>>
  /\ Cap > 0 => Cardinality(Present) < Cap
  /\ content' = [x \in Present \cup {pending[1]} |->
                   IF x = pending[1] THEN pending[2] ELSE content[x]]
  /\ pending' = <<>>

Abandon ==
  /\ pending # <<>>
  /\ pending' = <<>>
  /\ UNCHANGED content

BInit ==
  /\ content = [k \in {} |-> k]
  /\ pending = <<>>

BNext ==
  \/ \E k \in Key, v \in Value : Write(k, v) \/ Begin(k, v)
  \/ \E S \in SUBSET Present, w \in [Present -> Value] : Filter(S, w)
  \/ \E k \in Present : GiveUp(k)
  \/ Commit
  \/ Abandon

BSpec == BInit /\ [][BNext]_bvars
=============================================================================
