----------------------------- MODULE TileLedger -----------------------------
(***************************************************************************)
(* What the run stage promises about tiles, whatever its threads do: a     *)
(* tile is queued, taken by one worker, done, failed or lost; it is done   *)
(* only when the results store holds it, it fails only when it was tried   *)
(* once more than it may be retried, and it is lost only with its owner.   *)
(* TilePipeline implements this.                                           *)
(***************************************************************************)
EXTENDS Integers

CONSTANTS Workers, Tiles, Retries, None

VARIABLES
  fate,    \* per tile: queued, taken, done, failed or lost
  owner,   \* per tile: the worker that has it, or None
  tries,   \* per tile: attempts that failed
  stored   \* tiles the results store holds

vars == <<fate, owner, tries, stored>>

Init ==
  /\ fate = [t \in Tiles |-> "queued"] /\ owner = [t \in Tiles |-> None]
  /\ tries = [t \in Tiles |-> 0] /\ stored \in SUBSET Tiles

Becomes(t, f, w) == fate' = [fate EXCEPT ![t] = f] /\ owner' = [owner EXCEPT ![t] = w]

Take(w, t) == fate[t] = "queued" /\ Becomes(t, "taken", w) /\ UNCHANGED <<tries, stored>>

Skip(t) == fate[t] = "queued" /\ t \in stored /\ Becomes(t, "done", None) /\ UNCHANGED <<tries, stored>>

\* A tile may be stored and the worker not know it; it then fails or is lost.
Store(w, t) ==
  /\ fate[t] = "taken" /\ owner[t] = w /\ stored' = stored \union {t}
  /\ Becomes(t, "done", None) \/ UNCHANGED <<fate, owner>>
  /\ UNCHANGED tries

Fail(w, t) ==
  /\ fate[t] = "taken" /\ owner[t] = w /\ tries' = [tries EXCEPT ![t] = @ + 1]
  /\ Becomes(t, IF tries[t] < Retries THEN "queued" ELSE "failed", None)
  /\ UNCHANGED stored

\* The failure of a tile that is lost may have been counted.
Lose(w, T) ==
  /\ \A t \in T : fate[t] = "taken" /\ owner[t] = w
  /\ fate' = [t \in Tiles |-> IF t \in T THEN "lost" ELSE fate[t]]
  /\ owner' = [t \in Tiles |-> IF t \in T THEN None ELSE owner[t]]
  /\ \E C \in SUBSET T : tries' = [t \in Tiles |-> IF t \in C THEN tries[t] + 1 ELSE tries[t]]
  /\ UNCHANGED stored

Next ==
  \/ \E t \in Tiles : Skip(t)
  \/ \E w \in Workers, t \in Tiles : Take(w, t) \/ Store(w, t) \/ Fail(w, t)
  \/ \E w \in Workers, T \in SUBSET Tiles : Lose(w, T)

Spec == Init /\ [][Next]_vars
=============================================================================
