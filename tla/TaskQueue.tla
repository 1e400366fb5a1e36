----------------------------- MODULE TaskQueue -----------------------------
(***************************************************************************)
(* What a durable task queue promises of the life of each task: it is      *)
(* handed out only while it waits, at most MaxAttempts times in all, comes *)
(* back only while attempts remain, and once settled is never touched.     *)
(* A queue that cannot promise so much says how a task may leave this life *)
(* before: lost, or taken back from a worker that may still be at it.      *)
(***************************************************************************)
EXTENDS Naturals

CONSTANTS
  Tasks, MaxAttempts,
  Mishaps  \* a subset of {"lost", "reclaimed"}

VARIABLE
  life  \* the stage each task is in and how often it has been handed out, until it is over

At(stage, tries) == [stage |-> stage, tries |-> tries]
Becomes(t, stage, tries) == life' = [life EXCEPT ![t] = At(stage, tries)]

Init == life = [t \in Tasks |-> At("new", 0)]

Submit(t) == life[t].stage = "new" /\ Becomes(t, "waiting", life[t].tries)

Take(t) ==
  /\ life[t].stage = "waiting" /\ life[t].tries < MaxAttempts
  /\ Becomes(t, "taken", life[t].tries + 1)

GiveBack(t) ==
  /\ life[t].stage = "taken" /\ life[t].tries < MaxAttempts
  /\ Becomes(t, "waiting", life[t].tries)

Settle(t) == life[t].stage = "taken" /\ Becomes(t, "settled", 0)

Lose(t) ==
  /\ "lost" \in Mishaps /\ life[t].stage \in {"waiting", "taken"}
  /\ Becomes(t, "lost", 0)

Reclaim(tasks) ==
  /\ "reclaimed" \in Mishaps /\ \A t \in tasks : life[t].stage # "new"
  /\ life' = [t \in Tasks |-> IF t \in tasks THEN At("reclaimed", 0) ELSE life[t]]

Next ==
  \/ \E t \in Tasks : Submit(t) \/ Take(t) \/ GiveBack(t) \/ Settle(t) \/ Lose(t)
  \/ \E tasks \in SUBSET Tasks : Reclaim(tasks)

Spec == Init /\ [][Next]_life
=============================================================================
