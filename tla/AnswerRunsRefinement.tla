------------------------ MODULE AnswerRunsRefinement ------------------------
(* AnswerRuns implements RunLifecycle: a run's phase is its status column    *)
(* and its answer is visible when the conversation holds its message pair.   *)
EXTENDS AnswerRuns

Lifecycle == INSTANCE RunLifecycle WITH
  phase <- status,
  answers <- {r \in Runs : \E p \in pairs : p.turn = r}

(* Every step of the API, the dispatcher, the workers and their crashes is a *)
(* step of the life cycle or changes neither a state nor a visible answer.   *)
ImplementsLifecycle == Lifecycle!Spec
=============================================================================
