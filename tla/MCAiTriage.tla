----------------------------- MODULE MCAiTriage -----------------------------
EXTENDS AiTriage

\* Neither conversations nor jobs are told apart by anything but their name.
Interchangeable == Permutations(Threads) \cup Permutations(Jobs)

\* The reader's transaction in the order of its plans: removals, then one version after another.
InTurn(c, removed, versions) ==
  FoldLeft(LAMBDA d, version : Enqueue(d, version, NoJob), IF removed THEN Removed(c) ELSE c, versions)

\* Carried, which takes what a page planned as a set and its last member, is the plans in turn: for
\* every conversation in each of its forms and every page of at most three plans.
ASSUME CarriedIsInTurn ==
  \A row \in {NoRow, Queued(NoJob), [Queued(NoJob) EXCEPT !.status = "processing", !.taken = TRUE]} \cup {Queued(j) : j \in Jobs},
     state \in {"none", "ready", "stale"}, fresh, removed \in BOOLEAN, known, of \in Version,
     items \in [Jobs -> {"none", "pending", "settled"}],
     versions \in UNION {[1 .. n -> Version \ {0}] : n \in 0 .. 3} :
    LET c == [row |-> row, decision |-> [state |-> state, of |-> of, fresh |-> fresh], known |-> known, items |-> items]
        plan == [removed |-> removed, versions |-> ToSet(versions), last |-> IF versions = <<>> THEN 0 ELSE Last(versions)]
    IN  Carried(c, plan) = InTurn(c, removed, versions)
=============================================================================
