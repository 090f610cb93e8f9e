----------------------------- MODULE MCPlayMode -----------------------------
(* Instances of PlayMode for TLC.                                          *)
EXTENDS PlayMode, TLC

CONSTANTS a, b, c, d, r1, r2

MCCharge(t, H) == 3 * Cardinality(H)

OpenEnded == [g \in Groups |-> None]

\* A group overdue at once, a sticky one, and another overdue at once.
ChainGroupOf == a :> 1 @@ b :> 2 @@ c :> 3 @@ d :> 3
ChainLimit == <<0, None, 0>>
NoHints == [t \in Tasks |-> 0]
ChainReward == a :> 10 @@ b :> 10 @@ c :> 10 @@ d :> 10

\* Two timed groups of one task, the first with a hint.
ScoreGroupOf == a :> 1 @@ b :> 2
ScoreLimit == <<1, 1>>
ScoreHints == a :> 1 @@ b :> 0
ScoreReward == a :> 10 @@ b :> 20

\* Two open groups, the first of two tasks.
SkewGroupOf == a :> 1 @@ b :> 1 @@ c :> 2
SkewReward == a :> 10 @@ b :> 20 @@ c :> 30

\* A sticky group with a manual task, a timed group of two tasks, a last one.
SeqGroupOf == a :> 1 @@ b :> 2 @@ c :> 2 @@ d :> 3
SeqLimit == <<None, 2, 1>>
SeqHints == a :> 0 @@ b :> 1 @@ c :> 0 @@ d :> 0
SeqReward == a :> 10 @@ b :> 20 @@ c :> 30 @@ d :> 40

\* Two timed groups, each closed by its only task or by its deadline.
LiveGroupOf == a :> 1 @@ b :> 2
LiveLimit == <<0, 0>>
LiveReward == a :> 10 @@ b :> 10

Symmetry == Permutations(Requests)
=============================================================================
