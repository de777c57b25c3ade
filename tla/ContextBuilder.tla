----------------------------- MODULE ContextBuilder -----------------------------
(* buildContext (core/src/context/builder.ts): which files, lessons and plan   *)
(* reach the bundle of a round, and the data policy a bundle is checked        *)
(* against before it leaves (core/src/security/data-policy.ts).  A worktree is *)
(* a function from paths to what lies there: "absent", "plain", "secret" (a    *)
(* file the secret scanner hits) or "link" (anything that is not a plain file  *)
(* inside the worktree).  Compression, truncation and the manifest's bytes are *)
(* left out: they change the text of a piece, never which pieces there are.    *)
EXTENDS Integers, Sequences, FiniteSets, SequencesExt

CONSTANTS
    Paths,      \* the paths of the worktree, listed in their sort order
    Imports,    \* path -> the paths its relative imports resolve to, in order
    Excluded,   \* the paths of machine configuration (excludePath)
    Outside     \* paths that leave the worktree; they never normalise

PathSet == ToSet(Paths)
PathContents == {"absent", "plain", "secret", "link"}

ASSUME ContextBuilderAssumption ==
    /\ Paths \in Seq(PathSet)
    /\ Imports \in [PathSet -> Seq(PathSet)]
    /\ Excluded \subseteq PathSet
    /\ Outside \cap PathSet = {}

\* normalizeWorktreeRelativePath: a path of the worktree, or null.
Normalises(p) == p \in PathSet

\* readWithinWorktree: content, not-found (silent) or a containment violation (named).
readWithinWorktree(tree, p) ==
    CASE ~Normalises(p)                          -> "containment"
      [] Normalises(p) /\ tree[p] = "absent"     -> "not-found"
      [] Normalises(p) /\ tree[p] = "link"       -> "containment"
      [] OTHER                                   -> "content"

\* worktreeEntryExists fails closed: only a normalised path with nothing there is a new file.
worktreeEntryExists(tree, p) == ~Normalises(p) \/ tree[p] # "absent"

-----------------------------------------------------------------------------
(* SEED and EXPAND.  A path is read once; a seed that an earlier seed imported *)
(* has been collected at depth 1 and is not expanded again.                    *)
Readable(tree) == {p \in PathSet \ Excluded : readWithinWorktree(tree, p) = "content"}

\* The positions of the seeds that are expanded.
Expanded(tree, seeds) ==
    LET first[i \in DOMAIN seeds] ==
            /\ seeds[i] \in Readable(tree)
            /\ \A j \in 1..(i - 1) :
                  /\ seeds[j] # seeds[i]
                  /\ first[j] => seeds[i] \notin ToSet(Imports[seeds[j]])
    IN  {i \in DOMAIN seeds : first[i]}

\* What is looked at: the seeds, and what the expanded ones import.
Visited(tree, seeds) ==
    (ToSet(seeds) \cup UNION {ToSet(Imports[seeds[i]]) : i \in Expanded(tree, seeds)}) \ Excluded

Collect(tree, seeds) ==
    [collected |-> Visited(tree, seeds) \cap Readable(tree),
     blocked   |-> {p \in Visited(tree, seeds) : readWithinWorktree(tree, p) = "containment"}]

\* GOVERN: the first secret of a seeded path aborts the build, one an import reached is skipped.
SeededSecrets(tree, seeds) ==
    {i \in DOMAIN Paths :
        Paths[i] \in Collect(tree, seeds).collected \cap ToSet(seeds) /\ tree[Paths[i]] = "secret"}
\* The one the abort names.
FirstSecret(tree, seeds) == Paths[Min(SeededSecrets(tree, seeds))]

Piece(kind, path) == [kind |-> kind, path |-> path]
Inline == "(inline)"

\* A lesson and the plan are scanned one by one; a secret blocks that one only.
InlinePieces(lessons, plan) ==
    {Piece("excerpt", Inline) : extra \in {l \in lessons \cup plan : ~l.secret}}

buildContext(tree, seeds, lessons, plan) ==
    LET found   == Collect(tree, seeds)
        secrets == {p \in found.collected : tree[p] = "secret"}
    IN  [pieces  |-> {Piece("file", p) : p \in found.collected \ secrets} \cup InlinePieces(lessons, plan),
         blocked |-> found.blocked \cup secrets,
         blockedItems |-> {l.id : l \in {k \in lessons \cup plan : k.secret}},
         injected |-> {l.id : l \in {k \in lessons : ~k.secret}}]

BundlePaths(pieces) == {p.path : p \in pieces} \ {Inline}

\* computeContextMetrics, as the pairs the recall and the waste are ratios of.
computeContextMetrics(pieces, touched) ==
    [recall |-> <<Cardinality(touched \cap BundlePaths(pieces)), Cardinality(touched)>>,
     waste  |-> <<Cardinality(BundlePaths(pieces) \ touched), Cardinality(BundlePaths(pieces))>>]

-----------------------------------------------------------------------------
\* checkDataPolicy: every pathed piece under an allowed path, every other of an allowed kind.
checkDataPolicy(pieces, policy) ==
    \A p \in pieces :
        IF p.path = Inline THEN p.kind \in policy.pathlessKinds ELSE p.path \in policy.allowPaths
=============================================================================
