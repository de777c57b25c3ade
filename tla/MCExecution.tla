----------------------------- MODULE MCExecution -----------------------------
(* The execution side for TLC: the executor that takes a proposed action, the *)
(* command executor it hands a RUN_COMMAND to, the process runner below that  *)
(* and the mutation helper every write goes through.  Each models its own     *)
(* state; `part` says which of the four a behaviour is about, and the others  *)
(* stay in one initial state.                                                 *)
EXTENDS Executor, CommandExecutor, CommandRunner, MutationBatch, TLC

CONSTANTS p1, p2

VARIABLE part

vars == <<executorVars, commandVars, runnerVars, mutationVars, part>>

(* Executor: two processes, a write and a command. *)
MCProcs == {p1, p2}
GoodAction ==
    [object |-> TRUE, actionId |-> "good", type |-> "WRITE_FILE", path |-> "good", ref |-> "good",
     cmd |-> "good", network |-> "none", cwd |-> "absent", timeoutMs |-> "absent", name |-> "good"]
MCShape == [w |-> GoodAction, c |-> [GoodAction EXCEPT !.type = "RUN_COMMAND"]]
MCIds == DOMAIN MCShape

(* Command executor: 1 is the manifest and 2 the frozen RED test; 4 is an      *)
(* approved package below the output root, 5 any other file there; 6 is below *)
(* .pnpm-store; 3 is a source file to be written.                             *)
MCWritable ==
    [r \in Roles |-> CASE r = "implementer" -> {2, 3} [] r = "test_designer" -> {2} [] OTHER -> {}]

(* Mutation helper: one file, one directory with one entry. *)
MCPaths == {"a", "d", "d/f"}
MCAncestors == ("a" :> {}) @@ ("d" :> {}) @@ ("d/f" :> {"d"})
Nodes(a, d, f) == ("a" :> a) @@ ("d" :> d) @@ ("d/f" :> f)
Link == [kind |-> "symlink", data |-> "old"]
MCTrees ==
    {Nodes(File("old"), Absent, Absent), Nodes(Absent, Directory, File("old")),
     Nodes(File("old"), Directory, File("new")), Nodes(Absent, File("old"), Absent),
     Nodes(Link, Directory, File("old"))}

MCInit ==
    /\ part \in {"executor", "command", "runner", "mutation"}
    /\ CommandInit /\ RunnerInit
    /\ ExecutorInit /\ owner = p1
    /\ MutationInit
    /\ part = "mutation" \/ fs = Nodes(File("old"), Absent, Absent)

MCNext ==
    \/ part = "executor" /\ ExecutorNext /\ UNCHANGED <<commandVars, runnerVars, mutationVars, part>>
    \/ part = "command" /\ CommandNext /\ UNCHANGED <<executorVars, runnerVars, mutationVars, part>>
    \/ part = "runner" /\ RunnerNext /\ UNCHANGED <<executorVars, commandVars, mutationVars, part>>
    \/ part = "mutation" /\ MutationNext /\ UNCHANGED <<executorVars, commandVars, runnerVars, part>>

(* Fairness of the runner: its awaits end.  Its actions are never enabled in  *)
(* the other parts, whose runner has no call.                                 *)
MCSpec == MCInit /\ [][MCNext]_vars /\ RunnerFairness

ExecutionTypeOK ==
    CASE part = "executor" -> ExecutorTypeOK
      [] part = "command"  -> CommandTypeOK
      [] part = "runner"   -> RunnerTypeOK
      [] part = "mutation" -> MutationTypeOK

==============================================================================
