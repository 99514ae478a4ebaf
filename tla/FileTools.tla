------------------------------- MODULE FileTools ------------------------------
(***************************************************************************)
(* The tools that change files: WriteFile, EditFile and ApplyPatch of      *)
(* service/internal/app/app.go, with ReplaceExact and ApplyPatchBlocks of  *)
(* service/internal/tools/edit.go.                                         *)
(*                                                                         *)
(* A call works through its targets twice.  It first computes the new      *)
(* content of every target from the file as it is THEN, asks for           *)
(* permission with that preview, and, once allowed, writes the computed    *)
(* contents one after the other.  Nothing is locked in between, nothing is *)
(* compared again before the write, and nothing is undone when a later     *)
(* target fails.  Calls of several runs, and the user's editor, work on    *)
(* the same files meanwhile.                                               *)
(*                                                                         *)
(* WriteFile is a plan of one "add", EditFile of one "update" with one     *)
(* block, ApplyPatch a plan of any targets.  A file is a sequence of       *)
(* pieces of text; a search text is one piece.                             *)
(***************************************************************************)
EXTENDS Naturals, Sequences, FiniteSets

CONSTANTS
  Calls,     \* tool calls
  Paths,     \* files
  Pieces,    \* pieces of text
  Plans,     \* what a call may be asked to do: sequences of targets
  Initial,   \* the files at the beginning
  Absent,    \* content of a file that does not exist
  Saved,     \* contents the user's editor may save
  MaxSaves   \* bound on its saves

Contents == Seq(Pieces) \cup {Absent}
Blocks == [search : Pieces, replace : Pieces, all : BOOLEAN]
Targets == [path : Paths, mode : {"add", "update", "delete"},
            blocks : Seq(Blocks), text : Seq(Pieces)]

ASSUME FileAssumption ==
  /\ Initial \in [Paths -> Contents]
  /\ Plans \subseteq Seq(Targets) \ {<<>>}
  /\ Absent \notin Seq(Pieces)
  /\ Saved \subseteq Seq(Pieces)
  /\ MaxSaves \in Nat

VARIABLES
  files,      \* content of each file
  pc,         \* where each call is
  plan,       \* its targets
  at,         \* the target it works on
  results,    \* the contents it has computed, Absent for a delete
  saves,      \* saves of the editor so far
  before,     \* history: the files when the call began
  interfered  \* history: somebody else has changed a file since then

vars == <<files, pc, plan, at, results, saves, before, interfered>>

Pcs == {"idle", "planning", "asking", "writing", "completed", "refused", "failed"}
Working == {"planning", "asking", "writing"}

Init ==
  /\ files = Initial
  /\ pc = [c \in Calls |-> "idle"]
  /\ plan = [c \in Calls |-> <<>>]
  /\ at = [c \in Calls |-> 1]
  /\ results = [c \in Calls |-> <<>>]
  /\ saves = 0
  /\ before = [c \in Calls |-> Initial]
  /\ interfered = [c \in Calls |-> FALSE]

-----------------------------------------------------------------------------
(* ReplaceExact and ApplyPatchBlocks *)

Places(text, piece) == {i \in DOMAIN text : text[i] = piece}

\* Mutated form of Replaceable: an ambiguous search text is accepted.
ReplaceableAnywhere(text, b) == Places(text, b.search) # {}

\* The search text is there, and only once unless all are to be replaced.
Replaceable(text, b) ==
  LET n == Cardinality(Places(text, b.search)) IN n > 0 /\ (b.all \/ n = 1)

Replace(text, b) ==
  [i \in DOMAIN text |-> IF text[i] = b.search THEN b.replace ELSE text[i]]

\* Applied(text, bs)[n]: text after the first n blocks, Absent once one fails.
Applied(text, bs) ==
  LET f[n \in 0..Len(bs)] ==
        IF n = 0 THEN text
        ELSE IF f[n-1] # Absent /\ Replaceable(f[n-1], bs[n])
             THEN Replace(f[n-1], bs[n]) ELSE Absent
  IN f

ApplyBlocks(text, bs) == Applied(text, bs)[Len(bs)]

-----------------------------------------------------------------------------
(* Helpers *)

Set(f, c, v) == [f EXCEPT ![c] = v]

Goto(c, from, to) ==
  /\ pc[c] = from
  /\ pc' = Set(pc, c, to)

Target(c) == plan[c][at[c]]
Last(c) == at[c] = Len(plan[c])

\* Call c makes v the content of file p.
Change(c, p, v) ==
  /\ files' = Set(files, p, v)
  /\ interfered' = [d \in Calls |-> interfered[d] \/ (d # c /\ pc[d] \in Working)]

-----------------------------------------------------------------------------
(* The first pass: read and compute *)

Begin(c, p) ==
  /\ Goto(c, "idle", "planning")
  /\ plan' = Set(plan, c, p)
  /\ before' = Set(before, c, files)
  /\ UNCHANGED <<files, at, results, saves, interfered>>

\* What the call computes for target g.
Computed(g) ==
  CASE g.mode = "add" -> g.text
    [] g.mode = "update" ->
         IF files[g.path] = Absent THEN Absent ELSE ApplyBlocks(files[g.path], g.blocks)
    [] g.mode = "delete" -> Absent

\* A file to update or delete must be there, an update must apply.
Computable(g) ==
  /\ g.mode \in {"update", "delete"} => files[g.path] # Absent
  /\ g.mode = "update" => Computed(g) # Absent

\* Mutated forms of ComputeTarget: a delete computes no result; a target is written as soon as it is computed.
DeletesUncounted(c) ==
  /\ Goto(c, "planning", IF Last(c) THEN "asking" ELSE "planning")
  /\ Computable(Target(c))
  /\ results' = IF Target(c).mode = "delete" THEN results
                ELSE Set(results, c, Append(results[c], Computed(Target(c))))
  /\ at' = Set(at, c, IF Last(c) THEN 1 ELSE at[c] + 1)
  /\ UNCHANGED <<files, plan, saves, before, interfered>>

ComputeAndWrite(c) ==
  /\ Goto(c, "planning", IF Last(c) THEN "asking" ELSE "planning")
  /\ Computable(Target(c))
  /\ results' = Set(results, c, Append(results[c], Computed(Target(c))))
  /\ at' = Set(at, c, IF Last(c) THEN 1 ELSE at[c] + 1)
  /\ Change(c, Target(c).path, Computed(Target(c)))
  /\ UNCHANGED <<plan, saves, before>>

ComputeTarget(c) ==
  /\ Goto(c, "planning", IF Last(c) THEN "asking" ELSE "planning")
  /\ Computable(Target(c))
  /\ results' = Set(results, c, Append(results[c], Computed(Target(c))))
  /\ at' = Set(at, c, IF Last(c) THEN 1 ELSE at[c] + 1)
  /\ UNCHANGED <<files, plan, saves, before, interfered>>

ComputeFails(c) ==
  /\ Goto(c, "planning", "refused")
  /\ ~Computable(Target(c))
  /\ UNCHANGED <<files, plan, at, results, saves, before, interfered>>

-----------------------------------------------------------------------------
(* Permission (see PermissionBroker) *)

Allowed(c) ==
  /\ Goto(c, "asking", "writing")
  /\ UNCHANGED <<files, plan, at, results, saves, before, interfered>>

\* Denied, timed out or cancelled.
NotAllowed(c) ==
  /\ Goto(c, "asking", "refused")
  /\ UNCHANGED <<files, plan, at, results, saves, before, interfered>>

-----------------------------------------------------------------------------
(* The second pass: write *)

Advance(c) ==
  /\ Goto(c, "writing", IF Last(c) THEN "completed" ELSE "writing")
  /\ at' = Set(at, c, IF Last(c) THEN at[c] ELSE at[c] + 1)

Remove(c) ==
  /\ Advance(c)
  /\ Target(c).mode = "delete"
  /\ files[Target(c).path] # Absent
  /\ Change(c, Target(c).path, Absent)
  /\ UNCHANGED <<plan, results, saves, before>>

RemoveFails(c) ==
  /\ Goto(c, "writing", "failed")
  /\ Target(c).mode = "delete"
  /\ UNCHANGED <<files, plan, at, results, saves, before, interfered>>

Content(c) == results[c][at[c]]

Write(c) ==
  /\ Advance(c)
  /\ Target(c).mode # "delete"
  /\ Change(c, Target(c).path, Content(c))
  /\ UNCHANGED <<plan, results, saves, before>>

\* Mutated form of WriteFails: the loop goes on to the next target.
WriteFailsAndGoesOn(c) ==
  /\ Goto(c, "writing", IF Last(c) THEN "failed" ELSE "writing")
  /\ Target(c).mode # "delete"
  /\ at' = Set(at, c, IF Last(c) THEN at[c] ELSE at[c] + 1)
  /\ UNCHANGED <<files, interfered, plan, results, saves, before>>

\* os.WriteFile fails before or after it has truncated the file, or Neo4j fails
\* after the write: the error ends the call.
WriteFails(c) ==
  /\ Goto(c, "writing", "failed")
  /\ Target(c).mode # "delete"
  /\ \/ UNCHANGED <<files, interfered>>
     \/ \E v \in {<<>>, Content(c)} : Change(c, Target(c).path, v)
  /\ UNCHANGED <<plan, at, results, saves, before>>

-----------------------------------------------------------------------------
\* The user's editor saves file p.
EditorSaves(p, v) ==
  /\ saves < MaxSaves
  /\ saves' = saves + 1
  /\ files' = Set(files, p, v)
  /\ interfered' = [d \in Calls |-> interfered[d] \/ pc[d] \in Working]
  /\ UNCHANGED <<pc, plan, at, results, before>>

Step(c) ==
  \/ \E p \in Plans : Begin(c, p)
  \/ ComputeTarget(c) \/ ComputeFails(c) \/ Allowed(c) \/ NotAllowed(c)
  \/ Remove(c) \/ RemoveFails(c) \/ Write(c) \/ WriteFails(c)

Next ==
  \/ \E c \in Calls : Step(c)
  \/ \E p \in Paths, v \in Saved : EditorSaves(p, v)

Spec == Init /\ [][Next]_vars

-----------------------------------------------------------------------------
(* Properties *)

\* Every variable has its type; a call that writes has computed all its targets.
TypeOK ==
  /\ files \in [Paths -> Contents]
  /\ pc \in [Calls -> Pcs]
  /\ plan \in [Calls -> Seq(Targets)]
  /\ results \in [Calls -> Seq(Contents)]
  /\ saves \in 0..MaxSaves
  /\ before \in [Calls -> [Paths -> Contents]]
  /\ interfered \in [Calls -> BOOLEAN]
  /\ \A c \in Calls :
       /\ pc[c] # "idle" => plan[c] # <<>> /\ at[c] \in DOMAIN plan[c]
       /\ pc[c] \in {"asking", "writing", "completed", "failed"}
            => Len(results[c]) = Len(plan[c])

\* What target g means for its file, stated without the algorithm: an update
\* keeps every piece no block searches for where it is, and changes no more
\* pieces than it has blocks, unless a block replaces all.
Edits(g, old, new) ==
  /\ DOMAIN new = DOMAIN old
  /\ \A i \in DOMAIN old :
       (\A n \in DOMAIN g.blocks : g.blocks[n].search # old[i]) => new[i] = old[i]
  /\ (\A n \in DOMAIN g.blocks : ~g.blocks[n].all) =>
       Cardinality({i \in DOMAIN old : new[i] # old[i]}) <= Len(g.blocks)

Means(g, old, new) ==
  CASE g.mode = "add" -> new = g.text
    [] g.mode = "delete" -> old # Absent /\ new = Absent
    [] g.mode = "update" -> old # Absent /\ new # Absent /\ Edits(g, old, new)

PathsOf(ts) == {ts[n].path : n \in DOMAIN ts}
Distinct(ts) == \A m, n \in DOMAIN ts : ts[m].path = ts[n].path => m = n

\* A call that completes undisturbed has done to every file of its plan what
\* the plan means, and nothing to another file.  (A plan that names a file
\* twice computes both targets from the same content: the later one wins.)
SoleCallDoesItsPlan ==
  [][\A c \in Calls :
       pc[c] = "writing" /\ pc'[c] = "completed" /\ ~interfered[c] /\ Distinct(plan[c]) =>
         /\ \A n \in DOMAIN plan[c] :
              LET g == plan[c][n] IN Means(g, before[c][g.path], files'[g.path])
         /\ \A p \in Paths \ PathsOf(plan[c]) : files'[p] = before[c][p]]_vars

\* A call that fails undisturbed has done its plan up to the target that failed
\* and has not touched those after it: a later target is never written once an
\* earlier one has failed.
FailureStopsThere ==
  [][\A c \in Calls :
       pc[c] = "writing" /\ pc'[c] = "failed" /\ ~interfered[c] /\ Distinct(plan[c]) =>
         \A n \in DOMAIN plan[c] :
           LET g == plan[c][n]
           IN /\ n < at[c] => Means(g, before[c][g.path], files'[g.path])
              /\ n > at[c] => files'[g.path] = before[c][g.path]]_vars

\* A call that is not allowed, or whose targets cannot all be computed, leaves
\* every file as it was: no target is written before all are computed and
\* permission was given.
RefusalTouchesNothing ==
  [][\A c \in Calls :
       pc[c] \in Working /\ pc'[c] = "refused" /\ ~interfered[c] => files' = before[c]]_vars

\* Together: what a call does to the files, however it ends.
CallsKeepTheirPlan == SoleCallDoesItsPlan /\ FailureStopsThere /\ RefusalTouchesNothing
=============================================================================
