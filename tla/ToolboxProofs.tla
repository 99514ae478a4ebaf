---------------------------- MODULE ToolboxProofs ----------------------------
(***************************************************************************)
(* What a run works with: what the tools that change files do to them, for *)
(* every number of calls and files, every plan and every text; what the    *)
(* settings of a run are, for everything that the environment and the      *)
(* files can say; what it is shown of what is retrieved for it, for all    *)
(* matches and limits; what a command asks of it, for every template and   *)
(* all arguments; what the parser makes of its patches, for every text.    *)
(***************************************************************************)
EXTENDS FileTools, RuntimeConfig, Ranking, CommandText, PatchText, SequenceTheorems,
        FiniteSetTheorems, WellFoundedInduction, TLAPS

-----------------------------------------------------------------------------
(* Blocks applied one after the other *)

\* A set of natural numbers has a least element.
LEMMA Least ==
  ASSUME NEW S \in SUBSET Nat, S # {}
  PROVE  \E n \in S : \A m \in S : n <= m
<1>1. PICK n \in S : \A m \in S : ~ (<<m, n>> \in OpToRel(<, Nat))
  BY NatLessThanWellFounded, WFMin
<1>2. ASSUME NEW m \in S
      PROVE  n <= m
  <2>1. m \in Nat /\ n \in Nat
    OBVIOUS
  <2>2. <<m, n>> \notin OpToRel(<, Nat)
    BY <1>1
  <2>3. ~(m < n)
    BY <2>1, <2>2 DEF OpToRel
  <2> QED
    BY <2>1, <2>3
<1> QED
  BY <1>2

\* Induction up to N, over the set of the numbers that have a property: there is
\* no least number that lacks it.
LEMMA UpTo ==
  ASSUME NEW N \in Nat, NEW G, 0 \in G, \A n \in Nat : n < N /\ n \in G => n + 1 \in G
  PROVE  \A n \in 0..N : n \in G
<1> DEFINE Bad == {n \in 0..N : n \notin G}
<1> SUFFICES ASSUME Bad # {}
             PROVE  FALSE
  OBVIOUS
<1>1. PICK n \in Bad : \A m \in Bad : n <= m
  <2>1. Bad \in SUBSET Nat
    OBVIOUS
  <2> QED
    BY <2>1, Least
<1>2. n \in Nat /\ n # 0 /\ n <= N
  OBVIOUS
<1>3. n - 1 \in Nat /\ n - 1 < N /\ (n - 1) + 1 = n /\ n - 1 \in 0..N
  BY <1>2
<1>4. n - 1 \notin Bad
  BY <1>1, <1>2, <1>3
<1> QED
  BY <1>3, <1>4

\* What one block makes of the text v.
Next1(v, b) == IF v # Absent /\ Replaceable(v, b) THEN Replace(v, b) ELSE Absent

\* f follows the blocks of bs as far as k.
Follows(f, str, bs, k) ==
  f = [n \in 0..k |-> IF n = 0 THEN str ELSE Next1(f[n - 1], bs[n])]

\* The texts after the first blocks exist, for each number of blocks.
LEMMA FollowsExists ==
  ASSUME NEW str, NEW bs, NEW N \in Nat
  PROVE  \E f : Follows(f, str, bs, N)
<1> DEFINE G == {k \in Nat : \E f : Follows(f, str, bs, k)}
<1>1. 0 \in G
  <2> DEFINE f == [n \in 0..0 |-> str]
  <2>1. \A n \in 0..0 : n = 0
    OBVIOUS
  <2>2. f = [n \in 0..0 |-> IF n = 0 THEN str ELSE Next1(f[n - 1], bs[n])]
    BY <2>1
  <2> QED
    BY <2>2 DEF Follows
<1>2. ASSUME NEW j \in Nat, j \in G
      PROVE  j + 1 \in G
  <2> DEFINE k == j + 1
  <2>1. k \in Nat /\ k # 0 /\ k - 1 = j
    OBVIOUS
  <2>2. PICK f : Follows(f, str, bs, k - 1)
    BY <1>2, <2>1
  <2> HIDE DEF k
  <2> DEFINE v(n) == IF n = k THEN Next1(f[k - 1], bs[k]) ELSE f[n]
             g == [n \in 0..k |-> v(n)]
  <2>3. ASSUME NEW n \in 0..k
        PROVE  g[n] = IF n = 0 THEN str ELSE Next1(g[n - 1], bs[n])
    <3>1. CASE n = k
      <4>1. n - 1 \in 0..k /\ n - 1 # k /\ n # 0
        BY <2>1, <3>1
      <4> QED
        BY <3>1, <4>1
    <3>2. CASE n # k
      <4>1. n \in 0..k - 1
        BY <2>1, <3>2
      <4>2. f[n] = IF n = 0 THEN str ELSE Next1(f[n - 1], bs[n])
        BY <2>2, <4>1 DEF Follows
      <4>3. CASE n = 0
        BY <3>2, <4>2, <4>3
      <4>4. CASE n # 0
        <5>1. n - 1 \in 0..k /\ n - 1 # k
          BY <2>1, <4>4
        <5> QED
          BY <3>2, <4>2, <4>4, <5>1
      <4> QED
        BY <4>3, <4>4
    <3> QED
      BY <3>1, <3>2
  <2>4. Follows(g, str, bs, k)
    <3> DEFINE h == [n \in 0..k |-> IF n = 0 THEN str ELSE Next1(g[n - 1], bs[n])]
    <3>1. g = h
      <4>1. \A n \in 0..k : g[n] = h[n]
        BY <2>3
      <4> QED
        BY <4>1
    <3> QED
      BY <3>1 DEF Follows
  <2> QED
    BY <2>1, <2>4 DEF k
<1>3. \A n \in 0..N : n \in G
  <2> HIDE DEF G
  <2> QED
    BY <1>1, <1>2, UpTo
<1> QED
  BY <1>3

\* Applied is the function its definition describes.
LEMMA AppliedFollows ==
  ASSUME NEW str, NEW bs, Len(bs) \in Nat
  PROVE  Follows(Applied(str, bs), str, bs, Len(bs))
<1>1. \E f : Follows(f, str, bs, Len(bs))
  BY FollowsExists
<1>2. Applied(str, bs) = CHOOSE f : Follows(f, str, bs, Len(bs))
  BY DEF Applied, Follows, Next1
<1> QED
  BY <1>1, <1>2

\* The text before the first block, and after each one.
LEMMA AppliedAt ==
  ASSUME NEW str, NEW bs, Len(bs) \in Nat
  PROVE  /\ Applied(str, bs)[0] = str
         /\ \A n \in 1..Len(bs) : Applied(str, bs)[n] = Next1(Applied(str, bs)[n - 1], bs[n])
<1> DEFINE f == Applied(str, bs)
<1>1. f = [n \in 0..Len(bs) |-> IF n = 0 THEN str ELSE Next1(f[n - 1], bs[n])]
  BY AppliedFollows DEF Follows
<1> HIDE DEF f
<1>2. f[0] = str
  BY <1>1
<1>3. ASSUME NEW n \in 1..Len(bs)
      PROVE  f[n] = Next1(f[n - 1], bs[n])
  BY <1>1
<1> QED
  BY <1>2, <1>3 DEF f

\* Where w differs from text.
Changed(str, w) == {i \in DOMAIN str : w[i] # str[i]}

\* One block replaces pieces it searches for and no others, and only one of
\* them unless it is to replace all.
LEMMA ReplaceChanges ==
  ASSUME NEW v \in Seq(Pieces), NEW b \in Blocks, Replaceable(v, b)
  PROVE  /\ Replace(v, b) \in Seq(Pieces)
         /\ Len(Replace(v, b)) = Len(v) /\ DOMAIN Replace(v, b) = DOMAIN v
         /\ \A i \in DOMAIN v : v[i] # b.search => Replace(v, b)[i] = v[i]
         /\ ~b.all => \E k \in DOMAIN v : Changed(v, Replace(v, b)) \subseteq {k}
<1> DEFINE w == Replace(v, b)
<1>1. b.search \in Pieces /\ b.replace \in Pieces /\ b.all \in BOOLEAN
  BY DEF Blocks
<1>2. DOMAIN v = 1..Len(v) /\ Len(v) \in Nat /\ \A i \in 1..Len(v) : v[i] \in Pieces
  OBVIOUS
<1>3. w \in [1..Len(v) -> Pieces]
  BY <1>1, <1>2 DEF Replace
<1>4. w \in Seq(Pieces) /\ Len(w) = Len(v) /\ DOMAIN w = DOMAIN v
  BY <1>2, <1>3
<1>5. \A i \in DOMAIN v : v[i] # b.search => w[i] = v[i]
  BY DEF Replace
<1>6. ASSUME ~b.all
      PROVE  \E k \in DOMAIN v : Changed(v, w) \subseteq {k}
  <2>1. Places(v, b.search) \subseteq 1..Len(v)
    BY <1>2 DEF Places
  <2>2. IsFiniteSet(Places(v, b.search)) /\ Cardinality(Places(v, b.search)) = 1
    <3>1. IsFiniteSet(1..Len(v))
      BY <1>2, FS_Interval
    <3>2. IsFiniteSet(Places(v, b.search))
      BY <2>1, <3>1, FS_Subset
    <3> QED
      BY <1>6, <3>2 DEF Replaceable
  <2>3. PICK k : Places(v, b.search) = {k}
    BY <2>2, FS_Singleton
  <2>4. k \in DOMAIN v
    BY <2>3 DEF Places
  <2>5. ASSUME NEW i \in Changed(v, w)
        PROVE  i = k
    <3>1. i \in DOMAIN v /\ v[i] = b.search
      BY <1>5, <2>5 DEF Changed
    <3> QED
      BY <2>3, <3>1 DEF Places
  <2> QED
    BY <2>4, <2>5
<1> QED
  BY <1>4, <1>5, <1>6

\* What n blocks have made of the text.
AfterBlocks(str, bs, n, w) ==
  /\ w \in Seq(Pieces) /\ DOMAIN w = DOMAIN str
  /\ \A i \in DOMAIN str : (\A m \in 1..n : bs[m].search # str[i]) => w[i] = str[i]
  /\ (\A m \in 1..n : ~bs[m].all) =>
       IsFiniteSet(Changed(str, w)) /\ Cardinality(Changed(str, w)) <= n

\* ApplyPatchBlocks fails, or edits the text as its blocks say: by induction
\* over the blocks.
LEMMA AppliedEdits ==
  ASSUME FileAssumption, NEW str \in Seq(Pieces), NEW bs \in Seq(Blocks)
  PROVE  \A n \in 0..Len(bs) :
           Applied(str, bs)[n] # Absent => AfterBlocks(str, bs, n, Applied(str, bs)[n])
<1> DEFINE f == Applied(str, bs)
           G == {n \in Nat : n <= Len(bs) /\ (f[n] # Absent => AfterBlocks(str, bs, n, f[n]))}
<1>1. Len(bs) \in Nat /\ \A n \in 1..Len(bs) : bs[n] \in Blocks
  OBVIOUS
<1>2. f[0] = str /\ \A n \in 1..Len(bs) : f[n] = Next1(f[n - 1], bs[n])
  BY <1>1, AppliedAt
<1> HIDE DEF f
<1>3. 0 \in G
  <2>1. Changed(str, str) = {}
    BY DEF Changed
  <2>2. IsFiniteSet(Changed(str, str)) /\ Cardinality(Changed(str, str)) <= 0
    BY <2>1, FS_EmptySet
  <2>3. AfterBlocks(str, bs, 0, str)
    BY <2>2 DEF AfterBlocks
  <2> QED
    BY <1>1, <1>2, <2>3
<1>4. ASSUME NEW j \in Nat, j < Len(bs), j \in G
      PROVE  j + 1 \in G
  <2> DEFINE n == j + 1
             v == f[j]
             w == f[n]
             b == bs[n]
  <2>1. n \in 1..Len(bs) /\ n - 1 = j /\ n \in Nat /\ n <= Len(bs)
    BY <1>1, <1>4
  <2>2. w = Next1(v, b) /\ b \in Blocks
    BY <1>1, <1>2, <2>1
  <2> SUFFICES ASSUME w # Absent
               PROVE  AfterBlocks(str, bs, n, w)
    BY <2>1
  <2>3. v # Absent /\ Replaceable(v, b) /\ w = Replace(v, b)
    BY <2>2 DEF Next1
  <2>4. AfterBlocks(str, bs, j, v)
    BY <1>4, <2>3
  <2> HIDE DEF n, v, w, b
  <2>5. /\ v \in Seq(Pieces) /\ DOMAIN v = DOMAIN str
        /\ w \in Seq(Pieces) /\ DOMAIN w = DOMAIN v
        /\ \A i \in DOMAIN v : v[i] # b.search => w[i] = v[i]
        /\ ~b.all => \E k \in DOMAIN v : Changed(v, w) \subseteq {k}
    BY <2>2, <2>3, <2>4, ReplaceChanges DEF AfterBlocks
  <2>6. 1..j \subseteq 1..n /\ n \in 1..n
    BY <2>1
  <2>7. ASSUME NEW i \in DOMAIN str, \A m \in 1..n : bs[m].search # str[i]
        PROVE  w[i] = str[i]
    <3>1. v[i] = str[i]
      BY <2>4, <2>6, <2>7 DEF AfterBlocks
    <3>2. b.search # str[i]
      BY <2>6, <2>7 DEF b
    <3> QED
      BY <2>5, <3>1, <3>2
  <2>8. ASSUME \A m \in 1..n : ~bs[m].all
        PROVE  IsFiniteSet(Changed(str, w)) /\ Cardinality(Changed(str, w)) <= n
    <3>1. IsFiniteSet(Changed(str, v)) /\ Cardinality(Changed(str, v)) <= j
      BY <2>4, <2>6, <2>8 DEF AfterBlocks
    <3>2. PICK k \in DOMAIN v : Changed(v, w) \subseteq {k}
      BY <2>5, <2>6, <2>8 DEF b
    <3>3. Changed(str, w) \in SUBSET (Changed(str, v) \cup {k})
      BY <2>5, <3>2 DEF Changed
    <3>4. /\ IsFiniteSet(Changed(str, v) \cup {k})
          /\ Cardinality(Changed(str, v) \cup {k}) <= Cardinality(Changed(str, v)) + 1
      <4> DEFINE S == Changed(str, v)
      <4> HIDE DEF S
      <4>1. IsFiniteSet(S) /\ Cardinality(S) \in Nat
        BY <3>1, FS_CardinalityType DEF S
      <4>2. /\ IsFiniteSet(S \cup {k})
            /\ Cardinality(S \cup {k}) = IF k \in S THEN Cardinality(S) ELSE Cardinality(S) + 1
        BY <4>1, FS_AddElement, Zenon
      <4>3. IsFiniteSet(S \cup {k}) /\ Cardinality(S \cup {k}) <= Cardinality(S) + 1
        BY <4>1, <4>2
      <4> QED
        BY <4>3 DEF S
    <3>5. /\ IsFiniteSet(Changed(str, w))
          /\ Cardinality(Changed(str, w)) <= Cardinality(Changed(str, v) \cup {k})
      BY <3>3, <3>4, FS_Subset
    <3>6. /\ Cardinality(Changed(str, v)) \in Nat /\ Cardinality(Changed(str, w)) \in Nat
          /\ Cardinality(Changed(str, v) \cup {k}) \in Nat
      BY <3>1, <3>4, <3>5, FS_CardinalityType
    <3> QED
      BY <2>1, <3>1, <3>4, <3>5, <3>6
  <2> QED
    BY <2>5, <2>7, <2>8 DEF AfterBlocks
<1>5. \A n \in 0..Len(bs) : n \in G
  <2> HIDE DEF G
  <2> QED
    BY <1>1, <1>3, <1>4, UpTo
<1> QED
  BY <1>5 DEF f

\* An update computes what its blocks mean, or nothing.
THEOREM UpdatesMeanTheirBlocks ==
  ASSUME FileAssumption, NEW g \in Targets, NEW old \in Seq(Pieces),
         ApplyBlocks(old, g.blocks) # Absent
  PROVE  ApplyBlocks(old, g.blocks) \in Seq(Pieces) /\ Edits(g, old, ApplyBlocks(old, g.blocks))
<1> DEFINE bs == g.blocks
           n == Len(bs)
           w == ApplyBlocks(old, bs)
<1>1. bs \in Seq(Blocks)
  BY DEF Targets
<1>2. n \in Nat /\ n \in 0..n /\ DOMAIN bs = 1..n
  BY <1>1
<1>3. w = Applied(old, bs)[n]
  BY DEF ApplyBlocks
<1> HIDE DEF bs, n, w
<1>4. AfterBlocks(old, bs, n, w)
  <2>1. Applied(old, bs)[n] # Absent
    BY <1>3 DEF w, bs
  <2> QED
    BY <1>1, <1>2, <1>3, <2>1, AppliedEdits DEF n
<1>5. w \in Seq(Pieces) /\ Edits(g, old, w)
  BY <1>2, <1>4 DEF Edits, AfterBlocks, Changed, bs, n
<1> QED
  BY <1>5 DEF w, bs

-----------------------------------------------------------------------------
(* The invariant *)

\* What a call has computed is what its targets mean for the files it began with.
ResultsOK(c) ==
  \A n \in 1..Len(results[c]) :
    Means(plan[c][n], before[c][plan[c][n].path], results[c][n])

\* What it has written is there, and the rest is as it was.
WrittenOK(c) ==
  /\ \A n \in DOMAIN plan[c] :
       LET g == plan[c][n]
       IN /\ n < at[c] => Means(g, before[c][g.path], files[g.path])
          /\ n >= at[c] => files[g.path] = before[c][g.path]
  /\ \A p \in Paths \ PathsOf(plan[c]) : files[p] = before[c][p]

CallOK(c) ==
  /\ pc[c] = "idle" => at[c] = 1 /\ results[c] = <<>>
  /\ pc[c] = "planning" => Len(results[c]) + 1 = at[c]
  /\ pc[c] = "asking" => at[c] = 1
  /\ pc[c] \in Working /\ ~interfered[c] => ResultsOK(c)
  /\ pc[c] \in {"planning", "asking"} /\ ~interfered[c] => files = before[c]
  /\ pc[c] = "writing" /\ ~interfered[c] /\ Distinct(plan[c]) => WrittenOK(c)

\* The properties of FileTools speak of the last step of a call; what it does
\* then is right because of what it has computed and written before.
FileInv ==
  /\ TypeOK
  /\ at \in [Calls -> Nat]
  /\ \A c \in Calls : CallOK(c)

-----------------------------------------------------------------------------
(* Targets *)

\* The targets of a call and the files they are about.
LEMMA TargetTypes ==
  ASSUME TypeOK, NEW c \in Calls
  PROVE  /\ plan[c] \in Seq(Targets) /\ results[c] \in Seq(Contents)
         /\ before[c] \in [Paths -> Contents] /\ files \in [Paths -> Contents]
         /\ Len(plan[c]) \in Nat /\ DOMAIN plan[c] = 1..Len(plan[c])
         /\ Len(results[c]) \in Nat /\ DOMAIN results[c] = 1..Len(results[c])
         /\ \A n \in DOMAIN plan[c] :
              /\ plan[c][n] \in Targets /\ plan[c][n].path \in Paths
              /\ plan[c][n].path \in PathsOf(plan[c])
         /\ pc[c] # "idle" => at[c] \in DOMAIN plan[c] /\ Target(c) \in Targets
<1>1. /\ plan[c] \in Seq(Targets) /\ results[c] \in Seq(Contents)
      /\ before[c] \in [Paths -> Contents] /\ files \in [Paths -> Contents]
  BY DEF TypeOK
<1>2. \A n \in DOMAIN plan[c] : plan[c][n] \in Targets
  <2> HIDE DEF Targets
  <2> QED
    BY <1>1
<1>3. \A g \in Targets : g.path \in Paths
  BY DEF Targets
<1> QED
  BY <1>1, <1>2, <1>3 DEF TypeOK, PathsOf, Target

\* What is computed for a target is what the target means for the file.
LEMMA ComputedMeans ==
  ASSUME FileAssumption, TypeOK, NEW g \in Targets, Computable(g)
  PROVE  Computed(g) \in Contents /\ Means(g, files[g.path], Computed(g))
<1>1. g.path \in Paths /\ g.mode \in {"add", "update", "delete"} /\ g.text \in Seq(Pieces)
  BY DEF Targets
<1>2. files[g.path] \in Contents
  BY <1>1 DEF TypeOK
<1>3. CASE g.mode = "add"
  BY <1>1, <1>3 DEF Computed, Means, Contents
<1>4. CASE g.mode = "delete"
  BY <1>4 DEF Computed, Computable, Means, Contents
<1>5. CASE g.mode = "update"
  <2> DEFINE old == files[g.path]
             new == ApplyBlocks(old, g.blocks)
  <2>1. old \in Seq(Pieces)
    BY <1>2, <1>5 DEF Computable, Contents
  <2>2. Computed(g) = new /\ old # Absent /\ new # Absent
    BY <1>5 DEF Computable, Computed
  <2>3. new \in Seq(Pieces) /\ Edits(g, old, new)
    BY <2>1, <2>2, UpdatesMeanTheirBlocks
  <2> HIDE DEF old, new
  <2>4. Means(g, old, new)
    BY <1>5, <2>2, <2>3 DEF Means
  <2> QED
    BY <2>2, <2>3, <2>4 DEF Contents, old
<1> QED
  BY <1>1, <1>3, <1>4, <1>5

-----------------------------------------------------------------------------
(* What a step leaves alone *)

\* The parts of TypeOK that speak of one variable, and of one call.
FieldTypes ==
  /\ files \in [Paths -> Contents] /\ pc \in [Calls -> Pcs]
  /\ plan \in [Calls -> Seq(Targets)] /\ at \in [Calls -> Nat]
  /\ results \in [Calls -> Seq(Contents)] /\ saves \in 0..MaxSaves
  /\ before \in [Calls -> [Paths -> Contents]] /\ interfered \in [Calls -> BOOLEAN]

Shape(c) ==
  /\ pc[c] # "idle" => plan[c] # <<>> /\ at[c] \in DOMAIN plan[c]
  /\ pc[c] \in {"asking", "writing", "completed", "failed"} => Len(results[c]) = Len(plan[c])

\* Together they are TypeOK.
LEMMA TypeParts ==
  TypeOK /\ at \in [Calls -> Nat] <=> FieldTypes /\ \A c \in Calls : Shape(c)
  BY DEF TypeOK, FieldTypes, Shape

\* The state of call c.
Mine(c) == <<pc[c], plan[c], at[c], results[c], before[c]>>

\* Call c has lost nothing by a step of somebody else: either no file has
\* changed, or it is not at work, or it counts as interfered with.
Spared(c) ==
  \/ UNCHANGED <<files, interfered[c]>>
  \/ pc[c] \in Working => interfered'[c]

\* A step of a call changes no other call's state.
LEMMA OthersKeep ==
  ASSUME FieldTypes, NEW c \in Calls, NEW d \in Calls, d # c, Step(c)
  PROVE  UNCHANGED Mine(d) /\ Spared(d)
<1> USE DEF FieldTypes, Mine, Spared, Set, Goto
<1>1. ASSUME NEW p \in Plans, Begin(c, p)
      PROVE  UNCHANGED Mine(d) /\ Spared(d)
  BY <1>1 DEF Begin
<1>2. CASE ComputeTarget(c) \/ ComputeFails(c)
  BY <1>2 DEF ComputeTarget, ComputeFails
<1>3. CASE Allowed(c) \/ NotAllowed(c)
  BY <1>3 DEF Allowed, NotAllowed
<1>4. CASE Remove(c) \/ RemoveFails(c)
  BY <1>4 DEF Remove, RemoveFails, Advance, Change
<1>5. CASE Write(c)
  BY <1>5 DEF Write, Advance, Change
<1>6. CASE WriteFails(c)
  BY <1>6 DEF WriteFails, Change
<1> QED
  BY <1>1, <1>2, <1>3, <1>4, <1>5, <1>6 DEF Step

\* Nor does the editor.
LEMMA EditorSpares ==
  ASSUME FieldTypes, NEW d \in Calls, NEW p \in Paths, NEW v \in Saved, EditorSaves(p, v)
  PROVE  UNCHANGED Mine(d) /\ Spared(d)
  BY DEF FieldTypes, EditorSaves, Mine, Spared

\* Such a call keeps its part of the invariant.
LEMMA OtherOK ==
  ASSUME NEW d \in Calls, CallOK(d), Shape(d), UNCHANGED Mine(d), Spared(d)
  PROVE  CallOK(d)' /\ Shape(d)'
<1>1. /\ pc'[d] = pc[d] /\ plan'[d] = plan[d] /\ at'[d] = at[d]
      /\ results'[d] = results[d] /\ before'[d] = before[d]
  BY DEF Mine
<1>2. Shape(d)'
  BY <1>1 DEF Shape
<1>3. ResultsOK(d) => ResultsOK(d)'
  BY <1>1 DEF ResultsOK
<1>4. CASE UNCHANGED <<files, interfered[d]>>
  <2>1. files' = files /\ interfered'[d] = interfered[d]
    BY <1>4
  <2>2. WrittenOK(d) => WrittenOK(d)'
    BY <1>1, <2>1 DEF WrittenOK, PathsOf
  <2>3. Distinct(plan[d])' = Distinct(plan[d])
    BY <1>1 DEF Distinct
  <2> QED
    BY <1>1, <1>2, <1>3, <2>1, <2>2, <2>3 DEF CallOK
<1>5. CASE pc[d] \in Working => interfered'[d]
  BY <1>1, <1>2, <1>5 DEF CallOK, Working
<1> QED
  BY <1>4, <1>5 DEF Spared

-----------------------------------------------------------------------------
(* The steps of a call *)

\* A call begins with the files as they are.
LEMMA BeginKeeps ==
  ASSUME FileAssumption, FileInv, FieldTypes, NEW c \in Calls, NEW p \in Plans, Begin(c, p)
  PROVE  FieldTypes' /\ Shape(c)' /\ CallOK(c)'
<1>1. p \in Seq(Targets) /\ p # <<>> /\ Len(p) \in Nat /\ 1 \in DOMAIN p
  <2> HIDE DEF Targets
  <2> QED
    BY DEF FileAssumption
<1> HIDE DEF Targets, Contents
<1>2. FieldTypes'
  BY <1>1 DEF FieldTypes, Begin, Goto, Set, Pcs
<1>3. /\ pc'[c] = "planning" /\ plan'[c] = p /\ before'[c] = files /\ files' = files
      /\ at'[c] = 1 /\ results'[c] = <<>>
  BY DEF FileInv, CallOK, FieldTypes, Begin, Goto, Set
<1>4. Shape(c)'
  BY <1>1, <1>3 DEF Shape
<1>5. CallOK(c)'
  BY <1>3 DEF CallOK, ResultsOK
<1> QED
  BY <1>2, <1>4, <1>5

\* One more target is computed, from the files as they were at the beginning
\* if nobody has interfered.
LEMMA ComputeKeeps ==
  ASSUME FileAssumption, FileInv, FieldTypes, NEW c \in Calls, Shape(c), CallOK(c),
         ComputeTarget(c)
  PROVE  FieldTypes' /\ Shape(c)' /\ CallOK(c)'
<1> DEFINE g == Target(c)
           v == Computed(g)
           N == Len(plan[c])
           k == at[c]
<1>1. pc[c] = "planning" /\ Computable(g)
  BY DEF ComputeTarget, Goto
<1>2. /\ k \in 1..N /\ N \in Nat /\ k \in Nat /\ g \in Targets /\ g = plan[c][k] /\ DOMAIN plan[c] = 1..N
      /\ Len(results[c]) \in Nat /\ Len(results[c]) + 1 = k /\ results[c] \in Seq(Contents)
  BY <1>1, TargetTypes DEF FileInv, Target, CallOK
<1>3. v \in Contents /\ Means(g, files[g.path], v)
  BY <1>1, <1>2, ComputedMeans DEF FileInv
<1> HIDE DEF Targets, Contents
<1>4. /\ pc' = [pc EXCEPT ![c] = IF k = N THEN "asking" ELSE "planning"]
      /\ at' = [at EXCEPT ![c] = IF k = N THEN 1 ELSE k + 1]
      /\ results' = [results EXCEPT ![c] = Append(results[c], v)]
      /\ UNCHANGED <<files, plan, saves, before, interfered>>
  BY DEF ComputeTarget, Goto, Set, Last
<1>5. /\ Append(results[c], v) \in Seq(Contents) /\ Len(Append(results[c], v)) = k
      /\ \A n \in 1..Len(results[c]) : Append(results[c], v)[n] = results[c][n]
      /\ Append(results[c], v)[k] = v
  <2> HIDE DEF v, k
  <2> QED
    BY <1>2, <1>3
<1> HIDE DEF g, v, N, k
<1>6. /\ pc'[c] = IF k = N THEN "asking" ELSE "planning"
      /\ at'[c] = IF k = N THEN 1 ELSE k + 1
      /\ results'[c] = Append(results[c], v)
  BY <1>4 DEF FieldTypes
<1>7. FieldTypes'
  BY <1>2, <1>4, <1>5 DEF FieldTypes, Pcs
<1>8. Shape(c)'
  <2>1. 1 \in 1..N /\ (k # N => k + 1 \in 1..N)
    BY <1>2
  <2>2. Len(plan'[c]) = N /\ DOMAIN plan'[c] = 1..N /\ plan'[c] # <<>>
    BY <1>1, <1>2, <1>4 DEF Shape, N
  <2> QED
    BY <1>5, <1>6, <2>1, <2>2 DEF Shape
<1>9. CallOK(c)'
  <2>1. ASSUME ~interfered[c]
        PROVE  ResultsOK(c)' /\ files' = before'[c]
    <3>1. files = before[c] /\ ResultsOK(c)
      BY <1>1, <2>1 DEF CallOK, Working
    <3>2. ASSUME NEW n \in 1..k
          PROVE  Means(plan[c][n], before[c][plan[c][n].path], Append(results[c], v)[n])
      <4>1. CASE n = k
        BY <1>2, <1>3, <1>5, <3>1, <4>1
      <4>2. CASE n # k
        <5>1. n \in 1..Len(results[c])
          BY <1>2, <4>2
        <5> QED
          BY <1>5, <3>1, <5>1 DEF ResultsOK
      <4> QED
        BY <4>1, <4>2
    <3> QED
      BY <1>4, <1>5, <1>6, <3>1, <3>2 DEF ResultsOK
  <2> QED
    BY <1>2, <1>4, <1>5, <1>6, <2>1 DEF CallOK, Working
<1> QED
  BY <1>7, <1>8, <1>9

\* A call that is over is of no more interest.
LEMMA EndKeeps ==
  ASSUME FileInv, FieldTypes, NEW c \in Calls, Shape(c), CallOK(c),
         ComputeFails(c) \/ NotAllowed(c) \/ RemoveFails(c)
  PROVE  FieldTypes' /\ Shape(c)' /\ CallOK(c)'
<1>1. /\ UNCHANGED <<files, plan, at, results, saves, before, interfered>>
      /\ \/ pc' = [pc EXCEPT ![c] = "refused"]
         \/ pc[c] = "writing" /\ pc' = [pc EXCEPT ![c] = "failed"]
      /\ pc[c] # "idle"
  BY DEF ComputeFails, NotAllowed, RemoveFails, Goto, Set
<1>2. FieldTypes'
  BY <1>1 DEF FieldTypes, Pcs
<1>3. pc'[c] = "refused" \/ (pc'[c] = "failed" /\ pc[c] = "writing")
  BY <1>1 DEF FieldTypes
<1>4. Shape(c)' /\ CallOK(c)'
  BY <1>1, <1>3 DEF Shape, CallOK, Working
<1> QED
  BY <1>2, <1>4

\* Once allowed, a call writes to the files it began with, unless somebody has
\* interfered while it asked.
LEMMA AllowedKeeps ==
  ASSUME FileInv, FieldTypes, NEW c \in Calls, Shape(c), CallOK(c), Allowed(c)
  PROVE  FieldTypes' /\ Shape(c)' /\ CallOK(c)'
<1>1. /\ UNCHANGED <<files, plan, at, results, saves, before, interfered>>
      /\ pc[c] = "asking" /\ pc' = [pc EXCEPT ![c] = "writing"]
  BY DEF Allowed, Goto, Set
<1>2. FieldTypes' /\ pc'[c] = "writing"
  BY <1>1 DEF FieldTypes, Pcs
<1>3. Shape(c)'
  BY <1>1, <1>2 DEF Shape
<1>4. ASSUME ~interfered[c]
      PROVE  ResultsOK(c)' /\ WrittenOK(c)'
  <2>1. ResultsOK(c) /\ files = before[c] /\ at[c] = 1
    BY <1>1, <1>4 DEF CallOK, Working
  <2>2. \A n \in DOMAIN plan[c] : n \in Nat /\ n >= 1 /\ ~(n < 1)
    BY TargetTypes DEF FileInv
  <2>3. WrittenOK(c)
    BY <2>1, <2>2 DEF WrittenOK
  <2> QED
    BY <1>1, <2>1, <2>3 DEF ResultsOK, WrittenOK, PathsOf
<1>5. CallOK(c)'
  BY <1>1, <1>2, <1>4 DEF CallOK
<1> QED
  BY <1>2, <1>3, <1>5
-----------------------------------------------------------------------------
(* The second pass: one target is written *)

\* A write changes one file, and disturbs every call at work but its own.
LEMMA ChangesOne ==
  ASSUME FileInv, FieldTypes, NEW c \in Calls, pc[c] = "writing", NEW v \in Contents,
         Change(c, Target(c).path, v)
  PROVE  /\ files' \in [Paths -> Contents] /\ interfered' \in [Calls -> BOOLEAN]
         /\ interfered'[c] = interfered[c] /\ files'[Target(c).path] = v
         /\ \A p \in Paths : p # Target(c).path => files'[p] = files[p]
<1>1. Target(c).path \in Paths
  BY TargetTypes DEF FileInv, Target
<1> HIDE DEF Contents
<1>2. /\ files' \in [Paths -> Contents] /\ files'[Target(c).path] = v
      /\ \A p \in Paths : p # Target(c).path => files'[p] = files[p]
  BY <1>1 DEF FieldTypes, Change, Set
<1>3. interfered' \in [Calls -> BOOLEAN] /\ interfered'[c] = interfered[c]
  BY DEF FieldTypes, Change
<1> QED
  BY <1>2, <1>3

\* When the files of a plan are different, writing one of them leaves what was
\* written before and what is still to be written as it is.
LEMMA RestStands ==
  ASSUME FileInv, NEW c \in Calls, pc[c] = "writing", WrittenOK(c), Distinct(plan[c]),
         \A p \in Paths : p # Target(c).path => files'[p] = files[p]
  PROVE  /\ \A n \in DOMAIN plan[c] :
              LET g == plan[c][n]
              IN /\ n < at[c] => Means(g, before[c][g.path], files'[g.path])
                 /\ n > at[c] => files'[g.path] = before[c][g.path]
         /\ \A p \in Paths \ PathsOf(plan[c]) : files'[p] = before[c][p]
<1>1. /\ at[c] \in DOMAIN plan[c] /\ Target(c).path \in PathsOf(plan[c])
      /\ DOMAIN plan[c] = 1..Len(plan[c]) /\ Len(plan[c]) \in Nat
  BY TargetTypes DEF FileInv, Target
<1>2. ASSUME NEW n \in DOMAIN plan[c], n # at[c]
      PROVE  files'[plan[c][n].path] = files[plan[c][n].path]
  <2>1. plan[c][n].path \in Paths
    BY TargetTypes DEF FileInv
  <2>2. plan[c][n].path # Target(c).path
    BY <1>1, <1>2 DEF Distinct, Target
  <2> QED
    BY <2>1, <2>2
<1>3. ASSUME NEW n \in DOMAIN plan[c], n < at[c]
      PROVE  Means(plan[c][n], before[c][plan[c][n].path], files'[plan[c][n].path])
  <2>1. n # at[c]
    BY <1>1, <1>3
  <2> QED
    BY <1>2, <1>3, <2>1 DEF WrittenOK
<1>4. ASSUME NEW n \in DOMAIN plan[c], n > at[c]
      PROVE  files'[plan[c][n].path] = before[c][plan[c][n].path]
  <2>1. n # at[c] /\ n >= at[c]
    BY <1>1, <1>4
  <2> QED
    BY <1>2, <2>1 DEF WrittenOK
<1>5. ASSUME NEW p \in Paths \ PathsOf(plan[c])
      PROVE  files'[p] = before[c][p]
  BY <1>1 DEF WrittenOK
<1> QED
  BY <1>3, <1>4, <1>5

\* What an undisturbed call writes is what its target means.
LEMMA WritesItsTarget ==
  ASSUME FileInv, NEW c \in Calls, Write(c) \/ Remove(c)
  PROVE  \E v \in Contents :
           /\ pc[c] = "writing" /\ Advance(c) /\ Change(c, Target(c).path, v)
           /\ UNCHANGED <<plan, results, saves, before>>
           /\ ~interfered[c] /\ Distinct(plan[c]) =>
                Means(Target(c), before[c][Target(c).path], v)
<1>1. pc[c] = "writing"
  BY DEF Write, Remove, Advance, Goto
<1>2. at[c] \in 1..Len(results[c]) /\ at[c] \in DOMAIN plan[c] /\ results[c] \in Seq(Contents)
  <2>1. Len(results[c]) = Len(plan[c])
    BY <1>1 DEF FileInv, TypeOK
  <2> QED
    BY <1>1, <2>1, TargetTypes DEF FileInv
<1>3. CASE Write(c)
  <2>1. Content(c) \in Contents
    <3> HIDE DEF Contents
    <3> QED
      BY <1>2 DEF Content
  <2>2. ~interfered[c] => Means(Target(c), before[c][Target(c).path], Content(c))
    BY <1>1, <1>2 DEF FileInv, CallOK, ResultsOK, Working, Target, Content
  <2> QED
    BY <1>1, <1>3, <2>1, <2>2 DEF Write
<1>4. CASE Remove(c)
  <2>1. ASSUME ~interfered[c], Distinct(plan[c])
        PROVE  Means(Target(c), before[c][Target(c).path], Absent)
    <3>1. WrittenOK(c)
      BY <1>1, <2>1 DEF FileInv, CallOK
    <3>2. files[Target(c).path] = before[c][Target(c).path]
      <4>1. at[c] >= at[c]
        BY DEF FileInv
      <4> QED
        BY <1>2, <3>1, <4>1 DEF WrittenOK, Target
    <3> QED
      BY <1>4, <3>2 DEF Remove, Means
  <2>2. Absent \in Contents
    BY DEF Contents
  <2> QED
    BY <1>1, <1>4, <2>1, <2>2 DEF Remove
<1> QED
  BY <1>3, <1>4

\* A target that is written joins those that were.
LEMMA WriteKeeps ==
  ASSUME FileInv, FieldTypes, NEW c \in Calls, Shape(c), CallOK(c), Write(c) \/ Remove(c)
  PROVE  FieldTypes' /\ Shape(c)' /\ CallOK(c)'
<1> DEFINE N == Len(plan[c])
           k == at[c]
<1>1. PICK v \in Contents :
           /\ pc[c] = "writing" /\ Advance(c) /\ Change(c, Target(c).path, v)
           /\ UNCHANGED <<plan, results, saves, before>>
           /\ ~interfered[c] /\ Distinct(plan[c]) =>
                Means(Target(c), before[c][Target(c).path], v)
  BY WritesItsTarget
<1> HIDE DEF Contents, Targets
<1>2. /\ files' \in [Paths -> Contents] /\ interfered' \in [Calls -> BOOLEAN]
      /\ interfered'[c] = interfered[c] /\ files'[Target(c).path] = v
      /\ \A p \in Paths : p # Target(c).path => files'[p] = files[p]
  BY <1>1, ChangesOne
<1>3. k \in 1..N /\ N \in Nat /\ DOMAIN plan[c] = 1..N /\ Len(results[c]) = N
  BY <1>1, TargetTypes DEF FileInv, TypeOK
<1>4. /\ pc' = [pc EXCEPT ![c] = IF k = N THEN "completed" ELSE "writing"]
      /\ at' = [at EXCEPT ![c] = IF k = N THEN k ELSE k + 1]
  BY <1>1 DEF Advance, Goto, Set, Last
<1> HIDE DEF N, k
<1>5. /\ pc'[c] = IF k = N THEN "completed" ELSE "writing"
      /\ at'[c] = IF k = N THEN k ELSE k + 1
  BY <1>4 DEF FieldTypes
<1>6. FieldTypes'
  BY <1>1, <1>2, <1>3, <1>4 DEF FieldTypes, Pcs
<1>7. Shape(c)'
  <2>1. k # N => k + 1 \in 1..N
    BY <1>3
  <2>2. plan' = plan /\ results' = results /\ plan[c] # <<>>
    BY <1>1 DEF Shape
  <2> QED
    BY <1>3, <1>5, <2>1, <2>2 DEF Shape, N
<1>8. ASSUME pc'[c] = "writing", ~interfered[c]
      PROVE  ResultsOK(c)'
  BY <1>1, <1>8 DEF CallOK, ResultsOK, Working
<1>9. ASSUME pc'[c] = "writing", ~interfered[c], Distinct(plan[c])
      PROVE  WrittenOK(c)'
  <2>1. WrittenOK(c)
    BY <1>1, <1>9 DEF CallOK
  <2>2. /\ \A n \in 1..N :
             LET g == plan[c][n]
             IN /\ n < k => Means(g, before[c][g.path], files'[g.path])
                /\ n > k => files'[g.path] = before[c][g.path]
        /\ \A p \in Paths \ PathsOf(plan[c]) : files'[p] = before[c][p]
    BY <1>1, <1>2, <1>3, <1>9, <2>1, RestStands DEF k
  <2>3. at'[c] = k + 1
    BY <1>5, <1>9
  <2>4. plan' = plan /\ before' = before
    BY <1>1
  <2>5. ASSUME NEW n \in 1..N
        PROVE  /\ n < k + 1 => Means(plan[c][n], before[c][plan[c][n].path], files'[plan[c][n].path])
               /\ n >= k + 1 => files'[plan[c][n].path] = before[c][plan[c][n].path]
    <3>1. (n < k + 1 => n < k \/ n = k) /\ (n >= k + 1 => n > k)
      BY <1>3
    <3>2. n = k => Means(plan[c][n], before[c][plan[c][n].path], files'[plan[c][n].path])
      BY <1>1, <1>2, <1>9 DEF Target, k
    <3> QED
      BY <2>2, <3>1, <3>2
  <2> QED
    BY <1>3, <2>2, <2>3, <2>4, <2>5 DEF WrittenOK, PathsOf
<1>10. CallOK(c)'
  <2>1. Distinct(plan[c])' = Distinct(plan[c])
    BY <1>1 DEF Distinct
  <2>2. pc'[c] \in {"writing", "completed"}
    BY <1>5
  <2> QED
    BY <1>2, <1>8, <1>9, <2>1, <2>2 DEF CallOK, Working
<1> QED
  BY <1>6, <1>7, <1>10

\* A failed write may have changed its own file, and ends the call.
LEMMA FailureChangesOne ==
  ASSUME FileInv, FieldTypes, NEW c \in Calls, WriteFails(c) \/ RemoveFails(c)
  PROVE  /\ pc[c] = "writing" /\ pc' = [pc EXCEPT ![c] = "failed"]
         /\ UNCHANGED <<plan, at, results, saves, before>>
         /\ files' \in [Paths -> Contents] /\ interfered' \in [Calls -> BOOLEAN]
         /\ \A p \in Paths : p # Target(c).path => files'[p] = files[p]
<1>1. /\ pc[c] = "writing" /\ pc' = [pc EXCEPT ![c] = "failed"]
      /\ UNCHANGED <<plan, at, results, saves, before>>
  BY DEF WriteFails, RemoveFails, Goto, Set
<1>2. CASE UNCHANGED <<files, interfered>>
  BY <1>1, <1>2 DEF FieldTypes
<1>3. ASSUME NEW v \in {<<>>, Content(c)}, Change(c, Target(c).path, v)
      PROVE  /\ files' \in [Paths -> Contents] /\ interfered' \in [Calls -> BOOLEAN]
             /\ \A p \in Paths : p # Target(c).path => files'[p] = files[p]
  <2>1. <<>> \in Contents
    BY DEF Contents
  <2>2. Content(c) \in Contents
    <3>1. Len(results[c]) = Len(plan[c]) /\ at[c] \in DOMAIN plan[c]
      BY <1>1 DEF FileInv, TypeOK
    <3>2. at[c] \in 1..Len(results[c]) /\ results[c] \in Seq(Contents)
      BY <3>1, TargetTypes DEF FileInv
    <3> HIDE DEF Contents
    <3> QED
      BY <3>2 DEF Content
  <2> QED
    BY <1>1, <1>3, <2>1, <2>2, ChangesOne
<1> QED
  BY <1>1, <1>2, <1>3 DEF WriteFails, RemoveFails

\* Such a call keeps its part of the invariant.
LEMMA WriteFailsKeeps ==
  ASSUME FileInv, FieldTypes, NEW c \in Calls, Shape(c), CallOK(c), WriteFails(c)
  PROVE  FieldTypes' /\ Shape(c)' /\ CallOK(c)'
<1>1. /\ pc[c] = "writing" /\ pc' = [pc EXCEPT ![c] = "failed"]
      /\ UNCHANGED <<plan, at, results, saves, before>>
      /\ files' \in [Paths -> Contents] /\ interfered' \in [Calls -> BOOLEAN]
  BY FailureChangesOne
<1>2. FieldTypes' /\ pc'[c] = "failed"
  BY <1>1 DEF FieldTypes, Pcs
<1>3. Shape(c)' /\ CallOK(c)'
  BY <1>1, <1>2 DEF Shape, CallOK, Working
<1> QED
  BY <1>2, <1>3
-----------------------------------------------------------------------------
(* The theorems *)

\* A step of call c keeps what is known of every call.
LEMMA StepKeeps ==
  ASSUME FileAssumption, FileInv, NEW c \in Calls, Step(c)
  PROVE  FileInv'
<1>1. FieldTypes /\ \A d \in Calls : Shape(d) /\ CallOK(d)
  BY TypeParts DEF FileInv
<1>2. FieldTypes' /\ Shape(c)' /\ CallOK(c)'
  <2>1. CASE \E p \in Plans : Begin(c, p)
    BY <1>1, <2>1, BeginKeeps
  <2>2. CASE ComputeTarget(c)
    BY <1>1, <2>2, ComputeKeeps
  <2>3. CASE ComputeFails(c) \/ NotAllowed(c) \/ RemoveFails(c)
    BY <1>1, <2>3, EndKeeps
  <2>4. CASE Allowed(c)
    BY <1>1, <2>4, AllowedKeeps
  <2>5. CASE Write(c) \/ Remove(c)
    BY <1>1, <2>5, WriteKeeps
  <2>6. CASE WriteFails(c)
    BY <1>1, <2>6, WriteFailsKeeps
  <2> QED
    BY <2>1, <2>2, <2>3, <2>4, <2>5, <2>6 DEF Step
<1>3. ASSUME NEW d \in Calls, d # c
      PROVE  Shape(d)' /\ CallOK(d)'
  <2>1. UNCHANGED Mine(d) /\ Spared(d)
    BY <1>1, <1>3, OthersKeep
  <2> QED
    BY <1>1, <2>1, OtherOK
<1>4. \A d \in Calls : Shape(d)' /\ CallOK(d)'
  BY <1>2, <1>3
<1>5. TypeOK' /\ (at \in [Calls -> Nat])'
  BY <1>2, <1>4 DEF TypeOK, FieldTypes, Shape
<1> QED
  BY <1>4, <1>5 DEF FileInv

\* So does a save of the editor.
LEMMA EditorKeeps ==
  ASSUME FileAssumption, FileInv, NEW p \in Paths, NEW v \in Saved, EditorSaves(p, v)
  PROVE  FileInv'
<1>1. FieldTypes /\ \A d \in Calls : Shape(d) /\ CallOK(d)
  BY TypeParts DEF FileInv
<1>2. v \in Contents
  BY DEF FileAssumption, Contents
<1>3. MaxSaves \in Nat
  BY DEF FileAssumption
<1>4. FieldTypes'
  <2> HIDE DEF Contents, Targets
  <2> QED
    BY <1>1, <1>2, <1>3 DEF FieldTypes, EditorSaves, Set
<1>5. ASSUME NEW d \in Calls
      PROVE  Shape(d)' /\ CallOK(d)'
  <2>1. UNCHANGED Mine(d) /\ Spared(d)
    BY <1>1, EditorSpares
  <2> QED
    BY <1>1, <2>1, OtherOK
<1>6. TypeOK' /\ (at \in [Calls -> Nat])'
  BY <1>4, <1>5 DEF TypeOK, FieldTypes, Shape
<1> QED
  BY <1>5, <1>6 DEF FileInv

\* At the beginning no call is at work.
LEMMA FileInit == Init => FileInv
<1> SUFFICES ASSUME Init
             PROVE  FileInv
  OBVIOUS
<1> HIDE DEF Targets, Contents
<1>1. TypeOK /\ at \in [Calls -> Nat]
  BY FileAssumption DEF Init, TypeOK, FileAssumption, Pcs
<1>2. \A c \in Calls : CallOK(c)
  BY DEF Init, CallOK, Working
<1> QED
  BY <1>1, <1>2 DEF FileInv

\* No step breaks the invariant.
LEMMA FileNext == FileInv /\ [Next]_vars => FileInv'
<1> SUFFICES ASSUME FileInv, [Next]_vars
             PROVE  FileInv'
  OBVIOUS
<1>1. ASSUME NEW c \in Calls, Step(c)
      PROVE  FileInv'
  BY <1>1, FileAssumption, StepKeeps
<1>2. ASSUME NEW p \in Paths, NEW v \in Saved, EditorSaves(p, v)
      PROVE  FileInv'
  BY <1>2, FileAssumption, EditorKeeps
<1>3. CASE UNCHANGED vars
  <2>1. TypeOK' /\ (at \in [Calls -> Nat])'
    BY <1>3 DEF vars, FileInv, TypeOK
  <2>2. ASSUME NEW d \in Calls
        PROVE  CallOK(d)'
    <3>1. UNCHANGED Mine(d) /\ Spared(d)
      BY <1>3 DEF vars, Mine, Spared
    <3>2. CallOK(d) /\ Shape(d)
      BY TypeParts DEF FileInv
    <3> QED
      BY <3>1, <3>2, OtherOK
  <2> QED
    BY <2>1, <2>2 DEF FileInv
<1> QED
  BY <1>1, <1>2, <1>3 DEF Next

\* In every reachable state a call that nobody has interfered with has computed
\* what its targets mean and has done those it has written, whatever the others
\* and the editor do.
THEOREM FileInvariant == Spec => []FileInv
  BY FileInit, FileNext, PTL DEF Spec

\* The variables keep their types, and a call that may write has computed every
\* one of its targets.
THEOREM FileTypesKept == Spec => []TypeOK
<1>1. FileInv => TypeOK
  BY DEF FileInv
<1> QED
  BY <1>1, FileInvariant, PTL

\* Only its own steps move a call.
LEMMA OwnStep ==
  ASSUME FileInv, Next, NEW c \in Calls, pc'[c] # pc[c]
  PROVE  Step(c)
<1>1. FieldTypes
  BY TypeParts DEF FileInv
<1>2. ASSUME NEW d \in Calls, Step(d), d # c
      PROVE  pc'[c] = pc[c]
  BY <1>1, <1>2, OthersKeep DEF Mine
<1>3. ASSUME NEW p \in Paths, NEW v \in Saved, EditorSaves(p, v)
      PROVE  pc'[c] = pc[c]
  BY <1>3 DEF EditorSaves
<1> QED
  BY <1>2, <1>3 DEF Next

\* The steps that end a call.
LEMMA LastSteps ==
  ASSUME FileInv, Next, NEW c \in Calls, pc'[c] # pc[c]
  PROVE  /\ pc'[c] = "completed" => Write(c) \/ Remove(c)
         /\ pc'[c] = "failed" => WriteFails(c) \/ RemoveFails(c)
         /\ pc'[c] = "refused" => pc[c] \in {"planning", "asking"} /\ files' = files
                                  /\ before' = before
<1>1. FieldTypes /\ Step(c)
  BY TypeParts, OwnStep DEF FileInv
<1> USE DEF FieldTypes, Goto, Set
<1>2. ASSUME NEW p \in Plans, Begin(c, p)
      PROVE  pc'[c] = "planning"
  BY <1>1, <1>2 DEF Begin
<1>3. ComputeTarget(c) => pc'[c] \in {"planning", "asking"}
  BY <1>1 DEF ComputeTarget
<1>4. ComputeFails(c) => pc'[c] = "refused" /\ pc[c] = "planning" /\ files' = files /\ before' = before
  BY <1>1 DEF ComputeFails
<1>5. NotAllowed(c) => pc'[c] = "refused" /\ pc[c] = "asking" /\ files' = files /\ before' = before
  BY <1>1 DEF NotAllowed
<1>6. Allowed(c) => pc'[c] = "writing"
  BY <1>1 DEF Allowed
<1>7. Write(c) \/ Remove(c) => pc'[c] \in {"writing", "completed"}
  BY <1>1 DEF Write, Remove, Advance
<1>8. WriteFails(c) \/ RemoveFails(c) => pc'[c] = "failed"
  BY <1>1 DEF WriteFails, RemoveFails
<1> QED
  BY <1>1, <1>2, <1>3, <1>4, <1>5, <1>6, <1>7, <1>8 DEF Step

\* A call that completes undisturbed has done to every file of its plan what the
\* plan means, and nothing to another file.
THEOREM SoleCallMeansItsPlan == Spec => SoleCallDoesItsPlan
<1> DEFINE PlanDone(c) ==
      /\ \A n \in DOMAIN plan[c] :
           LET g == plan[c][n] IN Means(g, before[c][g.path], files'[g.path])
      /\ \A p \in Paths \ PathsOf(plan[c]) : files'[p] = before[c][p]
<1>1. ASSUME FileInv, [Next]_vars, NEW c \in Calls, pc[c] = "writing", pc'[c] = "completed",
             ~interfered[c], Distinct(plan[c])
      PROVE  PlanDone(c)
  <2>1. Write(c) \/ Remove(c)
    <3>1. Next
      BY <1>1 DEF vars
    <3> QED
      BY <1>1, <3>1, LastSteps
  <2>2. PICK v \in Contents :
             /\ Advance(c) /\ Change(c, Target(c).path, v)
             /\ ~interfered[c] /\ Distinct(plan[c]) =>
                  Means(Target(c), before[c][Target(c).path], v)
    BY <1>1, <2>1, WritesItsTarget
  <2>3. FieldTypes /\ WrittenOK(c)
    BY <1>1, TypeParts DEF FileInv, CallOK
  <2>4. /\ files'[Target(c).path] = v
        /\ \A p \in Paths : p # Target(c).path => files'[p] = files[p]
    BY <1>1, <2>2, <2>3, ChangesOne
  <2>5. at[c] = Len(plan[c])
    BY <1>1, <2>2, <2>3 DEF Advance, Goto, Set, Last, FieldTypes
  <2>6. DOMAIN plan[c] = 1..Len(plan[c]) /\ Len(plan[c]) \in Nat
    BY <1>1, TargetTypes DEF FileInv
  <2>7. /\ \A n \in DOMAIN plan[c] :
             LET g == plan[c][n]
             IN /\ n < at[c] => Means(g, before[c][g.path], files'[g.path])
                /\ n > at[c] => files'[g.path] = before[c][g.path]
        /\ \A p \in Paths \ PathsOf(plan[c]) : files'[p] = before[c][p]
    BY <1>1, <2>3, <2>4, RestStands
  <2>8. ASSUME NEW n \in DOMAIN plan[c]
        PROVE  Means(plan[c][n], before[c][plan[c][n].path], files'[plan[c][n].path])
    <3>1. n < at[c] \/ n = at[c]
      BY <2>5, <2>6
    <3>2. CASE n = at[c]
      BY <1>1, <2>2, <2>4, <3>2 DEF Target
    <3> QED
      BY <2>7, <3>1, <3>2
  <2> QED
    BY <2>7, <2>8
<1>2. FileInv /\ [Next]_vars =>
        [\A c \in Calls : pc[c] = "writing" /\ pc'[c] = "completed" /\ ~interfered[c]
                            /\ Distinct(plan[c]) => PlanDone(c)]_vars
  BY <1>1
<1> QED
  BY <1>2, FileInvariant, PTL DEF Spec, SoleCallDoesItsPlan

\* A call that fails undisturbed has done its plan up to the target that failed,
\* and has not touched those after it.
THEOREM FailureStops == Spec => FailureStopsThere
<1> DEFINE UpToThere(c) ==
      \A n \in DOMAIN plan[c] :
        LET g == plan[c][n]
        IN /\ n < at[c] => Means(g, before[c][g.path], files'[g.path])
           /\ n > at[c] => files'[g.path] = before[c][g.path]
<1>1. ASSUME FileInv, [Next]_vars, NEW c \in Calls, pc[c] = "writing", pc'[c] = "failed",
             ~interfered[c], Distinct(plan[c])
      PROVE  UpToThere(c)
  <2>1. WriteFails(c) \/ RemoveFails(c)
    <3>1. Next
      BY <1>1 DEF vars
    <3> QED
      BY <1>1, <3>1, LastSteps
  <2>2. FieldTypes /\ WrittenOK(c)
    BY <1>1, TypeParts DEF FileInv, CallOK
  <2>3. \A p \in Paths : p # Target(c).path => files'[p] = files[p]
    BY <1>1, <2>1, <2>2, FailureChangesOne
  <2> QED
    BY <1>1, <2>2, <2>3, RestStands
<1>2. FileInv /\ [Next]_vars =>
        [\A c \in Calls : pc[c] = "writing" /\ pc'[c] = "failed" /\ ~interfered[c]
                            /\ Distinct(plan[c]) => UpToThere(c)]_vars
  BY <1>1
<1> QED
  BY <1>2, FileInvariant, PTL DEF Spec, FailureStopsThere

\* A call that is refused, or whose targets cannot all be computed, leaves every
\* file as it was.
THEOREM RefusalLeavesFiles == Spec => RefusalTouchesNothing
<1>1. ASSUME FileInv, [Next]_vars, NEW c \in Calls, pc[c] \in Working, pc'[c] = "refused",
             ~interfered[c]
      PROVE  files' = before[c]
  <2>1. Next /\ pc'[c] # pc[c]
    BY <1>1 DEF vars, Working
  <2>2. pc[c] \in {"planning", "asking"} /\ files' = files
    BY <1>1, <2>1, LastSteps
  <2> QED
    BY <1>1, <2>2 DEF FileInv, CallOK
<1>2. FileInv /\ [Next]_vars =>
        [\A c \in Calls : pc[c] \in Working /\ pc'[c] = "refused" /\ ~interfered[c] =>
           files' = before[c]]_vars
  BY <1>1
<1> QED
  BY <1>2, FileInvariant, PTL DEF Spec, RefusalTouchesNothing

\* However it ends, a call does to the files what its plan says.
THEOREM CallsDoTheirPlan == Spec => CallsKeepTheirPlan
  BY SoleCallMeansItsPlan, FailureStops, RefusalLeavesFiles DEF CallsKeepTheirPlan

-----------------------------------------------------------------------------
(* What a recursive function of a sequence is *)

\* T[n] leads from X to X, for the first N numbers; f goes on by it from start.
StaysIn(X, N, T) == \A n \in 1..N : \A x \in X : T[n][x] \in X
GoesOnBy(f, start, N, T) == f[0] = start /\ \A n \in 1..N : f[n] = T[n][f[n - 1]]

\* A step that leads from X to X can be repeated any number of times.
LEMMA StepsExist ==
  ASSUME NEW X, NEW start \in X, NEW N \in Nat, NEW T, StaysIn(X, N, T)
  PROVE  \E f \in [0..N -> X] : GoesOnBy(f, start, N, T)
<1> DEFINE Ways(f, k) ==
             f \in [0..k -> X] /\ f[0] = start /\ \A n \in 1..k : f[n] = T[n][f[n - 1]]
           G == {k \in Nat : k <= N => \E f : Ways(f, k)}
<1>1. 0 \in G
  <2> DEFINE f == [n \in 0..0 |-> start]
  <2>1. Ways(f, 0)
    OBVIOUS
  <2> QED
    BY <2>1
<1>2. ASSUME NEW j \in Nat, j < N, j \in G
      PROVE  j + 1 \in G
  <2>1. PICK f : Ways(f, j)
    BY <1>2
  <2> DEFINE w == T[j + 1][f[j]]
             g == [n \in 0..j + 1 |-> IF n = j + 1 THEN w ELSE f[n]]
  <2>2. j + 1 \in 1..N /\ f[j] \in X
    BY <1>2, <2>1
  <2>3. w \in X
    BY <2>2 DEF StaysIn
  <2> HIDE DEF w
  <2>4. \A n \in 0..j + 1 : n # j + 1 => n \in 0..j
    OBVIOUS
  <2>5. g \in [0..j + 1 -> X]
    BY <2>1, <2>3, <2>4
  <2>6. g[0] = start
    BY <2>1
  <2>7. ASSUME NEW n \in 1..j + 1
        PROVE  g[n] = T[n][g[n - 1]]
    <3>1. n - 1 \in 0..j + 1 /\ n - 1 # j + 1 /\ n \in 0..j + 1
      OBVIOUS
    <3>2. g[n - 1] = f[n - 1]
      BY <3>1
    <3>3. CASE n = j + 1
      <4>1. n - 1 = j
        BY <3>3
      <4> QED
        BY <3>1, <3>2, <3>3, <4>1 DEF w
    <3>4. CASE n # j + 1
      <4>1. n \in 1..j
        BY <3>4
      <4> QED
        BY <2>1, <3>1, <3>2, <3>4, <4>1
    <3> QED
      BY <3>3, <3>4
  <2> HIDE DEF g
  <2>8. Ways(g, j + 1)
    BY <2>5, <2>6, <2>7
  <2> QED
    BY <2>8
<1>3. \A n \in 0..N : n \in G
  <2> HIDE DEF G
  <2> QED
    BY <1>1, <1>2, UpTo
<1>4. \E f : Ways(f, N)
  BY <1>3
<1> QED
  BY <1>4 DEF GoesOnBy

\* f is what uniqueStrings keeps of each beginning of ds.
KeepsOf(f, ds) ==
  f = [n \in 0..Len(ds) |->
        IF n = 0 THEN <<>>
        ELSE IF ds[n] \in Range(f[n - 1]) THEN f[n - 1] ELSE Append(f[n - 1], ds[n])]

\* Kept is the function its definition describes.
LEMMA KeptFollows ==
  ASSUME NEW D, NEW ds \in Seq(D)
  PROVE  /\ Kept(ds)[0] = <<>>
         /\ \A n \in 1..Len(ds) :
              Kept(ds)[n] = IF ds[n] \in Range(Kept(ds)[n - 1]) THEN Kept(ds)[n - 1]
                            ELSE Append(Kept(ds)[n - 1], ds[n])
<1> DEFINE N == Len(ds)
           S(n, x) == IF ds[n] \in Range(x) THEN x ELSE Append(x, ds[n])
           T == [n \in 1..N |-> [x \in Seq(D) |-> S(n, x)]]
<1>1. N \in Nat /\ \A n \in 1..N : ds[n] \in D
  OBVIOUS
<1>2. \A n \in 1..N, x \in Seq(D) : T[n][x] = S(n, x) /\ S(n, x) \in Seq(D)
  <2>1. \A n \in 1..N, x \in Seq(D) : S(n, x) \in Seq(D)
    BY <1>1, AppendProperties
  <2> QED
    BY <2>1
<1> HIDE DEF T
<1>3. \A n \in 1..N, x \in Seq(D) : T[n][x] \in Seq(D)
  BY <1>2
<1>4. <<>> \in Seq(D)
  OBVIOUS
<1>5. PICK f \in [0..N -> Seq(D)] : f[0] = <<>> /\ \A n \in 1..N : f[n] = T[n][f[n - 1]]
  <2> DEFINE X == Seq(D)
             start == <<>>
  <2>1. start \in X /\ N \in Nat /\ StaysIn(X, N, T)
    BY <1>1, <1>3, <1>4 DEF StaysIn
  <2> HIDE DEF N, X, start
  <2>2. \E f \in [0..N -> X] : GoesOnBy(f, start, N, T)
    BY <2>1, StepsExist, Zenon
  <2> QED
    BY <2>2 DEF X, start, GoesOnBy
<1>6. \E g : KeepsOf(g, ds)
  <2>1. ASSUME NEW n \in 0..N
        PROVE  f[n] = IF n = 0 THEN <<>> ELSE S(n, f[n - 1])
    <3>1. CASE n = 0
      BY <1>5, <3>1
    <3>2. CASE n # 0
      <4>1. n \in 1..N /\ n - 1 \in 0..N
        BY <1>1, <3>2
      <4>2. f[n - 1] \in Seq(D)
        BY <4>1
      <4> QED
        BY <1>2, <1>5, <3>2, <4>1, <4>2
    <3> QED
      BY <3>1, <3>2
  <2>2. f = [n \in 0..N |-> IF n = 0 THEN <<>> ELSE S(n, f[n - 1])]
    <3> HIDE DEF S
    <3> QED
      BY <2>1
  <2> QED
    BY <2>2 DEF KeepsOf
<1>7. KeepsOf(Kept(ds), ds)
  <2>1. Kept(ds) = CHOOSE g : KeepsOf(g, ds)
    BY DEF Kept, KeepsOf
  <2> QED
    BY <1>6, <2>1
<1> DEFINE k == Kept(ds)
<1>8. k = [n \in 0..N |-> IF n = 0 THEN <<>> ELSE S(n, k[n - 1])]
  BY <1>7 DEF KeepsOf
<1> HIDE DEF k
<1>9. k[0] = <<>>
  BY <1>1, <1>8
<1>10. \A n \in 1..N : k[n] = S(n, k[n - 1])
  <2> HIDE DEF S
  <2> QED
    BY <1>1, <1>8
<1> QED
  BY <1>9, <1>10 DEF k

\* k holds what the first n of ds are, each once, in the order of their first
\* places.
KeepsFirsts(k, ds, n) ==
  /\ \A m \in 1..n : \E i \in 1..Len(k) : k[i] = ds[m]
  /\ \A i \in 1..Len(k) : \A j \in 1..Len(k) : k[i] = k[j] => i = j
  /\ \A i \in 1..Len(k) :
       \E a \in 1..n : ds[a] = k[i]
         /\ \A j \in 1..Len(k) : j > i => \A b \in 1..a : ds[b] # k[j]

\* Another of ds is kept, if it is a new one.
LEMMA KeepsNext ==
  ASSUME NEW D, NEW ds \in Seq(D), NEW n \in 1..Len(ds), NEW k \in Seq(D),
         KeepsFirsts(k, ds, n - 1),
         NEW l, l = IF ds[n] \in Range(k) THEN k ELSE Append(k, ds[n])
  PROVE  l \in Seq(D) /\ KeepsFirsts(l, ds, n)
<1>1. /\ Len(k) \in Nat /\ DOMAIN k = 1..Len(k) /\ n \in Nat /\ n >= 1 /\ ds[n] \in D
      /\ n - 1 \in Nat
  BY LenProperties
<1>2. \A m \in 1..n : m = n \/ m \in 1..n - 1
  BY <1>1
<1>3. \A a \in 1..n - 1 : a \in 1..n /\ a # n /\ a < n /\ \A b \in 1..a : b \in 1..n - 1
  BY <1>1
<1>4. CASE ds[n] \in Range(k)
  <2>1. l = k /\ \E i \in 1..Len(k) : k[i] = ds[n]
    BY <1>1, <1>4 DEF Range
  <2>2. \A m \in 1..n : \E i \in 1..Len(k) : k[i] = ds[m]
    BY <1>2, <2>1 DEF KeepsFirsts
  <2>3. \A i \in 1..Len(k) : \A j \in 1..Len(k) : k[i] = k[j] => i = j
    BY DEF KeepsFirsts
  <2>4. ASSUME NEW i \in 1..Len(k)
        PROVE  \E a \in 1..n : ds[a] = k[i]
                 /\ \A j \in 1..Len(k) : j > i => \A b \in 1..a : ds[b] # k[j]
    <3>1. PICK a \in 1..n - 1 :
            ds[a] = k[i] /\ \A j \in 1..Len(k) : j > i => \A b \in 1..a : ds[b] # k[j]
      BY DEF KeepsFirsts
    <3>2. a \in 1..n
      BY <1>3
    <3> QED
      BY <3>1, <3>2
  <2>5. KeepsFirsts(k, ds, n)
    BY <2>2, <2>3, <2>4 DEF KeepsFirsts
  <2> QED
    BY <2>1, <2>5
<1>5. CASE ds[n] \notin Range(k)
  <2> DEFINE L == Len(k)
  <2>1. l = Append(k, ds[n])
    BY <1>5
  <2>2. /\ l \in Seq(D) /\ Len(l) = L + 1 /\ l[L + 1] = ds[n]
        /\ \A i \in 1..L : l[i] = k[i]
    BY <1>1, <2>1, AppendProperties
  <2>3. \A i \in 1..L + 1 : i = L + 1 \/ (i \in 1..L /\ i < L + 1)
    BY <1>1
  <2>4. \A i \in 1..L : i \in 1..L + 1 /\ i # L + 1
    BY <1>1
  <2>5. L + 1 \in 1..L + 1
    BY <1>1
  <2>6. \A i \in 1..L : k[i] # ds[n]
    BY <1>1, <1>5 DEF Range
  <2> HIDE DEF L
  <2>7. \A m \in 1..n - 1 : ds[m] # ds[n]
    BY <2>6 DEF KeepsFirsts, L
  <2>8. \A m \in 1..n : \E i \in 1..L + 1 : l[i] = ds[m]
    BY <1>2, <2>2, <2>4, <2>5 DEF KeepsFirsts, L
  <2>9. \A i \in 1..L + 1 : \A j \in 1..L + 1 : l[i] = l[j] => i = j
    <3>1. \A i, j \in 1..L : k[i] = k[j] => i = j
      BY DEF KeepsFirsts, L
    <3> QED
      BY <2>2, <2>3, <2>6, <3>1
  <2>10. ASSUME NEW i \in 1..L + 1
         PROVE  \E a \in 1..n : ds[a] = l[i]
                  /\ \A j \in 1..L + 1 : j > i => \A b \in 1..a : ds[b] # l[j]
    <3>1. CASE i = L + 1
      <4>1. n \in 1..n /\ ds[n] = l[i] /\ \A j \in 1..L + 1 : ~(j > i)
        BY <1>1, <2>2, <3>1 DEF L
      <4> QED
        BY <4>1
    <3>2. CASE i # L + 1
      <4>1. i \in 1..L /\ l[i] = k[i]
        BY <2>2, <2>3, <3>2
      <4>2. PICK a \in 1..n - 1 :
               ds[a] = k[i] /\ \A j \in 1..L : j > i => \A b \in 1..a : ds[b] # k[j]
        BY <4>1 DEF KeepsFirsts, L
      <4>3. ASSUME NEW j \in 1..L + 1, j > i, NEW b \in 1..a
            PROVE  ds[b] # l[j]
        <5>1. b \in 1..n - 1
          BY <1>3
        <5>2. CASE j = L + 1
          BY <2>2, <2>7, <5>1, <5>2
        <5>3. CASE j # L + 1
          BY <2>2, <2>3, <4>2, <4>3, <5>3
        <5> QED
          BY <5>2, <5>3
      <4> QED
        BY <1>3, <4>1, <4>2, <4>3
    <3> QED
      BY <3>1, <3>2
  <2>11. KeepsFirsts(l, ds, n)
    <3>1. 1..Len(l) = 1..L + 1
      BY <2>2
    <3>2. \A m \in 1..n : \E i \in 1..Len(l) : l[i] = ds[m]
      BY <2>8, <3>1, Zenon
    <3>3. \A i \in 1..Len(l) : \A j \in 1..Len(l) : l[i] = l[j] => i = j
      BY <2>9, <3>1, Zenon
    <3>4. ASSUME NEW i \in 1..Len(l)
          PROVE  \E a \in 1..n : ds[a] = l[i]
                   /\ \A j \in 1..Len(l) : j > i => \A b \in 1..a : ds[b] # l[j]
      <4>1. i \in 1..L + 1
        BY <3>1
      <4>2. PICK a \in 1..n :
              ds[a] = l[i] /\ \A j \in 1..L + 1 : j > i => \A b \in 1..a : ds[b] # l[j]
        BY <2>10, <4>1
      <4>3. \A j \in 1..Len(l) : j > i => \A b \in 1..a : ds[b] # l[j]
        BY <3>1, <4>2
      <4> QED
        BY <4>2, <4>3
    <3> QED
      BY <3>2, <3>3, <3>4 DEF KeepsFirsts
  <2> QED
    BY <2>2, <2>11
<1> QED
  BY <1>4, <1>5

\* Unique keeps each of ds once, in the order of their first places.
LEMMA UniqueKeepsFirsts ==
  ASSUME NEW D, NEW ds \in Seq(D)
  PROVE  Unique(ds) \in Seq(D) /\ KeepsFirsts(Unique(ds), ds, Len(ds))
<1> DEFINE k == Kept(ds)
           N == Len(ds)
           G == {n \in Nat : n <= N => k[n] \in Seq(D) /\ KeepsFirsts(k[n], ds, n)}
<1>1. /\ k[0] = <<>>
      /\ \A n \in 1..N : k[n] = IF ds[n] \in Range(k[n - 1]) THEN k[n - 1]
                                ELSE Append(k[n - 1], ds[n])
  BY KeptFollows
<1> HIDE DEF k
<1>2. 0 \in G
  <2>1. 1..0 = {} /\ Len(<<>>) = 0 /\ <<>> \in Seq(D)
    OBVIOUS
  <2> QED
    BY <1>1, <2>1 DEF KeepsFirsts
<1>3. ASSUME NEW n \in Nat, n < N, n \in G
      PROVE  n + 1 \in G
  <2>1. n + 1 \in 1..N /\ (n + 1) - 1 = n /\ N \in Nat
    BY <1>3
  <2>2. k[n] \in Seq(D) /\ KeepsFirsts(k[n], ds, n)
    BY <1>3, <2>1
  <2>3. k[n + 1] = IF ds[n + 1] \in Range(k[n]) THEN k[n] ELSE Append(k[n], ds[n + 1])
    BY <1>1, <2>1
  <2>4. k[n + 1] \in Seq(D) /\ KeepsFirsts(k[n + 1], ds, n + 1)
    BY <2>1, <2>2, <2>3, KeepsNext
  <2> QED
    BY <2>4
<1>4. N \in Nat /\ N \in 0..N
  OBVIOUS
<1>5. \A n \in 0..N : n \in G
  <2> HIDE DEF G, N
  <2> QED
    BY <1>2, <1>3, <1>4, UpTo
<1>6. k[N] \in Seq(D) /\ KeepsFirsts(k[N], ds, N)
  BY <1>4, <1>5
<1> QED
  BY <1>6 DEF Unique, k

-----------------------------------------------------------------------------
(* The value of the digits *)

ValuesAre(f, ds) == f = [n \in 0..Len(ds) |-> IF n = 0 THEN 0 ELSE 10 * f[n - 1] + ds[n]]

\* ValuesOf is the function its definition describes, and has natural numbers.
LEMMA ValuesFollow ==
  ASSUME NEW ds \in Seq(0..9)
  PROVE  /\ ValuesOf(ds)[0] = 0
         /\ \A n \in 1..Len(ds) : ValuesOf(ds)[n] = 10 * ValuesOf(ds)[n - 1] + ds[n]
         /\ \A n \in 0..Len(ds) : ValuesOf(ds)[n] \in Nat
<1> DEFINE N == Len(ds)
           T == [n \in 1..N |-> [x \in Nat |-> 10 * x + ds[n]]]
<1>1. N \in Nat /\ \A n \in 1..N : ds[n] \in Nat
  OBVIOUS
<1>2. \A n \in 1..N, x \in Nat : T[n][x] = 10 * x + ds[n] /\ T[n][x] \in Nat
  BY <1>1
<1> HIDE DEF T
<1>3. PICK f \in [0..N -> Nat] : GoesOnBy(f, 0, N, T)
  <2>1. StaysIn(Nat, N, T) /\ 0 \in Nat
    BY <1>2 DEF StaysIn
  <2> HIDE DEF N
  <2> QED
    BY <1>1, <2>1, StepsExist
<1>4. \E g : ValuesAre(g, ds)
  <2>1. ASSUME NEW n \in 0..N
        PROVE  f[n] = IF n = 0 THEN 0 ELSE 10 * f[n - 1] + ds[n]
    <3>1. CASE n = 0
      BY <1>3, <3>1 DEF GoesOnBy
    <3>2. CASE n # 0
      <4>1. n \in 1..N /\ n - 1 \in 0..N
        BY <1>1, <3>2
      <4>2. f[n - 1] \in Nat
        BY <4>1
      <4>3. f[n] = T[n][f[n - 1]]
        BY <1>3, <4>1 DEF GoesOnBy
      <4> QED
        BY <1>2, <3>2, <4>1, <4>2, <4>3
    <3> QED
      BY <3>1, <3>2
  <2>2. f = [n \in 0..N |-> IF n = 0 THEN 0 ELSE 10 * f[n - 1] + ds[n]]
    BY <2>1
  <2> QED
    BY <2>2 DEF ValuesAre
<1>5. ValuesAre(ValuesOf(ds), ds)
  <2>1. ValuesOf(ds) = CHOOSE g : ValuesAre(g, ds)
    BY DEF ValuesOf, ValuesAre
  <2> QED
    BY <1>4, <2>1
<1> DEFINE v == ValuesOf(ds)
<1>6. v = [n \in 0..N |-> IF n = 0 THEN 0 ELSE 10 * v[n - 1] + ds[n]]
  BY <1>5 DEF ValuesAre
<1> HIDE DEF v
<1>7. v[0] = 0
  BY <1>1, <1>6
<1>8. \A n \in 1..N : v[n] = 10 * v[n - 1] + ds[n]
  BY <1>1, <1>6
<1> DEFINE G == {n \in Nat : n <= N => v[n] \in Nat}
<1>9. 0 \in G
  BY <1>7
<1>10. ASSUME NEW n \in Nat, n < N, n \in G
       PROVE  n + 1 \in G
  <2>1. n + 1 \in 1..N /\ (n + 1) - 1 = n /\ v[n] \in Nat
    BY <1>1, <1>10
  <2>2. v[n + 1] = 10 * v[n] + ds[n + 1]
    BY <1>8, <2>1
  <2> QED
    BY <1>1, <2>1, <2>2
<1>11. \A n \in 0..N : n \in G
  <2> HIDE DEF G, N
  <2> QED
    BY <1>1, <1>9, <1>10, UpTo
<1>12. \A n \in 0..N : v[n] \in Nat
  BY <1>1, <1>11
<1> QED
  BY <1>7, <1>8, <1>12 DEF v

\* One more digit is worth itself, and the others ten times what they were.
LEMMA OneDigitMore ==
  ASSUME NEW ds \in Seq(0..9), NEW d \in 0..9
  PROVE  /\ ValueOf(ds) \in Nat
         /\ ValueOf(Append(ds, d)) = 10 * ValueOf(ds) + d
<1> DEFINE N == Len(ds)
           es == Append(ds, d)
           v == ValuesOf(ds)
           w == ValuesOf(es)
<1>1. /\ N \in Nat /\ es \in Seq(0..9) /\ Len(es) = N + 1 /\ es[N + 1] = d
      /\ \A n \in 1..N : es[n] = ds[n]
  BY AppendProperties
<1>2. v[0] = 0 /\ (\A n \in 1..N : v[n] = 10 * v[n - 1] + ds[n]) /\ \A n \in 0..N : v[n] \in Nat
  BY ValuesFollow
<1>3. w[0] = 0 /\ \A n \in 1..N + 1 : w[n] = 10 * w[n - 1] + es[n]
  <2> HIDE DEF es
  <2> QED
    BY <1>1, ValuesFollow
<1> HIDE DEF es, v, w
<1> DEFINE G == {n \in Nat : n <= N => w[n] = v[n]}
<1>4. 0 \in G
  BY <1>2, <1>3
<1>5. ASSUME NEW n \in Nat, n < N, n \in G
      PROVE  n + 1 \in G
  <2>1. n + 1 \in 1..N /\ n + 1 \in 1..N + 1 /\ (n + 1) - 1 = n /\ v[n] = w[n]
    BY <1>1, <1>5
  <2>2. v[n + 1] = 10 * v[n] + ds[n + 1] /\ w[n + 1] = 10 * w[n] + es[n + 1]
    BY <1>2, <1>3, <2>1
  <2> QED
    BY <1>1, <2>1, <2>2
<1>6. \A n \in 0..N : n \in G
  <2> HIDE DEF G, N
  <2> QED
    BY <1>1, <1>4, <1>5, UpTo
<1>7. w[N] = v[N] /\ v[N] \in Nat
  BY <1>1, <1>2, <1>6
<1>8. w[N + 1] = 10 * w[N] + es[N + 1]
  <2>1. N + 1 \in 1..N + 1 /\ (N + 1) - 1 = N
    BY <1>1
  <2> QED
    BY <1>3, <2>1
<1>9. ValueOf(ds) = v[N] /\ ValueOf(es) = w[N + 1]
  BY <1>1 DEF ValueOf, v, w
<1> QED
  BY <1>1, <1>7, <1>8, <1>9 DEF es

\* An int keeps the numbers it has, and what it makes of others is one of them.
LEMMA Wraps ==
  ASSUME NEW n \in Int
  PROVE  /\ Wrap(n) \in -MaxInt - 1..MaxInt
         /\ n \in 0..MaxInt => Wrap(n) = n
<1> DEFINE w == 2 * HalfInts
           m == n % w
<1>1. HalfInts \in Nat /\ HalfInts > 0 /\ w \in Nat /\ w > 0 /\ w = 2 * HalfInts
  BY ConfigAssumption
<1>2. m \in Int /\ m >= 0 /\ m < w
  <2> HIDE DEF w
  <2> QED
    BY <1>1
<1>3. n \in 0..MaxInt => m = n
  <2>1. n \in 0..MaxInt => n >= 0 /\ n < w
    BY <1>1 DEF MaxInt
  <2> HIDE DEF w
  <2> QED
    BY <1>1, <2>1
<1>4. Wrap(n) = IF m > MaxInt THEN m - w ELSE m
  BY DEF Wrap
<1> HIDE DEF m, w
<1> QED
  BY <1>1, <1>2, <1>3, <1>4 DEF MaxInt

-----------------------------------------------------------------------------
(* The settings *)

Phases == {"parsing", "ready", "user", "project", "merging", "done"}
Layers == FileLayers \cup {"env"}

\* The whole record, of which ConfigTypeOK names the fields.
Runtimes ==
  [text : [TextSettings -> Layers], enabled : {"yes", "no"}, limit : 1..MaxInt, dirs : Seq(Dirs)]

\* What getenvInt has so far is the value of the digits, if that fits an int,
\* and it has met nothing else.
Parsed ==
  phase = "parsing" =>
    ~stray /\ (ValueOf(digits) \in 0..MaxInt => number = ValueOf(digits))

\* A file that has not been read has said nothing.
NotYetSaid ==
  /\ phase = "user" => said["user"] = Silent /\ said["project"] = Silent
  /\ phase = "project" => said["project"] = Silent

\* The settings are layered from the time the environment is taken, over what
\* the files have said so far; the directories are told apart at the end.
LayeredSoFar ==
  /\ \A s \in TextSettings :
       runtime.text[s] = IF s \in said["project"].texts THEN "project"
                         ELSE IF s \in said["user"].texts THEN "user" ELSE "env"
  /\ runtime.enabled = IF said["project"].enabled # "unset" THEN said["project"].enabled
                       ELSE IF said["user"].enabled # "unset" THEN said["user"].enabled ELSE AutoCompact
  /\ runtime.limit = IF said["project"].limit > 0 THEN said["project"].limit
                     ELSE IF said["user"].limit > 0 THEN said["user"].limit ELSE env

AllDirs == said["user"].dirs \o said["project"].dirs

ConfigInv ==
  /\ ConfigTypeOK /\ runtime \in Runtimes
  /\ Parsed /\ NotYetSaid
  /\ phase \in {"user", "project", "merging", "done"} => LayeredSoFar
  /\ phase \in {"user", "project", "merging"} => runtime.dirs = AllDirs
  /\ phase = "done" => runtime.dirs = Unique(AllDirs)

\* What a file can say.
LEMMA OverlayIs ==
  ASSUME NEW o \in Overlays
  PROVE  /\ o.texts \in SUBSET TextSettings
         /\ o.enabled \in {"unset", "yes", "no"}
         /\ o.limit \in Int /\ (o.limit > 0 => o.limit \in 1..MaxInt)
         /\ o.dirs \in Seq(Dirs)
<1>1. /\ o.texts \in SUBSET TextSettings
      /\ o.enabled \in {"unset", "yes", "no"} /\ o.limit \in Numbers
      /\ o.dirs \in {<<>>} \cup {<<d>> : d \in Dirs} \cup (Dirs \X Dirs)
  BY DEF Overlays
<1>2. MaxInt \in Int /\ -MaxInt \in Int /\ Numbers \subseteq -MaxInt..MaxInt
  <2>1. MaxInt \in Int
    BY ConfigAssumption DEF MaxInt
  <2> QED
    BY <2>1, ConfigAssumption
<1>3. o.limit \in -MaxInt..MaxInt
  BY <1>1, <1>2
<1>4. o.limit \in Int /\ (o.limit > 0 => o.limit \in 1..MaxInt)
  BY <1>2, <1>3
<1>5. o.dirs \in Seq(Dirs)
  <2> DEFINE l == o.dirs
  <2>1. l = <<>> \/ (\E d \in Dirs : l = <<d>>) \/ (\E a, b \in Dirs : l = <<a, b>>)
    BY <1>1
  <2> HIDE DEF l
  <2>2. <<>> \in Seq(Dirs) /\ \A d \in Dirs : <<d>> \in Seq(Dirs)
    OBVIOUS
  <2>3. \A a, b \in Dirs : <<a, b>> \in Seq(Dirs)
    OBVIOUS
  <2>4. l \in Seq(Dirs)
    BY <2>1, <2>2, <2>3, Zenon
  <2> QED
    BY <2>4 DEF l
<1> QED
  BY <1>1, <1>4, <1>5

\* What a file says, read or not.
LEMMA SaidOf ==
  ASSUME ConfigInv, NEW f \in FileLayers
  PROVE  /\ said[f].texts \in SUBSET TextSettings
         /\ said[f].enabled \in {"unset", "yes", "no"}
         /\ said[f].limit \in Int
         /\ said[f].dirs \in Seq(Dirs)
<1>1. said[f] \in Overlays \/ said[f] = Silent
  BY DEF ConfigInv, ConfigTypeOK
<1>2. CASE said[f] = Silent
  BY <1>2 DEF Silent
<1>3. CASE said[f] \in Overlays
  BY <1>3, OverlayIs
<1> QED
  BY <1>1, <1>2, <1>3

\* The settings r are those before, and over them what the file of layer f says.
LaidOver(r, f, o) ==
  /\ r \in Runtimes
  /\ \A s \in TextSettings : r.text[s] = IF s \in o.texts THEN f ELSE runtime.text[s]
  /\ r.enabled = IF o.enabled = "unset" THEN runtime.enabled ELSE o.enabled
  /\ r.limit = IF o.limit > 0 THEN o.limit ELSE runtime.limit
  /\ r.dirs = runtime.dirs \o o.dirs

\* What is read into a layer keeps the type of the settings.
LEMMA OverlaidTypes ==
  ASSUME ConfigInv, NEW f \in FileLayers, NEW o \in Overlays, NEW r, r = Overlaid(f, o)
  PROVE  LaidOver(r, f, o)
<1>1. /\ o.texts \in SUBSET TextSettings /\ o.enabled \in {"unset", "yes", "no"}
      /\ o.limit \in Int /\ (o.limit > 0 => o.limit \in 1..MaxInt)
  BY OverlayIs
<1>2. o.dirs \in Seq(Dirs)
  BY OverlayIs
<1>3. /\ runtime.text \in [TextSettings -> Layers] /\ runtime.enabled \in {"yes", "no"}
      /\ runtime.limit \in 1..MaxInt /\ runtime.dirs \in Seq(Dirs)
  BY DEF ConfigInv, Runtimes
<1>5. /\ r.text = [s \in TextSettings |-> IF s \in o.texts THEN f ELSE runtime.text[s]]
      /\ r.enabled = IF o.enabled = "unset" THEN runtime.enabled ELSE o.enabled
      /\ r.limit = IF o.limit > 0 THEN o.limit ELSE runtime.limit
      /\ r.dirs = runtime.dirs \o o.dirs
      /\ r = [text |-> r.text, enabled |-> r.enabled, limit |-> r.limit, dirs |-> r.dirs]
  BY DEF Overlaid, IsSet
<1>6. r.text \in [TextSettings -> Layers]
  BY <1>3, <1>5 DEF Layers
<1>7. r.enabled \in {"yes", "no"} /\ r.limit \in 1..MaxInt /\ r.dirs \in Seq(Dirs)
  BY <1>1, <1>2, <1>3, <1>5, ConcatProperties
<1>8. r \in Runtimes
  BY <1>5, <1>6, <1>7 DEF Runtimes
<1> QED
  BY <1>5, <1>8 DEF LaidOver

\* Nothing is set yet but the built-in values.
LEMMA ConfigInvInit == ConfigInit => ConfigInv
<1> SUFFICES ASSUME ConfigInit
             PROVE  ConfigInv
  OBVIOUS
<1>1. HalfInts \in Nat /\ MaxInt \in Int /\ MaxInt >= 1 /\ Fallback \in 1..MaxInt
  BY ConfigAssumption DEF MaxInt
<1>2. runtime \in Runtimes
  BY <1>1 DEF ConfigInit, FromEnv, AutoCompact, Runtimes, Layers
<1>3. ConfigTypeOK
  <2>1. runtime.text \in [TextSettings -> FileLayers \cup {"env"}] /\ runtime.enabled \in {"yes", "no"}
        /\ runtime.dirs \in Seq(Dirs) /\ runtime.limit \in 1..MaxInt
    BY <1>2 DEF Runtimes, Layers
  <2>2. switch \in {"yes", "no", "neither"} /\ stray \in BOOLEAN
    BY DEF ConfigInit
  <2>3. digits \in Seq(0..9) /\ number \in -MaxInt - 1..MaxInt /\ env \in 1..MaxInt
    BY <1>1 DEF ConfigInit
  <2>4. said \in [FileLayers -> Overlays \cup {Silent}] /\ phase = "parsing"
    BY DEF ConfigInit
  <2> QED
    BY <2>1, <2>2, <2>3, <2>4 DEF ConfigTypeOK
<1>4. Parsed
  <2> DEFINE ds == <<>>
  <2>1. ds \in Seq(0..9) /\ Len(ds) = 0
    OBVIOUS
  <2> HIDE DEF ds
  <2>2. ValuesOf(ds)[0] = 0
    BY <2>1, ValuesFollow
  <2> QED
    BY <2>1, <2>2 DEF ConfigInit, Parsed, ValueOf, ds
<1> QED
  BY <1>2, <1>3, <1>4 DEF ConfigInv, ConfigInit, NotYetSaid

\* The environment is read.
LEMMA ReadDigitKeeps ==
  ASSUME ConfigInv, NEW d \in Digits, ReadDigit(d)
  PROVE  ConfigInv'
<1>1. /\ digits \in Seq(0..9) /\ number \in Int /\ d \in 0..9
      /\ phase = "parsing" /\ phase' = "parsing" /\ UNCHANGED <<phase, switch, env, runtime, stray, said>>
      /\ digits' = Append(digits, d) /\ number' = Wrap(number * 10 + d)
  BY ConfigAssumption DEF ConfigInv, ConfigTypeOK, ReadDigit, MaxInt
<1>2. number * 10 + d \in Int /\ digits' \in Seq(0..9)
  BY <1>1
<1>3. /\ number' \in -MaxInt - 1..MaxInt
      /\ number * 10 + d \in 0..MaxInt => number' = number * 10 + d
  BY <1>1, <1>2, Wraps
<1>4. ConfigTypeOK'
  BY <1>1, <1>2, <1>3 DEF ConfigInv, ConfigTypeOK
<1>5. Parsed'
  <2>1. ValueOf(digits) \in Nat /\ ValueOf(digits') = 10 * ValueOf(digits) + d
    BY <1>1, OneDigitMore
  <2> SUFFICES ASSUME ValueOf(digits') \in 0..MaxInt
               PROVE  number' = ValueOf(digits')
    BY <1>1 DEF ConfigInv, Parsed
  <2> DEFINE v == ValueOf(digits)
             w == ValueOf(digits')
  <2>2. v \in 0..MaxInt
    <3>1. v \in Nat /\ w = 10 * v + d /\ w \in 0..MaxInt /\ d \in Nat /\ MaxInt \in Int
      BY <1>1, <2>1, ConfigAssumption DEF MaxInt
    <3> HIDE DEF v, w
    <3> QED
      BY <3>1
  <2>3. number = v
    BY <1>1, <2>2 DEF ConfigInv, Parsed
  <2> HIDE DEF v, w
  <2>4. w = v * 10 + d
    BY <1>1, <2>1, <2>2 DEF v, w
  <2>5. number' = w
    BY <1>3, <2>3, <2>4 DEF w
  <2> QED
    BY <2>5 DEF w
<1> QED
  BY <1>1, <1>4, <1>5 DEF ConfigInv, NotYetSaid, Runtimes

\* A number that is taken is a positive one.
LEMMA EndOfNumberKeeps ==
  ASSUME ConfigInv, EndOfNumber \/ OtherCharacter
  PROVE  ConfigInv'
<1>1. /\ phase' = "ready" /\ env' \in 1..MaxInt /\ UNCHANGED <<switch, runtime, said>>
      /\ stray' \in BOOLEAN
  <2>1. stray' \in BOOLEAN
    BY DEF ConfigInv, ConfigTypeOK, EndOfNumber, OtherCharacter
  <2>2. \/ ParsedAs(IF IsSet(number) THEN number ELSE Fallback)
        \/ ParsedAs(Fallback)
    BY DEF EndOfNumber, OtherCharacter
  <2>3. /\ number \in -MaxInt - 1..MaxInt /\ Fallback \in 1..MaxInt
        /\ MaxInt \in Nat
    BY ConfigAssumption DEF ConfigInv, ConfigTypeOK, MaxInt
  <2>4. (IF IsSet(number) THEN number ELSE Fallback) \in 1..MaxInt
    BY <2>3 DEF IsSet
  <2> QED
    BY <2>1, <2>2, <2>3, <2>4 DEF ParsedAs
<1>2. digits' = <<>> /\ number' = 0 /\ 0 \in -MaxInt - 1..MaxInt
  BY ConfigAssumption DEF EndOfNumber, OtherCharacter, ParsedAs, MaxInt
<1>3. ConfigTypeOK'
  BY <1>1, <1>2 DEF ConfigInv, ConfigTypeOK
<1> QED
  BY <1>1, <1>3 DEF ConfigInv, Parsed, NotYetSaid, Runtimes

\* Runtime takes the environment.
LEMMA BeginRuntimeKeeps ==
  ASSUME ConfigInv, BeginRuntime
  PROVE  ConfigInv'
<1>1. /\ phase' = "user" /\ runtime' = FromEnv(env) /\ UNCHANGED <<digits, number, switch, env, stray>>
      /\ said' = [f \in FileLayers |-> Silent] /\ env \in 1..MaxInt
  BY DEF ConfigInv, ConfigTypeOK, BeginRuntime
<1>2. runtime' \in Runtimes
  BY <1>1 DEF FromEnv, AutoCompact, Runtimes, Layers
<1>3. ConfigTypeOK'
  <2>1. /\ runtime'.text \in [TextSettings -> FileLayers \cup {"env"}]
        /\ runtime'.enabled \in {"yes", "no"}
        /\ runtime'.dirs \in Seq(Dirs) /\ runtime'.limit \in 1..MaxInt
    BY <1>2 DEF Runtimes, Layers
  <2> QED
    BY <1>1, <2>1 DEF ConfigInv, ConfigTypeOK
<1>4. said'["user"] = Silent /\ said'["project"] = Silent
  BY <1>1 DEF FileLayers
<1>5. LayeredSoFar'
  BY <1>1, <1>4 DEF LayeredSoFar, Silent, FromEnv, AutoCompact
<1>6. runtime'.dirs = AllDirs'
  <2>1. <<>> \o <<>> = <<>>
    OBVIOUS
  <2>2. runtime'.dirs = <<>>
    BY <1>1 DEF FromEnv
  <2>3. said'["user"].dirs = <<>> /\ said'["project"].dirs = <<>>
    BY <1>4 DEF Silent
  <2> QED
    BY <2>1, <2>2, <2>3 DEF AllDirs
<1> QED
  BY <1>1, <1>2, <1>3, <1>4, <1>5, <1>6 DEF ConfigInv, Parsed, NotYetSaid

\* A file that is passed over says nothing.
LEMMA PassOverKeeps ==
  ASSUME ConfigInv, NEW f \in FileLayers, PassOver(f)
  PROVE  ConfigInv'
<1>1. /\ phase = f /\ UNCHANGED <<digits, number, switch, env, runtime, stray, said>>
      /\ (f = "user" /\ phase' = "project") \/ (f = "project" /\ phase' = "merging")
  BY DEF PassOver, After, FileLayers
<1>2. ConfigTypeOK'
  BY <1>1 DEF ConfigInv, ConfigTypeOK
<1>3. LayeredSoFar' /\ runtime'.dirs = AllDirs'
  BY <1>1 DEF ConfigInv, LayeredSoFar, AllDirs, AutoCompact
<1> QED
  BY <1>1, <1>2, <1>3 DEF ConfigInv, Parsed, NotYetSaid, Runtimes

\* What the user's file says counts, unless the repository's says otherwise.
LEMMA ReadFileKeeps ==
  ASSUME ConfigInv, NEW f \in FileLayers, NEW o \in Overlays, ReadFile(f, o)
  PROVE  ConfigInv'
<1>1. /\ phase = f /\ UNCHANGED <<digits, number, switch, env, stray>>
      /\ (f = "user" /\ phase' = "project") \/ (f = "project" /\ phase' = "merging")
      /\ runtime' = Overlaid(f, o) /\ said' = [said EXCEPT ![f] = o]
  BY DEF ReadFile, After, FileLayers
<1>2. /\ runtime' \in Runtimes
      /\ \A s \in TextSettings : runtime'.text[s] = IF s \in o.texts THEN f ELSE runtime.text[s]
      /\ runtime'.enabled = IF o.enabled = "unset" THEN runtime.enabled ELSE o.enabled
      /\ runtime'.limit = IF o.limit > 0 THEN o.limit ELSE runtime.limit
      /\ runtime'.dirs = runtime.dirs \o o.dirs
  <2>1. \A r : r = Overlaid(f, o) => LaidOver(r, f, o)
    BY OverlaidTypes
  <2>2. LaidOver(Overlaid(f, o), f, o)
    BY <2>1
  <2> QED
    BY <1>1, <2>2 DEF LaidOver
<1>3. said \in [FileLayers -> Overlays \cup {Silent}] /\ runtime \in Runtimes
  BY DEF ConfigInv, ConfigTypeOK
<1>4. ConfigTypeOK'
  <2>1. /\ runtime'.text \in [TextSettings -> FileLayers \cup {"env"}]
        /\ runtime'.enabled \in {"yes", "no"}
        /\ runtime'.dirs \in Seq(Dirs) /\ runtime'.limit \in 1..MaxInt
    BY <1>2 DEF Runtimes, Layers
  <2>2. said' \in [FileLayers -> Overlays \cup {Silent}]
    BY <1>1, <1>3
  <2> QED
    BY <1>1, <2>1, <2>2 DEF ConfigInv, ConfigTypeOK
<1>5. CASE f = "user"
  <2>1. said'["user"] = o /\ said'["project"] = Silent
    BY <1>1, <1>3, <1>5 DEF ConfigInv, NotYetSaid, FileLayers
  <2>2. LayeredSoFar /\ said["user"] = Silent /\ said["project"] = Silent /\ runtime.dirs = AllDirs
    BY <1>1, <1>5 DEF ConfigInv, NotYetSaid
  <2>3. LayeredSoFar'
    BY <1>1, <1>2, <1>5, <2>1, <2>2 DEF LayeredSoFar, Silent, AutoCompact
  <2>4. runtime'.dirs = AllDirs'
    <3>1. o.dirs \in Seq(Dirs) /\ <<>> \o <<>> = <<>>
      BY OverlayIs
    <3>2. <<>> \o o.dirs = o.dirs /\ o.dirs \o <<>> = o.dirs
      BY <3>1
    <3>3. runtime.dirs = <<>>
      BY <2>2, <3>1 DEF AllDirs, Silent
    <3>4. runtime'.dirs = o.dirs
      BY <1>2, <3>2, <3>3
    <3>5. AllDirs' = o.dirs
      BY <2>1, <3>2 DEF AllDirs, Silent
    <3> QED
      BY <3>4, <3>5
  <2> QED
    BY <1>1, <1>2, <1>4, <1>5, <2>1, <2>3, <2>4 DEF ConfigInv, Parsed, NotYetSaid
<1>6. CASE f = "project"
  <2>1. said'["user"] = said["user"] /\ said'["project"] = o
    BY <1>1, <1>3, <1>6 DEF FileLayers
  <2>2. LayeredSoFar /\ said["project"] = Silent /\ runtime.dirs = AllDirs
    BY <1>1, <1>6 DEF ConfigInv, NotYetSaid
  <2>3. LayeredSoFar'
    BY <1>1, <1>2, <1>6, <2>1, <2>2 DEF LayeredSoFar, Silent, AutoCompact
  <2>4. runtime'.dirs = AllDirs'
    <3>1. said["user"].dirs \in Seq(Dirs)
      BY SaidOf DEF FileLayers
    <3>2. said["user"].dirs \o <<>> = said["user"].dirs
      BY <3>1
    <3>3. runtime.dirs = said["user"].dirs
      BY <2>2, <3>2 DEF AllDirs, Silent
    <3> QED
      BY <1>2, <2>1, <3>3 DEF AllDirs
  <2> QED
    BY <1>1, <1>2, <1>4, <1>6, <2>1, <2>3, <2>4 DEF ConfigInv, Parsed, NotYetSaid
<1> QED
  BY <1>5, <1>6 DEF FileLayers

\* The directories are told apart.
LEMMA MergeDirsKeeps ==
  ASSUME ConfigInv, MergeDirs
  PROVE  ConfigInv'
<1>1. /\ phase = "merging" /\ phase' = "done" /\ UNCHANGED <<digits, number, switch, env, stray, said>>
      /\ runtime' = [runtime EXCEPT !.dirs = Unique(@)]
      /\ runtime \in Runtimes /\ runtime.dirs = AllDirs /\ LayeredSoFar
  BY DEF MergeDirs, ConfigInv
<1>2. runtime.dirs \in Seq(Dirs)
  BY <1>1 DEF Runtimes
<1>3. Unique(runtime.dirs) \in Seq(Dirs)
  BY <1>2, UniqueKeepsFirsts
<1>4. /\ runtime' \in Runtimes /\ runtime'.dirs = Unique(AllDirs)
      /\ runtime'.text = runtime.text /\ runtime'.enabled = runtime.enabled
      /\ runtime'.limit = runtime.limit
  BY <1>1, <1>3 DEF Runtimes
<1>5. ConfigTypeOK'
  <2>1. /\ runtime'.text \in [TextSettings -> FileLayers \cup {"env"}]
        /\ runtime'.enabled \in {"yes", "no"}
        /\ runtime'.dirs \in Seq(Dirs) /\ runtime'.limit \in 1..MaxInt
    BY <1>4 DEF Runtimes, Layers
  <2> QED
    BY <1>1, <2>1 DEF ConfigInv, ConfigTypeOK
<1>6. LayeredSoFar' /\ AllDirs' = AllDirs
  BY <1>1, <1>4 DEF LayeredSoFar, AllDirs, AutoCompact
<1> QED
  BY <1>1, <1>4, <1>5, <1>6 DEF ConfigInv, Parsed, NotYetSaid

\* No step of loading the settings breaks it.
LEMMA ConfigInvNext == ConfigInv /\ [ConfigNext]_configVars => ConfigInv'
<1> SUFFICES ASSUME ConfigInv, [ConfigNext]_configVars
             PROVE  ConfigInv'
  OBVIOUS
<1>1. CASE \E d \in Digits : ReadDigit(d)
  BY <1>1, ReadDigitKeeps
<1>2. CASE EndOfNumber \/ OtherCharacter
  BY <1>2, EndOfNumberKeeps
<1>3. CASE BeginRuntime
  BY <1>3, BeginRuntimeKeeps
<1>4. CASE MergeDirs
  BY <1>4, MergeDirsKeeps
<1>5. CASE \E f \in FileLayers : PassOver(f)
  BY <1>5, PassOverKeeps
<1>6. CASE \E f \in FileLayers : \E o \in Overlays : ReadFile(f, o)
  BY <1>6, ReadFileKeeps
<1>7. CASE UNCHANGED configVars
  BY <1>7 DEF configVars, ConfigInv, ConfigTypeOK, Runtimes, Parsed, NotYetSaid, LayeredSoFar, AllDirs,
         AutoCompact
<1> QED
  BY <1>1, <1>2, <1>3, <1>4, <1>5, <1>6, <1>7 DEF ConfigNext

\* The invariant holds in every reachable state.
LEMMA ConfigInvariant == ConfigSpec => []ConfigInv
  BY ConfigInvInit, ConfigInvNext, PTL DEF ConfigSpec

\* Every variable keeps its type, and the limit is a positive number, whatever
\* the environment and the files say.
THEOREM SettingsTypesKept == ConfigSpec => []ConfigTypeOK
<1>1. ConfigInv => ConfigTypeOK
  BY DEF ConfigInv
<1> QED
  BY <1>1, ConfigInvariant, PTL

\* The last layer that gives a setting gives its value.
LEMMA LayersCount == ConfigInv => LastSpeakerWins
<1> SUFFICES ASSUME ConfigInv, phase = "done"
             PROVE  /\ \A s \in TextSettings :
                         runtime.text[s] = LastOf(LAMBDA f : s \in said[f].texts, "env", LAMBDA f : f)
                    /\ runtime.enabled = LastOf(LAMBDA f : said[f].enabled # "unset",
                                                IF switch = "no" THEN "no" ELSE "yes",
                                                LAMBDA f : said[f].enabled)
                    /\ runtime.limit = LastOf(LAMBDA f : said[f].limit > 0, env,
                                              LAMBDA f : said[f].limit)
  BY DEF LastSpeakerWins
<1>1. LayeredSoFar
  BY DEF ConfigInv
<1> QED
  BY <1>1 DEF LayeredSoFar, LastOf, AutoCompact

\* The directories of both files are kept, each once, the user's first.
LEMMA DirsCount == ConfigInv => EveryDirOnce
<1> SUFFICES ASSUME ConfigInv, phase = "done"
             PROVE  EveryDirOnce
  BY DEF EveryDirOnce
<1> DEFINE U == said["user"].dirs
           P == said["project"].dirs
           ds == U \o P
           k == Unique(ds)
<1>1. U \in Seq(Dirs) /\ P \in Seq(Dirs)
  BY SaidOf DEF FileLayers
<1>2. runtime.dirs = k
  BY DEF ConfigInv, AllDirs
<1> HIDE DEF U, P
<1>3. /\ Len(U) \in Nat /\ Len(P) \in Nat /\ ds \in Seq(Dirs) /\ Len(ds) = Len(U) + Len(P)
      /\ DOMAIN U = 1..Len(U) /\ DOMAIN P = 1..Len(P)
      /\ \A n \in 1..Len(U) + Len(P) : ds[n] = IF n <= Len(U) THEN U[n] ELSE P[n - Len(U)]
  BY <1>1, ConcatProperties
<1> HIDE DEF ds
<1>4. k \in Seq(Dirs) /\ KeepsFirsts(k, ds, Len(ds))
  BY <1>3, UniqueKeepsFirsts
<1> HIDE DEF k
<1>5. Len(k) \in Nat /\ DOMAIN k = 1..Len(k)
  BY <1>4
<1> DEFINE N == Len(U) + Len(P)
<1>6. /\ \A m \in 1..N : \E i \in 1..Len(k) : k[i] = ds[m]
      /\ \A i \in 1..Len(k) : \A j \in 1..Len(k) : k[i] = k[j] => i = j
      /\ \A i \in 1..Len(k) :
           \E a \in 1..N : ds[a] = k[i]
             /\ \A j \in 1..Len(k) : j > i => \A b \in 1..a : ds[b] # k[j]
  <2>1. Len(ds) = N
    BY <1>3
  <2> QED
    BY <1>4, <2>1 DEF KeepsFirsts
<1>7. \A m \in 1..Len(U) : m \in 1..N /\ ds[m] = U[m]
  BY <1>3
<1>8. \A m \in 1..Len(P) : Len(U) + m \in 1..N /\ ds[Len(U) + m] = P[m]
  <2> SUFFICES ASSUME NEW m \in 1..Len(P)
               PROVE  Len(U) + m \in 1..N /\ ds[Len(U) + m] = P[m]
    OBVIOUS
  <2>1. Len(U) + m \in 1..N /\ ~(Len(U) + m <= Len(U)) /\ (Len(U) + m) - Len(U) = m
    BY <1>3
  <2> QED
    BY <1>3, <2>1
<1>9. \A n \in 1..N :
        \/ n \in 1..Len(U) /\ ds[n] = U[n]
        \/ n > Len(U) /\ n - Len(U) \in 1..Len(P) /\ ds[n] = P[n - Len(U)]
  BY <1>3
<1>10. \A x : x \in Range(U) <=> \E m \in 1..Len(U) : U[m] = x
  BY <1>3 DEF Range
<1>11. \A x : x \in Range(P) <=> \E m \in 1..Len(P) : P[m] = x
  BY <1>3 DEF Range
<1>12. \A x : x \in Range(k) <=> \E i \in 1..Len(k) : k[i] = x
  BY <1>5 DEF Range
<1> HIDE DEF N
<1>13. ASSUME NEW x, x \in Range(k)
       PROVE  x \in Range(U) \cup Range(P)
  <2>1. PICK i \in 1..Len(k) : k[i] = x
    BY <1>12, <1>13
  <2>2. PICK a \in 1..N : ds[a] = x
    BY <1>6, <2>1
  <2> QED
    BY <1>9, <1>10, <1>11, <2>2
<1>14. ASSUME NEW x, x \in Range(U) \cup Range(P)
       PROVE  x \in Range(k)
  <2>1. \E m \in 1..N : ds[m] = x
    BY <1>7, <1>8, <1>10, <1>11, <1>14
  <2> QED
    BY <1>6, <1>12, <2>1
<1>15. Range(k) = Range(U) \cup Range(P)
  BY <1>13, <1>14
<1>16. IsInjective(k)
  BY <1>5, <1>6 DEF IsInjective
<1>17. ASSUME NEW i \in 1..Len(k), NEW j \in 1..Len(k), k[i] \in Range(U), k[j] \notin Range(U)
       PROVE  i < j
  <2>1. i # j
    BY <1>17
  <2> SUFFICES ASSUME i > j
               PROVE  FALSE
    BY <1>5, <2>1
  <2>2. PICK a \in 1..N : ds[a] = k[j] /\ \A b \in 1..a : ds[b] # k[i]
    BY <1>6
  <2>3. a > Len(U)
    BY <1>9, <1>10, <1>17, <2>2
  <2>4. PICK b \in 1..Len(U) : U[b] = k[i]
    BY <1>10, <1>17
  <2>5. b \in 1..a /\ ds[b] = k[i]
    <3>1. a \in Nat
      BY <1>3 DEF N
    <3> QED
      BY <1>3, <1>7, <2>3, <2>4, <3>1
  <2> QED
    BY <2>2, <2>5
<1> QED
  BY <1>2, <1>5, <1>15, <1>16, <1>17 DEF EveryDirOnce, U, P

\* A number of the environment that fits an int is taken as it is, and the
\* built-in one when there is none.
LEMMA NumberCounts ==
  ASSUME ConfigInv, [ConfigNext]_configVars, phase = "parsing", phase' = "ready"
  PROVE  /\ stray' \/ ValueOf(digits) = 0 => env' = Fallback
         /\ ~stray' /\ ValueOf(digits) \in 1..MaxInt => env' = ValueOf(digits)
<1>1. EndOfNumber \/ OtherCharacter
  BY DEF ConfigNext, configVars, ReadDigit, BeginRuntime, MergeDirs, PassOver, ReadFile, FileLayers
<1>2. /\ ~stray /\ MaxInt \in Nat
      /\ ValueOf(digits) \in 0..MaxInt => number = ValueOf(digits)
  BY ConfigAssumption DEF ConfigInv, Parsed, MaxInt
<1>3. CASE EndOfNumber
  <2>1. stray' = stray /\ env' = IF number > 0 THEN number ELSE Fallback
    BY <1>3 DEF EndOfNumber, ParsedAs, IsSet
  <2> QED
    BY <1>2, <2>1
<1>4. CASE OtherCharacter
  BY <1>4 DEF OtherCharacter, ParsedAs
<1> QED
  BY <1>1, <1>3, <1>4

\* Every setting is the one the last speaker meant.  A positive number of the
\* environment that fits an int is taken as it is, and the built-in one for a
\* text with another character, for none and for zero.  The repository's file
\* counts before the user's and that before the environment, and of the
\* directories of commands the user's come first and each once.
THEOREM SettingsAlwaysLayered == ConfigSpec => SettingsLayered
<1>1. ConfigInv => LastSpeakerWins /\ EveryDirOnce
  BY LayersCount, DirsCount
<1>2. ConfigInv /\ [ConfigNext]_configVars =>
        [phase = "parsing" /\ phase' = "ready" =>
           /\ stray' \/ ValueOf(digits) = 0 => env' = Fallback
           /\ ~stray' /\ ValueOf(digits) \in 1..MaxInt => env' = ValueOf(digits)]_configVars
  BY NumberCounts
<1> QED
  BY <1>1, <1>2, ConfigInvariant, PTL DEF ConfigSpec, SettingsLayered, NumberIsExact

-----------------------------------------------------------------------------
(* The totals of the matches *)

TotalsAre(g, f, k) ==
  g = [n \in 0..Len(f) |->
         IF n = 0 THEN 0 ELSE g[n - 1] + (IF f[n].key = k THEN f[n].score ELSE 0)]

\* Totals is the function its definition describes, and has numbers.
LEMMA TotalsFollow ==
  ASSUME NEW f \in Seq(Matches), NEW k
  PROVE  /\ Totals(f, k)[0] = 0
         /\ \A n \in 1..Len(f) :
              Totals(f, k)[n] = Totals(f, k)[n - 1] + (IF f[n].key = k THEN f[n].score ELSE 0)
         /\ \A n \in 0..Len(f) : Totals(f, k)[n] \in Int
<1> DEFINE N == Len(f)
           p == [n \in 1..N |-> IF f[n].key = k THEN f[n].score ELSE 0]
           T == [n \in 1..N |-> [x \in Int |-> x + p[n]]]
<1>1. N \in Nat /\ \A n \in 1..N : p[n] \in Int
  <2>1. N \in Nat /\ \A n \in 1..N : f[n] \in Matches
    OBVIOUS
  <2>2. \A m \in Matches : m.score \in Int
    BY DEF Matches
  <2> QED
    BY <2>1, <2>2
<1>2. \A n \in 1..N : p[n] = IF f[n].key = k THEN f[n].score ELSE 0
  OBVIOUS
<1> HIDE DEF p
<1>3. \A n \in 1..N, x \in Int : T[n][x] = x + p[n] /\ T[n][x] \in Int
  BY <1>1
<1> HIDE DEF T
<1>4. PICK g \in [0..N -> Int] : GoesOnBy(g, 0, N, T)
  <2>1. StaysIn(Int, N, T) /\ 0 \in Int
    BY <1>3 DEF StaysIn
  <2> HIDE DEF N
  <2> QED
    BY <1>1, <2>1, StepsExist
<1>5. \E h : TotalsAre(h, f, k)
  <2>1. ASSUME NEW n \in 0..N
        PROVE  g[n] = IF n = 0 THEN 0 ELSE g[n - 1] + (IF f[n].key = k THEN f[n].score ELSE 0)
    <3>1. CASE n = 0
      BY <1>4, <3>1 DEF GoesOnBy
    <3>2. CASE n # 0
      <4>1. n \in 1..N /\ n - 1 \in 0..N
        BY <1>1, <3>2
      <4>2. g[n - 1] \in Int
        BY <4>1
      <4>3. g[n] = T[n][g[n - 1]]
        BY <1>4, <4>1 DEF GoesOnBy
      <4>4. g[n] = g[n - 1] + p[n]
        BY <1>3, <4>1, <4>2, <4>3
      <4> QED
        BY <1>2, <3>2, <4>1, <4>4
    <3> QED
      BY <3>1, <3>2
  <2>2. g = [n \in 0..N |->
               IF n = 0 THEN 0 ELSE g[n - 1] + (IF f[n].key = k THEN f[n].score ELSE 0)]
    BY <2>1
  <2> QED
    BY <2>2 DEF TotalsAre
<1>6. TotalsAre(Totals(f, k), f, k)
  <2>1. Totals(f, k) = CHOOSE h : TotalsAre(h, f, k)
    BY DEF Totals, TotalsAre
  <2> QED
    BY <1>5, <2>1
<1> DEFINE t == Totals(f, k)
<1>7. t = [n \in 0..N |->
             IF n = 0 THEN 0 ELSE t[n - 1] + (IF f[n].key = k THEN f[n].score ELSE 0)]
  BY <1>6 DEF TotalsAre
<1> HIDE DEF t
<1>8. t[0] = 0
  BY <1>1, <1>7
<1>9. \A n \in 1..N : t[n] = t[n - 1] + (IF f[n].key = k THEN f[n].score ELSE 0)
  BY <1>1, <1>7
<1>10. \A n \in 1..N : t[n] = t[n - 1] + p[n]
  BY <1>2, <1>9
<1> DEFINE G == {n \in Nat : n <= N => t[n] \in Int}
<1>11. 0 \in G
  BY <1>8
<1>12. ASSUME NEW n \in Nat, n < N, n \in G
       PROVE  n + 1 \in G
  <2>1. n + 1 \in 1..N /\ (n + 1) - 1 = n /\ t[n] \in Int
    BY <1>1, <1>12
  <2>2. t[n + 1] = t[n] + p[n + 1]
    BY <1>10, <2>1
  <2> QED
    BY <1>1, <2>1, <2>2
<1>13. \A n \in 0..N : n \in G
  <2> HIDE DEF G, N
  <2> QED
    BY <1>1, <1>11, <1>12, UpTo
<1>14. \A n \in 0..N : t[n] \in Int
  <2> HIDE DEF N
  <2> QED
    BY <1>13
<1> HIDE DEF G
<1> QED
  BY <1>8, <1>9, <1>14 DEF t

\* mergeUniqueStrings adds no reason of its own.
LEMMA ReasonsJoin ==
  ASSUME NEW D, NEW a \in Seq(D), NEW b \in Seq(D)
  PROVE  /\ UniqueReasons(a, b) \in Seq(D)
         /\ Range(UniqueReasons(a, b)) \subseteq Range(a) \cup Range(b)
<1> DEFINE ds == a \o b
           u == UniqueReasons(a, b)
<1>1. ds \in Seq(D)
  OBVIOUS
<1>2. u = Unique(ds)
  BY DEF UniqueReasons, Unique, Kept
<1>3. u \in Seq(D) /\ KeepsFirsts(u, ds, Len(ds))
  <2> HIDE DEF ds, u
  <2> QED
    BY <1>1, <1>2, UniqueKeepsFirsts
<1>4. \A n \in 1..Len(ds) : ds[n] \in Range(a) \cup Range(b)
  <2> SUFFICES ASSUME NEW n \in 1..Len(ds)
               PROVE  ds[n] \in Range(a) \cup Range(b)
    OBVIOUS
  <2>1. CASE n <= Len(a)
    <3>1. ds[n] = a[n] /\ n \in DOMAIN a
      BY <2>1
    <3> QED
      BY <3>1 DEF Range
  <2>2. CASE n > Len(a)
    <3>1. ds[n] = b[n - Len(a)] /\ n - Len(a) \in DOMAIN b
      BY <2>2
    <3> QED
      BY <3>1 DEF Range
  <2> QED
    BY <2>1, <2>2
<1> HIDE DEF ds, u
<1>5. ASSUME NEW x \in Range(u)
      PROVE  x \in Range(a) \cup Range(b)
  <2>1. PICK i \in 1..Len(u) : x = u[i]
    BY <1>3 DEF Range
  <2>2. \E m \in 1..Len(ds) : ds[m] = u[i]
    BY <1>3, <2>1 DEF KeepsFirsts
  <2> QED
    BY <1>4, <2>1, <2>2
<1> QED
  BY <1>3, <1>5 DEF u

-----------------------------------------------------------------------------
(* What is merged *)

\* m is what the first n matches of f say of the key k.
MergedIs(f, n, m, k) ==
  IF FoundAt(f, k) \cap 1..n = {}
  THEN m = NoMatch /\ Totals(f, k)[n] = 0
  ELSE /\ m \in Matches /\ m.key = k /\ m.score = Totals(f, k)[n]
       /\ Range(m.reasons) \subseteq ReasonsFor(f, k)

\* A match has a key, and the empty entry none.
LEMMA NoMatchIsNone == NoMatch \notin Matches
<1>1. \A m \in Matches : m.key \in MatchKeys
  BY DEF Matches
<1>2. NoMatch.key = ""
  BY DEF NoMatch
<1> QED
  BY <1>1, <1>2, RankAssumption

\* A match that is merged joins the entry of its key, and leaves the others.
LEMMA MergesNext ==
  ASSUME NEW f \in Seq(Matches), NEW n \in Nat, n < Len(f), NEW k \in MatchKeys,
         NEW m, MergedIs(f, n, m, k)
  PROVE  MergedIs(f, n + 1, IF f[n + 1].key # k THEN m
                            ELSE IF m = NoMatch THEN f[n + 1] ELSE Combined(m, f[n + 1]), k)
<1> DEFINE x == f[n + 1]
<1>1. n + 1 \in 1..Len(f) /\ (n + 1) - 1 = n /\ n \in 0..Len(f) /\ x \in Matches
      /\ DOMAIN f = 1..Len(f)
  OBVIOUS
<1>2. /\ Totals(f, k)[n + 1] = Totals(f, k)[n] + (IF x.key = k THEN x.score ELSE 0)
      /\ Totals(f, k)[n] \in Int
  BY <1>1, TotalsFollow
<1>3. x.score \in Int /\ x.key \in MatchKeys /\ x.reasons \in Seq(Reasons)
  BY <1>1 DEF Matches
<1>4. CASE x.key # k
  <2>1. n + 1 \notin FoundAt(f, k)
    BY <1>4 DEF FoundAt
  <2>2. FoundAt(f, k) \cap 1..n + 1 = FoundAt(f, k) \cap 1..n
    BY <1>1, <2>1
  <2>3. Totals(f, k)[n + 1] = Totals(f, k)[n]
    BY <1>2, <1>4
  <2> QED
    BY <1>4, <2>2, <2>3 DEF MergedIs
<1>5. CASE x.key = k
  <2>1. n + 1 \in FoundAt(f, k)
    BY <1>1, <1>5 DEF FoundAt
  <2>2. FoundAt(f, k) \cap 1..n + 1 # {}
    BY <1>1, <2>1
  <2>3. Range(x.reasons) \subseteq ReasonsFor(f, k)
    BY <2>1 DEF ReasonsFor
  <2>4. Totals(f, k)[n + 1] = Totals(f, k)[n] + x.score
    BY <1>2, <1>5
  <2>5. CASE FoundAt(f, k) \cap 1..n = {}
    <3>1. m = NoMatch /\ Totals(f, k)[n] = 0
      BY <2>5 DEF MergedIs
    <3>2. Totals(f, k)[n + 1] = x.score
      BY <1>3, <2>4, <3>1
    <3> QED
      BY <1>1, <1>5, <2>2, <2>3, <3>1, <3>2 DEF MergedIs
  <2>6. CASE FoundAt(f, k) \cap 1..n # {}
    <3>1. /\ m \in Matches /\ m.key = k /\ m.score = Totals(f, k)[n]
          /\ Range(m.reasons) \subseteq ReasonsFor(f, k)
      BY <2>6 DEF MergedIs
    <3>2. m # NoMatch
      BY <3>1, NoMatchIsNone
    <3>3. m.reasons \in Seq(Reasons) /\ m.score \in Int
      BY <3>1 DEF Matches
    <3>4. /\ UniqueReasons(m.reasons, x.reasons) \in Seq(Reasons)
          /\ Range(UniqueReasons(m.reasons, x.reasons)) \subseteq ReasonsFor(f, k)
      BY <1>3, <2>3, <3>1, <3>3, ReasonsJoin
    <3> DEFINE c == Combined(m, x)
    <3>5. c = [key |-> m.key, score |-> m.score + x.score,
               reasons |-> UniqueReasons(m.reasons, x.reasons)]
      <4>1. m \in [key : MatchKeys, score : Int, reasons : Seq(Reasons)]
        BY <3>1 DEF Matches
      <4>2. c = [m EXCEPT !.score = m.score + x.score,
                          !.reasons = UniqueReasons(m.reasons, x.reasons)]
        BY DEF Combined
      <4> HIDE DEF c, x
      <4> QED
        BY <4>1, <4>2
    <3>6. c \in Matches /\ c.key = k /\ c.score = Totals(f, k)[n + 1]
          /\ Range(c.reasons) \subseteq ReasonsFor(f, k)
      <4> HIDE DEF c
      <4>1. c.key = m.key /\ c.score = m.score + x.score
            /\ c.reasons = UniqueReasons(m.reasons, x.reasons)
        BY <3>5
      <4>2. c \in Matches
        BY <1>3, <3>1, <3>3, <3>4, <3>5 DEF Matches
      <4> QED
        BY <2>4, <3>1, <3>4, <4>1, <4>2
    <3> QED
      BY <1>5, <2>2, <3>2, <3>6 DEF MergedIs
  <2> QED
    BY <2>5, <2>6
<1> QED
  BY <1>4, <1>5

-----------------------------------------------------------------------------
(* Places in an order *)

\* Where k stands in an order o of the keys K: behind those of B, which are all
\* before it, and before it is nothing but B and R.
LEMMA PlaceBounds ==
  ASSUME NEW K, NEW N \in Nat, NEW o \in Bijection(1..N, K), NEW i \in 1..N,
         NEW B \in SUBSET K, NEW R \in SUBSET K,
         \A j \in 1..N : o[j] \in B => j < i,
         \A j \in 1..N : j < i => o[j] \in B \cup R
  PROVE  /\ i - Cardinality(B) \in 1..Cardinality(R) + 1
         /\ Cardinality(B \cup R) \in Nat /\ i <= Cardinality(B \cup R) + 1
<1>1. /\ o \in [1..N -> K] /\ \A a, b \in 1..N : o[a] = o[b] => a = b
      /\ \A k \in K : \E j \in 1..N : o[j] = k
  BY DEF Bijection, Injection, Surjection, IsInjective
<1>2. IsFiniteSet(1..N) /\ IsFiniteSet(1..i - 1) /\ Cardinality(1..i - 1) = i - 1
  BY FS_Interval
<1>3. IsFiniteSet(K)
  BY <1>2, FS_Bijection DEF ExistsBijection
<1>4. IsFiniteSet(B) /\ IsFiniteSet(R) /\ IsFiniteSet(B \cup R)
  BY <1>3, FS_Subset
<1>5. /\ Cardinality(B) \in Nat /\ Cardinality(R) \in Nat /\ Cardinality(B \cup R) \in Nat
      /\ Cardinality(B \cap R) \in Nat
  <2>1. IsFiniteSet(B \cap R)
    BY <1>4, FS_Intersection
  <2> QED
    BY <1>4, <2>1, FS_CardinalityType
<1>6. Cardinality(B \cup R) <= Cardinality(B) + Cardinality(R)
  <2>1. Cardinality(B \cup R) = Cardinality(B) + Cardinality(R) - Cardinality(B \cap R)
    BY <1>4, FS_Union
  <2> QED
    BY <1>5, <2>1
<1>7. Cardinality(B) <= i - 1
  <2> DEFINE p == [k \in B |-> CHOOSE j \in 1..N : o[j] = k]
  <2>1. \A k \in B : p[k] \in 1..N /\ o[p[k]] = k
    BY <1>1
  <2> HIDE DEF p
  <2>2. \A k \in B : p[k] \in 1..i - 1
    BY <2>1
  <2>3. p \in [B -> 1..i - 1]
    BY <2>2 DEF p
  <2>4. \A k, l \in B : p[k] = p[l] => k = l
    BY <2>1
  <2>5. p \in Injection(B, 1..i - 1)
    BY <2>3, <2>4 DEF Injection, IsInjective
  <2> QED
    BY <1>2, <2>5, FS_Injection
<1>8. i - 1 <= Cardinality(B \cup R)
  <2> DEFINE q == [j \in 1..i - 1 |-> o[j]]
  <2>1. q \in [1..i - 1 -> B \cup R]
    OBVIOUS
  <2>2. \A a, b \in 1..i - 1 : q[a] = q[b] => a = b
    BY <1>1
  <2>3. q \in Injection(1..i - 1, B \cup R)
    <3> HIDE DEF q
    <3> QED
      BY <2>1, <2>2 DEF Injection, IsInjective
  <2> QED
    BY <1>2, <1>4, <2>3, FS_Injection
<1> QED
  BY <1>5, <1>6, <1>7, <1>8

-----------------------------------------------------------------------------
(* What is ranked *)

\* mg has merged all matches of f.
AllMerged(f, mg) == \A k \in MatchKeys : MergedIs(f, Len(f), mg[k], k)
MergedOf(mg) == {mg[k] : k \in MatchKeys} \ {NoMatch}

\* What the map has of each key, in the end.
LEMMA MergedEntry ==
  ASSUME NEW f \in Seq(Matches), NEW mg, AllMerged(f, mg), NEW k \in MatchKeys
  PROVE  /\ k \notin FoundKeys(f) => mg[k] = NoMatch
         /\ k \in FoundKeys(f) =>
              /\ mg[k] \in Matches /\ mg[k].key = k /\ mg[k].score = Total(f, k)
              /\ Range(mg[k].reasons) \subseteq ReasonsFor(f, k)
<1>1. FoundAt(f, k) \cap 1..Len(f) = FoundAt(f, k)
  BY DEF FoundAt
<1>2. MergedIs(f, Len(f), mg[k], k)
  BY DEF AllMerged
<1>3. k \in FoundKeys(f) <=> FoundAt(f, k) # {}
  BY DEF FoundKeys
<1> QED
  BY <1>1, <1>2, <1>3 DEF MergedIs, Total

\* There is one merged match for each key that was found.
LEMMA MergedCount ==
  ASSUME NEW f \in Seq(Matches), NEW mg, AllMerged(f, mg)
  PROVE  /\ IsFiniteSet(FoundKeys(f)) /\ IsFiniteSet(MergedOf(mg))
         /\ Cardinality(MergedOf(mg)) = Cardinality(FoundKeys(f))
         /\ \A m \in MergedOf(mg) : m.key \in FoundKeys(f) /\ m = mg[m.key]
<1> DEFINE K == FoundKeys(f)
           M == MergedOf(mg)
           h == [k \in K |-> mg[k]]
<1>1. K \subseteq MatchKeys
  BY DEF FoundKeys
<1>2. IsFiniteSet(K)
  <2> DEFINE g == [n \in 1..Len(f) |-> f[n].key]
  <2>1. \A n \in 1..Len(f) : n \in DOMAIN f /\ f[n].key \in MatchKeys
    <3>1. \A n \in 1..Len(f) : n \in DOMAIN f /\ f[n] \in Matches
      OBVIOUS
    <3>2. \A m \in Matches : m.key \in MatchKeys
      BY DEF Matches
    <3> QED
      BY <3>1, <3>2
  <2>2. \A n \in 1..Len(f) : f[n].key \in K
    BY <2>1 DEF FoundKeys, FoundAt
  <2>3. \A k \in K : \E n \in 1..Len(f) : f[n].key = k
    BY DEF FoundKeys, FoundAt
  <2> HIDE DEF K
  <2>4. g \in [1..Len(f) -> K]
    BY <2>2
  <2>5. \A k \in K : \E n \in 1..Len(f) : g[n] = k
    BY <2>3
  <2>6. g \in Surjection(1..Len(f), K)
    BY <2>4, <2>5 DEF Surjection
  <2>7. IsFiniteSet(1..Len(f))
    BY FS_Interval
  <2> QED
    BY <2>6, <2>7, FS_Surjection
<1>3. \A k \in K : mg[k] \in Matches /\ mg[k].key = k
  BY <1>1, MergedEntry
<1>4. \A k \in K : mg[k] \in M
  BY <1>1, <1>3, NoMatchIsNone DEF MergedOf
<1>5. \A m \in M : \E k \in K : m = mg[k]
  BY MergedEntry DEF MergedOf
<1> HIDE DEF K, M
<1>6. h \in [K -> M] /\ (\A a, b \in K : h[a] = h[b] => a = b) /\ \A m \in M : \E k \in K : h[k] = m
  BY <1>3, <1>4, <1>5
<1>7. h \in Bijection(K, M)
  <2> HIDE DEF h
  <2> QED
    BY <1>6 DEF Bijection, Injection, Surjection, IsInjective
<1>8. IsFiniteSet(M) /\ Cardinality(M) = Cardinality(K)
  BY <1>2, <1>7, FS_Bijection DEF ExistsBijection
<1>9. \A m \in M : m.key \in K /\ m = mg[m.key]
  BY <1>3, <1>5
<1> QED
  BY <1>2, <1>8, <1>9 DEF K, M

\* The matches that can stand before place i are enough for it.
WithinRivals(f, k, i) ==
  LET C == Cardinality(Better(f, k) \cup Rivals(f, k)) IN C \in Nat /\ i <= C + 1

\* s has a match for each key that was found, in its place.
PlacedIn(f, N, s) ==
  /\ N \in Nat
  /\ \A i, j \in 1..N : s[i].key = s[j].key => i = j
  /\ \A k \in FoundKeys(f) : \E i \in 1..N : s[i].key = k
  /\ \A i \in 1..N :
       /\ InItsPlace(f, s[i], i)
       /\ Range(s[i].reasons) \subseteq ReasonsFor(f, s[i].key)
       /\ s[i] \in Matches
       /\ WithinRivals(f, s[i].key, i)

\* The places of the keys in an order of the merged matches.
LEMMA OrderPlaces ==
  ASSUME NEW f \in Seq(Matches), NEW mg, AllMerged(f, mg),
         NEW N, N = Cardinality(FoundKeys(f)),
         NEW s \in [1..N -> MergedOf(mg)], IsInjective(s), Sorted(s)
  PROVE  PlacedIn(f, N, s)
<1> DEFINE K == FoundKeys(f)
           M == MergedOf(mg)
           o == [i \in 1..N |-> s[i].key]
<1>1. /\ IsFiniteSet(K) /\ IsFiniteSet(M) /\ Cardinality(M) = N
      /\ \A m \in M : m.key \in K /\ m = mg[m.key]
  BY MergedCount
<1>2. N \in Nat
  BY <1>1, FS_CardinalityType
<1>3. \A k \in K : /\ k \in MatchKeys /\ mg[k] \in Matches /\ mg[k].key = k
                   /\ mg[k].score = Total(f, k)
                   /\ Range(mg[k].reasons) \subseteq ReasonsFor(f, k)
  BY MergedEntry DEF FoundKeys
<1>4. \A i \in 1..N : s[i] \in M
  OBVIOUS
<1> HIDE DEF K, M
<1>5. \A i \in 1..N : /\ s[i].key \in K /\ s[i] = mg[s[i].key] /\ s[i] \in Matches
                      /\ s[i].score = Total(f, s[i].key)
                      /\ Range(s[i].reasons) \subseteq ReasonsFor(f, s[i].key)
  BY <1>1, <1>3, <1>4
<1>6. \A i, j \in 1..N : s[i].key = s[j].key => i = j
  <2>1. \A i, j \in 1..N : s[i] = s[j] => i = j
    BY DEF IsInjective
  <2> QED
    BY <1>5, <2>1
<1>7. o \in [1..N -> K] /\ \A i, j \in 1..N : o[i] = o[j] => i = j
  BY <1>5, <1>6
<1>8. o \in Bijection(1..N, K)
  <2> HIDE DEF o
  <2>1. o \in Injection(1..N, K)
    BY <1>7 DEF Injection, IsInjective
  <2>2. IsFiniteSet(1..N) /\ Cardinality(1..N) = N
    BY <1>2, FS_Interval
  <2>3. o \in Surjection(1..N, K)
    BY <1>1, <2>1, <2>2, FS_Injection DEF K
  <2> QED
    BY <2>1, <2>3 DEF Bijection
<1>9. \A k \in K : \E i \in 1..N : s[i].key = k
  <2>1. \A k \in K : \E i \in 1..N : o[i] = k
    <3> HIDE DEF o
    <3> QED
      BY <1>8 DEF Bijection, Surjection
  <2> QED
    BY <2>1
<1>10. \A k \in K : Total(f, k) \in Int /\ LabelOf[k] \in Int
  <2>1. Len(f) \in 0..Len(f)
    OBVIOUS
  <2> QED
    BY <1>3, <2>1, TotalsFollow, RankAssumption DEF Total
<1>11. ASSUME NEW i \in 1..N
       PROVE  LET k == s[i].key
                  B == Better(f, k)
                  R == Rivals(f, k)
              IN /\ i - Cardinality(B) \in 1..Cardinality(R) + 1
                 /\ Cardinality(B \cup R) \in Nat /\ i <= Cardinality(B \cup R) + 1
  <2> DEFINE k == s[i].key
             B == Better(f, k)
             R == Rivals(f, k)
  <2>1. k \in K
    BY <1>5
  <2>2. /\ \A l \in K : l \in B <=> \/ Total(f, l) > Total(f, k)
                                    \/ Total(f, l) = Total(f, k) /\ LabelOf[l] < LabelOf[k]
        /\ \A l \in K : l \in R <=> /\ Total(f, l) = Total(f, k) /\ l # k
                                    /\ LabelOf[l] = LabelOf[k]
        /\ B \subseteq K /\ R \subseteq K
    BY DEF Better, Rivals, Equals, K
  <2>3. \A a, b \in 1..N : Before(s[a], s[b]) <=>
          \/ Total(f, o[a]) > Total(f, o[b])
          \/ Total(f, o[a]) = Total(f, o[b]) /\ LabelOf[o[a]] < LabelOf[o[b]]
    BY <1>5 DEF Before
  <2>4. \A a, b \in 1..N : a < b => ~Before(s[b], s[a])
    BY DEF Sorted
  <2>5. o[i] = k /\ \A j \in 1..N : o[j] \in K
    BY <1>5
  <2> HIDE DEF k, B, R, o
  <2>6. \A j \in 1..N : o[j] \in B => j < i
    <3> SUFFICES ASSUME NEW j \in 1..N, o[j] \in B, ~(j < i)
                 PROVE  FALSE
      OBVIOUS
    <3>1. \/ Total(f, o[j]) > Total(f, k)
          \/ Total(f, o[j]) = Total(f, k) /\ LabelOf[o[j]] < LabelOf[k]
      BY <2>2, <2>5
    <3>2. j # i
      BY <1>10, <2>1, <2>5, <3>1
    <3>3. i < j
      BY <1>2, <3>2
    <3>4. ~Before(s[j], s[i])
      BY <2>4, <3>3
    <3> QED
      BY <2>3, <2>5, <3>1, <3>4
  <2>7. \A j \in 1..N : j < i => o[j] \in B \cup R
    <3> SUFFICES ASSUME NEW j \in 1..N, j < i
                 PROVE  o[j] \in B \cup R
      OBVIOUS
    <3>1. ~Before(s[i], s[j])
      BY <2>4
    <3>2. ~ \/ Total(f, k) > Total(f, o[j])
            \/ Total(f, k) = Total(f, o[j]) /\ LabelOf[k] < LabelOf[o[j]]
      BY <2>3, <2>5, <3>1
    <3>3. o[j] # k
      BY <1>7, <2>5
    <3>4. Total(f, o[j]) \in Int /\ LabelOf[o[j]] \in Int /\ Total(f, k) \in Int /\ LabelOf[k] \in Int
      BY <1>10, <2>1, <2>5
    <3>5. \/ Total(f, o[j]) > Total(f, k)
          \/ Total(f, o[j]) = Total(f, k) /\ LabelOf[o[j]] < LabelOf[k]
          \/ Total(f, o[j]) = Total(f, k) /\ LabelOf[o[j]] = LabelOf[k]
      BY <3>2, <3>4
    <3> QED
      BY <2>2, <2>5, <3>3, <3>5
  <2>8. /\ i - Cardinality(B) \in 1..Cardinality(R) + 1
        /\ Cardinality(B \cup R) \in Nat /\ i <= Cardinality(B \cup R) + 1
    BY <1>2, <1>8, <2>2, <2>6, <2>7, PlaceBounds
  <2> QED
    BY <2>8 DEF k, B, R
<1>12. \A i \in 1..N : InItsPlace(f, s[i], i)
  BY <1>5, <1>11 DEF InItsPlace, K
<1>13. \A i \in 1..N : WithinRivals(f, s[i].key, i)
  BY <1>11 DEF WithinRivals
<1> QED
  BY <1>2, <1>5, <1>6, <1>9, <1>12, <1>13 DEF K, PlacedIn

\* The limits are numbers.
LEMMA Limits == RankLimit \in Nat /\ RankLimit # 0 /\ MaxReasons \in Nat
  BY RankAssumption

\* Cutting keeps the first n of a sequence.
LEMMA CutKeeps ==
  ASSUME NEW D, NEW s \in Seq(D), NEW n \in Nat
  PROVE  LET t == AtMost(n, s)
         IN /\ t \in Seq(D) /\ Len(t) = (IF Len(s) < n THEN Len(s) ELSE n)
            /\ \A i \in 1..Len(t) : i \in 1..Len(s) /\ t[i] = s[i]
            /\ Range(t) \subseteq Range(s)
<1> DEFINE t == AtMost(n, s)
<1>1. CASE Len(s) > n
  <2>1. t = SubSeq(s, 1, n)
    BY <1>1 DEF AtMost
  <2>2. t \in Seq(D) /\ Len(t) = n /\ \A i \in 1..n : t[i] = s[i] /\ i \in 1..Len(s)
    BY <1>1, <2>1
  <2> HIDE DEF t
  <2>3. DOMAIN t = 1..n /\ DOMAIN s = 1..Len(s)
    BY <2>2
  <2>4. Range(t) \subseteq Range(s)
    BY <2>2, <2>3 DEF Range
  <2> QED
    BY <1>1, <2>2, <2>4 DEF t
<1>2. CASE ~(Len(s) > n)
  <2>1. t = s
    BY <1>2 DEF AtMost
  <2>2. Len(s) = IF Len(s) < n THEN Len(s) ELSE n
    BY <1>2
  <2> QED
    BY <2>1, <2>2
<1> QED
  BY <1>1, <1>2

\* A match that is shown keeps its key, its score and the first of its reasons.
LEMMA ShortenedKeeps ==
  ASSUME NEW m \in Matches
  PROVE  LET x == Shortened(m)
         IN /\ x.key = m.key /\ x.score = m.score
            /\ Len(x.reasons) <= MaxReasons /\ Range(x.reasons) \subseteq Range(m.reasons)
<1> DEFINE x == Shortened(m)
           t == AtMost(MaxReasons, m.reasons)
<1>1. m.reasons \in Seq(Reasons) /\ m = [key |-> m.key, score |-> m.score, reasons |-> m.reasons]
  BY DEF Matches
<1>2. x = [m EXCEPT !.reasons = t]
  BY DEF Shortened
<1>3. Len(t) <= MaxReasons /\ Range(t) \subseteq Range(m.reasons)
  <2>1. Len(t) = (IF Len(m.reasons) < MaxReasons THEN Len(m.reasons) ELSE MaxReasons)
        /\ Range(t) \subseteq Range(m.reasons)
    BY <1>1, CutKeeps, Limits
  <2> QED
    BY <1>1, <2>1, Limits
<1> HIDE DEF x, t
<1>4. x.key = m.key /\ x.score = m.score /\ x.reasons = t
  BY <1>1, <1>2
<1> QED
  BY <1>3, <1>4 DEF x

\* What any order of the merged matches shows, once it is cut.
LEMMA ShownWell ==
  ASSUME NEW f \in Seq(Matches), NEW mg, AllMerged(f, mg),
         NEW N, N = Cardinality(FoundKeys(f)),
         NEW s \in [1..N -> MergedOf(mg)], IsInjective(s), Sorted(s),
         NEW r, r = [i \in DOMAIN Cut(s) |-> Shortened(Cut(s)[i])]
  PROVE  /\ FillsLimit(f, r) /\ NoneMissed(f, r)
         /\ \A i \in DOMAIN r : InItsPlace(f, r[i], i) /\ GivenReasons(f, r[i])
<1>1. /\ N \in Nat
      /\ \A i, j \in 1..N : s[i].key = s[j].key => i = j
      /\ \A k \in FoundKeys(f) : \E i \in 1..N : s[i].key = k
      /\ \A i \in 1..N :
           /\ InItsPlace(f, s[i], i)
           /\ Range(s[i].reasons) \subseteq ReasonsFor(f, s[i].key)
           /\ s[i] \in Matches
           /\ WithinRivals(f, s[i].key, i)
  <2>1. PlacedIn(f, N, s)
    BY OrderPlaces
  <2> QED
    BY <2>1 DEF PlacedIn
<1>2. s \in Seq(Matches) /\ Len(s) = N
  <2>1. s \in [1..N -> Matches]
    BY <1>1
  <2> QED
    BY <1>1, <2>1
<1> DEFINE t == Cut(s)
           L == IF N < RankLimit THEN N ELSE RankLimit
<1>3. /\ t \in Seq(Matches) /\ Len(t) = L
      /\ \A i \in 1..L : i \in 1..N /\ t[i] = s[i]
  <2>1. RankLimit \in Nat
    BY Limits
  <2>2. t = AtMost(RankLimit, s)
    BY DEF Cut
  <2> HIDE DEF t
  <2>3. /\ t \in Seq(Matches) /\ Len(t) = (IF Len(s) < RankLimit THEN Len(s) ELSE RankLimit)
        /\ \A i \in 1..Len(t) : i \in 1..Len(s) /\ t[i] = s[i]
    BY <1>2, <2>1, <2>2, CutKeeps
  <2> QED
    BY <1>2, <2>3
<1>4. L \in Nat /\ \A i \in 1..N : i <= RankLimit => i \in 1..L
  BY <1>1, Limits
<1> HIDE DEF t, L
<1>5. DOMAIN t = 1..L /\ r = [i \in 1..L |-> Shortened(t[i])]
  BY <1>3 DEF t
<1>6. r \in Seq({Shortened(m) : m \in Matches}) /\ Len(r) = L /\ DOMAIN r = 1..L
  <2>1. \A i \in 1..L : t[i] \in Matches
    BY <1>3, <1>4
  <2>2. r \in [1..L -> {Shortened(m) : m \in Matches}]
    BY <1>5, <2>1
  <2> QED
    BY <1>4, <2>2
<1>7. \A i \in 1..L : /\ i \in 1..N /\ r[i].key = s[i].key /\ r[i].score = s[i].score
                      /\ Len(r[i].reasons) <= MaxReasons
                      /\ Range(r[i].reasons) \subseteq Range(s[i].reasons)
  <2>1. \A i \in 1..L : i \in 1..N /\ s[i] \in Matches /\ r[i] = Shortened(s[i])
    BY <1>1, <1>3, <1>5
  <2> QED
    BY <2>1, ShortenedKeeps
<1>8. FillsLimit(f, r)
  <2>1. \A i, j \in 1..L : r[i].key = r[j].key => i = j
    <3> SUFFICES ASSUME NEW i \in 1..L, NEW j \in 1..L, r[i].key = r[j].key
                 PROVE  i = j
      OBVIOUS
    <3>1. i \in 1..N /\ j \in 1..N /\ s[i].key = s[j].key
      BY <1>7
    <3> QED
      BY <1>1, <3>1
  <2> QED
    BY <1>6, <2>1 DEF FillsLimit, L
<1>9. NoneMissed(f, r)
  <2> SUFFICES ASSUME NEW k \in FoundKeys(f),
                      Cardinality(Better(f, k) \cup Rivals(f, k)) < RankLimit
               PROVE  \E i \in DOMAIN r : r[i].key = k
    BY DEF NoneMissed
  <2>1. PICK i \in 1..N : s[i].key = k
    BY <1>1
  <2> DEFINE C == Cardinality(Better(f, k) \cup Rivals(f, k))
  <2>2. C \in Nat /\ i <= C + 1
    BY <1>1, <2>1 DEF WithinRivals
  <2>3. C < RankLimit
    OBVIOUS
  <2> HIDE DEF C
  <2>4. i <= RankLimit
    BY <2>2, <2>3, Limits
  <2> QED
    BY <1>4, <1>6, <1>7, <2>1, <2>4
<1>10. ASSUME NEW i \in DOMAIN r
       PROVE  InItsPlace(f, r[i], i) /\ GivenReasons(f, r[i])
  <2>1. /\ i \in 1..L /\ i \in 1..N /\ r[i].key = s[i].key /\ r[i].score = s[i].score
        /\ Len(r[i].reasons) <= MaxReasons
        /\ Range(r[i].reasons) \subseteq Range(s[i].reasons)
    BY <1>6, <1>7
  <2>2. InItsPlace(f, s[i], i) /\ Range(s[i].reasons) \subseteq ReasonsFor(f, s[i].key)
    BY <1>1, <2>1
  <2>3. InItsPlace(f, r[i], i)
    BY <2>1, <2>2 DEF InItsPlace
  <2> QED
    BY <2>1, <2>2, <2>3 DEF GivenReasons
<1> QED
  BY <1>8, <1>9, <1>10

-----------------------------------------------------------------------------
(* The ranking *)

\* The map holds what the matches merged so far say, and the result is ranked.
RankInv ==
  /\ found \in Found /\ taken \in 0..Len(found)
  /\ merged = [k \in MatchKeys |-> merged[k]]
  /\ \A k \in MatchKeys : MergedIs(found, taken, merged[k], k)
  /\ TopRanked

\* Nothing is merged in the beginning.
LEMMA RankInvInit == RankInit => RankInv
<1> SUFFICES ASSUME RankInit
             PROVE  RankInv
  OBVIOUS
<1>1. found \in Found /\ taken = 0 /\ found \in Seq(Matches)
  BY RankAssumption DEF RankInit
<1>2. merged = [k \in MatchKeys |-> NoMatch] /\ rankPc # "ranked"
  BY DEF RankInit
<1>3. \A k \in MatchKeys : MergedIs(found, taken, merged[k], k)
  <2>1. 1..0 = {}
    OBVIOUS
  <2>2. \A k \in MatchKeys : Totals(found, k)[0] = 0
    BY <1>1, TotalsFollow
  <2> QED
    BY <1>1, <1>2, <2>1, <2>2 DEF MergedIs
<1>4. taken \in 0..Len(found)
  BY <1>1
<1> QED
  BY <1>1, <1>2, <1>3, <1>4 DEF RankInv, TopRanked

\* A match that joins the map.
LEMMA MergeNextKeeps == RankInv /\ MergeNext => RankInv'
<1> SUFFICES ASSUME RankInv, MergeNext
             PROVE  RankInv'
  OBVIOUS
<1>1. found \in Found /\ found' = found /\ found \in Seq(Matches) /\ rankPc' # "ranked"
  BY RankAssumption DEF RankInv, MergeNext
<1>2. taken \in Nat /\ taken < Len(found) /\ taken' = taken + 1 /\ taken' \in 0..Len(found)
  BY <1>1 DEF RankInv, MergeNext
<1> DEFINE n == found[taken + 1]
<1>3. n.key \in MatchKeys
  <2>1. n \in Matches
    BY <1>1, <1>2
  <2> QED
    BY <2>1 DEF Matches
<1>4. /\ merged = [k \in MatchKeys |-> merged[k]]
      /\ \A k \in MatchKeys : MergedIs(found, taken, merged[k], k)
  BY DEF RankInv
<1>5. merged' = [merged EXCEPT ![n.key] = IF merged[n.key] = NoMatch THEN n
                                         ELSE Combined(merged[n.key], n)]
  BY DEF MergeNext
<1> HIDE DEF n
<1>6. merged' = [k \in MatchKeys |-> merged'[k]]
  BY <1>4, <1>5
<1>7. \A k \in MatchKeys :
        merged'[k] = IF n.key # k THEN merged[k]
                     ELSE IF merged[k] = NoMatch THEN n ELSE Combined(merged[k], n)
  BY <1>4, <1>5
<1>8. \A k \in MatchKeys : MergedIs(found, taken + 1, merged'[k], k)
  BY <1>1, <1>2, <1>4, <1>7, MergesNext DEF n
<1> QED
  BY <1>1, <1>2, <1>6, <1>8 DEF RankInv, TopRanked

\* The sort and the cut.
LEMMA RankKeeps == RankInv /\ Rank => RankInv'
<1> SUFFICES ASSUME RankInv, Rank
             PROVE  RankInv'
  OBVIOUS
<1>1. found \in Found /\ found' = found /\ found \in Seq(Matches)
      /\ taken = Len(found) /\ taken' = taken /\ merged' = merged
  BY RankAssumption DEF RankInv, Rank
<1>2. AllMerged(found, merged)
  BY <1>1 DEF RankInv, AllMerged
<1>3. Merged = MergedOf(merged)
  BY DEF Merged, MergedOf
<1> DEFINE N == Cardinality(FoundKeys(found))
<1>4. Cardinality(Merged) = N
  BY <1>1, <1>2, <1>3, MergedCount
<1>5. PICK s \in Orders : ranked' = [i \in DOMAIN Cut(s) |-> Shortened(Cut(s)[i])]
  BY DEF Rank
<1>6. s \in [1..N -> MergedOf(merged)] /\ IsInjective(s) /\ Sorted(s)
  BY <1>3, <1>4, <1>5 DEF Orders
<1>7. /\ FillsLimit(found, ranked') /\ NoneMissed(found, ranked')
      /\ \A i \in DOMAIN ranked' : InItsPlace(found, ranked'[i], i) /\ GivenReasons(found, ranked'[i])
  <2> HIDE DEF N
  <2> QED
    BY <1>1, <1>2, <1>5, <1>6, ShownWell DEF N
<1>8. TopRanked'
  BY <1>1, <1>7 DEF TopRanked
<1> QED
  BY <1>1, <1>8 DEF RankInv

\* Every step keeps it.
LEMMA RankInvNext == RankInv /\ [RankNext]_rankVars => RankInv'
<1>1. RankInv /\ UNCHANGED rankVars => RankInv'
  BY DEF RankInv, TopRanked, rankVars
<1> QED
  BY <1>1, MergeNextKeeps, RankKeeps DEF RankNext

\* Whatever the matches and the order in which the map gives them, the model is
\* shown the best by their total scores, each once and in its place.
THEOREM TopAlwaysRanked == RankSpec => []TopRanked
<1>1. RankInv => TopRanked
  BY DEF RankInv
<1> QED
  BY <1>1, RankInvInit, RankInvNext, PTL DEF RankSpec

-----------------------------------------------------------------------------
(* Texts one after the other *)

\* g joins the texts ss as Joins does.
JoinsAre(g, ss) == g = [n \in 0..Len(ss) |-> IF n = 0 THEN <<>> ELSE g[n - 1] \o ss[n]]

\* j joins the first N of the texts ss one by one.
JoinsThrough(j, ss, N) ==
  /\ j[0] = <<>>
  /\ \A n \in 1..N : j[n] = j[n - 1] \o ss[n]
  /\ \A n \in 0..N : j[n] \in Seq(Snippets)

\* Two texts that are joined are a text.
LEMMA TextsJoin ==
  <<>> \in Seq(Snippets) /\ \A x \in Seq(Snippets), y \in Seq(Snippets) : x \o y \in Seq(Snippets)
BY ConcatProperties

\* Two texts that are joined.
Glued(u, v) == u \o v

\* It makes no difference which of three texts are joined first.
LEMMA TextsAssociate ==
  \A u \in Seq(Snippets), v \in Seq(Snippets), w \in Seq(Snippets) :
           Glued(Glued(u, v), w) = Glued(u, Glued(v, w))
<1> TAKE u \in Seq(Snippets), v \in Seq(Snippets), w \in Seq(Snippets)
<1> QED
  BY ConcatAssociative DEF Glued

\* Joins is the function its definition describes, and gives texts.
LEMMA JoinsFollow ==
  ASSUME NEW ss \in Seq(Seq(Snippets))
  PROVE  JoinsThrough(Joins(ss), ss, Len(ss))
<1> DEFINE N == Len(ss)
           X == Seq(Snippets)
           T == [n \in 1..N |-> [x \in X |-> x \o ss[n]]]
<1>1. N \in Nat /\ \A n \in 1..N : ss[n] \in X
  OBVIOUS
<1>2. <<>> \in X /\ \A x \in X, y \in X : x \o y \in X
  BY TextsJoin
<1> HIDE DEF X
<1>3. \A n \in 1..N, x \in X : T[n][x] = x \o ss[n] /\ T[n][x] \in X
  BY <1>1, <1>2
<1> HIDE DEF T
<1>4. PICK g \in [0..N -> X] : GoesOnBy(g, <<>>, N, T)
  <2>1. StaysIn(X, N, T)
    BY <1>3 DEF StaysIn
  <2> HIDE DEF N
  <2> QED
    BY <1>1, <1>2, <2>1, StepsExist
<1>5. \E h : JoinsAre(h, ss)
  <2>1. ASSUME NEW n \in 0..N
        PROVE  g[n] = IF n = 0 THEN <<>> ELSE g[n - 1] \o ss[n]
    <3>1. CASE n = 0
      BY <1>4, <3>1 DEF GoesOnBy
    <3>2. CASE n # 0
      <4>1. n \in 1..N /\ n - 1 \in 0..N
        BY <1>1, <3>2
      <4>2. g[n - 1] \in X
        BY <4>1
      <4>3. g[n] = T[n][g[n - 1]]
        BY <1>4, <4>1 DEF GoesOnBy
      <4> QED
        BY <1>3, <3>2, <4>1, <4>2, <4>3
    <3> QED
      BY <3>1, <3>2
  <2>2. g = [n \in 0..N |-> IF n = 0 THEN <<>> ELSE g[n - 1] \o ss[n]]
    BY <2>1
  <2> QED
    BY <2>2 DEF JoinsAre
<1>6. JoinsAre(Joins(ss), ss)
  <2>1. Joins(ss) = CHOOSE h : JoinsAre(h, ss)
    BY DEF Joins, JoinsAre
  <2> QED
    BY <1>5, <2>1
<1> DEFINE j == Joins(ss)
<1>7. j = [n \in 0..N |-> IF n = 0 THEN <<>> ELSE j[n - 1] \o ss[n]]
  BY <1>6 DEF JoinsAre
<1>8. j[0] = <<>> /\ \A n \in 1..N : j[n] = j[n - 1] \o ss[n]
  <2> HIDE DEF j, N
  <2>1. \A n \in 0..N : j[n] = IF n = 0 THEN <<>> ELSE j[n - 1] \o ss[n]
    BY <1>7, Zenon
  <2>2. 0 \in 0..N /\ \A n \in 1..N : n \in 0..N /\ n # 0
    BY <1>1
  <2> QED
    BY <2>1, <2>2, Zenon
<1> HIDE DEF j
<1> DEFINE G == {n \in Nat : n <= N => j[n] \in X}
<1>9. 0 \in G
  BY <1>2, <1>8
<1>10. ASSUME NEW n \in Nat, n < N, n \in G
       PROVE  n + 1 \in G
  <2>1. n + 1 \in 1..N /\ (n + 1) - 1 = n /\ j[n] \in X
    BY <1>1, <1>10
  <2>2. j[n + 1] = j[n] \o ss[n + 1]
    <3>1. j[n + 1] = j[(n + 1) - 1] \o ss[n + 1]
      BY <1>8, <2>1, Zenon
    <3> QED
      BY <2>1, <3>1, Zenon
  <2>3. j[n + 1] \in X
    BY <1>1, <1>2, <2>1, <2>2, Zenon
  <2> QED
    BY <2>3
<1>11. \A n \in 0..N : n \in G
  <2> HIDE DEF G, N
  <2> QED
    BY <1>1, <1>9, <1>10, UpTo
<1>12. \A n \in 0..N : j[n] \in X
  BY <1>11
<1> QED
  BY <1>8, <1>12 DEF j, X, JoinsThrough

\* One text after the other: each makes the text longer by itself.
LEMMA JoinsGrow ==
  ASSUME NEW ss \in Seq(Seq(Snippets)), NEW n \in Nat, n < Len(ss)
  PROVE  /\ Joins(ss)[n + 1] = Joins(ss)[n] \o ss[n + 1]
         /\ Joins(ss)[n] \in Seq(Snippets) /\ ss[n + 1] \in Seq(Snippets)
<1>1. JoinsThrough(Joins(ss), ss, Len(ss))
  BY JoinsFollow
<1>2. Len(ss) \in Nat
  OBVIOUS
<1>3. n + 1 \in 1..Len(ss) /\ n \in 0..Len(ss) /\ (n + 1) - 1 = n
  BY <1>2
<1>4. Joins(ss)[n + 1] = Joins(ss)[(n + 1) - 1] \o ss[n + 1] /\ Joins(ss)[n] \in Seq(Snippets)
  BY <1>1, <1>3, Zenon DEF JoinsThrough
<1>5. ss[n + 1] \in Seq(Snippets)
  BY <1>3
<1> QED
  BY <1>3, <1>4, <1>5, Zenon

\* Texts that are joined are a text; no texts are the empty one.
LEMMA FlatIs ==
  ASSUME NEW ss \in Seq(Seq(Snippets))
  PROVE  Flat(ss) \in Seq(Snippets) /\ Joins(ss)[0] = <<>>
<1>1. JoinsThrough(Joins(ss), ss, Len(ss))
  BY JoinsFollow
<1>2. 0 \in 0..Len(ss) /\ Len(ss) \in 0..Len(ss)
  <2>1. Len(ss) \in Nat
    OBVIOUS
  <2> QED
    BY <2>1
<1> QED
  BY <1>1, <1>2, Zenon DEF JoinsThrough, Flat

\* What can become of pieces of text.
Changes == [Snippets -> Seq(Snippets)]

\* What a text becomes when every piece p of it becomes by[p].
EachBy(x, by) == [i \in 1..Len(x) |-> by[x[i]]]
Mapped(x, by) == Flat(EachBy(x, by))

\* Pieces become texts.
LEMMA EachIs ==
  ASSUME NEW x \in Seq(Snippets), NEW by \in Changes
  PROVE  /\ EachBy(x, by) \in Seq(Seq(Snippets)) /\ Len(EachBy(x, by)) = Len(x)
         /\ \A i \in 1..Len(x) : EachBy(x, by)[i] = by[x[i]]
<1> DEFINE e == EachBy(x, by)
<1>1. Len(x) \in Nat /\ \A i \in 1..Len(x) : x[i] \in Snippets /\ by[x[i]] \in Seq(Snippets)
  BY DEF Changes
<1>2. e = [i \in 1..Len(x) |-> by[x[i]]]
  BY DEF EachBy
<1>3. e \in [1..Len(x) -> Seq(Snippets)]
  BY <1>1, <1>2
<1> HIDE DEF e
<1>4. \A X : \A n \in Nat : e \in [1..n -> X] => e \in Seq(X) /\ Len(e) = n
  OBVIOUS
<1>5. e \in Seq(Seq(Snippets)) /\ Len(e) = Len(x) /\ \A i \in 1..Len(x) : e[i] = by[x[i]]
  BY <1>1, <1>2, <1>3, <1>4
<1> QED
  BY <1>5 DEF e

\* j[n] is what the first n pieces of x become.
MapsThrough(j, x, by) ==
  /\ j[0] = <<>>
  /\ \A n \in 0..Len(x) : j[n] \in Seq(Snippets)
  /\ \A n \in Nat : n < Len(x) =>
       j[n + 1] = j[n] \o by[x[n + 1]] /\ by[x[n + 1]] \in Seq(Snippets) /\ j[n] \in Seq(Snippets)

\* A text becomes what its pieces become, one after the other.
LEMMA MappedFollows ==
  ASSUME NEW x \in Seq(Snippets), NEW by \in Changes
  PROVE  /\ \E j : MapsThrough(j, x, by) /\ Mapped(x, by) = j[Len(x)]
         /\ Mapped(x, by) \in Seq(Snippets)
<1> DEFINE e == EachBy(x, by)
           j == Joins(e)
<1>1. e \in Seq(Seq(Snippets)) /\ Len(e) = Len(x) /\ \A i \in 1..Len(x) : e[i] = by[x[i]]
  BY EachIs
<1>2. Len(x) \in Nat
  OBVIOUS
<1>3. Mapped(x, by) = Flat(e) /\ Flat(e) = j[Len(x)]
  BY <1>1 DEF Mapped, Flat
<1> HIDE DEF e
<1>4. Flat(e) \in Seq(Snippets) /\ j[0] = <<>>
  BY <1>1, FlatIs
<1>5. JoinsThrough(j, e, Len(x))
  BY <1>1, JoinsFollow, Zenon
<1>6. ASSUME NEW n \in Nat, n < Len(x)
      PROVE  j[n + 1] = j[n] \o by[x[n + 1]] /\ by[x[n + 1]] \in Seq(Snippets) /\ j[n] \in Seq(Snippets)
  <2>1. n < Len(e) /\ e[n + 1] = by[x[n + 1]]
    BY <1>1, <1>2, <1>6
  <2>2. j[n + 1] = j[n] \o e[n + 1] /\ j[n] \in Seq(Snippets) /\ e[n + 1] \in Seq(Snippets)
    BY <1>1, <2>1, JoinsGrow
  <2> QED
    BY <2>1, <2>2, Zenon
<1>7. MapsThrough(j, x, by)
  BY <1>4, <1>5, <1>6, Zenon DEF MapsThrough, JoinsThrough
<1> QED
  BY <1>3, <1>4, <1>7, Zenon

\* Two texts that are joined become what they become, joined.
LEMMA MappedConcat ==
  ASSUME NEW x \in Seq(Snippets), NEW y \in Seq(Snippets), NEW by \in Changes
  PROVE  Mapped(x \o y, by) = Mapped(x, by) \o Mapped(y, by)
<1> DEFINE z == x \o y
           K == Len(x)
           N == Len(y)
<1>1. /\ z \in Seq(Snippets) /\ K \in Nat /\ N \in Nat /\ Len(z) = K + N
      /\ \A i \in 1..K : z[i] = x[i]
      /\ \A i \in 1..N : z[K + i] = y[i]
  BY ConcatProperties
<1> HIDE DEF z
<1>2. PICK jx : MapsThrough(jx, x, by) /\ Mapped(x, by) = jx[K]
  BY MappedFollows
<1>3. PICK jy : MapsThrough(jy, y, by) /\ Mapped(y, by) = jy[N]
  BY MappedFollows
<1>4. PICK jz : MapsThrough(jz, z, by) /\ Mapped(z, by) = jz[K + N]
  <2>1. PICK j : MapsThrough(j, z, by) /\ Mapped(z, by) = j[Len(z)]
    BY <1>1, MappedFollows
  <2> QED
    BY <1>1, <2>1, Zenon
<1> DEFINE G == {n \in Nat : n <= K => jz[n] = jx[n]}
<1>5. 0 \in G
  <2>1. jz[0] = jx[0]
    BY <1>2, <1>4, Zenon DEF MapsThrough
  <2> QED
    BY <2>1
<1>6. ASSUME NEW n \in Nat, n < K, n \in G
      PROVE  n + 1 \in G
  <2>1. n + 1 \in Nat /\ n < K + N /\ z[n + 1] = x[n + 1] /\ jz[n] = jx[n]
    BY <1>1, <1>6
  <2>2. jx[n + 1] = jx[n] \o by[x[n + 1]]
    BY <1>2, <1>6, Zenon DEF MapsThrough
  <2>3. jz[n + 1] = jz[n] \o by[z[n + 1]]
    BY <1>1, <1>4, <2>1, Zenon DEF MapsThrough
  <2>4. jz[n + 1] = jx[n + 1]
    BY <2>1, <2>2, <2>3, Zenon
  <2> QED
    BY <2>1, <2>4
<1>7. jz[K] = jx[K]
  <2>1. \A n \in 0..K : n \in G
    <3> HIDE DEF G, K
    <3> QED
      BY <1>1, <1>5, <1>6, UpTo
  <2>2. K \in 0..K
    BY <1>1
  <2> QED
    BY <2>1, <2>2
<1>8. jx[K] \in Seq(Snippets)
  <2>1. K \in 0..Len(x)
    BY <1>1
  <2> QED
    BY <1>2, <2>1, Zenon DEF MapsThrough
<1> DEFINE H == {n \in Nat : n <= N => jz[K + n] = jx[K] \o jy[n]}
<1>9. 0 \in H
  <2>1. jx[K] \o <<>> = jx[K]
    BY <1>8, ConcatEmptySeq
  <2>2. K + 0 = K
    BY <1>1
  <2>3. jy[0] = <<>>
    BY <1>3, Zenon DEF MapsThrough
  <2>4. jz[K + 0] = jx[K] \o jy[0]
    BY <1>7, <2>1, <2>2, <2>3, Zenon
  <2> QED
    BY <2>4
<1>10. ASSUME NEW n \in Nat, n < N, n \in H
       PROVE  n + 1 \in H
  <2>1. /\ K + n \in Nat /\ K + n < K + N /\ K + (n + 1) = (K + n) + 1
        /\ n + 1 \in 1..N /\ n + 1 \in Nat
    BY <1>1, <1>10
  <2>2. jz[K + n] = jx[K] \o jy[n]
    <3>1. n <= N
      BY <1>1, <1>10
    <3> QED
      BY <1>10, <3>1, Zenon
  <2>3. jz[(K + n) + 1] = jz[K + n] \o by[z[(K + n) + 1]]
    BY <1>1, <1>4, <2>1, Zenon DEF MapsThrough
  <2>4. z[(K + n) + 1] = y[n + 1]
    <3>1. z[K + (n + 1)] = y[n + 1]
      BY <1>1, <2>1, Zenon
    <3> QED
      BY <2>1, <3>1, Zenon
  <2>5. jy[n + 1] = jy[n] \o by[y[n + 1]] /\ by[y[n + 1]] \in Seq(Snippets) /\ jy[n] \in Seq(Snippets)
    BY <1>3, <1>10, Zenon DEF MapsThrough
  <2>6. (jx[K] \o jy[n]) \o by[y[n + 1]] = jx[K] \o (jy[n] \o by[y[n + 1]])
    <3>1. Glued(Glued(jx[K], jy[n]), by[y[n + 1]]) = Glued(jx[K], Glued(jy[n], by[y[n + 1]]))
      <4>1. \A u \in Seq(Snippets), v \in Seq(Snippets), w \in Seq(Snippets) :
              Glued(Glued(u, v), w) = Glued(u, Glued(v, w))
        BY TextsAssociate
      <4>2. jx[K] \in Seq(Snippets) /\ jy[n] \in Seq(Snippets) /\ by[y[n + 1]] \in Seq(Snippets)
        BY <1>8, <2>5, Zenon
      <4> QED
        BY <4>1, <4>2, Zenon
    <3> QED
      BY <3>1 DEF Glued
  <2>7. jz[K + (n + 1)] = jx[K] \o jy[n + 1]
    BY <2>1, <2>2, <2>3, <2>4, <2>5, <2>6, Zenon
  <2> QED
    BY <2>1, <2>7
<1>11. jz[K + N] = jx[K] \o jy[N]
  <2>1. \A n \in 0..N : n \in H
    <3> HIDE DEF H, N
    <3> QED
      BY <1>1, <1>9, <1>10, UpTo
  <2>2. N \in 0..N
    BY <1>1
  <2>3. N \in H
    BY <2>1, <2>2, Zenon
  <2>4. N <= N
    BY <1>1
  <2> QED
    BY <2>3, <2>4, Zenon
<1> QED
  BY <1>2, <1>3, <1>4, <1>11, Zenon DEF z

\* The empty text stays empty.
LEMMA MappedEmpty ==
  ASSUME NEW by \in Changes
  PROVE  Mapped(<<>>, by) = <<>>
<1>1. <<>> \in Seq(Snippets) /\ Len(<<>>) = 0
  OBVIOUS
<1>2. PICK j : MapsThrough(j, <<>>, by) /\ Mapped(<<>>, by) = j[Len(<<>>)]
  BY <1>1, MappedFollows
<1> QED
  BY <1>1, <1>2, Zenon DEF MapsThrough

\* The texts mm are what the texts ss become.
Become(ss, mm, by) ==
  Len(mm) = Len(ss) /\ \A i \in 1..Len(ss) : mm[i] = Mapped(ss[i], by)

\* Texts that are joined become what they become, joined.
LEMMA MappedFlat ==
  ASSUME NEW ss \in Seq(Seq(Snippets)), NEW by \in Changes,
         NEW mm \in Seq(Seq(Snippets)), Become(ss, mm, by)
  PROVE  Mapped(Flat(ss), by) = Flat(mm)
<1> DEFINE N == Len(ss)
           js == Joins(ss)
           jm == Joins(mm)
<1>1. N \in Nat /\ \A i \in 1..N : ss[i] \in Seq(Snippets)
  OBVIOUS
<1>2. js[0] = <<>> /\ jm[0] = <<>>
  BY FlatIs
<1>3. ASSUME NEW n \in Nat, n < N
      PROVE  /\ js[n + 1] = js[n] \o ss[n + 1] /\ js[n] \in Seq(Snippets) /\ ss[n + 1] \in Seq(Snippets)
             /\ jm[n + 1] = jm[n] \o mm[n + 1]
  BY <1>3, JoinsGrow DEF Become
<1>4. Flat(ss) = js[N] /\ Flat(mm) = jm[N]
  BY DEF Flat, Become
<1>5. \A i \in 1..N : mm[i] = Mapped(ss[i], by)
  BY DEF Become
<1> HIDE DEF js, jm, N
<1> DEFINE G == {n \in Nat : n <= N => Mapped(js[n], by) = jm[n]}
<1>6. 0 \in G
  <2>1. Mapped(js[0], by) = jm[0]
    BY <1>2, MappedEmpty, Zenon
  <2> QED
    BY <2>1
<1>7. ASSUME NEW n \in Nat, n < N, n \in G
      PROVE  n + 1 \in G
  <2>1. n + 1 \in 1..N /\ Mapped(js[n], by) = jm[n] /\ n + 1 \in Nat
    BY <1>1, <1>7
  <2>2. /\ js[n + 1] = js[n] \o ss[n + 1] /\ js[n] \in Seq(Snippets) /\ ss[n + 1] \in Seq(Snippets)
        /\ jm[n + 1] = jm[n] \o mm[n + 1]
    BY <1>3, <1>7, Zenon
  <2>3. Mapped(js[n] \o ss[n + 1], by) = Mapped(js[n], by) \o Mapped(ss[n + 1], by)
    <3>1. \A u, v \in Seq(Snippets) : Mapped(u \o v, by) = Mapped(u, by) \o Mapped(v, by)
      BY MappedConcat
    <3> QED
      BY <2>2, <3>1, Zenon
  <2>4. mm[n + 1] = Mapped(ss[n + 1], by)
    BY <1>5, <2>1, Zenon
  <2>5. Mapped(js[n + 1], by) = jm[n + 1]
    BY <2>1, <2>2, <2>3, <2>4, Zenon
  <2> QED
    BY <2>1, <2>5
<1>8. \A n \in 0..N : n \in G
  <2> HIDE DEF G
  <2> QED
    BY <1>1, <1>6, <1>7, UpTo
<1>9. N \in 0..N /\ N <= N
  BY <1>1
<1> QED
  BY <1>4, <1>8, <1>9, Zenon

\* A text of one piece becomes what its piece becomes.
LEMMA MappedPiece ==
  ASSUME NEW p \in Snippets, NEW by \in Changes
  PROVE  Mapped(<<p>>, by) = by[p]
<1> DEFINE x == <<p>>
<1>1. x \in Seq(Snippets) /\ Len(x) = 1 /\ x[1] = p
  OBVIOUS
<1> HIDE DEF x
<1>2. PICK j : MapsThrough(j, x, by) /\ Mapped(x, by) = j[1]
  BY <1>1, MappedFollows
<1>3. 0 \in Nat /\ 0 < 1 /\ 0 + 1 = 1
  OBVIOUS
<1>4. j[0] = <<>> /\ j[0 + 1] = j[0] \o by[x[0 + 1]] /\ by[x[0 + 1]] \in Seq(Snippets)
  BY <1>1, <1>2, <1>3, Zenon DEF MapsThrough
<1>5. j[1] = <<>> \o by[p] /\ by[p] \in Seq(Snippets)
  BY <1>1, <1>3, <1>4, Zenon
<1>6. <<>> \o by[p] = by[p]
  BY <1>5, ConcatEmptySeq
<1> QED
  BY <1>2, <1>5, <1>6, Zenon DEF x

\* A text whose pieces stay is as it was.
LEMMA MappedSame ==
  ASSUME NEW x \in Seq(Snippets), NEW by \in Changes,
         \A i \in 1..Len(x) : by[x[i]] = <<x[i]>>
  PROVE  Mapped(x, by) = x
<1> DEFINE N == Len(x)
<1>1. N \in Nat /\ \A i \in 1..N : x[i] \in Snippets
  OBVIOUS
<1>2. PICK j : MapsThrough(j, x, by) /\ Mapped(x, by) = j[N]
  BY MappedFollows
<1>3. \A i \in 1..N : by[x[i]] = <<x[i]>>
  OBVIOUS
<1> DEFINE G == {n \in Nat : n <= N => j[n] = SubSeq(x, 1, n)}
<1>4. 0 \in G
  <2>1. SubSeq(x, 1, 0) = <<>>
    BY SubSeqEmpty
  <2>2. j[0] = <<>>
    BY <1>2, Zenon DEF MapsThrough
  <2> QED
    BY <2>1, <2>2
<1>5. ASSUME NEW n \in Nat, n < N, n \in G
      PROVE  n + 1 \in G
  <2>1. n + 1 \in 1..N /\ n + 1 \in Nat /\ j[n] = SubSeq(x, 1, n)
    BY <1>1, <1>5
  <2>2. SubSeq(x, 1, n + 1) = SubSeq(x, 1, n) \o <<x[n + 1]>>
    <3>1. (n + 1) - 1 = n /\ 1 \in 1..Len(x) /\ n + 1 \in 1..Len(x)
      BY <1>1, <2>1
    <3>2. SubSeq(x, 1, n + 1) = SubSeq(x, 1, (n + 1) - 1) \o <<x[n + 1]>>
      BY <3>1, SubSeqRecursiveSecond
    <3> QED
      BY <3>1, <3>2, Zenon
  <2>3. j[n + 1] = j[n] \o by[x[n + 1]]
    BY <1>2, <1>5, Zenon DEF MapsThrough
  <2>4. j[n + 1] = SubSeq(x, 1, n + 1)
    BY <1>3, <2>1, <2>2, <2>3, Zenon
  <2> QED
    BY <2>1, <2>4
<1>6. \A n \in 0..N : n \in G
  <2> HIDE DEF G
  <2> QED
    BY <1>1, <1>4, <1>5, UpTo
<1>7. SubSeq(x, 1, N) = x
  BY SubSeqFull
<1>8. N \in 0..N /\ N <= N
  BY <1>1
<1> QED
  BY <1>2, <1>6, <1>7, <1>8, Zenon

-----------------------------------------------------------------------------
(* The types of a command's text *)

\* Arguments and definitions.
Args == [form : {"word"}, key : {""}, text : Seq(Snippets)] \cup
          [form : {"pair", "flagpair", "flag"}, key : Names, text : Seq(Snippets)]
Defs == [name : Names, required : BOOLEAN, default : Seq(Snippets)]

\* The definitions x and the one that piece p leads to.
NextInferred(x, p) ==
  IF Naming(p) /\ \A i \in DOMAIN x : x[i].name # p.x
  THEN Append(x, Definition(p.x, FallbackOf(p) = <<>>, FallbackOf(p)))
  ELSE x

\* g infers the definitions of t as Inferred does.
InferredAre(g, t) ==
  g = [n \in 0..Len(t) |-> IF n = 0 THEN <<>> ELSE NextInferred(g[n - 1], t[n])]

\* What the pieces are made of.
LEMMA PiecesAre ==
  ASSUME NEW p \in Snippets
  PROVE  /\ Naming(p) => p.x \in Names /\ FallbackOf(p) \in Seq(Snippets)
         /\ p.p = "all" => p = AllArgs
         /\ p.p = "pos" => p.n \in Nat \ {0} /\ p = Pos(p.n)
         /\ p.p = "dollar" => p = Dollar(p.x)
         /\ p.p = "brace" => p = Brace(p.x)
BY TextAssumption DEF TextAssumption

\* A piece of a template leads to one more definition or to none.
LEMMA NextInferredIs ==
  ASSUME NEW x \in Seq(Defs), NEW p \in Snippets
  PROVE  NextInferred(x, p) \in Seq(Defs)
<1>1. CASE Naming(p) /\ \A i \in DOMAIN x : x[i].name # p.x
  <2> DEFINE d == Definition(p.x, FallbackOf(p) = <<>>, FallbackOf(p))
  <2>1. p.x \in Names /\ FallbackOf(p) \in Seq(Snippets)
    BY <1>1, PiecesAre
  <2>2. (FallbackOf(p) = <<>>) \in BOOLEAN
    OBVIOUS
  <2>3. d \in Defs
    BY <2>1, <2>2 DEF Definition, Defs
  <2> HIDE DEF d
  <2>4. Append(x, d) \in Seq(Defs)
    BY <2>3
  <2> QED
    BY <1>1, <2>4 DEF NextInferred, d
<1>2. CASE ~(Naming(p) /\ \A i \in DOMAIN x : x[i].name # p.x)
  BY <1>2 DEF NextInferred
<1> QED
  BY <1>1, <1>2

\* The definitions that are inferred from a template.
LEMMA InferredIs ==
  ASSUME NEW t \in Seq(Snippets)
  PROVE  InferArguments(t) \in Seq(Defs)
<1> DEFINE N == Len(t)
           X == Seq(Defs)
           T == [n \in 1..N |-> [x \in X |-> NextInferred(x, t[n])]]
<1>1. N \in Nat /\ \A n \in 1..N : t[n] \in Snippets
  OBVIOUS
<1>2. <<>> \in X /\ \A n \in 1..N, x \in X : NextInferred(x, t[n]) \in X
  <2>1. ASSUME NEW n \in 1..N, NEW x \in Seq(Defs)
        PROVE  NextInferred(x, t[n]) \in Seq(Defs)
    <3>1. t[n] \in Snippets
      BY <1>1
    <3> QED
      BY <3>1, NextInferredIs
  <2>2. <<>> \in Seq(Defs)
    OBVIOUS
  <2> QED
    BY <2>1, <2>2
<1> HIDE DEF X
<1>3. \A n \in 1..N, x \in X : T[n][x] = NextInferred(x, t[n]) /\ T[n][x] \in X
  BY <1>1, <1>2
<1> HIDE DEF T
<1>4. PICK g \in [0..N -> X] : GoesOnBy(g, <<>>, N, T)
  <2>1. StaysIn(X, N, T)
    BY <1>3 DEF StaysIn
  <2> HIDE DEF N
  <2> QED
    BY <1>1, <1>2, <2>1, StepsExist
<1>5. InferredAre(g, t)
  <2>1. ASSUME NEW n \in 0..N
        PROVE  g[n] = IF n = 0 THEN <<>> ELSE NextInferred(g[n - 1], t[n])
    <3>1. CASE n = 0
      BY <1>4, <3>1 DEF GoesOnBy
    <3>2. CASE n # 0
      <4>1. n \in 1..N /\ n - 1 \in 0..N
        BY <1>1, <3>2
      <4>2. g[n - 1] \in X
        BY <4>1
      <4>3. g[n] = T[n][g[n - 1]]
        BY <1>4, <4>1 DEF GoesOnBy
      <4> QED
        BY <1>3, <3>2, <4>1, <4>2, <4>3
    <3> QED
      BY <3>1, <3>2
  <2>2. g = [n \in 0..N |-> IF n = 0 THEN <<>> ELSE NextInferred(g[n - 1], t[n])]
    BY <2>1
  <2> QED
    BY <2>2 DEF InferredAre
<1> DEFINE h == Inferred(t)
<1>6. InferredAre(h, t)
  <2>1. h = CHOOSE f : InferredAre(f, t)
    BY DEF Inferred, InferredAre, NextInferred
  <2> QED
    BY <1>5, <2>1
<1>7. \A n \in 0..N : h[n] = IF n = 0 THEN <<>> ELSE NextInferred(h[n - 1], t[n])
  <2> HIDE DEF h
  <2> QED
    BY <1>6, Zenon DEF InferredAre
<1> HIDE DEF h
<1> DEFINE G == {n \in Nat : n <= N => h[n] \in X}
<1>8. 0 \in G
  BY <1>1, <1>2, <1>7
<1>9. ASSUME NEW n \in Nat, n < N, n \in G
      PROVE  n + 1 \in G
  <2>1. n + 1 \in 1..N /\ n + 1 \in 0..N /\ n + 1 # 0 /\ (n + 1) - 1 = n /\ h[n] \in X
    BY <1>1, <1>9
  <2>2. h[n + 1] = NextInferred(h[n], t[n + 1])
    BY <1>7, <2>1
  <2>3. h[n + 1] \in X
    BY <1>2, <2>1, <2>2
  <2> QED
    BY <2>3
<1>10. N \in G
  <2>1. \A n \in 0..N : n \in G
    <3> HIDE DEF G, N
    <3> QED
      BY <1>1, <1>8, <1>9, UpTo
  <2>2. N \in 0..N
    BY <1>1
  <2> QED
    BY <2>1, <2>2
<1>11. h[N] \in X
  BY <1>1, <1>10
<1> QED
  BY <1>11 DEF InferArguments, h, X

\* The names of the definitions.
Defining == {order[i].name : i \in DOMAIN order}

\* The types of the variables.
TextTypes ==
  /\ template \in Seq(Snippets) /\ order \in Seq(Defs) /\ given \in Seq(Args)
  /\ parsed \in Nat /\ parsed <= Len(given)
  /\ positional \in Seq(Seq(Snippets))
  /\ named \in [Names -> Seq(Snippets)]
  /\ rendered \in Seq(Snippets)
  /\ todo \subseteq Defining
  /\ textPc \in {"parsing", "naming", "rendered", "missing"}

\* A set of numbers up to N has a greatest one.
LEMMA GreatestUpTo ==
  ASSUME NEW N \in Nat, NEW A \in SUBSET (1..N), A # {}
  PROVE  \E m \in A : \A n \in A : n <= m
<1> DEFINE B == {N - n : n \in A}
<1>1. B \in SUBSET Nat /\ B # {}
  <2>1. \A n \in A : N - n \in Nat
    OBVIOUS
  <2> QED
    BY <2>1
<1>2. PICK b \in B : \A c \in B : b <= c
  BY <1>1, Least
<1>3. PICK m \in A : b = N - m
  BY <1>2
<1>4. ASSUME NEW n \in A
      PROVE  n <= m
  <2>1. N - n \in B
    OBVIOUS
  <2>2. N - m <= N - n
    BY <1>2, <1>3, <2>1
  <2>3. n \in 1..N /\ m \in 1..N
    BY <1>3
  <2> QED
    BY <2>2, <2>3
<1> QED
  BY <1>4

\* The value of a definition, and that of a name that is defined.
LEMMA ValueIs ==
  ASSUME TextTypes
  PROVE  /\ \A i \in DOMAIN order : Value(i) \in Seq(Snippets)
         /\ \A n : Defined(n) # {} => \E i \in DOMAIN order : Values(n) = Value(i)
<1>1. ASSUME NEW i \in DOMAIN order
      PROVE  Value(i) \in Seq(Snippets)
  <2>1. i \in 1..Len(order) /\ Len(order) \in Nat
    BY DEF TextTypes
  <2>2. order[i] \in Defs
    BY <2>1 DEF TextTypes
  <2>3. order[i].name \in Names /\ order[i].default \in Seq(Snippets)
    BY <2>2 DEF Defs
  <2>4. named[order[i].name] \in Seq(Snippets)
    BY <2>3 DEF TextTypes
  <2>5. i <= Len(positional) => positional[i] \in Seq(Snippets)
    BY <2>1 DEF TextTypes
  <2> QED
    BY <2>3, <2>4, <2>5 DEF Value
<1>2. ASSUME NEW n, Defined(n) # {}
      PROVE  \E i \in DOMAIN order : Values(n) = Value(i)
  <2>1. DOMAIN order = 1..Len(order) /\ Len(order) \in Nat
    BY DEF TextTypes
  <2>2. Defined(n) \in SUBSET (1..Len(order))
    BY <2>1 DEF Defined
  <2>3. \E m \in Defined(n) : \A j \in Defined(n) : j <= m
    BY <1>2, <2>1, <2>2, GreatestUpTo
  <2> DEFINE m == CHOOSE i \in Defined(n) : \A j \in Defined(n) : j <= i
  <2>4. m \in Defined(n)
    BY <2>3
  <2>5. Values(n) = Value(m)
    BY DEF Values
  <2> QED
    BY <2>1, <2>2, <2>4, <2>5
<1> QED
  BY <1>1, <1>2

\* Everything that is parsed or joined is text.
LEMMA TypesAtFirst ==
  TextInit => TextTypes
<1> SUFFICES ASSUME TextInit
             PROVE  TextTypes
  OBVIOUS
<1>1. PICK t \in Templates, d \in Declarations, a \in Arguments :
        /\ template = t /\ rendered = t
        /\ order = (IF d = <<>> THEN InferArguments(t) ELSE d)
        /\ given = a /\ parsed = 0
        /\ positional = <<>>
        /\ named = [n \in Names |-> <<>>]
        /\ todo = {}
        /\ textPc = "parsing"
  BY DEF TextInit
<1>2. t \in Seq(Snippets) /\ d \in Seq(Defs) /\ a \in Seq(Args)
  BY TextAssumption DEF TextAssumption, Defs, Args
<1>3. order \in Seq(Defs)
  BY <1>1, <1>2, InferredIs
<1>4. <<>> \in Seq(Snippets) /\ <<>> \in Seq(Seq(Snippets)) /\ Len(a) \in Nat
  BY <1>2
<1>5. parsed \in Nat /\ parsed <= Len(given)
  BY <1>1, <1>4
<1>6. named \in [Names -> Seq(Snippets)]
  BY <1>1, <1>4
<1>7. todo \subseteq Defining
  BY <1>1
<1> QED
  BY <1>1, <1>2, <1>3, <1>4, <1>5, <1>6, <1>7 DEF TextTypes

\* What an argument is.
LEMMA ArgumentIs ==
  ASSUME NEW a \in Args
  PROVE  /\ a.form \in {"word", "pair", "flagpair", "flag"}
         /\ a.text \in Seq(Snippets) /\ (a.form # "word" => a.key \in Names)
         /\ Whole(a) \in Seq(Snippets) /\ True \in Seq(Snippets)
<1>1. /\ a.form \in {"word", "pair", "flagpair", "flag"}
      /\ a.text \in Seq(Snippets) /\ (a.form # "word" => a.key \in Names)
  BY DEF Args
<1>2. \A x \in Names \cup {"true"} : <<Lit(x)>> \in Seq(Snippets)
  <2>1. \A x \in Names \cup {"true"} : Lit(x) \in Snippets
    BY TextAssumption DEF TextAssumption
  <2> QED
    BY <2>1
<1>3. Whole(a) \in Seq(Snippets)
  <2>1. CASE a.form = "pair"
    <3>1. <<Lit(a.key)>> \in Seq(Snippets)
      BY <1>1, <1>2, <2>1
    <3>2. <<Lit(a.key)>> \o a.text \in Seq(Snippets)
      BY <1>1, <3>1, TextsJoin
    <3> QED
      BY <2>1, <3>2 DEF Whole
  <2> QED
    BY <1>1, <2>1 DEF Whole
<1> QED
  BY <1>1, <1>2, <1>3 DEF True

\* The value that a flag takes, or the text of an argument.
ValueAt(i) ==
  CASE TakesNext(i) -> Whole(given[i + 1])
    [] given[i].form = "flag" /\ ~TakesNext(i) -> True
    [] OTHER -> given[i].text

\* What parsing one argument does, in parts.
LEMMA Parsing ==
  ASSUME ParseArgument
  PROVE  /\ textPc = "parsing" /\ parsed < Len(given)
         /\ parsed' = IF TakesNext(parsed + 1) THEN (parsed + 1) + 1 ELSE parsed + 1
         /\ given[parsed + 1].form = "word" =>
              positional' = Append(positional, given[parsed + 1].text) /\ named' = named
         /\ given[parsed + 1].form # "word" =>
              /\ positional' = positional
              /\ named' = [named EXCEPT ![given[parsed + 1].key] = ValueAt(parsed + 1)]
         /\ UNCHANGED <<template, order, given, rendered, todo, textPc>>
BY DEF ParseArgument, ValueAt

\* What parsing leaves are texts.
LEMMA ParsingTypes ==
  ASSUME TextTypes, ParseArgument
  PROVE  TextTypes'
<1> DEFINE i == parsed + 1
           a == given[i]
<1>1. /\ textPc = "parsing" /\ parsed < Len(given)
      /\ parsed' = IF TakesNext(i) THEN i + 1 ELSE parsed + 1
      /\ a.form = "word" => positional' = Append(positional, a.text) /\ named' = named
      /\ a.form # "word" =>
           positional' = positional /\ named' = [named EXCEPT ![a.key] = ValueAt(i)]
      /\ UNCHANGED <<template, order, given, rendered, todo, textPc>>
  BY Parsing
<1>2. /\ Len(given) \in Nat /\ parsed \in Nat /\ i \in 1..Len(given)
      /\ positional \in Seq(Seq(Snippets)) /\ named \in [Names -> Seq(Snippets)]
  BY <1>1 DEF TextTypes
<1>3. \A k \in 1..Len(given) : given[k] \in Args
  BY DEF TextTypes
<1>4. TakesNext(i) => i < Len(given) /\ i + 1 \in 1..Len(given)
  BY <1>2 DEF TakesNext
<1>5. /\ a.text \in Seq(Snippets) /\ (a.form # "word" => a.key \in Names)
      /\ True \in Seq(Snippets)
  BY <1>2, <1>3, ArgumentIs
<1>6. TakesNext(i) => Whole(given[i + 1]) \in Seq(Snippets)
  BY <1>3, <1>4, ArgumentIs
<1>7. ValueAt(i) \in Seq(Snippets)
  BY <1>5, <1>6 DEF ValueAt
<1>8. parsed' \in Nat /\ parsed' <= Len(given)
  BY <1>1, <1>2, <1>4
<1>9. positional' \in Seq(Seq(Snippets)) /\ named' \in [Names -> Seq(Snippets)]
  <2>1. CASE a.form = "word"
    <3>1. \A X : \A p \in Seq(X), x \in X : Append(p, x) \in Seq(X)
      OBVIOUS
    <3>2. positional' = Append(positional, a.text) /\ named' = named
      BY <1>1, <2>1
    <3> QED
      BY <1>2, <1>5, <3>1, <3>2
  <2>2. CASE a.form # "word"
    <3> HIDE DEF a, i
    <3> QED
      BY <1>1, <1>2, <1>5, <1>7, <2>2
  <2> QED
    BY <2>1, <2>2
<1>10. Defining' = Defining
  BY <1>1 DEF Defining
<1> QED
  BY <1>1, <1>8, <1>9, <1>10 DEF TextTypes

-----------------------------------------------------------------------------
(* The arguments are understood *)

\* The words and the names among the arguments that are parsed.
FreeSoFar == {i \in FreeWords : i <= parsed}
NamingsSoFar(n) == {i \in Namings(n) : i <= parsed}
PlaceOf(i) == Cardinality({j \in FreeWords : j <= i})

\* A name has the value that was parsed last, the words their places.
LastNamed(n) ==
  /\ NamingsSoFar(n) = {} => named[n] = <<>>
  /\ \A i \in NamingsSoFar(n) : (\A j \in NamingsSoFar(n) : j <= i) => named[n] = GivenAt(i)

WordsInPlace ==
  /\ Len(positional) = Cardinality(FreeSoFar)
  /\ \A i \in FreeSoFar : positional[PlaceOf(i)] = given[i].text

\* What is parsed is understood, and no flag's value is left to be parsed.
ParsedSoFar ==
  /\ textPc # "parsing" => parsed = Len(given)
  /\ parsed < Len(given) => ~Taken(parsed + 1)
  /\ WordsInPlace
  /\ \A n \in Names : LastNamed(n)

\* At the end the parsed arguments are all that are given.
LEMMA ParsedMeans ==
  ASSUME TextTypes, ParsedSoFar
  PROVE  ParsedAsGiven
<1> SUFFICES ASSUME textPc # "parsing"
             PROVE  /\ Len(positional) = Cardinality(FreeWords)
                    /\ \A i \in FreeWords : positional[PlaceOf(i)] = given[i].text
                    /\ \A n \in Names :
                         /\ Namings(n) = {} => named[n] = <<>>
                         /\ \A i \in Namings(n) :
                              (\A j \in Namings(n) : j <= i) => named[n] = GivenAt(i)
  BY DEF ParsedAsGiven, PlaceOf
<1>1. parsed = Len(given) /\ \A i \in DOMAIN given : i <= parsed
  <2>1. DOMAIN given = 1..Len(given) /\ Len(given) \in Nat
    BY DEF TextTypes
  <2> QED
    BY <2>1 DEF ParsedSoFar
<1>2. FreeSoFar = FreeWords /\ \A n : NamingsSoFar(n) = Namings(n)
  BY <1>1 DEF FreeSoFar, NamingsSoFar, FreeWords, Namings
<1> QED
  BY <1>2 DEF ParsedSoFar, WordsInPlace, LastNamed

\* Before anything is parsed there is nothing to understand.
LEMMA ParsedAtFirst ==
  ASSUME TextInit, TextTypes
  PROVE  ParsedSoFar
<1>1. parsed = 0 /\ textPc = "parsing" /\ positional = <<>> /\ named = [n \in Names |-> <<>>]
  BY DEF TextInit
<1>2. DOMAIN given = 1..Len(given) /\ Len(given) \in Nat
  BY DEF TextTypes
<1>3. FreeSoFar = {} /\ \A n : NamingsSoFar(n) = {}
  BY <1>1, <1>2 DEF FreeSoFar, NamingsSoFar, FreeWords, Namings
<1>4. ~Taken(parsed + 1)
  BY <1>1 DEF Taken
<1>5. WordsInPlace
  BY <1>1, <1>3, FS_EmptySet DEF WordsInPlace
<1>6. \A n \in Names : LastNamed(n)
  BY <1>1, <1>3 DEF LastNamed
<1> QED
  BY <1>1, <1>4, <1>5, <1>6 DEF ParsedSoFar

\* What a parsed argument adds: the flag takes what follows it, and nothing
\* else is skipped.
LEMMA OneParsed ==
  ASSUME TextTypes, ParsedSoFar, ParseArgument
  PROVE  LET i == parsed + 1
         IN /\ i \in DOMAIN given /\ ~Taken(i)
            /\ parsed' < Len(given) => ~Taken(parsed' + 1)
            /\ \A j \in DOMAIN given :
                 (j <= parsed' <=> j <= parsed \/ j = i \/ (j = i + 1 /\ Taken(j) /\ TakesNext(i)))
            /\ given[i].form # "word" => ValueAt(i) = GivenAt(i)
            /\ given' = given /\ textPc' = textPc /\ textPc = "parsing" /\ parsed' \in Nat
<1> DEFINE i == parsed + 1
           N == Len(given)
<1>1. /\ textPc = "parsing" /\ parsed < N
      /\ parsed' = IF TakesNext(i) THEN i + 1 ELSE i
      /\ given' = given /\ textPc' = textPc
  BY Parsing
<1>2. N \in Nat /\ DOMAIN given = 1..N /\ parsed \in Nat /\ i \in 1..N /\ i - 1 = parsed
  BY <1>1 DEF TextTypes
<1>3. ~Taken(i)
  BY <1>1 DEF ParsedSoFar
<1>4. \A j \in 1..N : given[j].form \in {"word", "pair", "flagpair", "flag"}
  <2>1. \A j \in 1..N : given[j] \in Args
    BY DEF TextTypes
  <2> QED
    BY <2>1, ArgumentIs
<1>5. /\ i < N => (Taken(i + 1) <=> TakesNext(i))
      /\ TakesNext(i) => given[i].form = "flag" /\ i < N /\ given[i + 1].form # "flag"
  <2>1. i < N => i + 1 > 1 /\ (i + 1) - 1 = i
    BY <1>2
  <2> QED
    BY <2>1 DEF Taken, TakesNext, Dashed
<1>6. parsed' < N => ~Taken(parsed' + 1)
  <2>1. CASE TakesNext(i)
    <3>1. parsed' = i + 1 /\ given[i + 1].form # "flag" /\ (parsed' + 1) - 1 = i + 1
      BY <1>1, <1>2, <1>5, <2>1
    <3> QED
      BY <3>1 DEF Taken
  <2>2. CASE ~TakesNext(i)
    BY <1>1, <1>5, <2>2
  <2> QED
    BY <2>1, <2>2
<1>7. \A j \in 1..N :
        (j <= parsed' <=> j <= parsed \/ j = i \/ (j = i + 1 /\ Taken(j) /\ TakesNext(i)))
  <2> TAKE j \in 1..N
  <2>1. CASE TakesNext(i)
    <3>1. j <= parsed' <=> j <= parsed \/ j = i \/ j = i + 1
      BY <1>1, <1>2, <2>1
    <3> QED
      BY <1>2, <1>5, <2>1, <3>1
  <2>2. CASE ~TakesNext(i)
    BY <1>1, <1>2, <2>2
  <2> QED
    BY <2>1, <2>2
<1>8. given[i].form # "word" => ValueAt(i) = GivenAt(i)
  <2>1. CASE given[i].form = "flag" /\ TakesNext(i)
    BY <1>5, <2>1 DEF ValueAt, GivenAt
  <2>2. CASE given[i].form = "flag" /\ ~TakesNext(i)
    BY <1>5, <2>2 DEF ValueAt, GivenAt
  <2>3. CASE given[i].form # "flag"
    BY <2>3 DEF ValueAt, GivenAt, TakesNext
  <2> QED
    BY <2>1, <2>2, <2>3
<1>9. parsed' \in Nat
  BY <1>1, <1>2
<1> QED
  BY <1>1, <1>2, <1>3, <1>6, <1>7, <1>8, <1>9

\* The words before a word are counted by their places.
LEMMA PlacesOfWords ==
  ASSUME TextTypes
  PROVE  /\ IsFiniteSet(FreeSoFar) /\ IsFiniteSet(FreeWords)
         /\ \A i \in FreeSoFar : PlaceOf(i) \in 1..Cardinality(FreeSoFar)
<1>1. DOMAIN given = 1..Len(given) /\ Len(given) \in Nat
  BY DEF TextTypes
<1>2. IsFiniteSet(FreeWords) /\ IsFiniteSet(FreeSoFar)
  <2>1. IsFiniteSet(1..Len(given))
    BY <1>1, FS_Interval
  <2>2. FreeWords \subseteq 1..Len(given) /\ FreeSoFar \subseteq 1..Len(given)
    BY <1>1 DEF FreeWords, FreeSoFar
  <2> QED
    BY <2>1, <2>2, FS_Subset
<1>3. ASSUME NEW i \in FreeSoFar
      PROVE  PlaceOf(i) \in 1..Cardinality(FreeSoFar)
  <2> DEFINE B == {j \in FreeWords : j <= i}
  <2>1. i \in 1..Len(given) /\ parsed \in Nat /\ i <= parsed /\ i \in FreeWords
    BY <1>1 DEF FreeSoFar, FreeWords, TextTypes
  <2>2. \A j \in FreeWords : j \in 1..Len(given)
    BY <1>1 DEF FreeWords
  <2>3. B \subseteq FreeSoFar /\ i \in B
    <3>1. \A j \in FreeWords : j <= i => j <= parsed
      BY <1>1, <2>1, <2>2
    <3>2. i <= i
      BY <2>1
    <3> QED
      BY <2>1, <3>1, <3>2 DEF FreeSoFar
  <2>4. IsFiniteSet(B) /\ Cardinality(B) <= Cardinality(FreeSoFar)
    BY <1>2, <2>3, FS_Subset
  <2>5. Cardinality(B) \in Nat /\ Cardinality(B) # 0 /\ Cardinality(FreeSoFar) \in Nat
    BY <1>2, <2>3, <2>4, FS_CardinalityType, FS_EmptySet
  <2> QED
    BY <2>4, <2>5 DEF PlaceOf
<1> QED
  BY <1>2, <1>3

\* A word that is parsed gets the next place; a name gets none.
LEMMA WordsKept ==
  ASSUME TextTypes, ParsedSoFar, ParseArgument
  PROVE  WordsInPlace'
<1> DEFINE i == parsed + 1
<1>1. /\ i \in DOMAIN given /\ ~Taken(i)
      /\ \A j \in DOMAIN given :
           (j <= parsed' <=> j <= parsed \/ j = i \/ (j = i + 1 /\ Taken(j) /\ TakesNext(i)))
      /\ given' = given
  BY OneParsed
<1>2. FreeWords' = FreeWords /\ \A j : PlaceOf(j)' = PlaceOf(j)
  BY <1>1 DEF FreeWords, PlaceOf, Taken, Dashed
<1>3. /\ Len(positional) = Cardinality(FreeSoFar)
      /\ \A j \in FreeSoFar : positional[PlaceOf(j)] = given[j].text
      /\ positional \in Seq(Seq(Snippets)) /\ Len(given) \in Nat /\ DOMAIN given = 1..Len(given)
      /\ parsed \in Nat
  BY DEF ParsedSoFar, WordsInPlace, TextTypes
<1>4. \A j \in FreeWords : j \in DOMAIN given /\ ~Taken(j)
  BY DEF FreeWords
<1>5. CASE given[i].form = "word"
  <2> DEFINE w == given[i].text
  <2>1. positional' = Append(positional, w)
    BY <1>5, Parsing
  <2>2. i \in FreeWords /\ i \notin FreeSoFar
    BY <1>1, <1>3, <1>5 DEF FreeWords, FreeSoFar
  <2>3. FreeSoFar' = FreeSoFar \cup {i}
    <3>1. FreeSoFar' = {j \in FreeWords : j <= parsed'}
      BY <1>2 DEF FreeSoFar
    <3>2. \A j \in FreeWords : j <= parsed' <=> j <= parsed \/ j = i
      BY <1>1, <1>4
    <3> QED
      BY <2>2, <3>1, <3>2 DEF FreeSoFar
  <2>4. IsFiniteSet(FreeSoFar) /\ Cardinality(FreeSoFar) \in Nat
    BY PlacesOfWords, FS_CardinalityType
  <2>5. Cardinality(FreeSoFar') = Cardinality(FreeSoFar) + 1
    BY <2>2, <2>3, <2>4, FS_AddElement
  <2>6. w \in Seq(Snippets)
    <3>1. given[i] \in Args
      BY <1>1 DEF TextTypes
    <3> QED
      BY <3>1, ArgumentIs
  <2>7. PlaceOf(i) = Cardinality(FreeSoFar) + 1
    <3>1. {j \in FreeWords : j <= i} = FreeSoFar'
      <4>1. \A j \in FreeWords : j <= i <=> j <= parsed \/ j = i
        BY <1>3, <1>4
      <4> QED
        BY <2>2, <2>3, <4>1 DEF FreeSoFar
    <3> QED
      BY <2>5, <3>1 DEF PlaceOf
  <2> HIDE DEF w
  <2>8. /\ Len(positional') = Len(positional) + 1
        /\ positional'[Len(positional) + 1] = w
        /\ \A k \in 1..Len(positional) : positional'[k] = positional[k]
    BY <1>3, <2>1, <2>6
  <2>9. \A j \in FreeSoFar' : positional'[PlaceOf(j)] = given[j].text
    <3>1. ASSUME NEW j \in FreeSoFar
          PROVE  positional'[PlaceOf(j)] = given[j].text
      <4>1. PlaceOf(j) \in 1..Len(positional)
        BY <1>3, PlacesOfWords
      <4> QED
        BY <1>3, <2>8, <4>1
    <3>2. positional'[PlaceOf(i)] = given[i].text
      BY <1>3, <2>7, <2>8 DEF w
    <3> QED
      BY <2>3, <3>1, <3>2
  <2> QED
    BY <1>1, <1>2, <1>3, <2>5, <2>8, <2>9 DEF WordsInPlace
<1>6. CASE given[i].form # "word"
  <2>1. positional' = positional
    BY <1>6, Parsing
  <2>2. FreeSoFar' = FreeSoFar
    <3>1. FreeSoFar' = {j \in FreeWords : j <= parsed'}
      BY <1>2 DEF FreeSoFar
    <3>2. i \notin FreeWords
      BY <1>6 DEF FreeWords
    <3>3. \A j \in FreeWords : j <= parsed' <=> j <= parsed
      BY <1>1, <1>4, <3>2
    <3> QED
      BY <3>1, <3>3 DEF FreeSoFar
  <2> QED
    BY <1>1, <1>2, <1>3, <2>1, <2>2 DEF WordsInPlace
<1> QED
  BY <1>5, <1>6

\* A name has the value that was given last.
LEMMA NamesKept ==
  ASSUME TextTypes, ParsedSoFar, ParseArgument, NEW n \in Names
  PROVE  LastNamed(n)'
<1> DEFINE i == parsed + 1
<1>1. /\ i \in DOMAIN given /\ ~Taken(i)
      /\ \A j \in DOMAIN given :
           (j <= parsed' <=> j <= parsed \/ j = i \/ (j = i + 1 /\ Taken(j) /\ TakesNext(i)))
      /\ given[i].form # "word" => ValueAt(i) = GivenAt(i)
      /\ given' = given
  BY OneParsed
<1>2. Namings(n)' = Namings(n) /\ \A j : GivenAt(j)' = GivenAt(j)
  BY <1>1 DEF Namings, GivenAt, Taken, Dashed, Whole
<1>3. /\ NamingsSoFar(n) = {} => named[n] = <<>>
      /\ \A k \in NamingsSoFar(n) : (\A j \in NamingsSoFar(n) : j <= k) => named[n] = GivenAt(k)
      /\ named \in [Names -> Seq(Snippets)] /\ Len(given) \in Nat /\ DOMAIN given = 1..Len(given)
      /\ parsed \in Nat
  BY DEF ParsedSoFar, LastNamed, TextTypes
<1>4. \A j \in Namings(n) : j \in DOMAIN given /\ ~Taken(j)
  BY DEF Namings
<1>5. NamingsSoFar(n)' = {j \in Namings(n) : j <= parsed'}
  BY <1>2 DEF NamingsSoFar
<1>6. CASE given[i].form # "word" /\ given[i].key = n
  <2>1. named'[n] = ValueAt(i)
    BY <1>3, <1>6, Parsing
  <2>2. i \in Namings(n)
    BY <1>1, <1>6 DEF Namings
  <2>3. \A j \in Namings(n) : j <= parsed' <=> j <= parsed \/ j = i
    BY <1>1, <1>4
  <2>4. i \in NamingsSoFar(n)' /\ \A j \in NamingsSoFar(n)' : j <= i
    BY <1>3, <1>4, <1>5, <2>2, <2>3
  <2>5. ASSUME NEW k \in NamingsSoFar(n)', \A j \in NamingsSoFar(n)' : j <= k
        PROVE  k = i
    <3>1. k <= i /\ i <= k
      BY <2>4, <2>5
    <3>2. k \in Nat /\ i \in Nat
      BY <1>1, <1>3, <1>4, <1>5
    <3> QED
      BY <3>1, <3>2
  <2>6. named'[n] = GivenAt(i)
    BY <1>1, <1>6, <2>1
  <2>7. ASSUME NEW k \in NamingsSoFar(n)', \A j \in NamingsSoFar(n)' : j <= k
        PROVE  named'[n] = GivenAt(k)'
    <3>1. named'[n] = GivenAt(k)
      BY <2>5, <2>6, <2>7
    <3> QED
      BY <1>2, <3>1
  <2>8. NamingsSoFar(n)' # {}
    BY <2>4
  <2> QED
    BY <2>7, <2>8 DEF LastNamed
<1>7. CASE ~(given[i].form # "word" /\ given[i].key = n)
  <2>1. named'[n] = named[n]
    <3>1. CASE given[i].form = "word"
      BY <3>1, Parsing
    <3>2. CASE given[i].form # "word" /\ given[i].key # n
      BY <1>3, <3>2, Parsing
    <3> QED
      BY <1>7, <3>1, <3>2
  <2>2. i \notin Namings(n)
    BY <1>7 DEF Namings
  <2>3. \A j \in Namings(n) : j <= parsed' <=> j <= parsed
    BY <1>1, <1>4, <2>2
  <2>4. NamingsSoFar(n)' = NamingsSoFar(n)
    BY <1>5, <2>3 DEF NamingsSoFar
  <2> QED
    BY <1>2, <1>3, <2>1, <2>4 DEF LastNamed
<1> QED
  BY <1>6, <1>7

\* What is parsed stays understood, whatever happens to the text.
LEMMA ParsedSoFarKept ==
  ASSUME TextTypes, ParsedSoFar, [TextNext]_textVars
  PROVE  ParsedSoFar'
<1>1. CASE ParseArgument
  <2>1. WordsInPlace' /\ \A n \in Names : LastNamed(n)'
    BY <1>1, WordsKept, NamesKept
  <2>2. /\ parsed' < Len(given) => ~Taken(parsed' + 1)
        /\ given' = given /\ textPc' = textPc /\ textPc = "parsing"
    BY <1>1, OneParsed
  <2>3. parsed' < Len(given') => ~Taken(parsed + 1)'
    BY <2>2 DEF Taken, Dashed
  <2> QED
    BY <2>1, <2>2, <2>3 DEF ParsedSoFar
<1>2. ASSUME UNCHANGED <<given, parsed, positional, named>>,
             textPc' # "parsing" => parsed = Len(given)
      PROVE  ParsedSoFar'
  <2>1. FreeWords' = FreeWords /\ FreeSoFar' = FreeSoFar
    BY <1>2 DEF FreeSoFar, FreeWords, Taken, Dashed
  <2>2. \A j : PlaceOf(j)' = PlaceOf(j)
    BY <2>1 DEF PlaceOf
  <2>3. WordsInPlace'
    BY <1>2, <2>1, <2>2 DEF ParsedSoFar, WordsInPlace
  <2>4. \A n : NamingsSoFar(n)' = NamingsSoFar(n)
    BY <1>2 DEF NamingsSoFar, Namings, Taken, Dashed
  <2>5. \A j : GivenAt(j)' = GivenAt(j)
    BY <1>2 DEF GivenAt, Taken, Dashed, Whole
  <2>6. \A n \in Names : LastNamed(n)'
    BY <1>2, <2>4, <2>5 DEF ParsedSoFar, LastNamed
  <2>7. parsed' < Len(given') => ~Taken(parsed + 1)'
    BY <1>2 DEF ParsedSoFar, Taken, Dashed
  <2> QED
    BY <1>2, <2>3, <2>6, <2>7 DEF ParsedSoFar
<1>3. CASE ReplacePositional
  BY <1>2, <1>3 DEF ReplacePositional
<1>4. CASE ReplaceName
  BY <1>2, <1>4 DEF ReplaceName, ParsedSoFar
<1>5. CASE ReplaceMustaches
  BY <1>2, <1>5 DEF ReplaceMustaches, ParsedSoFar
<1>6. CASE UNCHANGED textVars
  BY <1>2, <1>6 DEF textVars, ParsedSoFar
<1> QED
  BY <1>1, <1>3, <1>4, <1>5, <1>6 DEF TextNext

-----------------------------------------------------------------------------
(* The text that is rendered *)

\* h does to each piece of x what f does and after it g.
Combines(x, f, g, h) == \A i \in 1..Len(x) : h[x[i]] = Mapped(f[x[i]], g)

\* What becomes of a text twice.
LEMMA MappedTwice ==
  ASSUME NEW x \in Seq(Snippets), NEW f \in Changes, NEW g \in Changes,
         NEW h \in Changes, Combines(x, f, g, h)
  PROVE  Mapped(Mapped(x, f), g) = Mapped(x, h)
<1> DEFINE ss == EachBy(x, f)
           mm == EachBy(x, h)
<1>1. /\ ss \in Seq(Seq(Snippets)) /\ Len(ss) = Len(x)
      /\ \A i \in 1..Len(x) : ss[i] = f[x[i]]
  BY EachIs
<1>2. /\ mm \in Seq(Seq(Snippets)) /\ Len(mm) = Len(x)
      /\ \A i \in 1..Len(x) : mm[i] = h[x[i]]
  BY EachIs
<1>3. \A i \in 1..Len(x) : mm[i] = Mapped(ss[i], g)
  BY <1>1, <1>2, Zenon DEF Combines
<1>4. Mapped(x, f) = Flat(ss) /\ Mapped(x, h) = Flat(mm)
  BY DEF Mapped
<1> HIDE DEF ss, mm
<1>5. Mapped(Flat(ss), g) = Flat(mm)
  <2>1. Become(ss, mm, g)
    BY <1>1, <1>2, <1>3, Zenon DEF Become
  <2>2. ss \in Seq(Seq(Snippets)) /\ mm \in Seq(Seq(Snippets))
    BY <1>1, <1>2
  <2> QED
    BY <2>1, <2>2, MappedFlat
<1> QED
  BY <1>4, <1>5, Zenon

\* Two ways to replace that agree on the pieces of a text.
LEMMA MappedAlike ==
  ASSUME NEW x \in Seq(Snippets), NEW f, NEW g, \A i \in 1..Len(x) : f[x[i]] = g[x[i]]
  PROVE  Mapped(x, f) = Mapped(x, g)
<1>1. EachBy(x, f) = EachBy(x, g)
  BY DEF EachBy
<1> QED
  BY <1>1, Zenon DEF Mapped

\* Plain texts that are joined are plain.
LEMMA PlainFlat ==
  ASSUME NEW ss \in Seq(Seq(Snippets)), \A i \in DOMAIN ss : Plain(ss[i])
  PROVE  Plain(Flat(ss))
<1> DEFINE N == Len(ss)
           js == Joins(ss)
           G == {n \in Nat : n <= N => Plain(js[n])}
<1>1. N \in Nat /\ \A i \in 1..N : Plain(ss[i])
  OBVIOUS
<1>2. 0 \in G
  <2>1. js[0] = <<>>
    BY FlatIs
  <2>2. Plain(<<>>)
    BY DEF Plain
  <2> QED
    BY <2>1, <2>2
<1>3. ASSUME NEW n \in Nat, n < N, n \in G
      PROVE  n + 1 \in G
  <2>1. /\ js[n + 1] = js[n] \o ss[n + 1]
        /\ js[n] \in Seq(Snippets) /\ ss[n + 1] \in Seq(Snippets)
    BY <1>3, JoinsGrow
  <2>2. Plain(js[n]) /\ Plain(ss[n + 1])
    BY <1>1, <1>3
  <2>3. \A x \in Seq(Snippets), y \in Seq(Snippets) :
          Plain(x) /\ Plain(y) => Plain(x \o y)
    BY DEF Plain
  <2>4. Plain(js[n + 1])
    BY <2>1, <2>2, <2>3, Zenon
  <2> QED
    BY <2>4
<1>4. \A n \in 0..N : n \in G
  <2> HIDE DEF G, N
  <2> QED
    BY <1>1, <1>2, <1>3, UpTo
<1>5. N \in 0..N /\ N <= N
  BY <1>1
<1> QED
  BY <1>4, <1>5, Zenon DEF Flat

\* The replacements, as functions of the pieces.
ByWords == [p \in Snippets |-> IF p.p = "all" THEN Flat(positional) ELSE <<p>>]
ByNumber(n) == [p \in Snippets |-> IF p = Pos(n) THEN positional[n] ELSE <<p>>]
ByBraced(n) == [p \in Snippets |-> IF p = Brace(n) THEN Values(n) ELSE <<p>>]
ByDollars(n) == [p \in Snippets |-> ByDollar(p, n)]
ByFallback == [p \in Snippets |-> ByMustache(p)]
ByReading == [p \in Snippets |-> Read(p)]

\* A replacement leaves plain text alone.
Harmless(by) == \A p \in Snippets : p.p = "lit" => by[p] = <<p>>

\* Plain text stays as it is.
LEMMA PlainStays ==
  ASSUME NEW x \in Seq(Snippets), Plain(x), NEW by \in Changes, Harmless(by)
  PROVE  Mapped(x, by) = x
<1>1. \A i \in 1..Len(x) : by[x[i]] = <<x[i]>>
  BY DEF Plain, Harmless
<1> QED
  BY <1>1, MappedSame

\* What each of them makes of a piece is a text.
LEMMA ByPositionIs ==
  ASSUME TextTypes
  PROVE  /\ ByWords \in Changes /\ Harmless(ByWords)
         /\ \A n \in 1..Len(positional) :
              ByNumber(n) \in Changes /\ Harmless(ByNumber(n))
<1>1. positional \in Seq(Seq(Snippets))
  BY DEF TextTypes
<1>2. Flat(positional) \in Seq(Snippets)
  BY <1>1, FlatIs
<1>3. \A p \in Snippets : <<p>> \in Seq(Snippets)
  OBVIOUS
<1>4. \A n \in 1..Len(positional) : positional[n] \in Seq(Snippets)
  BY <1>1
<1> QED
  BY <1>2, <1>3, <1>4 DEF ByWords, ByNumber, Harmless, Pos, Changes

\* So is what a name becomes.
LEMMA ByNameIs ==
  ASSUME TextTypes, NEW n \in Defining
  PROVE  /\ Values(n) \in Seq(Snippets)
         /\ ByBraced(n) \in Changes /\ Harmless(ByBraced(n))
         /\ ByDollars(n) \in Changes /\ Harmless(ByDollars(n))
<1>1. Values(n) \in Seq(Snippets)
  <2>1. Defined(n) # {}
    BY DEF Defined, Defining
  <2> QED
    BY <2>1, ValueIs
<1>2. \A p \in Snippets : <<p>> \in Seq(Snippets)
  OBVIOUS
<1>3. ByBraced(n) \in Changes /\ Harmless(ByBraced(n))
  BY <1>1, <1>2 DEF ByBraced, Harmless, Brace, Changes
<1>4. ASSUME NEW p \in Snippets
      PROVE  ByDollar(p, n) \in Seq(Snippets) /\ (p.p = "lit" => ByDollar(p, n) = <<p>>)
  <2>1. CASE p = Dollar(n)
    <3>1. ByDollar(p, n) = Values(n) /\ p.p # "lit"
      BY <2>1 DEF ByDollar, Dollar
    <3> QED
      BY <1>1, <3>1
  <2>2. CASE p.p = "dollar" /\ p.x # n /\ (\E r \in Rest[p.x] : r[1] = n)
    <3> DEFINE r == CHOOSE s \in Rest[p.x] : s[1] = n
    <3>1. r \in Rest[p.x]
      BY <2>2
    <3>2. p # Dollar(n)
      BY <2>2 DEF Dollar
    <3>3. ByDollar(p, n) = Values(n) \o <<Lit(r[2])>>
      BY <2>2, <3>2 DEF ByDollar
    <3>4. p.x \in Names
      BY <2>2, PiecesAre DEF Naming
    <3> HIDE DEF r
    <3>5. Lit(r[2]) \in Snippets
      BY <3>1, <3>4, TextAssumption DEF TextAssumption
    <3>6. Values(n) \o <<Lit(r[2])>> \in Seq(Snippets)
      BY <1>1, <1>2, <3>5, TextsJoin
    <3> QED
      BY <2>2, <3>3, <3>6
  <2>3. CASE p # Dollar(n) /\ ~(p.p = "dollar" /\ p.x # n /\ (\E r \in Rest[p.x] : r[1] = n))
    <3>1. ByDollar(p, n) = <<p>>
      BY <2>3 DEF ByDollar
    <3> QED
      BY <1>2, <3>1
  <2> QED
    BY <2>1, <2>2, <2>3
<1>5. ByDollars(n) \in Changes /\ Harmless(ByDollars(n))
  BY <1>4 DEF ByDollars, Harmless, Changes
<1> QED
  BY <1>1, <1>3, <1>5

\* So is what a fallback becomes.
LEMMA ByFallbackIs ==
  ASSUME TextTypes
  PROVE  ByFallback \in Changes /\ Harmless(ByFallback)
<1>1. \A p \in Snippets : <<p>> \in Seq(Snippets)
  OBVIOUS
<1>2. ASSUME NEW p \in Snippets
      PROVE  ByMustache(p) \in Seq(Snippets) /\ (p.p = "lit" => ByMustache(p) = <<p>>)
  <2>1. CASE p.p # "mustache"
    BY <1>1, <2>1 DEF ByMustache
  <2>2. CASE p.p = "mustache"
    <3>1. p.fallback \in Seq(Snippets)
      BY <2>2, PiecesAre DEF Naming, FallbackOf
    <3>2. Defined(p.x) # {} => Values(p.x) \in Seq(Snippets)
      BY ValueIs
    <3> QED
      BY <2>2, <3>1, <3>2 DEF ByMustache
  <2> QED
    BY <2>1, <2>2
<1> QED
  BY <1>2 DEF ByFallback, Harmless, Changes

\* The operators of the module are these replacements.
LEMMA ReplacedBy ==
  ASSUME NEW x \in Seq(Snippets)
  PROVE  /\ WithArguments(x) = Mapped(x, ByWords)
         /\ \A n : WithPosition(x, n) = Mapped(x, ByNumber(n))
         /\ \A n : WithBraces(x, n) = Mapped(x, ByBraced(n))
         /\ Replacing(x, ByMustache) = Mapped(x, ByFallback)
         /\ Replacing(x, Read) = Mapped(x, ByReading)
<1>1. DOMAIN x = 1..Len(x) /\ \A i \in DOMAIN x : x[i] \in Snippets
  OBVIOUS
<1>2. WithArguments(x) = Mapped(x, ByWords)
  <2>1. [i \in DOMAIN x |-> IF x[i].p = "all" THEN Flat(positional) ELSE <<x[i]>>] =
          EachBy(x, ByWords)
    BY <1>1 DEF ByWords, EachBy
  <2>2. WithArguments(x) =
          Flat([i \in DOMAIN x |-> IF x[i].p = "all" THEN Flat(positional) ELSE <<x[i]>>])
    BY DEF WithArguments, Replacing
  <2> QED
    BY <2>1, <2>2, Zenon DEF Mapped
<1>3. ASSUME NEW n
      PROVE  WithPosition(x, n) = Mapped(x, ByNumber(n))
  <2>1. [i \in DOMAIN x |-> IF x[i] = Pos(n) THEN positional[n] ELSE <<x[i]>>] =
          EachBy(x, ByNumber(n))
    BY <1>1 DEF ByNumber, EachBy
  <2>2. WithPosition(x, n) =
          Flat([i \in DOMAIN x |-> IF x[i] = Pos(n) THEN positional[n] ELSE <<x[i]>>])
    BY DEF WithPosition, Replacing
  <2> QED
    BY <2>1, <2>2, Zenon DEF Mapped
<1>4. ASSUME NEW n
      PROVE  WithBraces(x, n) = Mapped(x, ByBraced(n))
  <2>1. [i \in DOMAIN x |-> IF x[i] = Brace(n) THEN Values(n) ELSE <<x[i]>>] =
          EachBy(x, ByBraced(n))
    BY <1>1 DEF ByBraced, EachBy
  <2>2. WithBraces(x, n) =
          Flat([i \in DOMAIN x |-> IF x[i] = Brace(n) THEN Values(n) ELSE <<x[i]>>])
    BY DEF WithBraces, Replacing
  <2> QED
    BY <2>1, <2>2, Zenon DEF Mapped
<1>5. Replacing(x, ByMustache) = Mapped(x, ByFallback)
  <2>1. [i \in DOMAIN x |-> ByMustache(x[i])] = EachBy(x, ByFallback)
    BY <1>1 DEF ByFallback, EachBy
  <2> QED
    BY <2>1, Zenon DEF Mapped, Replacing
<1>6. Replacing(x, Read) = Mapped(x, ByReading)
  <2>1. [i \in DOMAIN x |-> Read(x[i])] = EachBy(x, ByReading)
    BY <1>1 DEF ByReading, EachBy
  <2> QED
    BY <2>1, Zenon DEF Mapped, Replacing
<1> QED
  BY <1>2, <1>3, <1>4, <1>5, <1>6

\* A name is replaced twice, with braces and without.
LEMMA NameReplacedBy ==
  ASSUME TextTypes, NEW x \in Seq(Snippets), NEW n \in Defining
  PROVE  /\ WithName(x, n) = Mapped(Mapped(x, ByBraced(n)), ByDollars(n))
         /\ WithName(x, n) \in Seq(Snippets)
<1> DEFINE y == Mapped(x, ByBraced(n))
<1>1. y \in Seq(Snippets) /\ WithBraces(x, n) = y
  BY ByNameIs, MappedFollows, ReplacedBy
<1>2. WithName(x, n) = Flat([i \in DOMAIN WithBraces(x, n) |-> ByDollar(WithBraces(x, n)[i], n)])
  BY DEF WithName, WithBraces, Replacing
<1> HIDE DEF y
<1>3. DOMAIN y = 1..Len(y) /\ \A i \in DOMAIN y : y[i] \in Snippets
  BY <1>1
<1>4. [i \in DOMAIN y |-> ByDollar(y[i], n)] = EachBy(y, ByDollars(n))
  BY <1>3 DEF ByDollars, EachBy
<1>5. WithName(x, n) = Mapped(y, ByDollars(n))
  BY <1>1, <1>2, <1>4, Zenon DEF Mapped
<1>6. Mapped(y, ByDollars(n)) \in Seq(Snippets)
  BY <1>1, ByNameIs, MappedFollows
<1> QED
  BY <1>5, <1>6 DEF y

\* What is replaced after n positions.
ByFirst(n) ==
  [p \in Snippets |-> IF p.p = "all" THEN Flat(positional)
                      ELSE IF p.p = "pos" /\ p.n <= n THEN positional[p.n] ELSE <<p>>]

\* g replaces the positions in x as WithPositions does.
PositionsAre(g, x) ==
  g = [n \in 0..Len(positional) |->
         IF n = 0 THEN WithArguments(x) ELSE WithPosition(g[n - 1], n)]

\* The positions are replaced one after the other.
LEMMA PositionsFollow ==
  ASSUME TextTypes, NEW x \in Seq(Snippets)
  PROVE  LET h == WithPositions(x)
         IN /\ h[0] = WithArguments(x)
            /\ \A n \in 1..Len(positional) : h[n] = WithPosition(h[n - 1], n)
            /\ \A n \in 0..Len(positional) : h[n] \in Seq(Snippets)
<1> DEFINE N == Len(positional)
           X == Seq(Snippets)
           T == [n \in 1..N |-> [y \in X |-> WithPosition(y, n)]]
           a == WithArguments(x)
<1>1. N \in Nat
  BY DEF TextTypes
<1>2. a \in X
  BY ReplacedBy, ByPositionIs, MappedFollows
<1>3. \A n \in 1..N, y \in X : WithPosition(y, n) \in X
  BY ReplacedBy, ByPositionIs, MappedFollows
<1> HIDE DEF X, a
<1>4. \A n \in 1..N, y \in X : T[n][y] = WithPosition(y, n) /\ T[n][y] \in X
  BY <1>3
<1> HIDE DEF T
<1>5. PICK g \in [0..N -> X] : GoesOnBy(g, a, N, T)
  <2>1. StaysIn(X, N, T)
    BY <1>4 DEF StaysIn
  <2> HIDE DEF N
  <2> QED
    BY <1>1, <1>2, <2>1, StepsExist
<1>6. PositionsAre(g, x)
  <2>1. ASSUME NEW n \in 0..N
        PROVE  g[n] = IF n = 0 THEN a ELSE WithPosition(g[n - 1], n)
    <3>1. CASE n = 0
      BY <1>5, <3>1 DEF GoesOnBy
    <3>2. CASE n # 0
      <4>1. n \in 1..N /\ n - 1 \in 0..N
        BY <1>1, <3>2
      <4>2. g[n - 1] \in X
        BY <4>1
      <4>3. g[n] = T[n][g[n - 1]]
        BY <1>5, <4>1 DEF GoesOnBy
      <4> QED
        BY <1>4, <3>2, <4>1, <4>2, <4>3
    <3> QED
      BY <3>1, <3>2
  <2>2. g = [n \in 0..N |-> IF n = 0 THEN a ELSE WithPosition(g[n - 1], n)]
    BY <2>1
  <2> QED
    BY <2>2 DEF PositionsAre, a
<1> DEFINE h == WithPositions(x)
<1>7. PositionsAre(h, x)
  <2>1. h = CHOOSE f : PositionsAre(f, x)
    BY DEF WithPositions, PositionsAre
  <2> QED
    BY <1>6, <2>1
<1>8. \A n \in 0..N : h[n] = IF n = 0 THEN a ELSE WithPosition(h[n - 1], n)
  <2> HIDE DEF h
  <2> QED
    BY <1>7, Zenon DEF PositionsAre, a
<1> HIDE DEF h
<1>9. h[0] = a /\ \A n \in 1..N : h[n] = WithPosition(h[n - 1], n)
  <2>1. 0 \in 0..N /\ \A n \in 1..N : n \in 0..N /\ n # 0
    BY <1>1
  <2> QED
    BY <1>8, <2>1, Zenon
<1> DEFINE G == {n \in Nat : n <= N => h[n] \in X}
<1>10. 0 \in G
  BY <1>2, <1>9
<1>11. ASSUME NEW n \in Nat, n < N, n \in G
       PROVE  n + 1 \in G
  <2>1. n + 1 \in 1..N /\ (n + 1) - 1 = n /\ h[n] \in X
    BY <1>1, <1>11
  <2>2. h[n + 1] = WithPosition(h[n], n + 1)
    BY <1>9, <2>1
  <2>3. h[n + 1] \in X
    BY <1>3, <2>1, <2>2
  <2> QED
    BY <2>3
<1>12. \A n \in 0..N : n \in G
  <2> HIDE DEF G, N
  <2> QED
    BY <1>1, <1>10, <1>11, UpTo
<1>13. \A n \in 0..N : h[n] \in X
  BY <1>12
<1> QED
  BY <1>9, <1>13 DEF a, h, X

\* Plain arguments can be put in one after the other.
LEMMA PositionsReplaced ==
  ASSUME TextTypes, NEW x \in Seq(Snippets), \A i \in DOMAIN positional : Plain(positional[i])
  PROVE  WithPositions(x)[Len(positional)] = Mapped(x, ByFirst(Len(positional)))
<1> DEFINE N == Len(positional)
           h == WithPositions(x)
           G == {n \in Nat : n <= N => h[n] = Mapped(x, ByFirst(n))}
<1>1. N \in Nat /\ DOMAIN positional = 1..N /\ \A n \in 1..N : positional[n] \in Seq(Snippets)
  BY DEF TextTypes
<1>2. /\ h[0] = WithArguments(x)
      /\ \A n \in 1..N : h[n] = WithPosition(h[n - 1], n)
  BY PositionsFollow
<1>3. Flat(positional) \in Seq(Snippets) /\ Plain(Flat(positional))
  BY FlatIs, PlainFlat DEF TextTypes
<1>4. \A p \in Snippets : <<p>> \in Seq(Snippets)
  OBVIOUS
<1>5. \A p \in Snippets : p.p = "pos" => p.n \in Nat \ {0} /\ p = Pos(p.n)
  BY PiecesAre
<1>6. ASSUME NEW n \in 0..N
      PROVE  ByFirst(n) \in Changes
  BY <1>1, <1>3, <1>4, <1>5, <1>6 DEF ByFirst, Changes
<1>7. 0 \in G
  <2>1. ByFirst(0) = ByWords
    BY <1>5 DEF ByFirst, ByWords
  <2>2. h[0] = Mapped(x, ByFirst(0))
    BY <1>2, <2>1, ReplacedBy
  <2> QED
    BY <2>2
<1>8. ASSUME NEW n \in Nat, n < N, n \in G
      PROVE  n + 1 \in G
  <2> DEFINE m == n + 1
  <2>1. m \in 1..N /\ m - 1 = n /\ n \in 0..N /\ m \in 0..N /\ h[n] = Mapped(x, ByFirst(n))
    BY <1>1, <1>8
  <2>2. /\ ByFirst(n) \in Changes
        /\ ByFirst(m) \in Changes
        /\ ByNumber(m) \in Changes /\ Harmless(ByNumber(m))
    BY <1>6, <2>1, ByPositionIs
  <2>3. Mapped(x, ByFirst(n)) \in Seq(Snippets)
    BY <2>2, MappedFollows
  <2>4. h[m] = Mapped(Mapped(x, ByFirst(n)), ByNumber(m))
    BY <1>2, <2>1, <2>3, ReplacedBy
  <2>5. ASSUME NEW p \in Snippets
        PROVE  ByFirst(m)[p] = Mapped(ByFirst(n)[p], ByNumber(m))
    <3>1. CASE p.p = "all"
      <4>1. ByFirst(m)[p] = Flat(positional) /\ ByFirst(n)[p] = Flat(positional)
        BY <3>1 DEF ByFirst
      <4> QED
        BY <1>3, <2>2, <4>1, PlainStays
    <3>2. CASE p.p = "pos" /\ p.n <= n
      <4>1. p.n <= m /\ p.n \in 1..N
        BY <1>1, <1>5, <2>1, <3>2
      <4>2. ByFirst(m)[p] = positional[p.n] /\ ByFirst(n)[p] = positional[p.n]
        BY <3>2, <4>1 DEF ByFirst
      <4>3. Plain(positional[p.n]) /\ positional[p.n] \in Seq(Snippets)
        BY <1>1, <4>1
      <4> QED
        BY <2>2, <4>2, <4>3, PlainStays
    <3>3. CASE p = Pos(m)
      <4>1. p.p = "pos" /\ p.n = m /\ ~(p.n <= n) /\ p.n <= m
        BY <2>1, <3>3 DEF Pos
      <4>2. ByFirst(m)[p] = positional[m] /\ ByFirst(n)[p] = <<p>>
        BY <4>1 DEF ByFirst
      <4>3. ByNumber(m)[p] = positional[m]
        BY <3>3 DEF ByNumber
      <4> QED
        BY <2>2, <4>2, <4>3, MappedPiece
    <3>4. CASE p.p # "all" /\ ~(p.p = "pos" /\ p.n <= n) /\ p # Pos(m)
      <4>1. ~(p.p = "pos" /\ p.n <= m)
        BY <1>5, <2>1, <3>4
      <4>2. ByFirst(m)[p] = <<p>> /\ ByFirst(n)[p] = <<p>>
        BY <3>4, <4>1 DEF ByFirst
      <4>3. ByNumber(m)[p] = <<p>>
        BY <3>4 DEF ByNumber
      <4> QED
        BY <2>2, <4>2, <4>3, MappedPiece
    <3> QED
      BY <3>1, <3>2, <3>3, <3>4
  <2>6. Mapped(Mapped(x, ByFirst(n)), ByNumber(m)) = Mapped(x, ByFirst(m))
    <3> HIDE DEF m
    <3>1. Combines(x, ByFirst(n), ByNumber(m), ByFirst(m))
      BY <2>5 DEF Combines
    <3> QED
      BY <2>2, <3>1, MappedTwice
  <2>7. h[m] = Mapped(x, ByFirst(m))
    BY <2>4, <2>6, Zenon
  <2> QED
    BY <2>7
<1>9. \A n \in 0..N : n \in G
  <2> HIDE DEF G, N
  <2> QED
    BY <1>1, <1>7, <1>8, UpTo
<1>10. N \in 0..N /\ N <= N
  BY <1>1
<1> QED
  BY <1>9, <1>10, Zenon

\* The text so far: what is still to be replaced is as the template has it.
BySoFar ==
  [p \in Snippets |->
     IF p.p = "all" THEN Flat(positional)
     ELSE IF p.p = "pos" /\ p.n <= Len(positional) THEN positional[p.n]
     ELSE IF p.p \in {"dollar", "brace"} /\ p.x \in Defining \ todo THEN Values(p.x)
     ELSE <<p>>]

\* The text is the template with what is replaced so far.
RenderedSoFar ==
  /\ textPc = "parsing" => rendered = template
  /\ textPc = "naming" /\ PlainArguments /\ NamesApart => rendered = Mapped(template, BySoFar)
  /\ RenderedAsRead

\* Names that have a definition, and their values.
LEMMA DefinedIs ==
  ASSUME TextTypes, NEW n
  PROVE  /\ Defined(n) # {} <=> n \in Defining
         /\ n \in Defining => Values(n) \in Seq(Snippets) /\ (PlainArguments => Plain(Values(n)))
<1>1. Defined(n) # {} <=> n \in Defining
  BY DEF Defined, Defining
<1>2. ASSUME n \in Defining
      PROVE  Values(n) \in Seq(Snippets) /\ (PlainArguments => Plain(Values(n)))
  <2>1. PICK i \in DOMAIN order : Values(n) = Value(i)
    BY <1>1, <1>2, ValueIs
  <2>2. Value(i) \in Seq(Snippets)
    BY ValueIs
  <2>3. PlainArguments => Plain(Value(i))
    BY DEF PlainArguments
  <2> QED
    BY <2>1, <2>2, <2>3
<1> QED
  BY <1>1, <1>2

\* What is replaced so far, and what is read, are texts.
LEMMA BySoFarIs ==
  ASSUME TextTypes
  PROVE  BySoFar \in Changes /\ ByReading \in Changes
<1>1. /\ \A n \in 1..Len(positional) : positional[n] \in Seq(Snippets)
      /\ Flat(positional) \in Seq(Snippets) /\ Len(positional) \in Nat
  BY FlatIs DEF TextTypes
<1>2. \A p \in Snippets : <<p>> \in Seq(Snippets)
  OBVIOUS
<1>3. \A p \in Snippets : p.p = "pos" /\ p.n <= Len(positional) => positional[p.n] \in Seq(Snippets)
  BY <1>1, PiecesAre
<1>4. \A n \in Defining : Values(n) \in Seq(Snippets)
  BY DefinedIs
<1>5. BySoFar \in Changes
  BY <1>1, <1>2, <1>3, <1>4 DEF BySoFar, Changes
<1>6. \A p \in Snippets : ByMustache(p) \in Seq(Snippets)
  BY ByFallbackIs DEF ByFallback, Changes
<1>7. \A p \in Snippets : Defined(p.x) # {} => Values(p.x) \in Seq(Snippets)
  BY <1>4, DefinedIs
<1>8. \A p \in Snippets : Read(p) \in Seq(Snippets)
  BY <1>1, <1>2, <1>3, <1>6, <1>7 DEF Read
<1> QED
  BY <1>5, <1>8 DEF ByReading, Changes

\* After the positions the names remain.
LEMMA PositionsKept ==
  ASSUME TextTypes, RenderedSoFar, ReplacePositional
  PROVE  RenderedSoFar' /\ rendered' \in Seq(Snippets)
<1> DEFINE N == Len(positional)
<1>1. /\ textPc = "parsing" /\ textPc' \in {"missing", "naming"} /\ rendered = template
      /\ UNCHANGED <<template, order, given, parsed, positional, named>>
  BY DEF ReplacePositional, RenderedSoFar
<1>2. rendered \in Seq(Snippets) /\ N \in Nat
  BY DEF TextTypes
<1>3. N \in 0..N
  BY <1>2
<1>4. WithPositions(rendered)[N] \in Seq(Snippets)
  BY <1>2, <1>3, PositionsFollow
<1>5. rendered' \in Seq(Snippets)
  BY <1>2, <1>4 DEF ReplacePositional
<1>6. ASSUME textPc' = "naming", PlainArguments'
      PROVE  rendered' = Mapped(template, BySoFar)'
  <2>1. rendered' = WithPositions(rendered)[N] /\ todo' = Defining
    BY <1>6 DEF ReplacePositional, Defining
  <2>2. \A i \in DOMAIN positional : Plain(positional[i])
    BY <1>1, <1>6 DEF PlainArguments
  <2>3. rendered' = Mapped(template, ByFirst(N))
    BY <1>1, <1>2, <2>1, <2>2, PositionsReplaced
  <2>4. BySoFar' = ByFirst(N)
    <3>1. Defining' \ todo' = {}
      BY <1>1, <2>1 DEF Defining
    <3> QED
      BY <1>1, <3>1 DEF BySoFar, ByFirst
  <2>5. Mapped(template, BySoFar)' = Mapped(template, ByFirst(N))
    BY <1>1, <2>4 DEF Mapped, EachBy, Flat
  <2> QED
    BY <2>3, <2>5
<1>7. RenderedAsRead'
  BY <1>1 DEF RenderedAsRead
<1> QED
  BY <1>1, <1>5, <1>6, <1>7 DEF RenderedSoFar

\* A piece whose replacement holds no placeholder is replaced once; another one
\* is as in the template.
LEMMA PlainOrThere ==
  ASSUME TextTypes, PlainArguments, NEW p \in Snippets
  PROVE  Plain(BySoFar[p]) \/ BySoFar[p] = <<p>>
<1>1. Plain(Flat(positional))
  BY PlainFlat DEF TextTypes, PlainArguments
<1>2. p.p = "pos" /\ p.n <= Len(positional) => Plain(positional[p.n])
  <2>1. p.p = "pos" => p.n \in Nat \ {0}
    BY PiecesAre
  <2>2. DOMAIN positional = 1..Len(positional) /\ Len(positional) \in Nat
    BY DEF TextTypes
  <2> QED
    BY <2>1, <2>2 DEF PlainArguments
<1>3. p.x \in Defining => Plain(Values(p.x))
  BY DefinedIs
<1> QED
  BY <1>1, <1>2, <1>3 DEF BySoFar

\* A further replacement leaves plain text alone and replaces what is still there.
LEMMA OnceMore ==
  ASSUME NEW p \in Snippets, NEW x \in Seq(Snippets), NEW by \in Changes, Harmless(by),
         Plain(x) \/ x = <<p>>
  PROVE  Mapped(x, by) = x \/ (x = <<p>> /\ Mapped(x, by) = by[p])
<1>1. CASE Plain(x)
  BY <1>1, PlainStays
<1>2. CASE x = <<p>>
  BY <1>2, MappedPiece
<1> QED
  BY <1>1, <1>2

\* The text between ${n} and $n.
BracedSoFar(n) ==
  [p \in Snippets |-> IF p.p = "brace" /\ p.x = n THEN Values(n) ELSE BySoFar[p]]

\* Names are replaced one after the other, in any order.
LEMMA NameReplaced ==
  ASSUME TextTypes, PlainArguments, NamesApart, NEW n \in todo,
         NEW by \in Changes,
         \A p \in Snippets : by[p] = IF p.p \in {"dollar", "brace"} /\ p.x = n
                                     THEN Values(n) ELSE BySoFar[p]
  PROVE  WithName(Mapped(template, BySoFar), n) = Mapped(template, by)
<1> DEFINE b == BracedSoFar(n)
<1>1. /\ template \in Seq(Snippets) /\ n \in Defining
      /\ \A i \in 1..Len(template) : template[i] \in Snippets
  BY DEF TextTypes
<1>2. /\ BySoFar \in Changes /\ ByBraced(n) \in Changes /\ ByDollars(n) \in Changes
      /\ Harmless(ByBraced(n)) /\ Harmless(ByDollars(n))
      /\ Values(n) \in Seq(Snippets) /\ Plain(Values(n))
  BY <1>1, BySoFarIs, ByNameIs, DefinedIs
<1>3. \A p \in Snippets : BySoFar[p] \in Seq(Snippets)
  BY <1>2 DEF Changes
<1>4. b \in Changes
  BY <1>2, <1>3 DEF BracedSoFar, Changes
<1>5. ASSUME NEW p \in Snippets
      PROVE  b[p] = Mapped(BySoFar[p], ByBraced(n))
  <2>1. CASE p.p = "brace" /\ p.x = n
    <3>1. BySoFar[p] = <<p>> /\ b[p] = Values(n)
      BY <2>1 DEF BySoFar, BracedSoFar
    <3>2. ByBraced(n)[p] = Values(n)
      BY <2>1, PiecesAre DEF ByBraced
    <3> QED
      BY <1>2, <3>1, <3>2, MappedPiece
  <2>2. CASE ~(p.p = "brace" /\ p.x = n)
    <3>1. b[p] = BySoFar[p]
      BY <2>2 DEF BracedSoFar
    <3>2. ByBraced(n)[p] = <<p>>
      BY <2>2 DEF ByBraced, Brace
    <3>3. Plain(BySoFar[p]) \/ BySoFar[p] = <<p>>
      BY PlainOrThere
    <3>4. Mapped(BySoFar[p], ByBraced(n)) = BySoFar[p] \/
            (BySoFar[p] = <<p>> /\ Mapped(BySoFar[p], ByBraced(n)) = ByBraced(n)[p])
      BY <1>2, <1>3, <3>3, OnceMore
    <3> QED
      BY <3>1, <3>2, <3>4
  <2> QED
    BY <2>1, <2>2
<1>6. ASSUME NEW i \in 1..Len(template)
      PROVE  by[template[i]] = Mapped(b[template[i]], ByDollars(n))
  <2> DEFINE p == template[i]
  <2>1. p \in Snippets
    BY <1>1
  <2>2. p.p = "dollar" => \A r \in Rest[p.x] : r[1] # n
    <3>1. DOMAIN template = 1..Len(template)
      BY <1>1
    <3>2. p.p = "dollar" => \A r \in Rest[p.x] : Defined(r[1]) = {}
      BY <3>1 DEF NamesApart
    <3>3. Defined(n) # {}
      BY <1>1, DefinedIs
    <3> QED
      BY <3>2, <3>3
  <2> HIDE DEF p
  <2>3. CASE p.p = "brace" /\ p.x = n
    <3>1. b[p] = Values(n) /\ by[p] = Values(n)
      BY <2>1, <2>3 DEF BracedSoFar
    <3> QED
      BY <1>2, <3>1, PlainStays DEF p
  <2>4. CASE p.p = "dollar" /\ p.x = n
    <3>1. BySoFar[p] = <<p>>
      BY <2>1, <2>4 DEF BySoFar
    <3>2. b[p] = <<p>> /\ by[p] = Values(n)
      BY <2>1, <2>4, <3>1 DEF BracedSoFar
    <3>3. p = Dollar(n)
      BY <2>1, <2>4, PiecesAre
    <3>4. ByDollars(n)[p] = Values(n)
      <4>1. ByDollar(p, n) = Values(n)
        BY <2>4, <3>3 DEF ByDollar
      <4> QED
        BY <2>1, <4>1 DEF ByDollars
    <3>5. Mapped(<<p>>, ByDollars(n)) = ByDollars(n)[p]
      BY <1>2, <2>1, MappedPiece
    <3> QED
      BY <3>2, <3>4, <3>5 DEF p
  <2>5. CASE ~(p.p \in {"dollar", "brace"} /\ p.x = n)
    <3>1. b[p] = BySoFar[p] /\ by[p] = BySoFar[p]
      BY <2>1, <2>5 DEF BracedSoFar
    <3>2. ByDollars(n)[p] = <<p>>
      <4>1. p # Dollar(n)
        BY <2>5 DEF Dollar
      <4> QED
        BY <2>1, <2>2, <4>1 DEF ByDollars, ByDollar
    <3>3. Plain(BySoFar[p]) \/ BySoFar[p] = <<p>>
      BY <2>1, PlainOrThere
    <3>4. Mapped(BySoFar[p], ByDollars(n)) = BySoFar[p] \/
            (BySoFar[p] = <<p>> /\ Mapped(BySoFar[p], ByDollars(n)) = ByDollars(n)[p])
      BY <1>2, <1>3, <2>1, <3>3, OnceMore
    <3> QED
      BY <3>1, <3>2, <3>4 DEF p
  <2> QED
    BY <2>3, <2>4, <2>5
<1>7. Combines(template, BySoFar, ByBraced(n), b)
  BY <1>1, <1>5 DEF Combines
<1>8. Combines(template, b, ByDollars(n), by)
  BY <1>6 DEF Combines
<1> HIDE DEF b
<1>9. Mapped(Mapped(template, BySoFar), ByBraced(n)) = Mapped(template, b)
  BY <1>1, <1>2, <1>4, <1>7, MappedTwice
<1>10. Mapped(Mapped(template, b), ByDollars(n)) = Mapped(template, by)
  BY <1>1, <1>2, <1>4, <1>8, MappedTwice
<1>11. Mapped(template, BySoFar) \in Seq(Snippets)
  BY <1>1, <1>2, MappedFollows
<1>12. WithName(Mapped(template, BySoFar), n) =
         Mapped(Mapped(Mapped(template, BySoFar), ByBraced(n)), ByDollars(n))
  BY <1>1, <1>11, NameReplacedBy
<1> QED
  BY <1>9, <1>10, <1>12

\* So a name keeps the text as it is to be read.
LEMMA NamesRendered ==
  ASSUME TextTypes, RenderedSoFar, ReplaceName
  PROVE  RenderedSoFar' /\ rendered' \in Seq(Snippets)
<1>1. PICK n \in todo : todo' = todo \ {n} /\ rendered' = WithName(rendered, n)
  BY DEF ReplaceName
<1>2. /\ textPc = "naming" /\ textPc' = "naming"
      /\ UNCHANGED <<template, order, given, parsed, positional, named>>
  BY DEF ReplaceName
<1>3. n \in Defining /\ rendered \in Seq(Snippets)
  BY DEF TextTypes
<1>4. rendered' \in Seq(Snippets)
  BY <1>1, <1>3, NameReplacedBy
<1>5. /\ Defining' = Defining /\ Flat(positional)' = Flat(positional)
      /\ \A m : Values(m)' = Values(m)
  BY <1>2 DEF Defining, Flat, Joins, Values, Value, Defined
<1>6. \A p \in Snippets : BySoFar'[p] = IF p.p \in {"dollar", "brace"} /\ p.x = n
                                        THEN Values(n) ELSE BySoFar[p]
  BY <1>1, <1>2, <1>3, <1>5 DEF BySoFar
<1>7. BySoFar' \in Changes
  <2>1. BySoFar' = [p \in Snippets |-> BySoFar'[p]]
    BY DEF BySoFar
  <2>2. BySoFar \in Changes /\ Values(n) \in Seq(Snippets)
    BY <1>3, BySoFarIs, ByNameIs
  <2>3. \A p \in Snippets : BySoFar'[p] \in Seq(Snippets)
    BY <1>6, <2>2 DEF Changes
  <2> QED
    BY <2>1, <2>3 DEF Changes
<1>8. ASSUME PlainArguments', NamesApart'
      PROVE  rendered' = Mapped(template, BySoFar)'
  <2>1. PlainArguments /\ NamesApart
    BY <1>2, <1>8 DEF PlainArguments, NamesApart, Plain, Value, Defined
  <2>2. rendered = Mapped(template, BySoFar)
    BY <1>2, <2>1 DEF RenderedSoFar
  <2>3. WithName(Mapped(template, BySoFar), n) = Mapped(template, BySoFar')
    BY <1>6, <1>7, <2>1, NameReplaced
  <2>4. Mapped(template, BySoFar)' = Mapped(template, BySoFar')
    BY <1>2 DEF Mapped, EachBy, Flat, Joins
  <2> QED
    BY <1>1, <2>2, <2>3, <2>4
<1> QED
  BY <1>2, <1>4, <1>8 DEF RenderedSoFar, RenderedAsRead

\* With no name left, the fallbacks complete the text.
LEMMA FallbacksComplete ==
  ASSUME TextTypes, PlainArguments, todo = {}
  PROVE  Mapped(Mapped(template, BySoFar), ByFallback) = Mapped(template, ByReading)
<1>1. template \in Seq(Snippets) /\ \A i \in 1..Len(template) : template[i] \in Snippets
  BY DEF TextTypes
<1>2. /\ BySoFar \in Changes /\ ByReading \in Changes
      /\ ByFallback \in Changes /\ Harmless(ByFallback)
  BY BySoFarIs, ByFallbackIs
<1>3. \A p \in Snippets : BySoFar[p] \in Seq(Snippets)
  BY <1>2 DEF Changes
<1>4. ASSUME NEW p \in Snippets
      PROVE  ByReading[p] = Mapped(BySoFar[p], ByFallback)
  <2>1. ByReading[p] = Read(p) /\ ByFallback[p] = ByMustache(p)
    BY DEF ByReading, ByFallback
  <2>2. CASE p.p = "mustache"
    <3>1. BySoFar[p] = <<p>>
      BY <2>2 DEF BySoFar
    <3>2. Read(p) = ByMustache(p)
      BY <2>2 DEF Read
    <3>3. Mapped(<<p>>, ByFallback) = ByFallback[p]
      BY <1>2, MappedPiece
    <3> QED
      BY <2>1, <3>1, <3>2, <3>3
  <2>3. CASE p.p # "mustache"
    <3>1. Read(p) = BySoFar[p]
      <4>1. Defined(p.x) # {} <=> p.x \in Defining
        BY DefinedIs
      <4>2. CASE p.p = "all"
        BY <4>2 DEF Read, BySoFar
      <4>3. CASE p.p = "pos"
        BY <4>3 DEF Read, BySoFar
      <4>4. CASE p.p \in {"dollar", "brace"}
        BY <4>1, <4>4 DEF Read, BySoFar
      <4>5. CASE p.p \notin {"all", "pos", "dollar", "brace"}
        BY <2>3, <4>5 DEF Read, BySoFar
      <4> QED
        BY <4>2, <4>3, <4>4, <4>5
    <3>2. ByFallback[p] = <<p>>
      BY <2>1, <2>3 DEF ByMustache
    <3>3. Plain(BySoFar[p]) \/ BySoFar[p] = <<p>>
      BY PlainOrThere
    <3>4. Mapped(BySoFar[p], ByFallback) = BySoFar[p] \/
            (BySoFar[p] = <<p>> /\ Mapped(BySoFar[p], ByFallback) = ByFallback[p])
      BY <1>2, <1>3, <3>3, OnceMore
    <3> QED
      BY <2>1, <3>1, <3>2, <3>4
  <2> QED
    BY <2>2, <2>3
<1>5. Combines(template, BySoFar, ByFallback, ByReading)
  BY <1>1, <1>4 DEF Combines
<1> QED
  BY <1>1, <1>2, <1>5, MappedTwice

\* So the rendered text is the template as it is read.
LEMMA FallbacksRendered ==
  ASSUME TextTypes, RenderedSoFar, ReplaceMustaches
  PROVE  RenderedSoFar' /\ rendered' \in Seq(Snippets)
<1>1. /\ textPc = "naming" /\ todo = {} /\ textPc' = "rendered"
      /\ rendered' = OrWords(Replacing(rendered, ByMustache))
      /\ UNCHANGED <<template, order, given, parsed, positional, named, todo>>
  BY DEF ReplaceMustaches
<1>2. rendered \in Seq(Snippets) /\ template \in Seq(Snippets) /\ positional \in Seq(Seq(Snippets))
  BY DEF TextTypes
<1>3. Replacing(rendered, ByMustache) = Mapped(rendered, ByFallback)
  BY <1>2, ReplacedBy
<1>4. Mapped(rendered, ByFallback) \in Seq(Snippets) /\ Flat(positional) \in Seq(Snippets)
  BY <1>2, ByFallbackIs, MappedFollows, FlatIs
<1>5. rendered' \in Seq(Snippets)
  BY <1>1, <1>3, <1>4 DEF OrWords
<1>6. OrWords(Replacing(template, Read))' = OrWords(Replacing(template, Read))
  <2>1. /\ Flat(positional)' = Flat(positional) /\ \A m : Values(m)' = Values(m)
        /\ \A m : Defined(m)' = Defined(m)
    BY <1>1 DEF Flat, Joins, Values, Value, Defined
  <2>2. \A p : Read(p)' = Read(p)
    BY <1>1, <2>1 DEF Read, ByMustache
  <2>3. [i \in DOMAIN template |-> Read(template[i])]' = [i \in DOMAIN template |-> Read(template[i])]
    BY <1>1, <2>2
  <2>4. Replacing(template, Read)' = Replacing(template, Read)
    <3> DEFINE each == [i \in DOMAIN template |-> Read(template[i])]
    <3>1. Replacing(template, Read) = Flat(each)
      BY DEF Replacing
    <3>2. Replacing(template, Read)' = Flat([i \in DOMAIN template' |-> Read(template[i])'])
      BY DEF Replacing
    <3>3. [i \in DOMAIN template' |-> Read(template[i])'] = each
      BY <1>1, <2>2
    <3> QED
      BY <3>1, <3>2, <3>3, Zenon
  <2> QED
    BY <2>1, <2>4 DEF OrWords
<1>7. ASSUME PlainArguments', NamesApart'
      PROVE  rendered' = OrWords(Replacing(template, Read))'
  <2>1. PlainArguments /\ NamesApart
    BY <1>1, <1>7 DEF PlainArguments, NamesApart, Plain, Value, Defined
  <2>2. rendered = Mapped(template, BySoFar)
    BY <1>1, <2>1 DEF RenderedSoFar
  <2>3. Mapped(rendered, ByFallback) = Mapped(template, ByReading)
    BY <1>1, <2>1, <2>2, FallbacksComplete
  <2>4. Replacing(template, Read) = Mapped(template, ByReading)
    BY <1>2, ReplacedBy
  <2>5. rendered' = OrWords(Replacing(template, Read))
    BY <1>1, <1>3, <2>3, <2>4, Zenon
  <2> QED
    BY <1>6, <2>5, Zenon
<1>8. RenderedAsRead'
  BY <1>7 DEF RenderedAsRead
<1> QED
  BY <1>1, <1>5, <1>8 DEF RenderedSoFar

\* What holds throughout.
TextInv == TextTypes /\ ParsedSoFar /\ RenderedSoFar

\* The text of a command is rendered as it is read, and its arguments are parsed
\* as they are given: parseCommandArguments and renderCommandTemplate do to any
\* template and any arguments what is read in them.
THEOREM CommandAlwaysRead == TextSpec => []CommandRead
<1>1. TextInit => TextInv
  <2> SUFFICES ASSUME TextInit
               PROVE  TextInv
    OBVIOUS
  <2>1. TextTypes
    BY TypesAtFirst
  <2>2. ParsedSoFar
    BY <2>1, ParsedAtFirst
  <2>3. RenderedSoFar
    BY DEF TextInit, RenderedSoFar, RenderedAsRead
  <2> QED
    BY <2>1, <2>2, <2>3 DEF TextInv
<1>2. TextInv /\ [TextNext]_textVars => TextInv'
  <2> SUFFICES ASSUME TextInv, [TextNext]_textVars
               PROVE  TextInv'
    OBVIOUS
  <2>1. TextTypes /\ ParsedSoFar /\ RenderedSoFar
    BY DEF TextInv
  <2>2. ParsedSoFar'
    BY <2>1, ParsedSoFarKept
  <2>3. CASE ParseArgument
    <3>1. TextTypes'
      BY <2>1, <2>3, ParsingTypes
    <3>2. /\ textPc = "parsing" /\ textPc' = "parsing"
          /\ rendered' = rendered /\ template' = template
      BY <2>3 DEF ParseArgument
    <3>3. RenderedSoFar'
      BY <2>1, <3>2 DEF RenderedSoFar, RenderedAsRead
    <3> QED
      BY <2>2, <3>1, <3>3 DEF TextInv
  <2>4. CASE ReplacePositional
    <3>1. RenderedSoFar' /\ rendered' \in Seq(Snippets)
      BY <2>1, <2>4, PositionsKept
    <3>2. TextTypes'
      BY <2>1, <2>4, <3>1 DEF TextTypes, ReplacePositional, Defining
    <3> QED
      BY <2>2, <3>1, <3>2 DEF TextInv
  <2>5. CASE ReplaceName
    <3>1. RenderedSoFar' /\ rendered' \in Seq(Snippets)
      BY <2>1, <2>5, NamesRendered
    <3>2. TextTypes'
      BY <2>1, <2>5, <3>1 DEF TextTypes, ReplaceName, Defining
    <3> QED
      BY <2>2, <3>1, <3>2 DEF TextInv
  <2>6. CASE ReplaceMustaches
    <3>1. RenderedSoFar' /\ rendered' \in Seq(Snippets)
      BY <2>1, <2>6, FallbacksRendered
    <3>2. TextTypes'
      BY <2>1, <2>6, <3>1 DEF TextTypes, ReplaceMustaches, Defining
    <3> QED
      BY <2>2, <3>1, <3>2 DEF TextInv
  <2>7. CASE UNCHANGED textVars
    <3>1. TextTypes'
      BY <2>1, <2>7 DEF TextTypes, Defining, textVars
    <3>2. Mapped(template, BySoFar)' = Mapped(template, BySoFar)
      BY <2>7 DEF textVars, Mapped, EachBy, BySoFar, Flat, Joins, Defining, Values, Value, Defined
    <3>3. OrWords(Replacing(template, Read))' = OrWords(Replacing(template, Read))
      BY <2>7 DEF textVars, OrWords, Replacing, Read, ByMustache, Values, Value, Defined,
                  Flat, Joins
    <3>4. PlainArguments' = PlainArguments /\ NamesApart' = NamesApart
      BY <2>7 DEF textVars, PlainArguments, NamesApart, Plain, Value, Defined
    <3>5. RenderedSoFar'
      BY <2>1, <2>7, <3>2, <3>3, <3>4 DEF RenderedSoFar, RenderedAsRead, textVars
    <3> QED
      BY <2>2, <3>1, <3>5 DEF TextInv
  <2> QED
    BY <2>3, <2>4, <2>5, <2>6, <2>7 DEF TextNext
<1>3. TextInv => CommandRead
  BY ParsedMeans DEF TextInv, RenderedSoFar, CommandRead
<1> QED
  BY <1>1, <1>2, <1>3, PTL DEF TextSpec

-----------------------------------------------------------------------------
(* The lines of a patch and what reads them *)

\* What a line can be.
AllLines ==
  [kind : {"header", "envelope", "search", "split", "replace", "text", "plus"},
   mode : {"", "update", "add", "delete"},
   word : PatchPaths \cup {NoPath, ""} \cup Words]

Texts == Seq(AllLines)

\* A blank line is one of them.
LEMMA BlankIs == Blank \in AllLines
  BY DEF Blank, Text, Line, AllLines

\* So are the others the writer writes.
LEMMA LinesAre ==
  /\ Blank.kind = "text" /\ Blank.word = ""
  /\ \A w \in Words \cup {""} :
       /\ Text(w) \in AllLines /\ Text(w).kind = "text"
       /\ Plus(w) \in AllLines /\ Plus(w).kind = "plus"
  /\ Mark("envelope") \in AllLines /\ Mark("envelope").kind = "envelope"
  /\ Mark("search") \in AllLines /\ Mark("search").kind = "search"
<1>1. Blank.kind = "text" /\ Blank.word = ""
  BY DEF Blank, Text, Line
<1>2. ASSUME NEW w \in Words \cup {""}
      PROVE  Text(w) \in AllLines /\ Text(w).kind = "text"
  BY DEF Text, Line, AllLines
<1>3. ASSUME NEW w \in Words \cup {""}
      PROVE  Plus(w) \in AllLines /\ Plus(w).kind = "plus"
  BY DEF Plus, Line, AllLines
<1>4. Mark("envelope") \in AllLines /\ Mark("envelope").kind = "envelope"
  BY DEF Mark, Line, AllLines
<1>5. Mark("search") \in AllLines /\ Mark("search").kind = "search"
  BY DEF Mark, Line, AllLines
<1> QED
  BY <1>1, <1>2, <1>3, <1>4, <1>5

\* The first n lines of a text.
Front(s, n) == SubSeq(s, 1, n)

\* A beginning of a text, and one line more.
LEMMA FrontGrows ==
  ASSUME NEW s \in Texts, NEW n \in Nat, n < Len(s)
  PROVE  /\ Front(s, n) \in Texts /\ s[n + 1] \in AllLines
         /\ Front(s, n + 1) = Append(Front(s, n), s[n + 1])
<1>1. n + 1 \in 1..Len(s)
  OBVIOUS
<1> QED
  BY <1>1 DEF Front, Texts

\* The whole of a text, and nothing of it.
LEMMA FrontIs ==
  ASSUME NEW s \in Texts
  PROVE  Front(s, Len(s)) = s /\ Front(s, 0) = <<>> /\ Len(s) \in Nat
BY DEF Front, Texts

\* Any beginning of a text is one.
LEMMA FrontAt ==
  ASSUME NEW s \in Texts, NEW n \in 0..Len(s)
  PROVE  /\ Front(s, n) \in Texts /\ Len(Front(s, n)) = n
         /\ \A i \in 1..n : Front(s, n)[i] = s[i]
BY DEF Front, Texts

\* Some lines of a text.
LEMMA Within ==
  ASSUME NEW s \in Texts, NEW k \in Nat, NEW n \in Nat, k <= n, n <= Len(s)
  PROVE  /\ SubSeq(s, k + 1, n) \in Texts /\ Len(SubSeq(s, k + 1, n)) = n - k
         /\ \A i \in 1..n - k : SubSeq(s, k + 1, n)[i] = s[k + i]
BY DEF Texts

\* Two texts behind each other.
Then(s, t) == s \o t

\* A line behind both is one behind the second.
LEMMA ThenGrows ==
  ASSUME NEW s \in Texts, NEW t \in Texts, NEW l \in AllLines
  PROVE  Then(s, Append(t, l)) = Append(Then(s, t), l)
BY DEF Then, Texts

\* The length of both, and their lines.
LEMMA ThenIs ==
  ASSUME NEW s \in Texts, NEW t \in Texts
  PROVE  /\ Then(s, t) \in Texts /\ Then(s, <<>>) = s
         /\ Len(Then(s, t)) = Len(s) + Len(t)
         /\ \A i \in 1..Len(s) : Then(s, t)[i] = s[i]
         /\ \A i \in 1..Len(t) : Then(s, t)[Len(s) + i] = t[i]
BY DEF Then, Texts

\* A beginning of both is one of the first, or the first and one of the second.
LEMMA FrontOfBoth ==
  ASSUME NEW s \in Texts, NEW t \in Texts, NEW n \in 0..Len(s) + Len(t)
  PROVE  \/ n <= Len(s) /\ Front(Then(s, t), n) = Front(s, n)
         \/ n > Len(s) /\ n - Len(s) \in 1..Len(t)
              /\ Front(Then(s, t), n) = Then(s, Front(t, n - Len(s)))
<1>1. Len(s) \in Nat /\ Len(t) \in Nat /\ n \in Nat
  BY DEF Texts
<1>2. /\ Then(s, t) \in Texts /\ Len(Then(s, t)) = Len(s) + Len(t)
      /\ \A i \in 1..Len(s) : Then(s, t)[i] = s[i]
      /\ \A i \in 1..Len(t) : Then(s, t)[Len(s) + i] = t[i]
  BY ThenIs
<1>3. CASE n <= Len(s)
  <2>1. Front(s, n) \in Texts /\ Front(Then(s, t), n) \in Texts
    BY <1>1, <1>2, <1>3, FrontAt
  <2>2. /\ Len(Front(s, n)) = n /\ Len(Front(Then(s, t), n)) = n
        /\ \A i \in 1..n : Front(Then(s, t), n)[i] = Front(s, n)[i]
    <3> DEFINE w == Then(s, t)
    <3>1. n \in 0..Len(s) /\ n \in 0..Len(w) /\ w \in Texts
      BY <1>1, <1>2, <1>3
    <3>2. \A i \in 1..n : i \in 1..Len(s)
      BY <1>1, <1>3
    <3>3. \A i \in 1..n : w[i] = s[i]
      BY <1>2, <3>2
    <3> HIDE DEF w
    <3>4. /\ Len(Front(s, n)) = n /\ \A i \in 1..n : Front(s, n)[i] = s[i]
          /\ Len(Front(w, n)) = n /\ \A i \in 1..n : Front(w, n)[i] = w[i]
      BY <3>1, FrontAt
    <3>5. \A i \in 1..n : Front(w, n)[i] = Front(s, n)[i]
      BY <3>3, <3>4, Zenon
    <3> QED
      BY <3>4, <3>5 DEF w
  <2>3. Front(Then(s, t), n) = Front(s, n)
    BY <2>1, <2>2 DEF Texts
  <2> QED
    BY <1>3, <2>3
<1>4. CASE n > Len(s)
  <2> DEFINE k == n - Len(s)
             u == Front(t, k)
  <2>1. k \in 1..Len(t) /\ k \in 0..Len(t) /\ n = Len(s) + k
    BY <1>1, <1>4
  <2>2. u \in Texts /\ Len(u) = k /\ \A i \in 1..k : u[i] = t[i]
    BY <2>1, FrontAt
  <2> HIDE DEF u
  <2>3. /\ Then(s, u) \in Texts /\ Len(Then(s, u)) = n
        /\ \A i \in 1..Len(s) : Then(s, u)[i] = s[i]
        /\ \A i \in 1..k : Then(s, u)[Len(s) + i] = t[i]
    <3>1. /\ Then(s, u) \in Texts /\ Len(Then(s, u)) = Len(s) + Len(u)
          /\ \A i \in 1..Len(s) : Then(s, u)[i] = s[i]
          /\ \A i \in 1..Len(u) : Then(s, u)[Len(s) + i] = u[i]
      BY <2>2, ThenIs
    <3> HIDE DEF k
    <3> QED
      BY <2>1, <2>2, <3>1
  <2>4. /\ Front(Then(s, t), n) \in Texts /\ Len(Front(Then(s, t), n)) = n
        /\ \A i \in 1..n : Front(Then(s, t), n)[i] = Then(s, t)[i]
    BY <1>1, <1>2, FrontAt
  <2>5. ASSUME NEW i \in 1..n
        PROVE  Front(Then(s, t), n)[i] = Then(s, u)[i]
    <3>1. CASE i <= Len(s)
      BY <1>1, <1>2, <2>3, <2>4, <3>1
    <3>2. CASE i > Len(s)
      <4>1. i - Len(s) \in 1..k /\ i - Len(s) \in 1..Len(t) /\ Len(s) + (i - Len(s)) = i
        BY <1>1, <2>1, <3>2
      <4> QED
        BY <1>2, <2>3, <2>4, <4>1
    <3> QED
      BY <1>1, <3>1, <3>2
  <2>6. Front(Then(s, t), n) = Then(s, u)
    BY <2>3, <2>4, <2>5 DEF Texts
  <2> QED
    BY <1>4, <2>1, <2>6 DEF u
<1> QED
  BY <1>1, <1>3, <1>4

-----------------------------------------------------------------------------
(* The three readers *)

\* What reader k makes of one more line.
PatchReads(k, x, l) ==
  CASE k = "parts" -> WithLine(x, l)
    [] k = "added" -> WithAdded(x, l)
    [] OTHER -> ReadLine(x, l)

Begins(k) == IF k = "state" THEN NoSection ELSE <<>>

\* f follows reader k through the lines of s.
FollowsReader(f, k, s) ==
  f = [n \in 0..Len(s) |-> IF n = 0 THEN Begins(k) ELSE PatchReads(k, f[n - 1], s[n])]

\* What f is, one line after the other.
LEMMA FollowsAt ==
  ASSUME NEW k, NEW s \in Texts, NEW f, FollowsReader(f, k, s)
  PROVE  /\ f[0] = Begins(k)
         /\ \A n \in 1..Len(s) : f[n] = PatchReads(k, f[n - 1], s[n])
<1> DEFINE S(n, x) == PatchReads(k, x, s[n])
<1>0. Len(s) \in Nat
  BY DEF Texts
<1>1. f = [n \in 0..Len(s) |-> IF n = 0 THEN Begins(k) ELSE S(n, f[n - 1])]
  BY DEF FollowsReader
<1>2. \A n \in 1..Len(s) : n \in 0..Len(s) /\ n # 0
  OBVIOUS
<1>3. 0 \in 0..Len(s)
  BY <1>0
<1> HIDE DEF S
<1>4. f[0] = Begins(k)
  BY <1>1, <1>3
<1>5. \A n \in 1..Len(s) : f[n] = S(n, f[n - 1])
  BY <1>1, <1>2
<1> QED
  BY <1>4, <1>5 DEF S

\* The readers of a text and of that text with another line agree.
LEMMA ReaderGoesOn ==
  ASSUME NEW k, NEW s \in Texts, NEW l \in AllLines,
         NEW f, FollowsReader(f, k, s), NEW g, FollowsReader(g, k, Append(s, l))
  PROVE  g[Len(s) + 1] = PatchReads(k, f[Len(s)], l)
<1> DEFINE t == Append(s, l)
           N == Len(s)
           G == {n \in Nat : n <= N => g[n] = f[n]}
<1>1. /\ N \in Nat /\ Len(t) = N + 1 /\ t[N + 1] = l /\ t \in Texts
      /\ \A n \in 1..N : t[n] = s[n]
  BY DEF Texts
<1>2. f[0] = Begins(k) /\ \A n \in 1..N : f[n] = PatchReads(k, f[n - 1], s[n])
  BY <1>1, FollowsAt
<1>3. g[0] = Begins(k) /\ \A n \in 1..N + 1 : g[n] = PatchReads(k, g[n - 1], t[n])
  <2>1. FollowsReader(g, k, t)
    OBVIOUS
  <2> HIDE DEF t
  <2>2. Len(t) = N + 1 /\ t \in Texts
    BY <1>1
  <2>3. g[0] = Begins(k) /\ \A n \in 1..Len(t) : g[n] = PatchReads(k, g[n - 1], t[n])
    BY <2>1, <2>2, FollowsAt
  <2> QED
    BY <2>2, <2>3
<1> HIDE DEF t, N
<1>4. 0 \in G
  BY <1>2, <1>3
<1>5. ASSUME NEW n \in Nat, n < N, n \in G
      PROVE  n + 1 \in G
  <2>1. n + 1 \in 1..N /\ n + 1 \in 1..N + 1 /\ (n + 1) - 1 = n
    <3>1. N \in Nat /\ n < N
      BY <1>1, <1>5
    <3> HIDE DEF G
    <3> QED
      BY <3>1
  <2>2. g[n] = f[n]
    <3>1. n <= N
      BY <1>1, <1>5
    <3> QED
      BY <1>5, <3>1
  <2>3. g[n + 1] = PatchReads(k, g[n], t[n + 1]) /\ f[n + 1] = PatchReads(k, f[n], s[n + 1])
    BY <1>2, <1>3, <2>1
  <2>4. t[n + 1] = s[n + 1]
    BY <1>1, <2>1
  <2>5. g[n + 1] = f[n + 1]
    BY <2>2, <2>3, <2>4, Zenon
  <2> QED
    BY <2>5
<1>6. \A n \in 0..N : n \in G
  <2> HIDE DEF G
  <2> QED
    BY <1>1, <1>4, <1>5, UpTo
<1>7. g[N] = f[N]
  BY <1>1, <1>6
<1>8. g[N + 1] = PatchReads(k, g[N], t[N + 1])
  <2>1. N + 1 \in 1..N + 1 /\ (N + 1) - 1 = N
    BY <1>1
  <2> QED
    BY <1>3, <2>1
<1>9. g[N + 1] = PatchReads(k, f[N], l)
  BY <1>1, <1>7, <1>8, Zenon
<1> QED
  BY <1>9 DEF N

\* For each text, a reader has a way through it.
LEMMA ReaderExists ==
  ASSUME NEW k, NEW s \in Texts
  PROVE  \E f : FollowsReader(f, k, s)
<1> DEFINE N == Len(s)
           Ways(f, n) == f = [m \in 0..n |-> IF m = 0 THEN Begins(k) ELSE PatchReads(k, f[m - 1], s[m])]
           G == {n \in Nat : \E f : Ways(f, n)}
<1>1. N \in Nat
  BY DEF Texts
<1>2. 0 \in G
  <2> DEFINE f == [n \in 0..0 |-> Begins(k)]
  <2>1. \A n \in 0..0 : n = 0
    OBVIOUS
  <2>2. f = [m \in 0..0 |-> IF m = 0 THEN Begins(k) ELSE PatchReads(k, f[m - 1], s[m])]
    BY <2>1
  <2>3. Ways(f, 0)
    BY <2>2
  <2> QED
    BY <2>3
<1>3. ASSUME NEW n \in Nat, n < N, n \in G
      PROVE  n + 1 \in G
  <2>1. PICK f : Ways(f, n)
    BY <1>3
  <2> DEFINE S(m, x) == PatchReads(k, x, s[m])
             w == S(n + 1, f[n])
             g == [m \in 0..n + 1 |-> IF m = n + 1 THEN w ELSE f[m]]
  <2>2. f = [m \in 0..n |-> IF m = 0 THEN Begins(k) ELSE S(m, f[m - 1])]
    BY <2>1
  <2> HIDE DEF S
  <2>3. ASSUME NEW m \in 0..n + 1
        PROVE  g[m] = IF m = 0 THEN Begins(k) ELSE S(m, g[m - 1])
    <3>1. CASE m = n + 1
      <4>1. m # 0 /\ m - 1 = n /\ n \in 0..n + 1 /\ n # n + 1
        BY <3>1
      <4>2. g[n] = f[n] /\ g[m] = w
        BY <3>1, <4>1
      <4> HIDE DEF g
      <4> QED
        BY <3>1, <4>1, <4>2
    <3>2. CASE m # n + 1
      <4>1. m \in 0..n /\ g[m] = f[m]
        BY <3>2
      <4>2. CASE m = 0
        BY <2>2, <4>1, <4>2
      <4>3. CASE m # 0
        <5>1. m - 1 \in 0..n + 1 /\ m - 1 # n + 1
          BY <3>2, <4>3
        <5>2. g[m - 1] = f[m - 1]
          BY <5>1
        <5>3. f[m] = S(m, f[m - 1])
          BY <2>2, <4>1, <4>3
        <5> HIDE DEF g
        <5> QED
          BY <4>1, <4>3, <5>2, <5>3
      <4> QED
        BY <4>2, <4>3
    <3> QED
      BY <3>1, <3>2
  <2>4. g = [m \in 0..n + 1 |-> IF m = 0 THEN Begins(k) ELSE S(m, g[m - 1])]
    BY <2>3
  <2> HIDE DEF g
  <2>5. Ways(g, n + 1)
    BY <2>4 DEF S
  <2> QED
    BY <2>5
<1>4. \A n \in 0..N : n \in G
  <2> HIDE DEF G
  <2> QED
    BY <1>1, <1>2, <1>3, UpTo
<1>5. N \in 0..N
  BY <1>1
<1>6. \E f : Ways(f, N)
  BY <1>4, <1>5
<1> QED
  BY <1>6 DEF FollowsReader

\* The parts of a text are what their reader comes to.
LEMMA PartsRead ==
  ASSUME NEW s \in Texts
  PROVE  \E f : FollowsReader(f, "parts", s) /\ Parts(s) = f[Len(s)]
<1> DEFINE R(g) == g = [n \in 0..Len(s) |-> IF n = 0 THEN <<>> ELSE WithLine(g[n - 1], s[n])]
<1>1. Parts(s) = (CHOOSE g : R(g))[Len(s)]
  BY DEF Parts, Reading
<1>2. \A x, l : PatchReads("parts", x, l) = WithLine(x, l)
  BY DEF PatchReads
<1>3. Begins("parts") = <<>>
  BY DEF Begins
<1>4. \A g : R(g) <=> FollowsReader(g, "parts", s)
  BY <1>2, <1>3 DEF FollowsReader
<1>5. \E g : R(g)
  BY <1>4, ReaderExists
<1> HIDE DEF R
<1>6. R(CHOOSE g : R(g))
  BY <1>5
<1> QED
  BY <1>1, <1>4, <1>6

\* So are the added lines.
LEMMA AddedRead ==
  ASSUME NEW s \in Texts
  PROVE  \E f : FollowsReader(f, "added", s) /\ Added(s) = f[Len(s)]
<1> DEFINE R(g) == g = [n \in 0..Len(s) |-> IF n = 0 THEN <<>> ELSE WithAdded(g[n - 1], s[n])]
<1>1. Added(s) = (CHOOSE g : R(g))[Len(s)]
  BY DEF Added, Reading
<1>2. \A x, l : PatchReads("added", x, l) = WithAdded(x, l)
  BY DEF PatchReads
<1>3. Begins("added") = <<>>
  BY DEF Begins
<1>4. \A g : R(g) <=> FollowsReader(g, "added", s)
  BY <1>2, <1>3 DEF FollowsReader
<1>5. \E g : R(g)
  BY <1>4, ReaderExists
<1> HIDE DEF R
<1>6. R(CHOOSE g : R(g))
  BY <1>5
<1> QED
  BY <1>1, <1>4, <1>6

\* The state of the parser behind a text.
PatchParsed(s) == Reading(s, NoSection, ReadLine)

\* So is the state of the parser.
LEMMA ParsedRead ==
  ASSUME NEW s \in Texts
  PROVE  \E f : FollowsReader(f, "state", s) /\ PatchParsed(s) = f[Len(s)]
<1> DEFINE R(g) == g = [n \in 0..Len(s) |-> IF n = 0 THEN NoSection ELSE ReadLine(g[n - 1], s[n])]
<1>1. PatchParsed(s) = (CHOOSE g : R(g))[Len(s)]
  BY DEF PatchParsed, Reading
<1>2. \A x, l : PatchReads("state", x, l) = ReadLine(x, l)
  BY DEF PatchReads
<1>3. Begins("state") = NoSection
  BY DEF Begins
<1>4. \A g : R(g) <=> FollowsReader(g, "state", s)
  BY <1>2, <1>3 DEF FollowsReader
<1>5. \E g : R(g)
  BY <1>4, ReaderExists
<1> HIDE DEF R
<1>6. R(CHOOSE g : R(g))
  BY <1>5
<1> QED
  BY <1>1, <1>4, <1>6

\* What the readers make of no line, and of one more.
LEMMA ReadersGrow ==
  ASSUME NEW s \in Texts, NEW l \in AllLines
  PROVE  /\ Parts(Append(s, l)) = WithLine(Parts(s), l)
         /\ Added(Append(s, l)) = WithAdded(Added(s), l)
         /\ PatchParsed(Append(s, l)) = ReadLine(PatchParsed(s), l)
<1> DEFINE t == Append(s, l)
<1>1. t \in Texts /\ Len(t) = Len(s) + 1
  BY DEF Texts
<1>2. Parts(t) = WithLine(Parts(s), l)
  <2>1. PICK f : FollowsReader(f, "parts", s) /\ Parts(s) = f[Len(s)]
    BY PartsRead
  <2>2. PICK g : FollowsReader(g, "parts", t) /\ Parts(t) = g[Len(t)]
    BY <1>1, PartsRead
  <2>3. g[Len(s) + 1] = PatchReads("parts", f[Len(s)], l)
    BY <2>1, <2>2, ReaderGoesOn
  <2> QED
    BY <1>1, <2>1, <2>2, <2>3 DEF PatchReads
<1>3. Added(t) = WithAdded(Added(s), l)
  <2>1. PICK f : FollowsReader(f, "added", s) /\ Added(s) = f[Len(s)]
    BY AddedRead
  <2>2. PICK g : FollowsReader(g, "added", t) /\ Added(t) = g[Len(t)]
    BY <1>1, AddedRead
  <2>3. g[Len(s) + 1] = PatchReads("added", f[Len(s)], l)
    BY <2>1, <2>2, ReaderGoesOn
  <2> QED
    BY <1>1, <2>1, <2>2, <2>3 DEF PatchReads
<1>4. PatchParsed(t) = ReadLine(PatchParsed(s), l)
  <2>1. PICK f : FollowsReader(f, "state", s) /\ PatchParsed(s) = f[Len(s)]
    BY ParsedRead
  <2>2. PICK g : FollowsReader(g, "state", t) /\ PatchParsed(t) = g[Len(t)]
    BY <1>1, ParsedRead
  <2>3. g[Len(s) + 1] = PatchReads("state", f[Len(s)], l)
    BY <2>1, <2>2, ReaderGoesOn
  <2> QED
    BY <1>1, <2>1, <2>2, <2>3 DEF PatchReads
<1> QED
  BY <1>2, <1>3, <1>4

\* At the beginning nothing is read.
LEMMA ReadersBegin == Parts(<<>>) = <<>> /\ Added(<<>>) = <<>> /\ PatchParsed(<<>>) = NoSection
<1>1. <<>> \in Texts /\ Len(<<>>) = 0 /\ Len(<<>>) \in Nat
  BY DEF Texts
<1>2. /\ Begins("parts") = <<>> /\ Begins("added") = <<>> /\ Begins("state") = NoSection
  BY DEF Begins
<1>3. \A k, f : FollowsReader(f, k, <<>>) => f[0] = Begins(k)
  BY <1>1, FollowsAt
<1> QED
  BY <1>1, <1>2, <1>3, PartsRead, AddedRead, ParsedRead

\* What holds of no text, and goes on holding with each line, holds of all.
LEMMA LineByLine ==
  ASSUME NEW G, <<>> \in G,
         \A s \in Texts, l \in AllLines : s \in G => Append(s, l) \in G
  PROVE  Texts \subseteq G
<1> SUFFICES ASSUME NEW s \in Texts
             PROVE  s \in G
  OBVIOUS
<1> DEFINE H == {n \in Nat : n <= Len(s) => Front(s, n) \in G}
<1>1. Len(s) \in Nat /\ Front(s, Len(s)) = s /\ Front(s, 0) = <<>>
  BY FrontIs
<1>2. 0 \in H
  BY <1>1
<1>3. ASSUME NEW n \in Nat, n < Len(s), n \in H
      PROVE  n + 1 \in H
  <2>1. /\ Front(s, n) \in Texts /\ s[n + 1] \in AllLines
        /\ Front(s, n + 1) = Append(Front(s, n), s[n + 1])
    BY <1>3, FrontGrows
  <2>2. Front(s, n) \in G
    BY <1>1, <1>3
  <2>3. Front(s, n + 1) \in G
    BY <2>1, <2>2
  <2> QED
    BY <2>3
<1>4. \A n \in 0..Len(s) : n \in H
  <2> HIDE DEF H
  <2> QED
    BY <1>1, <1>2, <1>3, UpTo
<1>5. Len(s) \in 0..Len(s)
  BY <1>1
<1> QED
  BY <1>1, <1>4, <1>5

-----------------------------------------------------------------------------
(* Parts and blocks *)

AllWords == PatchPaths \cup {NoPath, ""} \cup Words
PatchBlocks == [search : Texts, replace : Texts]

\* The parts of a text are texts, and its added lines words.
LEMMA PartsType ==
  ASSUME NEW s \in Texts
  PROVE  Parts(s) \in Seq(Texts) /\ Added(s) \in Seq(AllWords)
<1> DEFINE G == {t \in Texts : Parts(t) \in Seq(Texts) /\ Added(t) \in Seq(AllWords)}
<1>1. <<>> \in G
  <2>1. <<>> \in Texts /\ <<>> \in Seq(Texts) /\ <<>> \in Seq(AllWords)
    BY DEF Texts
  <2> QED
    BY <2>1, ReadersBegin
<1>2. ASSUME NEW t \in Texts, NEW l \in AllLines, t \in G
      PROVE  Append(t, l) \in G
  <2>1. Append(t, l) \in Texts
    BY DEF Texts
  <2>2. WithLine(Parts(t), l) \in Seq(Texts)
    <3>1. Parts(t) \in Seq(Texts)
      BY <1>2
    <3>2. CASE l.kind = "search"
      <4>1. <<>> \in Texts
        BY DEF Texts
      <4> QED
        BY <3>1, <3>2, <4>1 DEF WithLine
    <3>3. CASE l.kind # "search" /\ Parts(t) # <<>>
      <4> DEFINE p == Parts(t)
                 N == Len(p)
      <4>1. N \in 1..Len(p) /\ p \in [1..Len(p) -> Texts] /\ Len(p) \in Nat
        BY <3>1, <3>3
      <4>2. p[N] \in Texts
        BY <4>1
      <4>3. Append(p[N], l) \in Texts
        BY <4>2 DEF Texts
      <4> HIDE DEF p
      <4>4. [p EXCEPT ![N] = Append(@, l)] \in [1..Len(p) -> Texts]
        BY <4>1, <4>3
      <4>5. [p EXCEPT ![N] = Append(@, l)] \in Seq(Texts)
        BY <4>1, <4>4
      <4> QED
        BY <3>3, <4>5 DEF WithLine, p
    <3>4. CASE l.kind # "search" /\ Parts(t) = <<>>
      BY <3>1, <3>4 DEF WithLine
    <3> QED
      BY <3>2, <3>3, <3>4
  <2>3. WithAdded(Added(t), l) \in Seq(AllWords)
    <3>1. Added(t) \in Seq(AllWords)
      BY <1>2
    <3>2. l.word \in AllWords
      BY DEF AllLines, AllWords
    <3>3. Append(Added(t), l.word) \in Seq(AllWords)
      BY <3>1, <3>2
    <3> QED
      BY <3>1, <3>3, Zenon DEF WithAdded
  <2>4. Parts(Append(t, l)) \in Seq(Texts) /\ Added(Append(t, l)) \in Seq(AllWords)
    BY <2>2, <2>3, ReadersGrow
  <2> QED
    BY <2>1, <2>4
<1>3. Texts \subseteq G
  <2> HIDE DEF G
  <2> QED
    BY <1>1, <1>2, LineByLine
<1> QED
  BY <1>3

\* The lines of a kind in a text with one line more.
LEMMA AtGrows ==
  ASSUME NEW s \in Texts, NEW l \in AllLines, NEW k
  PROVE  /\ At(k, s) \subseteq 1..Len(s)
         /\ At(k, Append(s, l)) =
              IF l.kind = k THEN At(k, s) \cup {Len(s) + 1} ELSE At(k, s)
BY DEF At, Texts

\* The first of some places.
LEMMA FirstIs ==
  ASSUME NEW is \in SUBSET Nat, NEW i \in is, \A j \in is : i <= j
  PROVE  First(is) = i
<1>1. \A m \in is : (\A j \in is : m <= j) => m = i
  <2> SUFFICES ASSUME NEW m \in is, \A j \in is : m <= j
               PROVE  m = i
    OBVIOUS
  <2>1. m <= i /\ i <= m /\ m \in Nat /\ i \in Nat
    OBVIOUS
  <2> QED
    BY <2>1
<1> QED
  BY <1>1 DEF First

\* There is one, if there are places.
LEMMA FirstAmong ==
  ASSUME NEW is \in SUBSET Nat, is # {}
  PROVE  First(is) \in is /\ \A j \in is : First(is) <= j
<1>1. \E i \in is : \A j \in is : i <= j
  BY Least
<1> QED
  BY <1>1 DEF First

\* A whole block stays the same, whatever follows it.
LEMMA CompleteStays ==
  ASSUME NEW s \in Texts, NEW l \in AllLines, Complete(s)
  PROVE  Complete(Append(s, l)) /\ Block(Append(s, l)) = Block(s) /\ Block(s) \in PatchBlocks
<1> DEFINE t == Append(s, l)
           N == Len(s)
           i == First(At("split", s))
           e == First(At("replace", s))
<1>1. N \in Nat /\ t \in Texts /\ Len(t) = N + 1 /\ \A m \in 1..N : t[m] = s[m]
  BY DEF Texts
<1>2. At("split", s) \subseteq 1..N /\ At("replace", s) \subseteq 1..N
  BY AtGrows
<1>3. /\ i \in At("split", s) /\ \A j \in At("split", s) : i <= j
      /\ e \in At("replace", s) /\ \A j \in At("replace", s) : e <= j
  <2>1. /\ At("split", s) # {} /\ At("split", s) \in SUBSET Nat
        /\ At("replace", s) # {} /\ At("replace", s) \in SUBSET Nat
    BY <1>1, <1>2 DEF Complete
  <2> QED
    BY <2>1, FirstAmong
<1>4. i < e
  BY DEF Complete
<1> HIDE DEF N, i, e, t
<1>5. i \in 1..N /\ e \in 1..N
  BY <1>2, <1>3
<1>6. /\ At("split", t) = At("split", s) \/ At("split", t) = At("split", s) \cup {N + 1}
      /\ At("replace", t) = At("replace", s) \/ At("replace", t) = At("replace", s) \cup {N + 1}
  BY AtGrows DEF t, N
<1>7. First(At("split", t)) = i
  <2>1. At("split", t) \in SUBSET Nat /\ i \in At("split", t)
        /\ \A j \in At("split", t) : i <= j
    BY <1>1, <1>2, <1>3, <1>5, <1>6
  <2> QED
    BY <2>1, FirstIs
<1>8. First(At("replace", t)) = e
  <2>1. At("replace", t) \in SUBSET Nat /\ e \in At("replace", t)
        /\ \A j \in At("replace", t) : e <= j
    BY <1>1, <1>2, <1>3, <1>5, <1>6
  <2> QED
    BY <2>1, FirstIs
<1>9. First(At("replace", t) \cup {N + 1 + 1}) = e /\ First(At("replace", s) \cup {N + 1}) = e
  <2> DEFINE a == At("replace", t) \cup {N + 1 + 1}
             b == At("replace", s) \cup {N + 1}
  <2>1. a \in SUBSET Nat /\ e \in a /\ \A j \in a : e <= j
    BY <1>1, <1>2, <1>3, <1>5, <1>6
  <2>2. b \in SUBSET Nat /\ e \in b /\ \A j \in b : e <= j
    BY <1>1, <1>2, <1>3, <1>5
  <2> HIDE DEF a, b
  <2>3. First(a) = e /\ First(b) = e
    BY <2>1, <2>2, FirstIs
  <2> QED
    BY <2>3 DEF a, b
<1>10. Complete(t)
  BY <1>3, <1>4, <1>6, <1>7, <1>8 DEF Complete
<1>11. SubSeq(t, 1, i - 1) = SubSeq(s, 1, i - 1) /\ SubSeq(t, i + 1, e - 1) = SubSeq(s, i + 1, e - 1)
  BY <1>1, <1>5 DEF Texts
<1>12. SubSeq(s, 1, i - 1) \in Texts /\ SubSeq(s, i + 1, e - 1) \in Texts
  BY <1>1, <1>5 DEF Texts, N
<1>13. /\ Block(t) = [search |-> Joined(SubSeq(t, 1, i - 1)),
                      replace |-> Joined(SubSeq(t, i + 1, e - 1))]
       /\ Block(s) = [search |-> Joined(SubSeq(s, 1, i - 1)),
                      replace |-> Joined(SubSeq(s, i + 1, e - 1))]
  <2>1. Len(t) + 1 = N + 1 + 1 /\ Len(s) + 1 = N + 1
    BY <1>1 DEF N
  <2>2. First(At("split", s)) = i
    BY DEF i
  <2> QED
    BY <1>7, <1>9, <2>1, <2>2 DEF Block
<1>14. \A u \in Texts : Joined(u) \in Texts
  BY DEF Joined, Texts
<1>15. Block(s) \in PatchBlocks
  BY <1>12, <1>13, <1>14 DEF PatchBlocks
<1>16. Block(t) = Block(s)
  BY <1>11, <1>13
<1> QED
  BY <1>10, <1>15, <1>16 DEF t

\* All blocks of a text are whole.
AllWhole(s) == \A n \in DOMAIN Parts(s) : Complete(Parts(s)[n])

\* Then its blocks are blocks.
LEMMA BlocksType ==
  ASSUME NEW s \in Texts, AllWhole(s)
  PROVE  /\ ParseBlocks(s) \in Seq(PatchBlocks) /\ Len(ParseBlocks(s)) = Len(Parts(s))
         /\ (ParseBlocks(s) = <<>>) = (Parts(s) = <<>>)
         /\ BlocksOk(s) = (Parts(s) # <<>>)
<1> DEFINE p == Parts(s)
<1>1. p \in Seq(Texts)
  BY PartsType
<1>2. Len(p) \in Nat /\ DOMAIN p = 1..Len(p) /\ \A n \in 1..Len(p) : p[n] \in Texts
  BY <1>1
<1>3. \A n \in 1..Len(p) : Block(p[n]) \in PatchBlocks
  <2> SUFFICES ASSUME NEW n \in 1..Len(p)
               PROVE  Block(p[n]) \in PatchBlocks
    OBVIOUS
  <2>1. Complete(p[n]) /\ p[n] \in Texts
    BY <1>2 DEF AllWhole
  <2> QED
    BY <2>1, BlankIs, CompleteStays
<1> DEFINE b == [n \in DOMAIN p |-> Block(p[n])]
<1>4. ParseBlocks(s) = b
  BY DEF ParseBlocks
<1>5. BlocksOk(s) = (p # <<>>)
  BY DEF BlocksOk, AllWhole
<1> HIDE DEF p
<1>6. b \in [1..Len(p) -> PatchBlocks]
  BY <1>2, <1>3
<1>7. b \in Seq(PatchBlocks) /\ Len(b) = Len(p)
  BY <1>2, <1>6
<1>8. (b = <<>>) = (p = <<>>)
  BY <1>1, <1>7
<1> QED
  BY <1>4, <1>5, <1>7, <1>8 DEF p

\* A line that opens no block is read into the last one, and changes none.
LEMMA BlocksStay ==
  ASSUME NEW s \in Texts, AllWhole(s), NEW l \in AllLines, l.kind # "search"
  PROVE  /\ AllWhole(Append(s, l)) /\ ParseBlocks(Append(s, l)) = ParseBlocks(s)
         /\ (Parts(Append(s, l)) = <<>>) = (Parts(s) = <<>>)
<1> DEFINE p == Parts(s)
           q == Parts(Append(s, l))
           N == Len(p)
<1>1. p \in Seq(Texts) /\ q = WithLine(p, l)
  BY PartsType, ReadersGrow
<1>2. N \in Nat /\ DOMAIN p = 1..N /\ \A n \in 1..N : p[n] \in Texts /\ Complete(p[n])
  BY <1>1 DEF AllWhole
<1>3. ParseBlocks(s) = [n \in DOMAIN p |-> Block(p[n])]
  BY DEF ParseBlocks
<1>4. ParseBlocks(Append(s, l)) = [n \in DOMAIN q |-> Block(q[n])]
  BY DEF ParseBlocks
<1>5. AllWhole(Append(s, l)) <=> \A n \in DOMAIN q : Complete(q[n])
  BY DEF AllWhole
<1> HIDE DEF p, q
<1>6. CASE p = <<>>
  <2>1. q = p
    BY <1>1, <1>6 DEF WithLine
  <2> QED
    BY <1>2, <1>3, <1>4, <1>5, <2>1 DEF p, q
<1>7. CASE p # <<>>
  <2>1. q = [p EXCEPT ![N] = Append(p[N], l)]
    BY <1>1, <1>7 DEF WithLine, N
  <2>2. N \in 1..N
    BY <1>1, <1>2, <1>7 DEF N
  <2>3. DOMAIN q = 1..N /\ q[N] = Append(p[N], l) /\ \A n \in 1..N : n # N => q[n] = p[n]
    BY <1>2, <2>1, <2>2
  <2>4. Complete(Append(p[N], l)) /\ Block(Append(p[N], l)) = Block(p[N])
    BY <1>2, <2>2, CompleteStays
  <2>5. \A n \in 1..N : Complete(q[n]) /\ Block(q[n]) = Block(p[n])
    BY <1>2, <2>3, <2>4
  <2>6. [n \in DOMAIN q |-> Block(q[n])] = [n \in DOMAIN p |-> Block(p[n])]
    BY <1>2, <2>3, <2>5
  <2>7. q # <<>>
    BY <2>2, <2>3
  <2> QED
    BY <1>3, <1>4, <1>5, <1>7, <2>3, <2>5, <2>6, <2>7 DEF p, q
<1> QED
  BY <1>6, <1>7

\* A new block is opened.
Opening(s) == Append(s, Mark("search"))

\* What stands behind the opening is the last part.
LEMMA PartsOpened ==
  ASSUME NEW s \in Texts, NEW b \in Texts, At("search", b) = {}
  PROVE  Parts(Then(Opening(s), b)) = Append(Parts(s), b)
<1> DEFINE G == {t \in Texts : At("search", t) = {} =>
                   Parts(Then(Opening(s), t)) = Append(Parts(s), t)}
<1>1. Mark("search") \in AllLines /\ Mark("search").kind = "search"
  BY DEF Mark, Line, AllLines
<1>2. Opening(s) \in Texts
  BY <1>1 DEF Opening, Texts
<1>3. <<>> \in G
  <2>1. Then(Opening(s), <<>>) = Opening(s) /\ <<>> \in Texts
    BY <1>2, ThenIs DEF Texts
  <2>2. Parts(Opening(s)) = Append(Parts(s), <<>>)
    BY <1>1, ReadersGrow DEF Opening, WithLine
  <2> QED
    BY <2>1, <2>2
<1>4. ASSUME NEW t \in Texts, NEW l \in AllLines, t \in G
      PROVE  Append(t, l) \in G
  <2>1. Append(t, l) \in Texts
    BY DEF Texts
  <2>2. ASSUME At("search", Append(t, l)) = {}
        PROVE  Parts(Then(Opening(s), Append(t, l))) = Append(Parts(s), Append(t, l))
    <3>1. At("search", t) = {} /\ l.kind # "search"
      BY <2>2, AtGrows
    <3> DEFINE u == Then(Opening(s), t)
               p == Append(Parts(s), t)
    <3>2. Parts(u) = p
      BY <1>4, <3>1
    <3>3. u \in Texts /\ Then(Opening(s), Append(t, l)) = Append(u, l)
      BY <1>2, ThenIs, ThenGrows
    <3>4. Parts(Append(u, l)) = WithLine(p, l)
      BY <3>2, <3>3, ReadersGrow
    <3>5. WithLine(p, l) = Append(Parts(s), Append(t, l))
      <4>1. Parts(s) \in Seq(Texts)
        BY PartsType
      <4>2. /\ p \in Seq(Texts) /\ Len(p) = Len(Parts(s)) + 1 /\ p[Len(p)] = t /\ p # <<>>
            /\ \A i \in 1..Len(Parts(s)) : p[i] = Parts(s)[i]
            /\ Len(Parts(s)) \in Nat
        BY <4>1
      <4>3. WithLine(p, l) = [p EXCEPT ![Len(p)] = Append(t, l)]
        BY <3>1, <4>2 DEF WithLine
      <4>4. [p EXCEPT ![Len(p)] = Append(t, l)] = Append(Parts(s), Append(t, l))
        <5> DEFINE n == Len(p)
                   v == Append(t, l)
                   a == [p EXCEPT ![n] = v]
                   c == Append(Parts(s), v)
        <5>1. v \in Texts
          BY <2>1
        <5>2. /\ n \in 1..n /\ n = Len(Parts(s)) + 1 /\ p \in [1..n -> Texts]
              /\ \A i \in 1..Len(Parts(s)) : p[i] = Parts(s)[i]
          <6> HIDE DEF p
          <6> QED
            BY <4>2
        <5> HIDE DEF p, n, v
        <5>3. a \in [1..n -> Texts]
          BY <5>1, <5>2
        <5>4. c \in Seq(Texts) /\ Len(c) = n /\ c[n] = v
              /\ \A i \in 1..Len(Parts(s)) : c[i] = Parts(s)[i]
          BY <4>1, <5>1, <5>2
        <5> HIDE DEF c
        <5>5. c \in [1..n -> Texts]
          BY <5>4
        <5>6. \A i \in 1..n : i = n \/ i \in 1..Len(Parts(s))
          BY <4>2, <5>2
        <5>7. \A i \in 1..n : a[i] = c[i]
          BY <5>2, <5>4, <5>6
        <5>8. a = c
          BY <5>3, <5>5, <5>7
        <5> QED
          BY <5>8 DEF n, v, c
      <4> QED
        BY <4>3, <4>4
    <3> QED
      BY <3>3, <3>4, <3>5
  <2> QED
    BY <2>1, <2>2
<1>5. Texts \subseteq G
  <2> HIDE DEF G
  <2> QED
    BY <1>3, <1>4, LineByLine
<1> QED
  BY <1>5

\* A part without an end is no block.
LEMMA CutBlocks ==
  ASSUME NEW s \in Texts, NEW b \in Texts, At("search", b) = {}, At("replace", b) = {}
  PROVE  ~BlocksOk(Then(Opening(s), b))
<1> DEFINE p == Parts(s)
           q == Append(p, b)
<1>1. Parts(Then(Opening(s), b)) = q
  BY PartsOpened
<1>2. p \in Seq(Texts)
  BY PartsType
<1>3. Len(q) \in DOMAIN q /\ q[Len(q)] = b
  BY <1>2
<1>4. ~Complete(b)
  BY DEF Complete
<1> QED
  BY <1>1, <1>3, <1>4 DEF BlocksOk

\* One more whole block.
LEMMA BlockAdded ==
  ASSUME NEW s \in Texts, AllWhole(s), NEW b \in Texts, At("search", b) = {}, Complete(b)
  PROVE  LET t == Then(Opening(s), b)
         IN /\ AllWhole(t) /\ Parts(t) # <<>> /\ Block(b) \in PatchBlocks
            /\ ParseBlocks(t) = Append(ParseBlocks(s), Block(b))
<1> DEFINE p == Parts(s)
           q == Append(p, b)
           t == Then(Opening(s), b)
           N == Len(p)
<1>1. Parts(t) = q
  BY PartsOpened
<1>2. p \in Seq(Texts)
  BY PartsType
<1>3. /\ N \in Nat /\ DOMAIN p = 1..N /\ DOMAIN q = 1..N + 1 /\ q[N + 1] = b
      /\ q # <<>> /\ \A n \in 1..N : q[n] = p[n]
  BY <1>2
<1>4. Block(b) \in PatchBlocks
  BY BlankIs, CompleteStays
<1>5. ParseBlocks(s) \in Seq(PatchBlocks) /\ Len(ParseBlocks(s)) = N
  BY BlocksType
<1>6. \A n \in 1..N : ParseBlocks(s)[n] = Block(p[n])
  BY <1>3 DEF ParseBlocks
<1>7. \A n \in 1..N : Complete(p[n])
  BY <1>3 DEF AllWhole
<1>8. ParseBlocks(t) = [n \in DOMAIN q |-> Block(q[n])]
  BY <1>1 DEF ParseBlocks
<1>9. AllWhole(t) <=> \A n \in DOMAIN q : Complete(q[n])
  BY <1>1 DEF AllWhole
<1> HIDE DEF p, q, t, N
<1>10. \A n \in 1..N + 1 : n \in 1..N \/ n = N + 1
  BY <1>3
<1>11. AllWhole(t)
  BY <1>3, <1>7, <1>9, <1>10
<1> DEFINE c == ParseBlocks(s)
           d == Append(c, Block(b))
<1>12. d \in Seq(PatchBlocks) /\ Len(d) = N + 1 /\ d[N + 1] = Block(b) /\ \A n \in 1..N : d[n] = c[n]
  BY <1>3, <1>4, <1>5
<1>13. \A n \in 1..N + 1 : d[n] = Block(q[n])
  BY <1>3, <1>6, <1>10, <1>12
<1>14. d = [n \in DOMAIN q |-> Block(q[n])]
  <2> HIDE DEF d
  <2>1. d \in [1..N + 1 -> PatchBlocks]
    BY <1>3, <1>12
  <2> QED
    BY <1>3, <1>13, <2>1
<1> QED
  BY <1>1, <1>3, <1>4, <1>8, <1>11, <1>14 DEF t

\* The block the writer writes, between its markers.
PatchWritten(s, r) == Append(Then(Append(s, Mark("split")), r), Mark("replace"))

\* It is whole, and has the text to search for and the one that replaces it.
LEMMA WrittenIs ==
  ASSUME NEW s \in Texts, At("search", s) = {}, At("split", s) = {}, At("replace", s) = {},
         NEW r \in Texts, At("search", r) = {}, At("replace", r) = {}
  PROVE  /\ PatchWritten(s, r) \in Texts /\ At("search", PatchWritten(s, r)) = {}
         /\ \A n \in 0..Len(PatchWritten(s, r)) - 1 : At("replace", Front(PatchWritten(s, r), n)) = {}
         /\ Complete(PatchWritten(s, r))
         /\ Block(PatchWritten(s, r)) = [search |-> Joined(s), replace |-> Joined(r)]
<1> DEFINE b == PatchWritten(s, r)
           N == Len(s)
           M == Len(r)
<1>1. N \in Nat /\ M \in Nat /\ DOMAIN s = 1..N /\ DOMAIN r = 1..M
  BY DEF Texts
<1>2. Mark("split") \in AllLines /\ Mark("replace") \in AllLines
  BY DEF Mark, Line, AllLines
<1> DEFINE s1 == Append(s, Mark("split"))
           u == Then(s1, r)
<1>3. /\ s1 \in Texts /\ Len(s1) = N + 1 /\ s1[N + 1] = Mark("split")
      /\ \A i \in 1..N : s1[i] = s[i]
  BY <1>2 DEF Texts
<1> HIDE DEF s1, N, M
<1>4. /\ u \in Texts /\ Len(u) = N + 1 + M
      /\ \A i \in 1..N + 1 : u[i] = s1[i]
      /\ \A i \in 1..M : u[N + 1 + i] = r[i]
  <2>1. /\ u \in Texts /\ Len(u) = Len(s1) + Len(r)
        /\ \A i \in 1..Len(s1) : u[i] = s1[i]
        /\ \A i \in 1..Len(r) : u[Len(s1) + i] = r[i]
    BY <1>3, ThenIs
  <2> HIDE DEF u
  <2> QED
    BY <1>3, <2>1 DEF M
<1>5. b = Append(u, Mark("replace"))
  BY DEF PatchWritten, s1
<1> HIDE DEF b, u
<1>6. /\ b \in Texts /\ Len(b) = N + M + 2 /\ b[N + M + 2] = Mark("replace")
      /\ \A i \in 1..N + 1 + M : b[i] = u[i]
  <2>1. b \in Texts /\ Len(b) = Len(u) + 1 /\ b[Len(u) + 1] = Mark("replace")
        /\ \A i \in 1..Len(u) : b[i] = u[i]
    <3>1. u \in Seq(AllLines)
      BY <1>4 DEF Texts
    <3>2. /\ Append(u, Mark("replace")) \in Seq(AllLines)
          /\ Len(Append(u, Mark("replace"))) = Len(u) + 1
          /\ Append(u, Mark("replace"))[Len(u) + 1] = Mark("replace")
          /\ \A i \in 1..Len(u) : Append(u, Mark("replace"))[i] = u[i]
      BY <1>2, <3>1
    <3> QED
      BY <1>5, <3>2 DEF Texts
  <2>2. Len(u) = N + 1 + M /\ Len(u) + 1 = N + M + 2
    BY <1>1, <1>4
  <2> QED
    BY <2>1, <2>2
<1>7. \A i \in 1..N : b[i] = s[i]
  BY <1>1, <1>3, <1>4, <1>6
<1>8. b[N + 1] = Mark("split")
  BY <1>1, <1>3, <1>4, <1>6
<1>9. \A i \in 1..M : b[N + 1 + i] = r[i]
  <2>1. \A i \in 1..M : N + 1 + i \in 1..N + 1 + M
    BY <1>1
  <2> QED
    BY <1>4, <1>6, <2>1
<1>10. \A i \in 1..Len(b) : \/ i \in 1..N \/ i = N + 1 \/ i = N + M + 2
                            \/ i - (N + 1) \in 1..M /\ N + 1 + (i - (N + 1)) = i
  BY <1>1, <1>6
<1>11. DOMAIN b = 1..Len(b) /\ Len(b) \in Nat
  BY <1>6 DEF Texts
<1>12. \A i \in 1..N : s[i].kind \notin {"search", "split", "replace"}
  BY <1>1 DEF At
<1>13. \A i \in 1..M : r[i].kind \notin {"search", "replace"}
  BY <1>1 DEF At
<1>14. Mark("split").kind = "split" /\ Mark("replace").kind = "replace"
  BY DEF Mark, Line
<1>15. \A i \in 1..Len(b) : /\ b[i].kind # "search"
                            /\ b[i].kind = "replace" <=> i = N + M + 2
                            /\ b[i].kind = "split" => i >= N + 1
  <2> SUFFICES ASSUME NEW i \in 1..Len(b)
               PROVE  /\ b[i].kind # "search"
                      /\ b[i].kind = "replace" <=> i = N + M + 2
                      /\ b[i].kind = "split" => i >= N + 1
    OBVIOUS
  <2>1. CASE i \in 1..N
    BY <1>1, <1>7, <1>12, <2>1
  <2>2. CASE i = N + 1
    BY <1>1, <1>8, <1>14, <2>2
  <2>3. CASE i = N + M + 2
    BY <1>1, <1>6, <1>14, <2>3
  <2>4. CASE i - (N + 1) \in 1..M /\ N + 1 + (i - (N + 1)) = i
    <3>1. b[i] = r[i - (N + 1)]
      BY <1>9, <2>4
    <3>2. i # N + M + 2 /\ i >= N + 1
      BY <1>1, <2>4
    <3> QED
      BY <1>13, <2>4, <3>1, <3>2
  <2> QED
    BY <1>10, <2>1, <2>2, <2>3, <2>4
<1>16. At("search", b) = {} /\ At("replace", b) = {N + M + 2}
  <2>1. N + M + 2 \in 1..Len(b)
    BY <1>1, <1>6
  <2> QED
    BY <1>11, <1>15, <2>1 DEF At
<1>17. First(At("split", b)) = N + 1 /\ At("split", b) # {}
  <2>1. N + 1 \in At("split", b)
    BY <1>1, <1>6, <1>8, <1>11, <1>14 DEF At
  <2>2. At("split", b) \in SUBSET Nat /\ \A j \in At("split", b) : N + 1 <= j
    BY <1>1, <1>11, <1>15 DEF At
  <2> QED
    BY <2>1, <2>2, FirstIs
<1>18. /\ First(At("replace", b)) = N + M + 2
       /\ First(At("replace", b) \cup {Len(b) + 1}) = N + M + 2
  <2>1. N + M + 2 \in Nat
    BY <1>1
  <2>2. First({N + M + 2}) = N + M + 2
    BY <2>1, FirstIs
  <2> DEFINE a == {N + M + 2} \cup {Len(b) + 1}
  <2>3. a \in SUBSET Nat /\ N + M + 2 \in a /\ \A j \in a : N + M + 2 <= j
    BY <1>6, <2>1
  <2> HIDE DEF a
  <2>4. First(a) = N + M + 2
    BY <2>3, FirstIs
  <2> QED
    BY <1>16, <2>2, <2>4 DEF a
<1>19. Complete(b)
  BY <1>1, <1>16, <1>17, <1>18 DEF Complete
<1>20. SubSeq(b, 1, N) = s
  BY <1>1, <1>6, <1>7 DEF Texts, N
<1>21. SubSeq(b, N + 2, N + M + 1) = r
  <2> DEFINE v == SubSeq(b, N + 2, N + M + 1)
  <2> DEFINE k == N + 1
             n == N + M + 1
  <2>0. k \in Nat /\ n \in Nat /\ k <= n /\ n <= Len(b) /\ n - k = M /\ k + 1 = N + 2
    BY <1>1, <1>6
  <2>1. v = SubSeq(b, k + 1, n)
    BY <2>0
  <2> HIDE DEF v, n, k
  <2>2. v \in Texts /\ Len(v) = M /\ \A i \in 1..M : v[i] = b[N + 1 + i]
    <3>1. v \in Texts /\ Len(v) = n - k /\ \A i \in 1..n - k : v[i] = b[k + i]
      BY <1>6, <2>0, <2>1, Within
    <3> QED
      BY <2>0, <3>1 DEF k
  <2>3. \A i \in 1..M : v[i] = r[i]
    BY <1>9, <2>2
  <2>4. v = r
    BY <2>2, <2>3 DEF Texts, M
  <2> QED
    BY <2>4 DEF v
<1>22. Block(b) = [search |-> Joined(s), replace |-> Joined(r)]
  <2> DEFINE i == First(At("split", b))
             e == First(At("replace", b) \cup {Len(b) + 1})
  <2>1. Block(b) = [search |-> Joined(SubSeq(b, 1, i - 1)),
                    replace |-> Joined(SubSeq(b, i + 1, e - 1))]
    BY DEF Block
  <2>2. i = N + 1 /\ e = N + M + 2
    BY <1>17, <1>18
  <2> HIDE DEF i, e
  <2>3. i - 1 = N /\ i + 1 = N + 2 /\ e - 1 = N + M + 1
    BY <1>1, <2>2
  <2> QED
    BY <1>20, <1>21, <2>1, <2>3
<1>23. ASSUME NEW n \in 0..Len(b) - 1
       PROVE  At("replace", Front(b, n)) = {}
  <2>1. n \in 0..Len(b) /\ n < N + M + 2 /\ n \in Nat
    BY <1>1, <1>6, <1>11
  <2>2. /\ Front(b, n) \in Texts /\ Len(Front(b, n)) = n
        /\ \A i \in 1..n : Front(b, n)[i] = b[i]
    BY <1>6, <2>1, FrontAt
  <2>3. \A i \in 1..n : i \in 1..Len(b) /\ i # N + M + 2
    BY <1>1, <1>6, <2>1
  <2>4. DOMAIN Front(b, n) = 1..n
    BY <2>2 DEF Texts
  <2> QED
    BY <1>15, <2>2, <2>3, <2>4 DEF At
<1> QED
  BY <1>6, <1>16, <1>19, <1>22, <1>23 DEF b

-----------------------------------------------------------------------------
(* Sections and the state of the parser *)

\* The header a line that is written next belongs to.
SectionOf(s, d) ==
  IF At("header", s) = {} THEN Header("update", d)
  ELSE s[CHOOSE i \in At("header", s) : \A j \in At("header", s) : j <= i]

\* There is a last header, if there is one.
LEMMA LastHeader ==
  ASSUME NEW s \in Texts, At("header", s) # {}
  PROVE  \E i \in At("header", s) : \A j \in At("header", s) : j <= i
<1> DEFINE Lasts(t) == \E i \in At("header", t) : \A j \in At("header", t) : j <= i
           G == {t \in Texts : At("header", t) # {} => Lasts(t)}
<1>1. <<>> \in G
  BY DEF At, Texts
<1>2. ASSUME NEW t \in Texts, NEW l \in AllLines, t \in G
      PROVE  Append(t, l) \in G
  <2>1. Append(t, l) \in Texts /\ Len(t) \in Nat
    BY DEF Texts
  <2>2. /\ At("header", t) \subseteq 1..Len(t)
        /\ At("header", Append(t, l)) =
             IF l.kind = "header" THEN At("header", t) \cup {Len(t) + 1} ELSE At("header", t)
    BY AtGrows
  <2>3. CASE l.kind = "header"
    <3>1. /\ Len(t) + 1 \in At("header", Append(t, l))
          /\ \A j \in At("header", Append(t, l)) : j <= Len(t) + 1
      BY <2>1, <2>2, <2>3
    <3>2. Lasts(Append(t, l))
      BY <3>1
    <3> QED
      BY <2>1, <3>2
  <2>4. CASE l.kind # "header"
    BY <1>2, <2>1, <2>2, <2>4
  <2> QED
    BY <2>3, <2>4
<1>3. Texts \subseteq G
  <2> HIDE DEF G
  <2> QED
    BY <1>1, <1>2, LineByLine
<1> QED
  BY <1>3

\* A header opens its section, any other line belongs to the one that is open.
LEMMA SectionGrows ==
  ASSUME NEW s \in Texts, NEW l \in AllLines, NEW d
  PROVE  /\ l.kind = "header" =>
              At("header", Append(s, l)) # {} /\ SectionOf(Append(s, l), d) = l
         /\ l.kind # "header" =>
              /\ At("header", Append(s, l)) = At("header", s)
              /\ SectionOf(Append(s, l), d) = SectionOf(s, d)
<1> DEFINE t == Append(s, l)
           is == At("header", s)
           js == At("header", t)
<1>1. /\ t \in Texts /\ Len(s) \in Nat /\ t[Len(s) + 1] = l
      /\ \A i \in 1..Len(s) : t[i] = s[i]
  BY DEF Texts
<1>2. is \subseteq 1..Len(s) /\ js = IF l.kind = "header" THEN is \cup {Len(s) + 1} ELSE is
  BY AtGrows
<1>3. SectionOf(t, d) =
        IF js = {} THEN Header("update", d)
        ELSE t[CHOOSE i \in js : \A j \in js : j <= i]
  BY DEF SectionOf
<1>4. SectionOf(s, d) =
        IF is = {} THEN Header("update", d)
        ELSE s[CHOOSE i \in is : \A j \in is : j <= i]
  BY DEF SectionOf
<1>5. is # {} => \E i \in is : \A j \in is : j <= i
  BY LastHeader
<1> HIDE DEF t, is, js
<1>6. CASE l.kind = "header"
  <2>1. Len(s) + 1 \in js /\ \A j \in js : j <= Len(s) + 1
    BY <1>1, <1>2, <1>6
  <2>2. \A i \in js : (\A j \in js : j <= i) => i = Len(s) + 1
    <3> SUFFICES ASSUME NEW i \in js, \A j \in js : j <= i
                 PROVE  i = Len(s) + 1
      OBVIOUS
    <3>1. i \in 1..Len(s) \/ i = Len(s) + 1
      BY <1>2, <1>6
    <3>2. Len(s) + 1 <= i
      BY <2>1
    <3>3. i \in Nat /\ i <= Len(s) + 1
      BY <1>1, <3>1
    <3> QED
      BY <1>1, <3>2, <3>3
  <2>3. (CHOOSE i \in js : \A j \in js : j <= i) = Len(s) + 1
    BY <2>1, <2>2
  <2> QED
    BY <1>1, <1>3, <1>6, <2>1, <2>3 DEF t, js
<1>7. CASE l.kind # "header"
  <2>1. js = is
    BY <1>2, <1>7
  <2> DEFINE m == CHOOSE i \in is : \A j \in is : j <= i
  <2>2. is # {} => m \in is
    BY <1>5
  <2>3. is # {} => t[m] = s[m]
    BY <1>1, <1>2, <2>2
  <2>4. SectionOf(t, d) = IF is = {} THEN Header("update", d) ELSE t[m]
    BY <1>3, <2>1
  <2>5. SectionOf(s, d) = IF is = {} THEN Header("update", d) ELSE s[m]
    BY <1>4
  <2> HIDE DEF m
  <2>6. SectionOf(t, d) = SectionOf(s, d)
    BY <2>3, <2>4, <2>5
  <2> QED
    BY <1>7, <2>1, <2>6, Zenon DEF t, is, js
<1> QED
  BY <1>6, <1>7

\* What the parser has made of a text: p and m of the open section, its lines,
\* and the targets of those before it.
State(p, m, ls, ts) == [path |-> p, mode |-> m, lines |-> ls, targets |-> ts, ok |-> TRUE]
Broken(st) == \E p, m, ls, ts :
                st = [path |-> p, mode |-> m, lines |-> ls, targets |-> ts, ok |-> FALSE]

\* What a line does to it.
LEMMA LineRead ==
  ASSUME NEW p, NEW m, NEW ls, NEW ts, NEW l \in AllLines
  PROVE  /\ l.kind = "envelope" => ReadLine(State(p, m, ls, ts), l) = State(p, m, ls, ts)
         /\ l.kind = "header" =>
              ReadLine(State(p, m, ls, ts), l) = Opened(Flush(State(p, m, ls, ts)), l)
         /\ l.kind \notin {"envelope", "header"} =>
              ReadLine(State(p, m, ls, ts), l) = State(p, m, Append(ls, l), ts)
<1>1. State(p, m, ls, ts).ok = TRUE
  BY DEF State
<1>2. l.kind = "envelope" => ReadLine(State(p, m, ls, ts), l) = State(p, m, ls, ts)
  BY <1>1 DEF ReadLine
<1>3. l.kind = "header" =>
        ReadLine(State(p, m, ls, ts), l) = Opened(Flush(State(p, m, ls, ts)), l)
  BY <1>1 DEF ReadLine
<1>4. ASSUME l.kind \notin {"envelope", "header"}
      PROVE  ReadLine(State(p, m, ls, ts), l) = State(p, m, Append(ls, l), ts)
  <2>1. ReadLine(State(p, m, ls, ts), l) = [State(p, m, ls, ts) EXCEPT !.lines = Append(@, l)]
    BY <1>1, <1>4 DEF ReadLine
  <2> QED
    BY <2>1 DEF State
<1> QED
  BY <1>2, <1>3, <1>4

\* A text that has failed stays so.
LEMMA StaysBroken ==
  ASSUME NEW st, Broken(st), NEW l
  PROVE  ReadLine(st, l) = st
BY DEF Broken, ReadLine

\* Lines of an open section.
LEMMA LinesRead ==
  ASSUME NEW s \in Texts, NEW x \in Texts, At("header", x) = {}, At("envelope", x) = {},
         NEW d
  PROVE  /\ \A p, m, ts : \A ls \in Texts : PatchParsed(s) = State(p, m, ls, ts) =>
                            PatchParsed(Then(s, x)) = State(p, m, Then(ls, x), ts)
         /\ Broken(PatchParsed(s)) => Broken(PatchParsed(Then(s, x)))
         /\ At("header", Then(s, x)) = {} <=> At("header", s) = {}
         /\ SectionOf(Then(s, x), d) = SectionOf(s, d)
<1> DEFINE Lasts(t) ==
             /\ \A p, m, ts : \A ls \in Texts : PatchParsed(s) = State(p, m, ls, ts) =>
                               PatchParsed(Then(s, t)) = State(p, m, Then(ls, t), ts)
             /\ Broken(PatchParsed(s)) => Broken(PatchParsed(Then(s, t)))
             /\ At("header", Then(s, t)) = {} <=> At("header", s) = {}
             /\ SectionOf(Then(s, t), d) = SectionOf(s, d)
           G == {t \in Texts : At("header", t) = {} /\ At("envelope", t) = {} => Lasts(t)}
<1>1. <<>> \in G
  <2>1. <<>> \in Texts /\ \A t \in Texts : Then(t, <<>>) = t
    BY ThenIs DEF Texts
  <2>2. Lasts(<<>>)
    BY <2>1
  <2> QED
    BY <2>1, <2>2
<1>2. ASSUME NEW t \in Texts, NEW l \in AllLines, t \in G
      PROVE  Append(t, l) \in G
  <2>1. Append(t, l) \in Texts
    BY DEF Texts
  <2>2. ASSUME At("header", Append(t, l)) = {}, At("envelope", Append(t, l)) = {}
        PROVE  Lasts(Append(t, l))
    <3>1. /\ At("header", t) = {} /\ At("envelope", t) = {}
          /\ l.kind \notin {"envelope", "header"}
      BY <2>2, AtGrows
    <3>2. Lasts(t)
      BY <1>2, <3>1
    <3> DEFINE u == Then(s, t)
    <3>3. u \in Texts /\ Then(s, Append(t, l)) = Append(u, l)
      BY ThenIs, ThenGrows
    <3>4. PatchParsed(Append(u, l)) = ReadLine(PatchParsed(u), l)
      BY <3>3, ReadersGrow
    <3>5. ASSUME NEW p, NEW m, NEW ts, NEW ls \in Texts, PatchParsed(s) = State(p, m, ls, ts)
          PROVE  PatchParsed(Append(u, l)) = State(p, m, Then(ls, Append(t, l)), ts)
      <4>1. PatchParsed(u) = State(p, m, Then(ls, t), ts)
        BY <3>2, <3>5
      <4>2. PatchParsed(Append(u, l)) = State(p, m, Append(Then(ls, t), l), ts)
        BY <3>1, <3>4, <4>1, LineRead
      <4>3. Then(ls, Append(t, l)) = Append(Then(ls, t), l)
        BY ThenGrows
      <4> QED
        BY <4>2, <4>3
    <3>6. Broken(PatchParsed(s)) => Broken(PatchParsed(Append(u, l)))
      <4> SUFFICES ASSUME Broken(PatchParsed(s))
                   PROVE  Broken(PatchParsed(Append(u, l)))
        OBVIOUS
      <4>1. Broken(PatchParsed(u))
        BY <3>2
      <4>2. ReadLine(PatchParsed(u), l) = PatchParsed(u)
        BY <4>1, StaysBroken
      <4> QED
        BY <3>4, <4>1, <4>2
    <3>7. /\ At("header", Append(u, l)) = {} <=> At("header", s) = {}
          /\ SectionOf(Append(u, l), d) = SectionOf(s, d)
      <4>1. At("header", Append(u, l)) = At("header", u)
            /\ SectionOf(Append(u, l), d) = SectionOf(u, d)
        BY <3>1, <3>3, SectionGrows
      <4> QED
        BY <3>2, <4>1
    <3> HIDE DEF u
    <3> QED
      BY <3>3, <3>5, <3>6, <3>7
  <2> HIDE DEF Lasts
  <2> QED
    BY <2>1, <2>2
<1>3. Texts \subseteq G
  <2> HIDE DEF G
  <2> QED
    BY <1>1, <1>2, LineByLine
<1>4. Lasts(x)
  BY <1>3
<1> QED
  BY <1>4

-----------------------------------------------------------------------------
(* PatchTargets, as they are meant and as they are parsed *)

PatchModes == {"update", "add", "delete"}
PatchTargets == [path : PatchPaths, mode : PatchModes, blocks : Seq(PatchBlocks), newFile : Seq(AllWords)]

MeantAs(t) == [t EXCEPT !.newFile = Trimmed(@)]
MeantOf(w) == [n \in DOMAIN w |-> [w[n] EXCEPT !.newFile = Trimmed(@)]]
HollowAt(t) == t.mode = "update" /\ t.blocks = <<>>
HollowIn(w) == \E n \in DOMAIN w : w[n].mode = "update" /\ w[n].blocks = <<>>

\* One line end less is still a text.
LEMMA TrimmedIs ==
  ASSUME NEW x \in Seq(AllWords)
  PROVE  /\ Trimmed(x) \in Seq(AllWords) /\ Len(Trimmed(x)) <= Len(x)
         /\ \A i \in 1..Len(Trimmed(x)) : Trimmed(x)[i] = x[i]
         /\ Trimmed(<<>>) = <<>>
<1>1. Trimmed(<<>>) = <<>>
  BY DEF Trimmed
<1>2. CASE x # <<>> /\ x[Len(x)] = ""
  <2>1. Trimmed(x) = SubSeq(x, 1, Len(x) - 1)
    BY <1>2 DEF Trimmed
  <2>2. Len(x) \in Nat /\ Len(x) >= 1
    <3>1. x # <<>>
      BY <1>2
    <3> QED
      BY <3>1
  <2> QED
    BY <1>1, <2>1, <2>2
<1>3. CASE ~(x # <<>> /\ x[Len(x)] = "")
  <2>1. Trimmed(x) = x
    BY <1>3 DEF Trimmed
  <2> QED
    BY <1>1, <2>1
<1> QED
  BY <1>2, <1>3

\* What is meant by a target is a target.
LEMMA MeantAsIs ==
  ASSUME NEW t \in PatchTargets
  PROVE  /\ MeantAs(t) \in PatchTargets
         /\ MeantAs(t).path = t.path /\ MeantAs(t).mode = t.mode
         /\ MeantAs(t).blocks = t.blocks /\ MeantAs(t).newFile = Trimmed(t.newFile)
BY TrimmedIs DEF MeantAs, PatchTargets

\* What is meant by some targets are as many.
LEMMA MeantIs ==
  ASSUME NEW w \in Seq(PatchTargets)
  PROVE  /\ MeantOf(w) \in Seq(PatchTargets) /\ Len(MeantOf(w)) = Len(w)
         /\ \A n \in 1..Len(w) : MeantOf(w)[n] = MeantAs(w[n])
<1> DEFINE N == Len(w)
<1>1. N \in Nat /\ DOMAIN w = 1..N /\ \A n \in 1..N : w[n] \in PatchTargets
  OBVIOUS
<1>2. \A x : x \in PatchTargets => MeantAs(x) \in PatchTargets
  BY MeantAsIs
<1>3. MeantOf(w) = [n \in 1..N |-> MeantAs(w[n])]
  BY <1>1 DEF MeantOf, MeantAs
<1> HIDE DEF N
<1>4. MeantOf(w) \in [1..N -> PatchTargets]
  BY <1>1, <1>2, <1>3
<1>5. MeantOf(w) \in Seq(PatchTargets) /\ Len(MeantOf(w)) = N
  BY <1>1, <1>4
<1>6. \A n \in 1..N : MeantOf(w)[n] = MeantAs(w[n])
  BY <1>3
<1> QED
  BY <1>5, <1>6 DEF N

\* One more target.
LEMMA MeantGrows ==
  ASSUME NEW w \in Seq(PatchTargets), NEW t \in PatchTargets
  PROVE  /\ MeantOf(Append(w, t)) = Append(MeantOf(w), MeantAs(t))
         /\ HollowIn(Append(w, t)) <=> HollowIn(w) \/ HollowAt(t)
<1> DEFINE v == Append(w, t)
           N == Len(w)
<1>1. /\ N \in Nat /\ DOMAIN w = 1..N /\ v \in Seq(PatchTargets) /\ DOMAIN v = 1..N + 1
      /\ v[N + 1] = t /\ \A n \in 1..N : v[n] = w[n] /\ w[n] \in PatchTargets
  OBVIOUS
<1>2. \A x : x \in PatchTargets => MeantAs(x) \in PatchTargets
  BY MeantAsIs
<1>3. /\ MeantOf(w) \in Seq(PatchTargets) /\ Len(MeantOf(w)) = N
      /\ \A n \in 1..N : MeantOf(w)[n] = MeantAs(w[n])
  BY MeantIs
<1>4. MeantOf(v) = [n \in 1..N + 1 |-> MeantAs(v[n])]
  BY <1>1 DEF MeantOf, MeantAs
<1> HIDE DEF v, N
<1> DEFINE a == Append(MeantOf(w), MeantAs(t))
           m == MeantOf(v)
<1>8. \A n \in 1..N + 1 : n \in 1..N \/ n = N + 1
  BY <1>1
<1>9. /\ a \in Seq(PatchTargets) /\ Len(a) = N + 1 /\ a[N + 1] = MeantAs(t)
      /\ \A n \in 1..N : a[n] = MeantOf(w)[n]
  <2>1. MeantAs(t) \in PatchTargets
    BY <1>2
  <2> QED
    BY <1>3, <2>1
<1>10. \A n \in 1..N + 1 : m[n] = MeantAs(v[n])
  BY <1>4
<1> HIDE DEF a, m
<1>11. \A n \in 1..N + 1 : a[n] = m[n]
  BY <1>1, <1>3, <1>8, <1>9, <1>10
<1>12. a = [n \in 1..N + 1 |-> a[n]]
  <2>1. a \in [1..N + 1 -> PatchTargets]
    BY <1>1, <1>9
  <2> QED
    BY <2>1
<1>13. m = [n \in 1..N + 1 |-> m[n]]
  BY <1>4 DEF m
<1>14. a = m
  BY <1>11, <1>12, <1>13
<1>15. HollowIn(v) <=> HollowIn(w) \/ HollowAt(t)
  BY <1>1, <1>8 DEF HollowIn, HollowAt
<1> QED
  BY <1>14, <1>15 DEF v, a, m

\* No target means none.
LEMMA NoneMeant == MeantOf(<<>>) = <<>> /\ ~HollowIn(<<>>) /\ <<>> \in Seq(PatchTargets)
<1>1. DOMAIN <<>> = {}
  OBVIOUS
<1>2. ~HollowIn(<<>>)
  BY <1>1 DEF HollowIn
<1>3. MeantOf(<<>>) = <<>>
  BY DEF MeantOf
<1> QED
  BY <1>2, <1>3

\* The target that is being written, from the lines of its section.
OpenTarget(sec, ls) ==
  PatchTarget(sec.word, sec.mode,
    IF sec.mode = "update" THEN ParseBlocks(ls) ELSE <<>>,
    IF sec.mode = "add" THEN Added(ls) ELSE <<>>)

\* A section has a mode, and a path or none.
IsSection(sec) == sec.mode \in PatchModes /\ sec.word \in PatchPaths \cup {NoPath}

\* A state with other targets.
WithTargets(st, a) == [st EXCEPT !.targets = a]

\* It is one.
LEMMA OtherTargets ==
  ASSUME NEW p, NEW m, NEW ls, NEW ts, NEW a
  PROVE  WithTargets(State(p, m, ls, ts), a) = State(p, m, ls, a)
<1> DEFINE S(x, o) == [path |-> p, mode |-> m, lines |-> ls, targets |-> x, ok |-> o]
<1>1. \A o : [S(ts, o) EXCEPT !.targets = a] = S(a, o)
  OBVIOUS
<1>2. State(p, m, ls, ts) = S(ts, TRUE) /\ State(p, m, ls, a) = S(a, TRUE)
  BY DEF State
<1> HIDE DEF S
<1> QED
  BY <1>1, <1>2, Zenon DEF WithTargets

\* Without a path nothing becomes a target.
LEMMA NoPathFlushed ==
  ASSUME NEW m, NEW ls, NEW ts
  PROVE  Flush(State(NoPath, m, ls, ts)) = State(NoPath, m, ls, ts)
BY DEF Flush, State

\* With one the open section does, as it is meant, or it breaks the patch.
LEMMA SectionFlushed ==
  ASSUME NEW sec, IsSection(sec), sec.word # NoPath, NEW ls \in Texts,
         sec.mode = "update" => AllWhole(ls), NEW ts
  PROVE  /\ OpenTarget(sec, ls) \in PatchTargets
         /\ HollowAt(OpenTarget(sec, ls)) => Broken(Flush(State(sec.word, sec.mode, ls, ts)))
         /\ ~HollowAt(OpenTarget(sec, ls)) =>
              Flush(State(sec.word, sec.mode, ls, ts)) =
                State(sec.word, sec.mode, ls, Append(ts, MeantAs(OpenTarget(sec, ls))))
<1> DEFINE p == sec.word
           m == sec.mode
           o == OpenTarget(sec, ls)
           bs == IF m = "update" THEN ParseBlocks(ls) ELSE <<>>
           ws == IF m = "add" THEN Added(ls) ELSE <<>>
           st == State(p, m, ls, ts)
<1>1. m \in PatchModes /\ p \in PatchPaths /\ p # NoPath
  BY DEF IsSection
<1>2. /\ o = [path |-> p, mode |-> m, blocks |-> bs, newFile |-> ws]
      /\ st.path = p /\ st.mode = m /\ st.lines = ls /\ st.targets = ts
      /\ st = [path |-> p, mode |-> m, lines |-> ls, targets |-> ts, ok |-> TRUE]
  BY DEF OpenTarget, PatchTarget, State
<1>3. m = "update" => /\ ParseBlocks(ls) \in Seq(PatchBlocks)
                      /\ BlocksOk(ls) = (ParseBlocks(ls) # <<>>)
  BY BlocksType
<1>4. bs \in Seq(PatchBlocks)
  BY <1>3
<1>5. ws \in Seq(AllWords)
  BY PartsType
<1>6. Trimmed(ws) = IF m = "add" THEN AddContent(ls) ELSE <<>>
  BY <1>5, TrimmedIs DEF AddContent
<1>7. Flush(st) = IF m = "update" /\ ~BlocksOk(ls) THEN [st EXCEPT !.ok = FALSE]
                  ELSE [st EXCEPT !.targets = Append(ts, PatchTarget(p, m, bs,
                          IF m = "add" THEN AddContent(ls) ELSE <<>>))]
  BY <1>1, <1>2 DEF Flush
<1>8. HollowAt(o) <=> m = "update" /\ ~BlocksOk(ls)
  <2>1. HollowAt(o) <=> m = "update" /\ bs = <<>>
    BY <1>2 DEF HollowAt
  <2> QED
    BY <1>3, <2>1
<1>9. MeantAs(o) = [path |-> p, mode |-> m, blocks |-> bs, newFile |-> Trimmed(ws)]
  BY <1>2 DEF MeantAs
<1> HIDE DEF o, bs, ws, st, p, m
<1>10. o \in PatchTargets
  BY <1>1, <1>2, <1>4, <1>5 DEF PatchTargets
<1>11. HollowAt(o) => Broken(Flush(st))
  <2> SUFFICES ASSUME HollowAt(o)
               PROVE  Broken(Flush(st))
    OBVIOUS
  <2>1. Flush(st) = [st EXCEPT !.ok = FALSE]
    BY <1>7, <1>8
  <2>2. Flush(st) = [path |-> p, mode |-> m, lines |-> ls, targets |-> ts, ok |-> FALSE]
    BY <1>2, <2>1
  <2> QED
    BY <2>2 DEF Broken
<1>12. ~HollowAt(o) => Flush(st) = State(p, m, ls, Append(ts, MeantAs(o)))
  <2> SUFFICES ASSUME ~HollowAt(o)
               PROVE  Flush(st) = State(p, m, ls, Append(ts, MeantAs(o)))
    OBVIOUS
  <2>1. Flush(st) = [st EXCEPT !.targets = Append(ts, PatchTarget(p, m, bs, Trimmed(ws)))]
    BY <1>6, <1>7, <1>8
  <2>2. PatchTarget(p, m, bs, Trimmed(ws)) = MeantAs(o)
    BY <1>9 DEF PatchTarget
  <2>3. \A a : WithTargets(st, a) = State(p, m, ls, a)
    BY OtherTargets, Zenon DEF st
  <2>4. Flush(st) = WithTargets(st, Append(ts, MeantAs(o)))
    BY <2>1, <2>2, Zenon DEF WithTargets
  <2> QED
    BY <2>3, <2>4, Zenon
<1> QED
  BY <1>10, <1>11, <1>12 DEF o, st, p, m

-----------------------------------------------------------------------------
(* What is understood of a text so far *)

HeaderPaths == PatchPaths \cup {NoPath}

\* The targets cs of the sections before, and the one of the open section.
WithOpen(cs, sec, ls) ==
  IF sec.word = NoPath THEN cs ELSE Append(cs, OpenTarget(sec, ls))

\* What is meant without a header: the blocks are for the path of the call.
TargetOf(s, d) == PatchTarget(d, "update", ParseBlocks(s), <<>>)

HeadlessOk(s, w, d) ==
  /\ \E ls \in Texts : PatchParsed(s) = State(NoPath, "", ls, <<>>)
  /\ AllWhole(s)
  /\ (At("search", s) = {}) <=> (Parts(s) = <<>>)
  /\ w = IF d = NoPath \/ Parts(s) = <<>> THEN <<>>
         ELSE Append(<<>>, TargetOf(s, d))

\* An update without a block is behind us: the patch is refused, and it should.
PatchRefused(s, w, sec) ==
  /\ Broken(PatchParsed(s))
  /\ \E cs \in Seq(PatchTargets) :
       /\ HollowIn(cs)
       /\ IF sec.word = NoPath THEN w = cs ELSE \E o \in PatchTargets : w = Append(cs, o)

\* The targets of the sections before are those that are meant, and so is the
\* one that the lines of the open section say.
PatchFollowed(s, w, sec) ==
  \E cs \in Seq(PatchTargets), ls \in Texts :
    /\ ~HollowIn(cs)
    /\ PatchParsed(s) = State(sec.word, sec.mode, ls, MeantOf(cs))
    /\ sec.mode = "update" => AllWhole(ls)
    /\ w = WithOpen(cs, sec, ls)

Understood(s, w, d) ==
  IF At("header", s) = {} THEN HeadlessOk(s, w, d)
  ELSE /\ IsSection(SectionOf(s, d))
       /\ PatchRefused(s, w, SectionOf(s, d)) \/ PatchFollowed(s, w, SectionOf(s, d))

\* The target of a text without headers.
LEMMA HeadlessTarget ==
  ASSUME NEW s \in Texts, AllWhole(s), NEW d \in HeaderPaths, d # NoPath
  PROVE  /\ TargetOf(s, d) \in PatchTargets /\ MeantAs(TargetOf(s, d)) = TargetOf(s, d)
         /\ HollowAt(TargetOf(s, d)) <=> Parts(s) = <<>>
<1> DEFINE t == TargetOf(s, d)
           bs == ParseBlocks(s)
<1>1. bs \in Seq(PatchBlocks) /\ (bs = <<>>) = (Parts(s) = <<>>)
  BY BlocksType
<1>2. t = [path |-> d, mode |-> "update", blocks |-> bs, newFile |-> <<>>]
  BY DEF PatchTarget, TargetOf
<1>3. d \in PatchPaths /\ <<>> \in Seq(AllWords) /\ "update" \in PatchModes
  BY DEF HeaderPaths, PatchModes
<1> HIDE DEF bs, t
<1>4. t \in PatchTargets
  BY <1>1, <1>2, <1>3 DEF PatchTargets
<1>5. MeantAs(t) = t
  <2>1. Trimmed(<<>>) = <<>>
    BY DEF Trimmed
  <2> QED
    BY <1>2, <2>1 DEF MeantAs
<1>6. HollowAt(t) <=> Parts(s) = <<>>
  BY <1>1, <1>2 DEF HollowAt
<1> QED
  BY <1>4, <1>5, <1>6 DEF t

\* What is meant are targets.
LEMMA WantedType ==
  ASSUME NEW s \in Texts, NEW w, NEW d \in HeaderPaths, Understood(s, w, d)
  PROVE  w \in Seq(PatchTargets)
<1>1. CASE At("header", s) = {}
  <2>1. HeadlessOk(s, w, d)
    BY <1>1 DEF Understood
  <2>2. CASE d = NoPath \/ Parts(s) = <<>>
    BY <2>1, <2>2, NoneMeant DEF HeadlessOk
  <2>3. CASE ~(d = NoPath \/ Parts(s) = <<>>)
    <3> DEFINE t == TargetOf(s, d)
    <3>1. w = Append(<<>>, t) /\ AllWhole(s)
      BY <2>1, <2>3 DEF HeadlessOk
    <3>2. t \in PatchTargets
      BY <2>3, <3>1, HeadlessTarget
    <3> HIDE DEF t
    <3> QED
      BY <3>1, <3>2
  <2> QED
    BY <2>2, <2>3
<1>2. CASE At("header", s) # {}
  <2> DEFINE sec == SectionOf(s, d)
  <2>1. IsSection(sec) /\ (PatchRefused(s, w, sec) \/ PatchFollowed(s, w, sec))
    BY <1>2 DEF Understood
  <2> HIDE DEF sec
  <2>2. CASE PatchRefused(s, w, sec)
    BY <2>2 DEF PatchRefused
  <2>3. CASE PatchFollowed(s, w, sec)
    <3>1. PICK cs \in Seq(PatchTargets), ls \in Texts :
            (sec.mode = "update" => AllWhole(ls)) /\ w = WithOpen(cs, sec, ls)
      BY <2>3 DEF PatchFollowed
    <3>2. CASE sec.word = NoPath
      BY <3>1, <3>2 DEF WithOpen
    <3>3. CASE sec.word # NoPath
      <4>1. OpenTarget(sec, ls) \in PatchTargets
        BY <2>1, <3>1, <3>3, SectionFlushed
      <4> QED
        BY <3>1, <3>3, <4>1 DEF WithOpen
    <3> QED
      BY <3>2, <3>3
  <2> QED
    BY <2>1, <2>2, <2>3
<1> QED
  BY <1>1, <1>2

\* A broken patch is not repaired by its end.
LEMMA StaysUnflushed ==
  ASSUME NEW st, Broken(st)
  PROVE  ~Flush(st).ok
<1>1. PICK p, m, ls, ts :
        st = [path |-> p, mode |-> m, lines |-> ls, targets |-> ts, ok |-> FALSE]
  BY DEF Broken
<1>2. ~st.ok /\ \A a : ~[st EXCEPT !.targets = a].ok /\ ~[st EXCEPT !.ok = FALSE].ok
  BY <1>1
<1> QED
  BY <1>2 DEF Flush

\* From there the parser reads what is meant.
LEMMA RoundTripFrom ==
  ASSUME NEW s \in Texts, NEW w, NEW d \in HeaderPaths, Understood(s, w, d)
  PROVE  ParsePatchTargets(d, s) =
           IF w = <<>> \/ HollowIn(w) THEN Failed ELSE Done(MeantOf(w))
<1>1. CASE At("header", s) = {}
  <2>1. HeadlessOk(s, w, d)
    BY <1>1 DEF Understood
  <2> DEFINE t == TargetOf(s, d)
  <2>2. ParsePatchTargets(d, s) =
          IF d # NoPath /\ BlocksOk(s) THEN Done(<<t>>) ELSE Failed
    BY <1>1 DEF ParsePatchTargets, TargetOf
  <2>3. BlocksOk(s) = (Parts(s) # <<>>) /\ AllWhole(s)
    BY <2>1, BlocksType DEF HeadlessOk
  <2>4. CASE d = NoPath \/ Parts(s) = <<>>
    <3>1. w = <<>>
      BY <2>1, <2>4 DEF HeadlessOk
    <3> QED
      BY <2>2, <2>3, <2>4, <3>1
  <2>5. CASE ~(d = NoPath \/ Parts(s) = <<>>)
    <3>1. w = Append(<<>>, t)
      BY <2>1, <2>5 DEF HeadlessOk
    <3>2. t \in PatchTargets /\ MeantAs(t) = t /\ ~HollowAt(t)
      BY <2>3, <2>5, HeadlessTarget
    <3> HIDE DEF t
    <3>3. /\ MeantOf(Append(<<>>, t)) = Append(MeantOf(<<>>), MeantAs(t))
          /\ HollowIn(Append(<<>>, t)) <=> HollowIn(<<>>) \/ HollowAt(t)
      BY <3>2, NoneMeant, MeantGrows
    <3>4. MeantOf(w) = Append(<<>>, t) /\ ~HollowIn(w)
      BY <3>1, <3>2, <3>3, NoneMeant
    <3>5. Append(<<>>, t) = <<t>> /\ Append(<<>>, t) # <<>>
      OBVIOUS
    <3>6. ParsePatchTargets(d, s) = Done(<<t>>)
      BY <2>2, <2>3, <2>5
    <3> QED
      BY <3>1, <3>4, <3>5, <3>6, Zenon
  <2> QED
    BY <2>4, <2>5
<1>2. CASE At("header", s) # {}
  <2> DEFINE sec == SectionOf(s, d)
             st == PatchParsed(s)
             fl == Flush(st)
  <2>1. IsSection(sec) /\ (PatchRefused(s, w, sec) \/ PatchFollowed(s, w, sec))
    BY <1>2 DEF Understood
  <2>2. ParsePatchTargets(d, s) =
          IF fl.ok /\ fl.targets # <<>> THEN Done(fl.targets) ELSE Failed
    BY <1>2 DEF ParsePatchTargets, PatchParsed
  <2> HIDE DEF sec, st, fl
  <2>3. CASE PatchRefused(s, w, sec)
    <3>1. ~fl.ok
      BY <2>3, StaysUnflushed DEF PatchRefused, fl, st
    <3>2. PICK cs \in Seq(PatchTargets) :
            HollowIn(cs) /\ (w = cs \/ \E o \in PatchTargets : w = Append(cs, o))
      BY <2>3, Zenon DEF PatchRefused
    <3>3. HollowIn(w)
      BY <3>2, MeantGrows
    <3> QED
      BY <2>2, <3>1, <3>3
  <2>4. CASE PatchFollowed(s, w, sec)
    <3>1. PICK cs \in Seq(PatchTargets), ls \in Texts :
            /\ ~HollowIn(cs) /\ st = State(sec.word, sec.mode, ls, MeantOf(cs))
            /\ sec.mode = "update" => AllWhole(ls)
            /\ w = WithOpen(cs, sec, ls)
      BY <2>4 DEF PatchFollowed, st
    <3>2. CASE sec.word = NoPath
      <4>1. w = cs /\ fl = State(sec.word, sec.mode, ls, MeantOf(cs))
        BY <3>1, <3>2, NoPathFlushed DEF WithOpen, fl
      <4>2. fl.ok /\ fl.targets = MeantOf(cs)
        BY <4>1 DEF State
      <4>3. MeantOf(cs) = <<>> <=> cs = <<>>
        <5>1. MeantOf(cs) \in Seq(PatchTargets) /\ Len(MeantOf(cs)) = Len(cs)
          BY MeantIs
        <5>2. \A x \in Seq(PatchTargets) : x = <<>> <=> Len(x) = 0
          OBVIOUS
        <5> QED
          BY <5>1, <5>2, Zenon
      <4> QED
        BY <2>2, <3>1, <4>1, <4>2, <4>3
    <3>3. CASE sec.word # NoPath
      <4> DEFINE o == OpenTarget(sec, ls)
      <4>1. /\ o \in PatchTargets
            /\ HollowAt(o) => Broken(fl)
            /\ ~HollowAt(o) =>
                 fl = State(sec.word, sec.mode, ls, Append(MeantOf(cs), MeantAs(o)))
        BY <2>1, <3>1, <3>3, SectionFlushed DEF fl
      <4>2. w = Append(cs, o)
        BY <3>1, <3>3 DEF WithOpen
      <4> HIDE DEF o
      <4>3. /\ MeantOf(w) = Append(MeantOf(cs), MeantAs(o))
            /\ HollowIn(w) <=> HollowAt(o)
            /\ MeantOf(cs) \in Seq(PatchTargets) /\ MeantAs(o) \in PatchTargets
        BY <3>1, <4>1, <4>2, MeantIs, MeantGrows, MeantAsIs
      <4>4. w # <<>> /\ Append(MeantOf(cs), MeantAs(o)) # <<>>
        BY <4>1, <4>2, <4>3
      <4>5. CASE HollowAt(o)
        <5>1. ~fl.ok
          BY <4>1, <4>5 DEF Broken
        <5> QED
          BY <2>2, <4>3, <4>5, <5>1
      <4>6. CASE ~HollowAt(o)
        <5>1. fl.ok /\ fl.targets = MeantOf(w)
          BY <4>1, <4>3, <4>6 DEF State
        <5> QED
          BY <2>2, <4>3, <4>4, <4>6, <5>1
      <4> QED
        BY <4>5, <4>6
    <3> QED
      BY <3>2, <3>3
  <2> QED
    BY <2>1, <2>3, <2>4
<1> QED
  BY <1>1, <1>2

-----------------------------------------------------------------------------
(* One more header, line or block *)

\* A state, whether it has failed or not.
AnyState(a, b, c, t, o) == [path |-> a, mode |-> b, lines |-> c, targets |-> t, ok |-> o]

\* A header puts a new section in the place of the open one of a state.
OpensSection(a, b, c, t, o, h) ==
  Opened(AnyState(a, b, c, t, o), h) = AnyState(h.word, h.mode, <<>>, t, o)

\* It does, whether it has failed or not.
LEMMA OpenedAny ==
  ASSUME NEW a, NEW b, NEW c, NEW t, NEW o, NEW h
  PROVE  OpensSection(a, b, c, t, o, h)
<1> DEFINE st == AnyState(a, b, c, t, o)
<1>1. st = [path |-> a, mode |-> b, lines |-> c, targets |-> t, ok |-> o]
  BY DEF AnyState
<1> HIDE DEF st
<1>2. Opened(st, h) = [f \in DOMAIN st |->
        IF f = "lines" THEN <<>> ELSE IF f = "mode" THEN h.mode
        ELSE IF f = "path" THEN h.word ELSE st[f]]
  BY DEF Opened
<1>3. Opened(st, h) = AnyState(h.word, h.mode, <<>>, t, o)
  BY <1>1, <1>2 DEF AnyState
<1> QED
  BY <1>3 DEF OpensSection, st

\* So it does for the states of the parser.
LEMMA OpenedIs ==
  ASSUME NEW p, NEW m, NEW ls, NEW ts, NEW h
  PROVE  /\ Opened(State(p, m, ls, ts), h) = State(h.word, h.mode, <<>>, ts)
         /\ \A st : Broken(st) => Broken(Opened(st, h))
<1>1. State(p, m, ls, ts) = AnyState(p, m, ls, ts, TRUE)
      /\ State(h.word, h.mode, <<>>, ts) = AnyState(h.word, h.mode, <<>>, ts, TRUE)
  BY DEF State, AnyState
<1>2. Opened(AnyState(p, m, ls, ts, TRUE), h) = AnyState(h.word, h.mode, <<>>, ts, TRUE)
  <2>1. OpensSection(p, m, ls, ts, TRUE, h)
    BY OpenedAny, Zenon
  <2> QED
    BY <2>1, Zenon DEF OpensSection
<1>3. ASSUME NEW st, Broken(st)
      PROVE  Broken(Opened(st, h))
  <2>1. PICK a, b, c, t : st = AnyState(a, b, c, t, FALSE)
    BY <1>3 DEF Broken, AnyState
  <2>2. Opened(AnyState(a, b, c, t, FALSE), h) = AnyState(h.word, h.mode, <<>>, t, FALSE)
    <3>1. OpensSection(a, b, c, t, FALSE, h)
      BY OpenedAny, Zenon
    <3> QED
      BY <3>1, Zenon DEF OpensSection
  <2>3. Opened(st, h) = AnyState(h.word, h.mode, <<>>, t, FALSE)
    BY <2>1, <2>2, Zenon
  <2> QED
    BY <2>3 DEF Broken, AnyState
<1> QED
  BY <1>1, <1>2, <1>3

\* A header begins a target, unless it has no path.
HeaderWants(w, mode, path) ==
  IF path = NoPath THEN w ELSE Append(w, PatchTarget(path, mode, <<>>, <<>>))

LEMMA HeaderUnderstood ==
  ASSUME NEW s \in Texts, NEW w, NEW d \in HeaderPaths, Understood(s, w, d),
         NEW mode \in PatchModes, NEW path \in HeaderPaths,
         At("search", s) = {} \/ At("header", s) # {}
  PROVE  Understood(Append(s, Header(mode, path)), HeaderWants(w, mode, path), d)
<1> DEFINE h == Header(mode, path)
           t == Append(s, h)
           v == HeaderWants(w, mode, path)
<1>1. h \in AllLines /\ h.kind = "header" /\ h.mode = mode /\ h.word = path
  BY DEF Header, Line, AllLines, PatchModes, HeaderPaths
<1> HIDE DEF h
<1>2. /\ t \in Texts /\ At("header", t) # {} /\ SectionOf(t, d) = h
      /\ PatchParsed(t) = ReadLine(PatchParsed(s), h)
  BY <1>1, SectionGrows, ReadersGrow DEF Texts
<1>3. w \in Seq(PatchTargets)
  BY WantedType
<1>4. IsSection(h)
  BY <1>1 DEF IsSection, HeaderPaths
<1>5. \/ ~HollowIn(w) /\ PatchParsed(t) = State(path, mode, <<>>, MeantOf(w))
      \/ HollowIn(w) /\ Broken(PatchParsed(t))
  <2>1. CASE At("header", s) = {}
    <3>1. HeadlessOk(s, w, d)
      BY <2>1 DEF Understood
    <3>2. PICK ls \in Texts : PatchParsed(s) = State(NoPath, "", ls, <<>>)
      BY <3>1 DEF HeadlessOk
    <3>3. w = <<>>
      BY <2>1, <3>1 DEF HeadlessOk
    <3> DEFINE st == State(NoPath, "", ls, <<>>)
    <3>4. Flush(st) = st
      BY NoPathFlushed
    <3>5. ReadLine(st, h) = Opened(Flush(st), h)
      <4>1. \A p, m, xs, ts : ReadLine(State(p, m, xs, ts), h) = Opened(Flush(State(p, m, xs, ts)), h)
        BY <1>1, LineRead
      <4> QED
        BY <4>1, Zenon
    <3>6. Opened(st, h) = State(path, mode, <<>>, <<>>)
      <4>1. \A p, m, xs, ts : Opened(State(p, m, xs, ts), h) = State(h.word, h.mode, <<>>, ts)
        BY OpenedIs
      <4>2. Opened(st, h) = State(h.word, h.mode, <<>>, <<>>)
        BY <4>1, Zenon
      <4> QED
        BY <1>1, <4>2, Zenon
    <3>7. PatchParsed(t) = State(path, mode, <<>>, <<>>)
      <4>1. PatchParsed(t) = ReadLine(st, h)
        BY <1>2, <3>2, Zenon
      <4> QED
        BY <3>4, <3>5, <3>6, <4>1, Zenon
    <3> HIDE DEF st
    <3> QED
      BY <3>3, <3>7, NoneMeant
  <2>2. CASE At("header", s) # {}
    <3> DEFINE sec == SectionOf(s, d)
    <3>1. IsSection(sec) /\ (PatchRefused(s, w, sec) \/ PatchFollowed(s, w, sec))
      BY <2>2 DEF Understood
    <3> HIDE DEF sec
    <3>2. CASE PatchRefused(s, w, sec)
      <4>1. Broken(PatchParsed(s))
        BY <3>2 DEF PatchRefused
      <4>2. Broken(PatchParsed(t))
        BY <1>2, <4>1, StaysBroken
      <4>3. PICK cs \in Seq(PatchTargets) :
              HollowIn(cs) /\ (w = cs \/ \E o \in PatchTargets : w = Append(cs, o))
        BY <3>2 DEF PatchRefused
      <4>4. HollowIn(w)
        BY <4>3, MeantGrows
      <4> QED
        BY <4>2, <4>4
    <3>3. CASE PatchFollowed(s, w, sec)
      <4>1. PICK cs \in Seq(PatchTargets), ls \in Texts :
              /\ ~HollowIn(cs) /\ PatchParsed(s) = State(sec.word, sec.mode, ls, MeantOf(cs))
              /\ sec.mode = "update" => AllWhole(ls)
              /\ w = WithOpen(cs, sec, ls)
        BY <3>3 DEF PatchFollowed
      <4> DEFINE fl == Flush(State(sec.word, sec.mode, ls, MeantOf(cs)))
      <4>2. PatchParsed(t) = Opened(fl, h)
        BY <1>1, <1>2, <4>1, LineRead
      <4>3. CASE sec.word = NoPath
        <5>1. w = cs /\ fl = State(sec.word, sec.mode, ls, MeantOf(cs))
          BY <4>1, <4>3, NoPathFlushed DEF WithOpen
        <5> HIDE DEF fl
        <5>2. PatchParsed(t) = State(path, mode, <<>>, MeantOf(cs))
          BY <1>1, <4>2, <5>1, OpenedIs
        <5> QED
          BY <4>1, <5>1, <5>2
      <4>4. CASE sec.word # NoPath
        <5> DEFINE o == OpenTarget(sec, ls)
        <5>1. /\ o \in PatchTargets
              /\ HollowAt(o) => Broken(fl)
              /\ ~HollowAt(o) =>
                   fl = State(sec.word, sec.mode, ls, Append(MeantOf(cs), MeantAs(o)))
          BY <3>1, <4>1, <4>4, SectionFlushed
        <5>2. w = Append(cs, o)
          BY <4>1, <4>4 DEF WithOpen
        <5> HIDE DEF o, fl
        <5>3. /\ MeantOf(w) = Append(MeantOf(cs), MeantAs(o))
              /\ HollowIn(w) <=> HollowAt(o)
          BY <4>1, <5>1, <5>2, MeantGrows
        <5>4. CASE HollowAt(o)
          BY <4>2, <5>1, <5>3, <5>4, OpenedIs
        <5>5. CASE ~HollowAt(o)
          <6>1. fl = State(sec.word, sec.mode, ls, MeantOf(w))
            BY <5>1, <5>3, <5>5
          <6>2. PatchParsed(t) = State(path, mode, <<>>, MeantOf(w))
            BY <1>1, <4>2, <6>1, OpenedIs
          <6> QED
            BY <5>3, <5>5, <6>2
        <5> QED
          BY <5>4, <5>5
      <4> QED
        BY <4>3, <4>4
    <3> QED
      BY <3>1, <3>2, <3>3
  <2> QED
    BY <2>1, <2>2
<1>6. ASSUME ~HollowIn(w), PatchParsed(t) = State(path, mode, <<>>, MeantOf(w))
      PROVE  PatchFollowed(t, v, h)
  <2>1. <<>> \in Texts /\ AllWhole(<<>>)
    BY ReadersBegin DEF Texts, AllWhole
  <2>2. OpenTarget(h, <<>>) = PatchTarget(path, mode, <<>>, <<>>)
    <3>1. Added(<<>>) = <<>>
      BY ReadersBegin
    <3>2. ParseBlocks(<<>>) = <<>>
      BY <2>1, ReadersBegin, BlocksType
    <3> QED
      BY <1>1, <3>1, <3>2 DEF OpenTarget
  <2>3. v = WithOpen(w, h, <<>>)
    BY <1>1, <2>2 DEF HeaderWants, WithOpen
  <2>4. PatchParsed(t) = State(h.word, h.mode, <<>>, MeantOf(w))
    BY <1>1, <1>6
  <2> HIDE DEF t, v
  <2> QED
    BY <1>3, <1>6, <2>1, <2>3, <2>4 DEF PatchFollowed
<1>7. ASSUME HollowIn(w), Broken(PatchParsed(t))
      PROVE  PatchRefused(t, v, h)
  <2>1. CASE path = NoPath
    <3>1. v = w
      BY <2>1 DEF HeaderWants
    <3> HIDE DEF v, t
    <3> QED
      BY <1>1, <1>3, <1>7, <2>1, <3>1 DEF PatchRefused
  <2>2. CASE path # NoPath
    <3> DEFINE o == PatchTarget(path, mode, <<>>, <<>>)
    <3>1. v = Append(w, o)
      BY <2>2 DEF HeaderWants
    <3>2. o \in PatchTargets
      BY <2>2 DEF PatchTarget, PatchTargets, HeaderPaths
    <3> HIDE DEF o, v
    <3> QED
      BY <1>1, <1>3, <1>7, <2>2, <3>1, <3>2 DEF PatchRefused
  <2> QED
    BY <2>1, <2>2
<1> HIDE DEF t, v
<1>8. Understood(t, v, d)
  BY <1>2, <1>4, <1>5, <1>6, <1>7 DEF Understood
<1> QED
  BY <1>8 DEF t, v, h

\* Noise: the envelope, or a line of text that no section takes for its own.
LEMMA NoiseUnderstood ==
  ASSUME NEW s \in Texts, NEW w, NEW d \in HeaderPaths, Understood(s, w, d),
         NEW l \in AllLines, l.kind \in {"envelope", "text"},
         l = Blank => SectionOf(s, d).mode # "add"
  PROVE  Understood(Append(s, l), w, d)
<1> DEFINE t == Append(s, l)
<1>1. /\ t \in Texts /\ At("header", t) = At("header", s)
      /\ SectionOf(t, d) = SectionOf(s, d)
      /\ PatchParsed(t) = ReadLine(PatchParsed(s), l)
      /\ At("search", t) = At("search", s)
  BY SectionGrows, ReadersGrow, AtGrows DEF Texts
<1>2. \A p, m, ls, ts :
        /\ l.kind = "envelope" => ReadLine(State(p, m, ls, ts), l) = State(p, m, ls, ts)
        /\ l.kind = "text" => ReadLine(State(p, m, ls, ts), l) = State(p, m, Append(ls, l), ts)
  BY LineRead
<1>3. \A ls \in Texts : Append(ls, l) \in Texts
  BY DEF Texts
<1> HIDE DEF t
<1>4. CASE At("header", s) = {}
  <2>1. HeadlessOk(s, w, d)
    BY <1>4 DEF Understood
  <2>2. PICK ls \in Texts : PatchParsed(s) = State(NoPath, "", ls, <<>>)
    BY <2>1 DEF HeadlessOk
  <2>3. \E ms \in Texts : PatchParsed(t) = State(NoPath, "", ms, <<>>)
    <3> DEFINE st == State(NoPath, "", ls, <<>>)
               su == State(NoPath, "", Append(ls, l), <<>>)
    <3>1. PatchParsed(t) = ReadLine(st, l)
      BY <1>1, <2>2, Zenon
    <3>2. ReadLine(st, l) = st \/ ReadLine(st, l) = su
      BY <1>2
    <3>3. Append(ls, l) \in Texts
      BY <1>3
    <3> HIDE DEF t
    <3> QED
      BY <3>1, <3>2, <3>3, Zenon
  <2>4. /\ AllWhole(t) /\ ParseBlocks(t) = ParseBlocks(s)
        /\ (Parts(t) = <<>>) = (Parts(s) = <<>>)
    BY <2>1, BlocksStay DEF HeadlessOk, t
  <2>5. TargetOf(t, d) = TargetOf(s, d)
    BY <2>4 DEF TargetOf
  <2>6. w = IF d = NoPath \/ Parts(t) = <<>> THEN <<>> ELSE Append(<<>>, TargetOf(t, d))
    <3>1. w = IF d = NoPath \/ Parts(s) = <<>> THEN <<>> ELSE Append(<<>>, TargetOf(s, d))
      BY <2>1 DEF HeadlessOk
    <3> QED
      BY <2>4, <2>5, <3>1
  <2>7. (At("search", t) = {}) <=> (Parts(t) = <<>>)
    BY <1>1, <2>1, <2>4 DEF HeadlessOk
  <2>8. HeadlessOk(t, w, d)
    BY <2>3, <2>4, <2>6, <2>7, Zenon DEF HeadlessOk
  <2> QED
    BY <1>1, <1>4, <2>8 DEF Understood, t
<1>5. CASE At("header", s) # {}
  <2> DEFINE sec == SectionOf(s, d)
  <2>1. IsSection(sec) /\ (PatchRefused(s, w, sec) \/ PatchFollowed(s, w, sec))
    BY <1>5 DEF Understood
  <2>2. l = Blank => sec.mode # "add"
    OBVIOUS
  <2> HIDE DEF sec
  <2>3. ASSUME PatchRefused(s, w, sec)
        PROVE  PatchRefused(t, w, sec)
    <3>1. Broken(PatchParsed(t))
      BY <1>1, <2>3, StaysBroken DEF PatchRefused
    <3> QED
      BY <2>3, <3>1, Zenon DEF PatchRefused
  <2>4. ASSUME PatchFollowed(s, w, sec)
        PROVE  PatchFollowed(t, w, sec)
    <3>1. PICK cs \in Seq(PatchTargets), ls \in Texts :
            /\ ~HollowIn(cs) /\ PatchParsed(s) = State(sec.word, sec.mode, ls, MeantOf(cs))
            /\ sec.mode = "update" => AllWhole(ls)
            /\ w = WithOpen(cs, sec, ls)
      BY <2>4 DEF PatchFollowed
    <3>2. CASE l.kind = "envelope"
      <4>1. PatchParsed(t) = PatchParsed(s)
        BY <1>1, <1>2, <3>1, <3>2
      <4>2. PatchFollowed(t, w, sec)
        BY <2>4, <4>1, Zenon DEF PatchFollowed
      <4> QED
        BY <4>2
    <3>3. CASE l.kind = "text"
      <4> DEFINE ms == Append(ls, l)
      <4>1. PatchParsed(t) = State(sec.word, sec.mode, ms, MeantOf(cs)) /\ ms \in Texts
        BY <1>1, <1>2, <1>3, <3>1, <3>3
      <4>2. sec.mode = "update" => AllWhole(ms) /\ ParseBlocks(ms) = ParseBlocks(ls)
        BY <3>1, <3>3, BlocksStay
      <4>3. sec.mode = "add" => Added(ms) = Added(ls)
        <5>1. Added(ms) = WithAdded(Added(ls), l)
          BY ReadersGrow
        <5> QED
          BY <2>2, <3>3, <5>1 DEF WithAdded
      <4> HIDE DEF ms
      <4>4. OpenTarget(sec, ms) = OpenTarget(sec, ls)
        BY <4>2, <4>3 DEF OpenTarget
      <4>5. w = WithOpen(cs, sec, ms)
        BY <3>1, <4>4 DEF WithOpen
      <4>6. PatchFollowed(t, w, sec)
        BY <3>1, <4>1, <4>2, <4>5, Zenon DEF PatchFollowed
      <4> QED
        BY <4>6
    <3> QED
      BY <3>2, <3>3
  <2>5. PatchRefused(t, w, sec) \/ PatchFollowed(t, w, sec)
    BY <2>1, <2>3, <2>4
  <2> QED
    BY <1>1, <1>5, <2>1, <2>5 DEF Understood, sec, t
<1> QED
  BY <1>4, <1>5

\* What the writer means by one more block or line.
ExtendedOf(w, sec, d, block, words) ==
  IF sec.word = NoPath THEN w
  ELSE LET ts == IF w = <<>> THEN <<PatchTarget(d, "update", <<>>, <<>>)>> ELSE w
       IN [ts EXCEPT ![Len(ts)] = More(@, block, words)]

\* More of a target is a target.
LEMMA MoreIs ==
  ASSUME NEW o \in PatchTargets, NEW block \in Seq(PatchBlocks), NEW words \in Seq(AllWords)
  PROVE  More(o, block, words) \in PatchTargets
<1>1. o.blocks \o block \in Seq(PatchBlocks) /\ o.newFile \o words \in Seq(AllWords)
  <2>1. o.blocks \in Seq(PatchBlocks) /\ o.newFile \in Seq(AllWords)
    BY DEF PatchTargets
  <2> QED
    BY <2>1
<1>2. o.path \in PatchPaths /\ o.mode \in PatchModes
  BY DEF PatchTargets
<1> QED
  BY <1>1, <1>2 DEF More, PatchTarget, PatchTargets

\* The last target gets it.
LEMMA ExtendedLast ==
  ASSUME NEW cs \in Seq(PatchTargets), NEW o \in PatchTargets, NEW sec, sec.word # NoPath, NEW d,
         NEW block \in Seq(PatchBlocks), NEW words \in Seq(AllWords)
  PROVE  ExtendedOf(Append(cs, o), sec, d, block, words) = Append(cs, More(o, block, words))
<1> DEFINE w == Append(cs, o)
           m == More(o, block, words)
           N == Len(cs)
           v == Append(cs, m)
<1>1. m \in PatchTargets
  BY MoreIs
<1>2. ExtendedOf(w, sec, d, block, words) = [w EXCEPT ![Len(w)] = More(@, block, words)]
  <2>1. w # <<>>
    OBVIOUS
  <2> HIDE DEF w
  <2> QED
    BY <2>1 DEF ExtendedOf
<1>3. /\ N \in Nat /\ w \in Seq(PatchTargets) /\ Len(w) = N + 1 /\ w[N + 1] = o
      /\ \A i \in 1..N : w[i] = cs[i]
  OBVIOUS
<1> HIDE DEF m
<1>4. /\ v \in Seq(PatchTargets) /\ Len(v) = N + 1 /\ v[N + 1] = m
      /\ \A i \in 1..N : v[i] = cs[i]
  BY <1>1
<1> HIDE DEF w, v, N
<1>5. \A i \in 1..N + 1 : i \in 1..N \/ i = N + 1
  BY <1>3
<1> DEFINE x == [w EXCEPT ![N + 1] = m]
<1>6. x = [w EXCEPT ![Len(w)] = More(@, block, words)]
  BY <1>3 DEF m
<1>7. x \in Seq(PatchTargets) /\ Len(x) = N + 1
  BY <1>1, <1>3
<1>8. ASSUME NEW i \in 1..N + 1
      PROVE  x[i] = v[i]
  <2>1. CASE i = N + 1
    BY <1>3, <1>4, <2>1
  <2>2. CASE i \in 1..N
    <3>1. i # N + 1 /\ i \in DOMAIN w
      BY <1>3, <2>2
    <3>2. x[i] = w[i]
      BY <3>1
    <3> QED
      BY <1>3, <1>4, <2>2, <3>2
  <2> QED
    BY <1>5, <2>1, <2>2
<1> HIDE DEF x
<1>9. x = v
  BY <1>3, <1>4, <1>7, <1>8
<1> QED
  BY <1>2, <1>6, <1>9 DEF w, v, m

\* A refused patch stays refused, whatever is added to its last target.
LEMMA RefusedGoesOn ==
  ASSUME NEW s \in Texts, NEW w, NEW sec, PatchRefused(s, w, sec), NEW d,
         NEW block \in Seq(PatchBlocks), NEW words \in Seq(AllWords),
         NEW t, Broken(PatchParsed(t))
  PROVE  PatchRefused(t, ExtendedOf(w, sec, d, block, words), sec)
<1> DEFINE v == ExtendedOf(w, sec, d, block, words)
<1>1. PICK cs \in Seq(PatchTargets) :
        /\ HollowIn(cs)
        /\ IF sec.word = NoPath THEN w = cs ELSE \E o \in PatchTargets : w = Append(cs, o)
  BY Zenon DEF PatchRefused
<1>2. CASE sec.word = NoPath
  <2>1. v = w /\ w = cs
    BY <1>1, <1>2 DEF ExtendedOf
  <2> HIDE DEF v
  <2>2. PatchRefused(t, v, sec)
    BY <1>1, <1>2, <2>1, Zenon DEF PatchRefused
  <2> QED
    BY <2>2 DEF v
<1>3. CASE sec.word # NoPath
  <2>1. PICK o \in PatchTargets : w = Append(cs, o)
    BY <1>1, <1>3
  <2> DEFINE m == More(o, block, words)
  <2>2. v = Append(cs, m) /\ m \in PatchTargets
    BY <1>3, <2>1, ExtendedLast, MoreIs
  <2> HIDE DEF v, m
  <2>3. PatchRefused(t, v, sec)
    BY <1>1, <1>3, <2>2, Zenon DEF PatchRefused
  <2> QED
    BY <2>3 DEF v
<1> QED
  BY <1>2, <1>3

\* The target of the open section gets what its lines say.
LEMMA FollowedGoesOn ==
  ASSUME NEW sec, IsSection(sec), NEW d,
         NEW cs \in Seq(PatchTargets), ~HollowIn(cs), NEW ls \in Texts, NEW ms \in Texts,
         sec.mode = "update" => AllWhole(ls) /\ AllWhole(ms),
         NEW block \in Seq(PatchBlocks), NEW words \in Seq(AllWords),
         sec.word # NoPath => OpenTarget(sec, ms) = More(OpenTarget(sec, ls), block, words),
         NEW t, PatchParsed(t) = State(sec.word, sec.mode, ms, MeantOf(cs))
  PROVE  PatchFollowed(t, ExtendedOf(WithOpen(cs, sec, ls), sec, d, block, words), sec)
<1> DEFINE v == ExtendedOf(WithOpen(cs, sec, ls), sec, d, block, words)
<1>1. v = WithOpen(cs, sec, ms)
  <2>1. CASE sec.word = NoPath
    BY <2>1 DEF ExtendedOf, WithOpen
  <2>2. CASE sec.word # NoPath
    <3> DEFINE o == OpenTarget(sec, ls)
    <3>1. o \in PatchTargets
      BY <2>2, SectionFlushed
    <3>2. ExtendedOf(Append(cs, o), sec, d, block, words) = Append(cs, More(o, block, words))
      BY <2>2, <3>1, ExtendedLast
    <3> QED
      BY <2>2, <3>2 DEF WithOpen
  <2> QED
    BY <2>1, <2>2
<1> HIDE DEF v
<1>2. PatchFollowed(t, v, sec)
  BY <1>1, Zenon DEF PatchFollowed
<1> QED
  BY <1>2 DEF v

\* An added line, marked or blank.
LEMMA AddedUnderstood ==
  ASSUME NEW s \in Texts, NEW w, NEW d \in HeaderPaths, Understood(s, w, d),
         SectionOf(s, d).mode = "add",
         NEW l \in AllLines, l.kind = "plus" \/ l = Blank
  PROVE  Understood(Append(s, l), ExtendedOf(w, SectionOf(s, d), d, <<>>, <<l.word>>), d)
<1> DEFINE word == l.word
           t == Append(s, l)
           sec == SectionOf(s, d)
           v == ExtendedOf(w, sec, d, <<>>, <<word>>)
<1>1. l.kind \notin {"header", "envelope"} /\ word \in AllWords
  <2>1. l.word \in AllWords
    BY DEF AllLines, AllWords
  <2>2. l.kind = "plus" \/ l.kind = "text"
    BY LinesAre
  <2> QED
    BY <2>1, <2>2
<1>2. sec.mode = "add" /\ At("header", s) # {}
  BY DEF SectionOf, Header, Line
<1> HIDE DEF word
<1>3. /\ t \in Texts /\ At("header", t) # {} /\ SectionOf(t, d) = sec
      /\ PatchParsed(t) = ReadLine(PatchParsed(s), l)
  BY <1>1, <1>2, SectionGrows, ReadersGrow DEF Texts
<1>4. IsSection(sec) /\ (PatchRefused(s, w, sec) \/ PatchFollowed(s, w, sec))
  BY <1>2 DEF Understood
<1>5. <<>> \in Seq(PatchBlocks) /\ <<word>> \in Seq(AllWords)
  BY <1>1
<1> HIDE DEF t, sec
<1>6. ASSUME PatchRefused(s, w, sec)
      PROVE  PatchRefused(t, v, sec)
  <2>1. Broken(PatchParsed(t))
    BY <1>3, <1>6, StaysBroken DEF PatchRefused
  <2> QED
    BY <1>5, <1>6, <2>1, RefusedGoesOn
<1>7. ASSUME PatchFollowed(s, w, sec)
      PROVE  PatchFollowed(t, v, sec)
  <2>1. PICK cs \in Seq(PatchTargets), ls \in Texts :
          /\ ~HollowIn(cs) /\ PatchParsed(s) = State(sec.word, sec.mode, ls, MeantOf(cs))
          /\ sec.mode = "update" => AllWhole(ls)
          /\ w = WithOpen(cs, sec, ls)
    BY <1>7 DEF PatchFollowed
  <2> DEFINE ms == Append(ls, l)
  <2>2. PatchParsed(t) = State(sec.word, sec.mode, ms, MeantOf(cs)) /\ ms \in Texts
    <3>1. ReadLine(State(sec.word, sec.mode, ls, MeantOf(cs)), l)
            = State(sec.word, sec.mode, ms, MeantOf(cs))
      BY <1>1, LineRead
    <3>2. ms \in Texts
      BY <1>1 DEF Texts
    <3> QED
      BY <1>3, <2>1, <3>1, <3>2, Zenon
  <2>3. Added(ms) = Append(Added(ls), word) /\ Added(ls) \in Seq(AllWords)
    BY ReadersGrow, PartsType DEF WithAdded, word
  <2> HIDE DEF ms
  <2>4. OpenTarget(sec, ms) = More(OpenTarget(sec, ls), <<>>, <<word>>)
    <3>1. OpenTarget(sec, ms) = PatchTarget(sec.word, sec.mode, <<>>, Append(Added(ls), word))
      BY <1>2, <2>3 DEF OpenTarget
    <3>2. OpenTarget(sec, ls) = PatchTarget(sec.word, sec.mode, <<>>, Added(ls))
      BY <1>2 DEF OpenTarget
    <3>3. More(PatchTarget(sec.word, sec.mode, <<>>, Added(ls)), <<>>, <<word>>)
            = PatchTarget(sec.word, sec.mode, <<>> \o <<>>, Added(ls) \o <<word>>)
      BY DEF More, PatchTarget
    <3>4. <<>> \o <<>> = <<>> /\ Added(ls) \o <<word>> = Append(Added(ls), word)
      BY <2>3
    <3> QED
      BY <3>1, <3>2, <3>3, <3>4, Zenon
  <2>5. PatchFollowed(t, ExtendedOf(WithOpen(cs, sec, ls), sec, d, <<>>, <<word>>), sec)
    BY <1>2, <1>4, <1>5, <2>1, <2>2, <2>4, FollowedGoesOn
  <2> QED
    BY <2>1, <2>5, Zenon
<1> HIDE DEF v
<1>8. Understood(t, v, d)
  BY <1>3, <1>4, <1>6, <1>7 DEF Understood
<1> QED
  BY <1>8 DEF t, v, word, sec

\* Lines of a kind in two texts behind each other, and in a beginning of one.
LEMMA AtOfBoth ==
  ASSUME NEW s \in Texts, NEW t \in Texts, NEW k
  PROVE  /\ (At(k, Then(s, t)) = {}) <=> (At(k, s) = {} /\ At(k, t) = {})
         /\ At(k, s) = {} => \A n \in 0..Len(s) : At(k, Front(s, n)) = {}
<1> DEFINE u == Then(s, t)
<1>1. /\ u \in Texts /\ Len(u) = Len(s) + Len(t) /\ Len(s) \in Nat /\ Len(t) \in Nat
      /\ \A i \in 1..Len(s) : u[i] = s[i]
      /\ \A i \in 1..Len(t) : u[Len(s) + i] = t[i]
  <2>1. Len(s) \in Nat /\ Len(t) \in Nat
    BY DEF Texts
  <2> QED
    BY <2>1, ThenIs
<1>2. \A x \in Texts : (At(k, x) = {}) <=> \A i \in 1..Len(x) : x[i].kind # k
  BY DEF At, Texts
<1> HIDE DEF u
<1>3. (At(k, u) = {}) <=> (At(k, s) = {} /\ At(k, t) = {})
  <2>1. ASSUME \A i \in 1..Len(u) : u[i].kind # k
        PROVE  /\ \A i \in 1..Len(s) : s[i].kind # k
               /\ \A i \in 1..Len(t) : t[i].kind # k
    <3>1. \A i \in 1..Len(s) : i \in 1..Len(u)
      BY <1>1
    <3>2. \A i \in 1..Len(t) : Len(s) + i \in 1..Len(u)
      BY <1>1
    <3> QED
      BY <1>1, <2>1, <3>1, <3>2
  <2>2. ASSUME \A i \in 1..Len(s) : s[i].kind # k, \A i \in 1..Len(t) : t[i].kind # k,
               NEW i \in 1..Len(u)
        PROVE  u[i].kind # k
    <3>1. CASE i \in 1..Len(s)
      BY <1>1, <2>2, <3>1
    <3>2. CASE i \notin 1..Len(s)
      <4>1. i - Len(s) \in 1..Len(t) /\ Len(s) + (i - Len(s)) = i
        BY <1>1, <3>2
      <4> QED
        BY <1>1, <2>2, <4>1
    <3> QED
      BY <3>1, <3>2
  <2> QED
    BY <1>1, <1>2, <2>1, <2>2
<1>4. ASSUME At(k, s) = {}, NEW n \in 0..Len(s)
      PROVE  At(k, Front(s, n)) = {}
  <2>1. Front(s, n) \in Texts /\ Len(Front(s, n)) = n /\ \A i \in 1..n : Front(s, n)[i] = s[i]
    BY FrontAt
  <2>2. \A i \in 1..n : i \in 1..Len(s)
    BY <1>1
  <2> QED
    BY <1>2, <1>4, <2>1, <2>2
<1> QED
  BY <1>3, <1>4 DEF u

\* What the parser makes of a search marker and lines behind it.
LEMMA OpenedRead ==
  ASSUME NEW s \in Texts, NEW y \in Texts, At("header", y) = {}, At("envelope", y) = {},
         NEW d, NEW t, t = Then(Opening(s), y)
  PROVE  /\ t \in Texts /\ At("search", t) # {}
         /\ \A p, m, ts : \A ls \in Texts : PatchParsed(s) = State(p, m, ls, ts) =>
              /\ PatchParsed(t) = State(p, m, Then(Opening(ls), y), ts)
              /\ Then(Opening(ls), y) \in Texts
         /\ Broken(PatchParsed(s)) => Broken(PatchParsed(t))
         /\ (At("header", t) = {}) <=> (At("header", s) = {})
         /\ SectionOf(t, d) = SectionOf(s, d)
<1> DEFINE l == Mark("search")
           u == Opening(s)
<1>1. l \in AllLines /\ l.kind = "search"
  BY DEF Mark, Line, AllLines
<1> HIDE DEF l
<1>2. \A x \in Texts : Opening(x) \in Texts /\ Opening(x) = Append(x, l)
  BY <1>1 DEF Opening, Texts, l
<1> HIDE DEF u
<1>3. /\ u \in Texts /\ At("search", u) # {} /\ At("header", u) = At("header", s)
      /\ SectionOf(u, d) = SectionOf(s, d) /\ PatchParsed(u) = ReadLine(PatchParsed(s), l)
  <2>1. u = Append(s, l) /\ u \in Texts
    BY <1>2 DEF u
  <2>2. At("search", u) # {}
    BY <1>1, <2>1, AtGrows
  <2>3. At("header", u) = At("header", s) /\ SectionOf(u, d) = SectionOf(s, d)
    BY <1>1, <2>1, SectionGrows
  <2>4. PatchParsed(u) = ReadLine(PatchParsed(s), l)
    BY <1>1, <2>1, ReadersGrow
  <2> QED
    BY <2>1, <2>2, <2>3, <2>4
<1>4. /\ t \in Texts /\ At("search", t) # {}
      /\ (At("header", t) = {}) <=> (At("header", s) = {})
      /\ SectionOf(t, d) = SectionOf(s, d)
  <2>1. t = Then(u, y)
    BY DEF u
  <2>2. t \in Texts
    BY <1>3, <2>1, ThenIs
  <2>3. (At("search", Then(u, y)) = {}) <=> (At("search", u) = {} /\ At("search", y) = {})
    BY <1>3, AtOfBoth
  <2>4. /\ (At("header", Then(u, y)) = {}) <=> (At("header", u) = {})
        /\ SectionOf(Then(u, y), d) = SectionOf(u, d)
    BY <1>3, LinesRead
  <2> QED
    BY <1>3, <2>1, <2>2, <2>3, <2>4
<1>5. ASSUME Broken(PatchParsed(s))
      PROVE  Broken(PatchParsed(t))
  <2>1. Broken(PatchParsed(u))
    BY <1>3, <1>5, StaysBroken
  <2>2. Broken(PatchParsed(Then(u, y)))
    BY <1>3, <2>1, LinesRead
  <2> QED
    BY <2>2 DEF u
<1>6. ASSUME NEW p, NEW m, NEW ts, NEW ls \in Texts, PatchParsed(s) = State(p, m, ls, ts)
      PROVE  /\ PatchParsed(t) = State(p, m, Then(Opening(ls), y), ts)
             /\ Then(Opening(ls), y) \in Texts
  <2>1. ReadLine(State(p, m, ls, ts), l) = State(p, m, Append(ls, l), ts)
    BY <1>1, LineRead
  <2>2. PatchParsed(u) = State(p, m, Opening(ls), ts) /\ Opening(ls) \in Texts
    BY <1>2, <1>3, <1>6, <2>1
  <2>3. PatchParsed(Then(u, y)) = State(p, m, Then(Opening(ls), y), ts)
    BY <1>3, <2>2, LinesRead
  <2> QED
    BY <2>2, <2>3, ThenIs DEF u
<1> QED
  BY <1>4, <1>5, <1>6

\* What a block says: the text to search for and the one that replaces it.
PatchPair(x, r) == [search |-> Joined(x), replace |-> Joined(r)]

\* Texts a writer searches for, and texts that replace them.
PatchSearched(x) ==
  x \in Texts /\ \A k \in {"header", "envelope", "search", "split", "replace"} : At(k, x) = {}
PatchReplacing(r) ==
  r \in Texts /\ \A k \in {"header", "envelope", "search", "replace"} : At(k, r) = {}

\* A block of them.
LEMMA PairWritten ==
  ASSUME NEW x, PatchSearched(x), NEW r, PatchReplacing(r), NEW b, b = PatchWritten(x, r)
  PROVE  /\ b \in Texts /\ At("search", b) = {} /\ Complete(b) /\ Block(b) = PatchPair(x, r)
         /\ At("header", b) = {} /\ At("envelope", b) = {}
         /\ \A n \in 0..Len(b) - 1 : At("replace", Front(b, n)) = {}
         /\ PatchPair(x, r) \in PatchBlocks
<1>1. /\ x \in Texts /\ r \in Texts
      /\ \A k \in {"header", "envelope", "search", "split", "replace"} : At(k, x) = {}
      /\ \A k \in {"header", "envelope", "search", "replace"} : At(k, r) = {}
  BY DEF PatchSearched, PatchReplacing
<1>2. /\ b \in Texts /\ At("search", b) = {} /\ Complete(b) /\ Block(b) = PatchPair(x, r)
      /\ \A n \in 0..Len(b) - 1 : At("replace", Front(b, n)) = {}
  BY <1>1, WrittenIs DEF PatchPair
<1>3. PatchPair(x, r) \in PatchBlocks
  BY <1>2, BlankIs, CompleteStays
<1>4. ASSUME NEW k \in {"header", "envelope"}
      PROVE  At(k, b) = {}
  <2> DEFINE m == Mark("split")
             e == Mark("replace")
             v == Append(x, m)
             u == Then(v, r)
  <2>1. m \in AllLines /\ e \in AllLines /\ m.kind # k /\ e.kind # k
    BY DEF Mark, Line, AllLines
  <2>2. At(k, x) = {} /\ At(k, r) = {}
    BY <1>1
  <2> HIDE DEF m, e
  <2>3. v \in Texts /\ At(k, v) = {}
    BY <1>1, <2>1, <2>2, AtGrows DEF Texts
  <2> HIDE DEF v
  <2>4. u \in Texts /\ At(k, u) = {}
    BY <1>1, <2>2, <2>3, ThenIs, AtOfBoth
  <2> HIDE DEF u
  <2>5. At(k, Append(u, e)) = {}
    BY <2>1, <2>4, AtGrows
  <2> QED
    BY <2>5 DEF PatchWritten, u, v, m, e
<1> QED
  BY <1>2, <1>3, <1>4

\* One more block in the lines of a section or of the whole text.
MoreBlocks(s, t, x, r) ==
  /\ AllWhole(t) /\ Parts(t) # <<>>
  /\ ParseBlocks(t) = Append(ParseBlocks(s), PatchPair(x, r)) /\ ParseBlocks(s) \in Seq(PatchBlocks)

\* There is.
LEMMA PairAdded ==
  ASSUME NEW s \in Texts, AllWhole(s), NEW x, PatchSearched(x), NEW r, PatchReplacing(r),
         NEW t, t = Then(Opening(s), PatchWritten(x, r))
  PROVE  MoreBlocks(s, t, x, r)
<1> DEFINE b == PatchWritten(x, r)
<1>1. b \in Texts /\ At("search", b) = {} /\ Complete(b) /\ Block(b) = PatchPair(x, r)
  BY PairWritten
<1> HIDE DEF b
<1>2. /\ AllWhole(Then(Opening(s), b)) /\ Parts(Then(Opening(s), b)) # <<>>
      /\ ParseBlocks(Then(Opening(s), b)) = Append(ParseBlocks(s), Block(b))
  BY <1>1, BlockAdded
<1>3. ParseBlocks(s) \in Seq(PatchBlocks)
  BY BlocksType
<1> QED
  BY <1>1, <1>2, <1>3 DEF MoreBlocks, b

\* A block.
LEMMA BlockUnderstood ==
  ASSUME NEW s \in Texts, NEW w, NEW d \in HeaderPaths, Understood(s, w, d),
         SectionOf(s, d).mode = "update", NEW x, PatchSearched(x), NEW r, PatchReplacing(r),
         NEW t, t = Then(Opening(s), PatchWritten(x, r))
  PROVE  Understood(t, ExtendedOf(w, SectionOf(s, d), d, <<PatchPair(x, r)>>, <<>>), d)
<1> DEFINE sec == SectionOf(s, d)
           v == ExtendedOf(w, sec, d, <<PatchPair(x, r)>>, <<>>)
           b == PatchWritten(x, r)
<1>1. b \in Texts /\ At("header", b) = {} /\ At("envelope", b) = {} /\ PatchPair(x, r) \in PatchBlocks
  BY PairWritten
<1> HIDE DEF b
<1>2. /\ t \in Texts /\ At("search", t) # {}
      /\ \A p, m, ts : \A ls \in Texts : PatchParsed(s) = State(p, m, ls, ts) =>
           /\ PatchParsed(t) = State(p, m, Then(Opening(ls), b), ts)
           /\ Then(Opening(ls), b) \in Texts
      /\ Broken(PatchParsed(s)) => Broken(PatchParsed(t))
      /\ (At("header", t) = {}) <=> (At("header", s) = {})
      /\ SectionOf(t, d) = SectionOf(s, d)
  <2>1. t = Then(Opening(s), b)
    BY DEF b
  <2> QED
    BY <1>1, <2>1, OpenedRead
<1>3. <<PatchPair(x, r)>> \in Seq(PatchBlocks) /\ <<>> \in Seq(AllWords)
  BY <1>1
<1>4. CASE At("header", s) = {}
  <2>1. HeadlessOk(s, w, d)
    BY <1>4 DEF Understood
  <2>2. sec = Header("update", d)
    BY <1>4 DEF SectionOf
  <2>3. sec.word = d
    BY <2>2 DEF Header, Line
  <2>4. AllWhole(s) /\ \E ls \in Texts : PatchParsed(s) = State(NoPath, "", ls, <<>>)
    BY <2>1 DEF HeadlessOk
  <2>5. MoreBlocks(s, t, x, r)
    BY <2>4, PairAdded
  <2>6. \E ls \in Texts : PatchParsed(t) = State(NoPath, "", ls, <<>>)
    <3>1. PICK ls \in Texts : PatchParsed(s) = State(NoPath, "", ls, <<>>)
      BY <2>4
    <3> QED
      BY <1>2, <3>1, Zenon
  <2> HIDE DEF sec
  <2>7. v = IF d = NoPath \/ Parts(t) = <<>> THEN <<>> ELSE Append(<<>>, TargetOf(t, d))
    <3>1. CASE d = NoPath
      <4>1. w = <<>>
        BY <2>1, <3>1 DEF HeadlessOk
      <4> QED
        BY <2>3, <3>1, <4>1 DEF ExtendedOf
    <3>2. CASE d # NoPath
      <4> DEFINE o == TargetOf(s, d)
      <4>1. o \in PatchTargets /\ <<>> \in Seq(PatchTargets)
        BY <2>4, <3>2, HeadlessTarget, NoneMeant
      <4>2. More(o, <<PatchPair(x, r)>>, <<>>) = TargetOf(t, d)
        <5>1. More(o, <<PatchPair(x, r)>>, <<>>)
                = PatchTarget(d, "update", ParseBlocks(s) \o <<PatchPair(x, r)>>, <<>> \o <<>>)
          BY DEF More, TargetOf, PatchTarget
        <5>2. <<>> \o <<>> = <<>>
              /\ ParseBlocks(s) \o <<PatchPair(x, r)>> = Append(ParseBlocks(s), PatchPair(x, r))
          BY <1>1, <2>5 DEF MoreBlocks
        <5> QED
          BY <2>5, <5>1, <5>2 DEF TargetOf, MoreBlocks
      <4>3. w = <<>> \/ w = Append(<<>>, o)
        BY <2>1 DEF HeadlessOk
      <4>4. v = ExtendedOf(Append(<<>>, o), sec, d, <<PatchPair(x, r)>>, <<>>)
        <5>1. CASE w = Append(<<>>, o)
          BY <5>1
        <5>2. CASE w # Append(<<>>, o)
          <6>1. w = <<>> /\ Parts(s) = <<>>
            BY <2>1, <3>2, <5>2 DEF HeadlessOk
          <6>2. ParseBlocks(s) = <<>>
            BY <2>4, <6>1, BlocksType
          <6>3. o = PatchTarget(d, "update", <<>>, <<>>)
            BY <6>2 DEF TargetOf
          <6>4. Append(<<>>, o) = <<o>> /\ Append(<<>>, o) # <<>>
            OBVIOUS
          <6> HIDE DEF o
          <6>5. v = [<<o>> EXCEPT ![Len(<<o>>)] = More(@, <<PatchPair(x, r)>>, <<>>)]
            BY <2>3, <3>2, <6>1, <6>3 DEF ExtendedOf
          <6>6. ExtendedOf(Append(<<>>, o), sec, d, <<PatchPair(x, r)>>, <<>>)
                  = [<<o>> EXCEPT ![Len(<<o>>)] = More(@, <<PatchPair(x, r)>>, <<>>)]
            BY <2>3, <3>2, <6>4 DEF ExtendedOf
          <6> QED
            BY <6>5, <6>6
        <5> QED
          BY <5>1, <5>2
      <4> HIDE DEF o
      <4>5. v = Append(<<>>, More(o, <<PatchPair(x, r)>>, <<>>))
        <5>1. sec.word # NoPath
          BY <2>3, <3>2
        <5>2. ExtendedOf(Append(<<>>, o), sec, d, <<PatchPair(x, r)>>, <<>>)
                = Append(<<>>, More(o, <<PatchPair(x, r)>>, <<>>))
          BY <1>3, <4>1, <5>1, ExtendedLast
        <5> HIDE DEF v
        <5> QED
          BY <4>4, <5>2, Zenon
      <4>6. Parts(t) # <<>>
        BY <2>5 DEF MoreBlocks
      <4> HIDE DEF v
      <4> QED
        BY <3>2, <4>2, <4>5, <4>6
    <3> QED
      BY <3>1, <3>2
  <2> HIDE DEF v
  <2>8. HeadlessOk(t, v, d)
    <3>1. AllWhole(t) /\ Parts(t) # <<>>
      BY <2>5 DEF MoreBlocks
    <3>2. (At("search", t) = {}) <=> (Parts(t) = <<>>)
      BY <1>2, <3>1
    <3> QED
      BY <2>6, <2>7, <3>1, <3>2, Zenon DEF HeadlessOk
  <2> QED
    BY <1>2, <1>4, <2>8 DEF Understood, v, sec
<1>5. CASE At("header", s) # {}
  <2>1. IsSection(sec) /\ (PatchRefused(s, w, sec) \/ PatchFollowed(s, w, sec))
    BY <1>5 DEF Understood
  <2>2. sec.mode = "update"
    OBVIOUS
  <2> HIDE DEF sec
  <2>3. ASSUME PatchRefused(s, w, sec)
        PROVE  PatchRefused(t, v, sec)
    <3>1. Broken(PatchParsed(t))
      BY <1>2, <2>3 DEF PatchRefused
    <3> QED
      BY <1>3, <2>3, <3>1, RefusedGoesOn
  <2>4. ASSUME PatchFollowed(s, w, sec)
        PROVE  PatchFollowed(t, v, sec)
    <3>1. PICK cs \in Seq(PatchTargets), ls \in Texts :
            /\ ~HollowIn(cs) /\ PatchParsed(s) = State(sec.word, sec.mode, ls, MeantOf(cs))
            /\ sec.mode = "update" => AllWhole(ls)
            /\ w = WithOpen(cs, sec, ls)
      BY <2>4 DEF PatchFollowed
    <3> DEFINE ms == Then(Opening(ls), b)
    <3>2. PatchParsed(t) = State(sec.word, sec.mode, ms, MeantOf(cs)) /\ ms \in Texts
      BY <1>2, <3>1
    <3>3. MoreBlocks(ls, ms, x, r) /\ AllWhole(ls)
      BY <2>2, <3>1, PairAdded DEF b
    <3> HIDE DEF ms
    <3>4. OpenTarget(sec, ms) = More(OpenTarget(sec, ls), <<PatchPair(x, r)>>, <<>>)
      <4>1. OpenTarget(sec, ms) = PatchTarget(sec.word, sec.mode, Append(ParseBlocks(ls), PatchPair(x, r)), <<>>)
        BY <2>2, <3>3 DEF OpenTarget, MoreBlocks
      <4>2. OpenTarget(sec, ls) = PatchTarget(sec.word, sec.mode, ParseBlocks(ls), <<>>)
        BY <2>2 DEF OpenTarget
      <4>3. More(PatchTarget(sec.word, sec.mode, ParseBlocks(ls), <<>>), <<PatchPair(x, r)>>, <<>>)
              = PatchTarget(sec.word, sec.mode, ParseBlocks(ls) \o <<PatchPair(x, r)>>, <<>> \o <<>>)
        BY DEF More, PatchTarget
      <4>4. <<>> \o <<>> = <<>>
            /\ ParseBlocks(ls) \o <<PatchPair(x, r)>> = Append(ParseBlocks(ls), PatchPair(x, r))
        BY <1>1, <3>3 DEF MoreBlocks
      <4> QED
        BY <4>1, <4>2, <4>3, <4>4, Zenon
    <3>5. PatchFollowed(t, ExtendedOf(WithOpen(cs, sec, ls), sec, d, <<PatchPair(x, r)>>, <<>>), sec)
      <4>1. AllWhole(ms)
        BY <3>3 DEF MoreBlocks
      <4> QED
        BY <1>3, <2>1, <3>1, <3>2, <3>3, <3>4, <4>1, FollowedGoesOn
    <3> QED
      BY <3>1, <3>5, Zenon
  <2> HIDE DEF v
  <2>5. Understood(t, v, d)
    BY <1>2, <1>5, <2>1, <2>3, <2>4 DEF Understood, sec
  <2> QED
    BY <2>5 DEF v, sec
<1> QED
  BY <1>4, <1>5

-----------------------------------------------------------------------------
(* A text that is cut off *)

\* A beginning of a target.
BeginningOf(a, b) ==
  /\ a.path = b.path /\ a.mode = b.mode
  /\ IsPrefixOf(a.blocks, b.blocks) /\ IsPrefixOf(a.newFile, b.newFile)

\* What a cut text may mean, where w is wanted.
CutOk(cut, w) ==
  cut # <<>> =>
    /\ Len(cut) <= Len(w)
    /\ \A i \in 1..Len(cut) - 1 : cut[i] = MeantOf(w)[i]
    /\ BeginningOf(cut[Len(cut)], w[Len(cut)])

\* What it may mean where l is left of a line.
RestOk(cut, w, l) ==
  cut # <<>> =>
    /\ Len(cut) <= Len(w)
    /\ \A i \in 1..Len(cut) - 1 : cut[i] = MeantOf(w)[i]
    /\ LeftOf(cut[Len(cut)], w[Len(cut)], l)

CutAt(s, w, d) ==
  /\ ParsePatchTargets(d, s).targets \in Seq(PatchTargets)
  /\ CutOk(ParsePatchTargets(d, s).targets, w)

Cuts(s, w, d) == \A n \in 1..Len(s) : CutAt(Front(s, n), w, d)

RestAt(s, w, d, l) ==
  /\ ParsePatchTargets(d, s).targets \in Seq(PatchTargets)
  /\ RestOk(ParsePatchTargets(d, s).targets, w, l)

RestsOf(s, w, d) ==
  \A n \in 1..Len(s) : \A l \in Rests(s[n]) : RestAt(Append(Front(s, n - 1), l), w, d, l)

\* What the writer does to what is wanted: the last target may get more, and
\* other targets follow.
WantsMore(w, v) ==
  /\ w \in Seq(PatchTargets) /\ v \in Seq(PatchTargets) /\ Len(w) <= Len(v)
  /\ \A i \in 1..Len(w) - 1 : v[i] = w[i]
  /\ w # <<>> => BeginningOf(w[Len(w)], v[Len(w)])

\* A beginning of a beginning is a beginning.
LEMMA PrefixGoesOn ==
  /\ \A x, y, z \in Seq(PatchBlocks) : IsPrefixOf(x, y) /\ IsPrefixOf(y, z) => IsPrefixOf(x, z)
  /\ \A x, y, z \in Seq(AllWords) : IsPrefixOf(x, y) /\ IsPrefixOf(y, z) => IsPrefixOf(x, z)
<1>1. \A x, y, z \in Seq(PatchBlocks) : IsPrefixOf(x, y) /\ IsPrefixOf(y, z) => IsPrefixOf(x, z)
  <2> SUFFICES ASSUME NEW x \in Seq(PatchBlocks), NEW y \in Seq(PatchBlocks), NEW z \in Seq(PatchBlocks),
                      IsPrefixOf(x, y), IsPrefixOf(y, z)
               PROVE  IsPrefixOf(x, z)
    OBVIOUS
  <2>1. /\ Len(x) \in Nat /\ Len(y) \in Nat /\ Len(z) \in Nat
        /\ DOMAIN x = 1..Len(x) /\ DOMAIN y = 1..Len(y)
    OBVIOUS
  <2> QED
    BY <2>1 DEF IsPrefixOf
<1>2. \A x, y, z \in Seq(AllWords) : IsPrefixOf(x, y) /\ IsPrefixOf(y, z) => IsPrefixOf(x, z)
  <2> SUFFICES ASSUME NEW x \in Seq(AllWords), NEW y \in Seq(AllWords), NEW z \in Seq(AllWords),
                      IsPrefixOf(x, y), IsPrefixOf(y, z)
               PROVE  IsPrefixOf(x, z)
    OBVIOUS
  <2>1. /\ Len(x) \in Nat /\ Len(y) \in Nat /\ Len(z) \in Nat
        /\ DOMAIN x = 1..Len(x) /\ DOMAIN y = 1..Len(y)
    OBVIOUS
  <2> QED
    BY <2>1 DEF IsPrefixOf
<1> QED
  BY <1>1, <1>2

\* What is left of a target that goes on.
LEMMA LeftGoesOn ==
  ASSUME NEW a \in PatchTargets, NEW b \in PatchTargets, NEW c \in PatchTargets, NEW l,
         LeftOf(a, b, l), BeginningOf(b, c)
  PROVE  LeftOf(a, c, l)
<1>1. \A t \in PatchTargets : t.blocks \in Seq(PatchBlocks) /\ t.newFile \in Seq(AllWords)
  BY DEF PatchTargets
<1>2. IsPrefixOf(a.blocks, c.blocks)
  BY <1>1, PrefixGoesOn DEF LeftOf, BeginningOf
<1>3. IsPrefixOf(a.newFile, b.newFile) => IsPrefixOf(a.newFile, c.newFile)
  BY <1>1, PrefixGoesOn DEF BeginningOf
<1>4. ASSUME NEW k \in 0..Len(b.newFile) - 1, a.newFile = Append(SubSeq(b.newFile, 1, k), l.word)
      PROVE  k \in 0..Len(c.newFile) - 1 /\ a.newFile = Append(SubSeq(c.newFile, 1, k), l.word)
  <2> DEFINE x == b.newFile
             y == c.newFile
  <2>1. x \in Seq(AllWords) /\ y \in Seq(AllWords) /\ IsPrefixOf(x, y)
    BY <1>1 DEF BeginningOf
  <2>2. k \in 0..Len(x) - 1 /\ a.newFile = Append(SubSeq(x, 1, k), l.word)
    BY <1>4
  <2> HIDE DEF x, y
  <2>3. Len(x) \in Nat /\ Len(y) \in Nat /\ Len(x) <= Len(y) /\ \A i \in 1..Len(x) : x[i] = y[i]
    BY <2>1 DEF IsPrefixOf
  <2>4. k \in 0..Len(y) - 1
    BY <2>2, <2>3
  <2>5. SubSeq(x, 1, k) = SubSeq(y, 1, k)
    <3>1. \A i \in 1..k : x[i] = y[i]
      BY <2>2, <2>3
    <3> QED
      BY <2>1, <2>2, <2>3, <2>4, <3>1
  <2> QED
    BY <2>2, <2>4, <2>5 DEF y
<1>5. \/ IsPrefixOf(a.newFile, c.newFile)
      \/ /\ l.kind = "plus"
         /\ \E k \in 0..Len(c.newFile) - 1 : a.newFile = Append(SubSeq(c.newFile, 1, k), l.word)
  BY <1>3, <1>4 DEF LeftOf
<1> QED
  BY <1>2, <1>5 DEF LeftOf, BeginningOf

\* A beginning is what is left, and where nothing of a line is left no more is.
LEMMA BeginningLeft ==
  ASSUME NEW a, NEW b, NEW l
  PROVE  /\ BeginningOf(a, b) => LeftOf(a, b, l)
         /\ LeftOf(a, b, Blank) => BeginningOf(a, b)
<1>1. Blank.kind = "text"
  BY DEF Blank, Text, Line
<1> QED
  BY <1>1 DEF BeginningOf, LeftOf

\* More of a target begins with it, and it with what is meant by it.
LEMMA BeginningIs ==
  ASSUME NEW o \in PatchTargets
  PROVE  /\ BeginningOf(MeantAs(o), o) /\ BeginningOf(o, o)
         /\ \A block \in Seq(PatchBlocks), words \in Seq(AllWords) :
              BeginningOf(o, More(o, block, words))
<1>1. /\ o.blocks \in Seq(PatchBlocks) /\ Len(o.blocks) \in Nat /\ DOMAIN o.blocks = 1..Len(o.blocks)
      /\ o.newFile \in Seq(AllWords) /\ Len(o.newFile) \in Nat
      /\ DOMAIN o.newFile = 1..Len(o.newFile)
  <2>1. o.blocks \in Seq(PatchBlocks) /\ o.newFile \in Seq(AllWords)
    BY DEF PatchTargets
  <2> QED
    BY <2>1
<1>2. IsPrefixOf(o.blocks, o.blocks) /\ IsPrefixOf(o.newFile, o.newFile)
  BY <1>1 DEF IsPrefixOf
<1>3. IsPrefixOf(Trimmed(o.newFile), o.newFile)
  <2> DEFINE x == Trimmed(o.newFile)
  <2>1. /\ x \in Seq(AllWords) /\ Len(x) <= Len(o.newFile)
        /\ \A i \in 1..Len(x) : x[i] = o.newFile[i]
    BY <1>1, TrimmedIs
  <2> HIDE DEF x
  <2>2. DOMAIN x = 1..Len(x)
    BY <2>1
  <2>3. IsPrefixOf(x, o.newFile)
    BY <2>1, <2>2 DEF IsPrefixOf
  <2> QED
    BY <2>3 DEF x
<1>4. BeginningOf(MeantAs(o), o)
  BY <1>2, <1>3, MeantAsIs DEF BeginningOf
<1>5. BeginningOf(o, o)
  BY <1>2 DEF BeginningOf
<1>6. ASSUME NEW block \in Seq(PatchBlocks), NEW words \in Seq(AllWords)
      PROVE  BeginningOf(o, More(o, block, words))
  <2>1. IsPrefixOf(o.blocks, o.blocks \o block)
    <3>1. /\ Len(o.blocks) <= Len(o.blocks \o block)
          /\ \A i \in 1..Len(o.blocks) : o.blocks[i] = (o.blocks \o block)[i]
      BY <1>1
    <3> QED
      BY <1>1, <3>1 DEF IsPrefixOf
  <2>2. IsPrefixOf(o.newFile, o.newFile \o words)
    <3>1. /\ Len(o.newFile) <= Len(o.newFile \o words)
          /\ \A i \in 1..Len(o.newFile) : o.newFile[i] = (o.newFile \o words)[i]
      BY <1>1
    <3> QED
      BY <1>1, <3>1 DEF IsPrefixOf
  <2> QED
    BY <2>1, <2>2 DEF BeginningOf, More, PatchTarget
<1> QED
  BY <1>4, <1>5, <1>6

\* What a cut may mean it may mean when more is wanted.
LEMMA RestGoesOn ==
  ASSUME NEW cut \in Seq(PatchTargets), NEW w, NEW v, NEW l, RestOk(cut, w, l), WantsMore(w, v)
  PROVE  RestOk(cut, v, l)
<1> SUFFICES ASSUME cut # <<>>
             PROVE  /\ Len(cut) <= Len(v)
                    /\ \A i \in 1..Len(cut) - 1 : cut[i] = MeantOf(v)[i]
                    /\ LeftOf(cut[Len(cut)], v[Len(cut)], l)
  BY DEF RestOk
<1> DEFINE C == Len(cut)
           W == Len(w)
           V == Len(v)
<1>1. /\ w \in Seq(PatchTargets) /\ v \in Seq(PatchTargets) /\ W <= V
      /\ \A i \in 1..W - 1 : v[i] = w[i]
      /\ w # <<>> => BeginningOf(w[W], v[W])
  BY DEF WantsMore
<1>2. /\ C \in Nat /\ W \in Nat /\ V \in Nat /\ C >= 1 /\ C <= W
      /\ \A i \in 1..C : cut[i] \in PatchTargets
      /\ \A i \in 1..W : w[i] \in PatchTargets
      /\ \A i \in 1..V : v[i] \in PatchTargets
  BY <1>1 DEF RestOk
<1>3. /\ \A i \in 1..C - 1 : cut[i] = MeantOf(w)[i]
      /\ LeftOf(cut[C], w[C], l)
  BY DEF RestOk
<1>4. /\ \A i \in 1..W : MeantOf(w)[i] = MeantAs(w[i])
      /\ \A i \in 1..V : MeantOf(v)[i] = MeantAs(v[i])
  BY <1>1, MeantIs
<1>5. w # <<>>
  BY <1>2
<1> HIDE DEF C, W, V
<1>6. ASSUME NEW i \in 1..C - 1
      PROVE  cut[i] = MeantOf(v)[i]
  <2>1. i \in 1..W - 1 /\ i \in 1..W /\ i \in 1..V
    BY <1>1, <1>2
  <2> QED
    BY <1>1, <1>3, <1>4, <2>1
<1>7. LeftOf(cut[C], v[C], l)
  <2>1. C \in 1..C /\ C \in 1..W /\ C \in 1..V
    BY <1>1, <1>2
  <2>2. CASE C = W
    <3>1. BeginningOf(w[C], v[C])
      BY <1>1, <1>5, <2>2
    <3> QED
      BY <1>2, <1>3, <2>1, <3>1, LeftGoesOn
  <2>3. CASE C # W
    <3>1. C \in 1..W - 1
      BY <1>2, <2>3
    <3> QED
      BY <1>1, <1>3, <3>1
  <2> QED
    BY <2>2, <2>3
<1> QED
  BY <1>1, <1>2, <1>6, <1>7 DEF C, W, V

\* So it is with a text that is cut behind a line.
LEMMA CutGoesOn ==
  ASSUME NEW cut \in Seq(PatchTargets), NEW w, NEW v, CutOk(cut, w), WantsMore(w, v)
  PROVE  CutOk(cut, v)
<1>1. RestOk(cut, w, Blank)
  BY BeginningLeft DEF CutOk, RestOk
<1>2. RestOk(cut, v, Blank)
  BY <1>1, RestGoesOn
<1> QED
  BY <1>2, BeginningLeft DEF CutOk, RestOk

\* What is meant is no more than what is wanted.
LEMMA CutWhole ==
  ASSUME NEW w \in Seq(PatchTargets)
  PROVE  CutOk(MeantOf(w), w) /\ CutOk(<<>>, w)
<1> DEFINE m == MeantOf(w)
<1>1. /\ m \in Seq(PatchTargets) /\ Len(m) = Len(w) /\ Len(w) \in Nat
      /\ \A n \in 1..Len(w) : m[n] = MeantAs(w[n]) /\ w[n] \in PatchTargets
  BY MeantIs
<1>2. ASSUME m # <<>>
      PROVE  BeginningOf(m[Len(m)], w[Len(m)])
  <2>1. Len(m) \in 1..Len(w)
    <3> HIDE DEF m
    <3> QED
      BY <1>1, <1>2
  <2> QED
    BY <1>1, <2>1, BeginningIs
<1> HIDE DEF m
<1>3. CutOk(m, w)
  BY <1>1, <1>2 DEF CutOk, m
<1> QED
  BY <1>3 DEF CutOk, m

\* The writer wants one more target, or more of the last.
LEMMA HeaderWantsMore ==
  ASSUME NEW w \in Seq(PatchTargets), NEW mode \in PatchModes, NEW path \in HeaderPaths
  PROVE  WantsMore(w, HeaderWants(w, mode, path))
<1> DEFINE o == PatchTarget(path, mode, <<>>, <<>>)
           v == HeaderWants(w, mode, path)
           N == Len(w)
<1>1. N \in Nat /\ \A i \in 1..N : w[i] \in PatchTargets
  OBVIOUS
<1>2. w # <<>> => N \in 1..N
  OBVIOUS
<1>3. v \in Seq(PatchTargets) /\ N <= Len(v) /\ \A i \in 1..N : v[i] = w[i]
  <2>1. CASE path = NoPath
    BY <1>1, <2>1 DEF HeaderWants
  <2>2. CASE path # NoPath
    <3>1. v = Append(w, o)
      BY <2>2 DEF HeaderWants
    <3>2. o \in PatchTargets
      BY <2>2 DEF PatchTarget, PatchTargets, HeaderPaths
    <3> HIDE DEF o, v
    <3> QED
      BY <1>1, <3>1, <3>2
  <2> QED
    BY <2>1, <2>2
<1> HIDE DEF v, N
<1>4. \A i \in 1..N - 1 : i \in 1..N
  BY <1>1
<1>5. w # <<>> => BeginningOf(w[N], v[N])
  BY <1>1, <1>2, <1>3, BeginningIs
<1>6. WantsMore(w, v)
  BY <1>1, <1>3, <1>4, <1>5 DEF WantsMore, N
<1> QED
  BY <1>6 DEF v

\* A target wanted for nothing but a path has no more.
LEMMA ExtendedWantsMore ==
  ASSUME NEW w \in Seq(PatchTargets), NEW sec, NEW d,
         NEW block \in Seq(PatchBlocks), NEW words \in Seq(AllWords),
         ExtendedOf(w, sec, d, block, words) \in Seq(PatchTargets)
  PROVE  WantsMore(w, ExtendedOf(w, sec, d, block, words))
<1> DEFINE v == ExtendedOf(w, sec, d, block, words)
           N == Len(w)
<1>1. N \in Nat /\ \A i \in 1..N : w[i] \in PatchTargets
  OBVIOUS
<1>2. w # <<>> => N \in 1..N
  OBVIOUS
<1>3. CASE sec.word = NoPath
  <2>1. v = w
    BY <1>3 DEF ExtendedOf
  <2> HIDE DEF v
  <2>2. WantsMore(w, v)
    BY <1>1, <1>2, <2>1, BeginningIs DEF WantsMore
  <2> QED
    BY <2>2 DEF v
<1>4. CASE sec.word # NoPath /\ w = <<>>
  <2>1. N = 0 /\ v \in Seq(PatchTargets)
    BY <1>4
  <2> HIDE DEF v
  <2>2. Len(v) \in Nat
    BY <2>1
  <2>3. WantsMore(w, v)
    BY <1>4, <2>1, <2>2 DEF WantsMore
  <2> QED
    BY <2>3 DEF v
<1>5. CASE sec.word # NoPath /\ w # <<>>
  <2> DEFINE o == More(w[N], block, words)
  <2>1. v = [w EXCEPT ![N] = o]
    BY <1>5 DEF ExtendedOf
  <2>2. o \in PatchTargets /\ BeginningOf(w[N], o)
    BY <1>1, <1>2, <1>5, MoreIs, BeginningIs
  <2> HIDE DEF o, v
  <2>3. v \in Seq(PatchTargets) /\ Len(v) = N /\ v[N] = o /\ \A i \in 1..N - 1 : v[i] = w[i]
    BY <1>1, <1>2, <1>5, <2>1, <2>2
  <2>4. WantsMore(w, v)
    BY <1>1, <2>2, <2>3 DEF WantsMore
  <2> QED
    BY <2>4 DEF v
<1> QED
  BY <1>3, <1>4, <1>5

\* A text that is refused may be cut off.
LEMMA FailedCut ==
  ASSUME NEW s, NEW w, NEW d, ParsePatchTargets(d, s) = Failed
  PROVE  CutAt(s, w, d)
<1>1. ParsePatchTargets(d, s).targets = <<>> /\ <<>> \in Seq(PatchTargets)
  BY DEF Failed
<1> QED
  BY <1>1 DEF CutAt, CutOk

\* So may one that means what is wanted.
LEMMA MeantCut ==
  ASSUME NEW s, NEW w \in Seq(PatchTargets), NEW d, ParsePatchTargets(d, s) = Done(MeantOf(w))
  PROVE  CutAt(s, w, d)
<1>1. ParsePatchTargets(d, s).targets = MeantOf(w)
  BY DEF Done
<1> QED
  BY <1>1, MeantIs, CutWhole DEF CutAt

\* So may the whole text.
LEMMA UnderstoodCut ==
  ASSUME NEW s \in Texts, NEW w, NEW d \in HeaderPaths, Understood(s, w, d)
  PROVE  CutAt(s, w, d)
<1>1. w \in Seq(PatchTargets)
  BY WantedType
<1>2. ParsePatchTargets(d, s) = Failed \/ ParsePatchTargets(d, s) = Done(MeantOf(w))
  BY RoundTripFrom
<1> QED
  BY <1>1, <1>2, FailedCut, MeantCut

\* The cuts of a text that goes on.
LEMMA CutsGoOn ==
  ASSUME NEW s \in Texts, NEW t \in Texts, NEW w, NEW v, NEW d, Cuts(s, w, d),
         WantsMore(w, v), Len(s) <= Len(t),
         \A n \in 1..Len(s) : Front(t, n) = Front(s, n),
         \A n \in Len(s) + 1..Len(t) : CutAt(Front(t, n), v, d)
  PROVE  Cuts(t, v, d)
<1>1. Len(s) \in Nat /\ Len(t) \in Nat
  BY DEF Texts
<1>2. ASSUME NEW n \in 1..Len(t)
      PROVE  CutAt(Front(t, n), v, d)
  <2>1. CASE n \in 1..Len(s)
    <3>1. CutAt(Front(s, n), w, d)
      BY <2>1 DEF Cuts
    <3>2. CutAt(Front(s, n), v, d)
      BY <3>1, CutGoesOn DEF CutAt
    <3> QED
      BY <2>1, <3>2
  <2>2. CASE n \in Len(s) + 1..Len(t)
    BY <2>2
  <2> QED
    BY <1>1, <2>1, <2>2
<1> QED
  BY <1>2 DEF Cuts

\* The cuts of a text with one line more.
LEMMA CutsOfLine ==
  ASSUME NEW s \in Texts, NEW l \in AllLines, NEW w, NEW v, NEW d \in HeaderPaths,
         Cuts(s, w, d), WantsMore(w, v), Understood(Append(s, l), v, d)
  PROVE  Cuts(Append(s, l), v, d)
<1> DEFINE t == Append(s, l)
<1>1. t \in Texts /\ Len(t) = Len(s) + 1 /\ Len(s) \in Nat
  BY DEF Texts
<1>2. ASSUME NEW n \in 1..Len(s)
      PROVE  Front(t, n) = Front(s, n)
  <2>1. \A i \in 1..Len(s) : t[i] = s[i]
    BY DEF Texts
  <2> HIDE DEF t
  <2>2. n \in 0..Len(s) /\ n \in 0..Len(t) /\ \A i \in 1..n : i \in 1..Len(s)
    BY <1>1
  <2>3. /\ Front(s, n) \in Texts /\ Len(Front(s, n)) = n /\ \A i \in 1..n : Front(s, n)[i] = s[i]
        /\ Front(t, n) \in Texts /\ Len(Front(t, n)) = n /\ \A i \in 1..n : Front(t, n)[i] = t[i]
    BY <1>1, <2>2, FrontAt
  <2>4. \A i \in 1..n : Front(t, n)[i] = Front(s, n)[i]
    BY <2>1, <2>2, <2>3, Zenon
  <2> QED
    BY <2>3, <2>4 DEF Texts
<1> HIDE DEF t
<1>3. ASSUME NEW n \in Len(s) + 1..Len(t)
      PROVE  CutAt(Front(t, n), v, d)
  <2>1. n = Len(t)
    BY <1>1
  <2>2. Front(t, n) = t
    BY <1>1, <2>1, FrontIs
  <2> QED
    BY <1>1, <2>2, UnderstoodCut DEF t
<1>4. Cuts(t, v, d)
  BY <1>1, <1>2, <1>3, CutsGoOn
<1> QED
  BY <1>4 DEF t

\* A block that is cut off is no block: an update that has one is refused, and one
\* that has no path does not matter.
LEMMA CutInBlock ==
  ASSUME NEW s \in Texts, NEW w, NEW d \in HeaderPaths, Understood(s, w, d),
         SectionOf(s, d).mode = "update",
         NEW y \in Texts, \A k \in {"header", "envelope", "search", "replace"} : At(k, y) = {},
         NEW t, t = Then(Opening(s), y)
  PROVE  CutAt(t, w, d)
<1> DEFINE sec == SectionOf(s, d)
<1>0. /\ At("header", y) = {} /\ At("envelope", y) = {}
      /\ At("search", y) = {} /\ At("replace", y) = {}
  OBVIOUS
<1>1. /\ t \in Texts /\ At("search", t) # {}
      /\ \A p, m, ts : \A ls \in Texts : PatchParsed(s) = State(p, m, ls, ts) =>
           /\ PatchParsed(t) = State(p, m, Then(Opening(ls), y), ts)
           /\ Then(Opening(ls), y) \in Texts
      /\ Broken(PatchParsed(s)) => Broken(PatchParsed(t))
      /\ (At("header", t) = {}) <=> (At("header", s) = {})
  BY <1>0, OpenedRead
<1>2. \A ls \in Texts : ~BlocksOk(Then(Opening(ls), y))
  BY <1>0, CutBlocks
<1>3. CASE At("header", s) = {}
  <2>1. ParsePatchTargets(d, t) = Failed
    BY <1>1, <1>2, <1>3 DEF ParsePatchTargets
  <2> QED
    BY <2>1, FailedCut
<1>4. CASE At("header", s) # {}
  <2> DEFINE fl == Flush(PatchParsed(t))
  <2>1. IsSection(sec) /\ (PatchRefused(s, w, sec) \/ PatchFollowed(s, w, sec)) /\ sec.mode = "update"
    BY <1>4 DEF Understood
  <2>2. ParsePatchTargets(d, t) =
          IF fl.ok /\ fl.targets # <<>> THEN Done(fl.targets) ELSE Failed
    BY <1>1, <1>4 DEF ParsePatchTargets, PatchParsed
  <2> HIDE DEF sec, fl
  <2>3. CASE ~fl.ok
    BY <2>2, <2>3, FailedCut
  <2>4. CASE PatchRefused(s, w, sec)
    <3>1. ~fl.ok
      BY <1>1, <2>4, StaysUnflushed DEF PatchRefused, fl
    <3> QED
      BY <2>3, <3>1
  <2>5. CASE PatchFollowed(s, w, sec)
    <3>1. PICK cs \in Seq(PatchTargets), ls \in Texts :
            /\ ~HollowIn(cs) /\ PatchParsed(s) = State(sec.word, sec.mode, ls, MeantOf(cs))
            /\ w = WithOpen(cs, sec, ls)
      BY <2>5 DEF PatchFollowed
    <3> DEFINE ms == Then(Opening(ls), y)
    <3>2. PatchParsed(t) = State(sec.word, sec.mode, ms, MeantOf(cs)) /\ ~BlocksOk(ms)
      BY <1>1, <1>2, <3>1
    <3> HIDE DEF ms
    <3>3. CASE sec.word = NoPath
      <4>1. w = cs
        BY <3>1, <3>3 DEF WithOpen
      <4>2. fl = State(NoPath, sec.mode, ms, MeantOf(cs))
        BY <3>2, <3>3, NoPathFlushed DEF fl
      <4>3. fl.targets = MeantOf(cs)
        BY <4>2 DEF State
      <4> QED
        BY <2>2, <4>1, <4>3, FailedCut, MeantCut
    <3>4. CASE sec.word # NoPath
      <4> DEFINE st == State(sec.word, sec.mode, ms, MeantOf(cs))
      <4>1. /\ st.path = sec.word /\ st.mode = "update" /\ st.lines = ms
            /\ st = [path |-> sec.word, mode |-> sec.mode, lines |-> ms,
                     targets |-> MeantOf(cs), ok |-> TRUE]
        BY <2>1 DEF State
      <4>2. fl = Flush(st)
        BY <3>2 DEF fl
      <4> HIDE DEF st
      <4>3. fl = [st EXCEPT !.ok = FALSE]
        BY <3>2, <3>4, <4>1, <4>2 DEF Flush
      <4>4. ~fl.ok
        BY <4>1, <4>3
      <4> QED
        BY <2>3, <4>4
    <3> QED
      BY <3>3, <3>4
  <2> QED
    BY <2>1, <2>4, <2>5
<1> QED
  BY <1>3, <1>4

\* The cuts of a text with one block more.
LEMMA CutsOfBlock ==
  ASSUME NEW s \in Texts, NEW w, NEW v, NEW d \in HeaderPaths, Understood(s, w, d),
         SectionOf(s, d).mode = "update", Cuts(s, w, d), WantsMore(w, v),
         NEW x, PatchSearched(x), NEW r, PatchReplacing(r),
         NEW t, t = Then(Opening(s), PatchWritten(x, r)), Understood(t, v, d)
  PROVE  Cuts(t, v, d)
<1> DEFINE b == PatchWritten(x, r)
           u == Opening(s)
<1>1. /\ b \in Texts /\ At("search", b) = {} /\ At("header", b) = {} /\ At("envelope", b) = {}
      /\ \A n \in 0..Len(b) - 1 : At("replace", Front(b, n)) = {}
  BY PairWritten
<1>2. u \in Texts /\ Len(u) = Len(s) + 1 /\ Len(s) \in Nat /\ \A i \in 1..Len(s) : u[i] = s[i]
  <2>1. Mark("search") \in AllLines
    BY DEF Mark, Line, AllLines
  <2> QED
    BY <2>1 DEF Opening, Texts
<1> HIDE DEF b, u
<1>3. t = Then(u, b) /\ t \in Texts /\ Len(t) = Len(s) + 1 + Len(b) /\ Len(b) \in Nat
  <2>1. t = Then(u, b)
    BY DEF u, b
  <2>2. Len(b) \in Nat
    BY <1>1 DEF Texts
  <2>3. Then(u, b) \in Texts /\ Len(Then(u, b)) = Len(u) + Len(b)
    BY <1>1, <1>2, ThenIs
  <2> QED
    BY <1>2, <2>1, <2>2, <2>3
<1>4. \A n \in 0..Len(u) + Len(b) :
        \/ n <= Len(u) /\ Front(t, n) = Front(u, n)
        \/ n > Len(u) /\ n - Len(u) \in 1..Len(b) /\ Front(t, n) = Then(u, Front(b, n - Len(u)))
  <2> SUFFICES ASSUME NEW n \in 0..Len(u) + Len(b)
               PROVE  \/ n <= Len(u) /\ Front(t, n) = Front(u, n)
                      \/ n > Len(u) /\ n - Len(u) \in 1..Len(b)
                           /\ Front(t, n) = Then(u, Front(b, n - Len(u)))
    OBVIOUS
  <2>1. u \in Texts /\ b \in Texts /\ t = Then(u, b)
    BY <1>1, <1>2, <1>3
  <2>2. \/ n <= Len(u) /\ Front(Then(u, b), n) = Front(u, n)
        \/ n > Len(u) /\ n - Len(u) \in 1..Len(b)
             /\ Front(Then(u, b), n) = Then(u, Front(b, n - Len(u)))
    BY <2>1, FrontOfBoth
  <2> QED
    BY <2>1, <2>2
<1>5. ASSUME NEW n \in 1..Len(s)
      PROVE  Front(t, n) = Front(s, n)
  <2>1. n <= Len(u) /\ n \in 0..Len(u) + Len(b) /\ n \in 0..Len(s) /\ n \in 0..Len(u)
    BY <1>2, <1>3
  <2>2. Front(t, n) = Front(u, n)
    BY <1>2, <1>4, <2>1
  <2>3. /\ Front(s, n) \in Texts /\ Len(Front(s, n)) = n /\ \A i \in 1..n : Front(s, n)[i] = s[i]
        /\ Front(u, n) \in Texts /\ Len(Front(u, n)) = n /\ \A i \in 1..n : Front(u, n)[i] = u[i]
    BY <1>2, <2>1, FrontAt
  <2>4. \A i \in 1..n : i \in 1..Len(s)
    BY <1>2
  <2>5. \A i \in 1..n : Front(u, n)[i] = Front(s, n)[i]
    BY <1>2, <2>3, <2>4, Zenon
  <2>6. Front(u, n) = Front(s, n)
    BY <2>3, <2>5 DEF Texts
  <2> QED
    BY <2>2, <2>6
<1>6. ASSUME NEW n \in Len(s) + 1..Len(t)
      PROVE  CutAt(Front(t, n), v, d)
  <2>1. CASE n = Len(t)
    <3>1. Front(t, n) = t
      BY <1>3, <2>1, FrontIs
    <3> QED
      BY <1>3, <3>1, UnderstoodCut
  <2>2. CASE n # Len(t)
    <3> DEFINE k == n - Len(u)
               y == Front(b, k)
    <3>1. k \in 0..Len(b) - 1 /\ k \in 0..Len(b) /\ n \in 0..Len(u) + Len(b)
          /\ n >= Len(u) /\ n \in Nat
      BY <1>2, <1>3, <2>2
    <3>2. y \in Texts
      BY <1>1, <3>1, FrontAt
    <3>3. \A q \in {"header", "envelope", "search"} : At(q, y) = {}
      BY <1>1, <3>1, AtOfBoth
    <3>4. At("replace", y) = {}
      BY <1>1, <3>1
    <3>5. Front(t, n) = Then(u, y)
      <4>1. CASE n > Len(u)
        BY <1>4, <3>1, <4>1
      <4>2. CASE n = Len(u)
        <5>1. Front(t, n) = Front(u, n)
          BY <1>2, <1>4, <3>1, <4>2
        <5>2. Front(u, n) = u
          BY <1>2, <4>2, FrontIs
        <5>3. y = <<>>
          <6>1. k = 0
            BY <1>2, <4>2
          <6> QED
            BY <1>1, <6>1, FrontIs
        <5>4. Then(u, <<>>) = u
          BY <1>1, <1>2, ThenIs
        <5> QED
          BY <5>1, <5>2, <5>3, <5>4, Zenon
      <4> QED
        BY <1>2, <3>1, <4>1, <4>2
    <3> HIDE DEF y
    <3>6. CutAt(Then(u, y), w, d)
      <4>1. \A q \in {"header", "envelope", "search", "replace"} : At(q, y) = {}
        BY <3>3, <3>4
      <4> QED
        BY <3>2, <4>1, CutInBlock DEF u
    <3>7. CutAt(Then(u, y), v, d)
      BY <3>6, CutGoesOn DEF CutAt
    <3> QED
      BY <3>5, <3>7
  <2> QED
    BY <2>1, <2>2
<1>7. Len(s) <= Len(t)
  BY <1>2, <1>3
<1> QED
  BY <1>3, <1>5, <1>6, <1>7, CutsGoOn

-----------------------------------------------------------------------------
(* A text that is cut off inside a line *)

\* One line is appended.
LEMMA LineAppended ==
  ASSUME NEW s \in Texts, NEW l \in AllLines
  PROVE  s \o <<l>> = Append(s, l) /\ Append(s, l) \in Texts
<1>1. s \in Seq(AllLines)
  BY DEF Texts
<1> QED
  BY <1>1 DEF Texts

\* One word is some, and no block is none.
LEMMA OneWord == <<>> \in Seq(PatchBlocks) /\ \A word \in AllWords : <<word>> \in Seq(AllWords)
  OBVIOUS

\* What may be left of a line.
LEMMA RestIs ==
  ASSUME NEW x \in AllLines, NEW l \in Rests(x)
  PROVE  /\ l \in AllLines
         /\ \/ l.kind \in {"text", "envelope"}
            \/ l.kind = "plus" /\ x.kind = "plus"
            \/ /\ l.kind = "header" /\ x.kind = "header" /\ x.word # NoPath
               /\ l.word \in HeaderPaths /\ l = Header(x.mode, l.word)
<1>1. \/ l = Blank
      \/ \E w \in Words : l = Text(w)
      \/ l = Mark("envelope")
      \/ x.kind = "plus" /\ \E w \in Words \cup {""} : l = Plus(w)
      \/ /\ x.kind = "header" /\ x.word # NoPath
         /\ \E p \in PatchPaths \cup {NoPath} : l = Header(x.mode, p)
  BY DEF Rests
<1>2. x.mode \in {"", "update", "add", "delete"}
  <2>1. x \in AllLines
    OBVIOUS
  <2> QED
    BY <2>1 DEF AllLines
<1>3. CASE l = Blank \/ (\E w \in Words : l = Text(w)) \/ l = Mark("envelope")
  BY <1>3, BlankIs, LinesAre
<1>4. CASE x.kind = "plus" /\ \E w \in Words \cup {""} : l = Plus(w)
  BY <1>4, LinesAre
<1>5. ASSUME x.kind = "header", x.word # NoPath, NEW p \in PatchPaths \cup {NoPath},
             l = Header(x.mode, p)
      PROVE  /\ l \in AllLines /\ l.kind = "header"
             /\ l.word \in HeaderPaths /\ l = Header(x.mode, l.word)
  BY <1>2, <1>5 DEF Header, Line, AllLines, HeaderPaths
<1> QED
  BY <1>1, <1>3, <1>4, <1>5

\* What a cut text means may be what it means where something of a line is left.
LEMMA CutRest ==
  ASSUME NEW s, NEW w, NEW v, NEW d, NEW l, CutAt(s, w, d), WantsMore(w, v)
  PROVE  RestAt(s, v, d, l)
<1> DEFINE cut == ParsePatchTargets(d, s).targets
<1>1. cut \in Seq(PatchTargets) /\ CutOk(cut, w)
  BY DEF CutAt
<1> HIDE DEF cut
<1>2. RestOk(cut, w, l)
  BY <1>1, BeginningLeft DEF CutOk, RestOk
<1>3. RestOk(cut, v, l)
  BY <1>1, <1>2, RestGoesOn
<1> QED
  BY <1>1, <1>3 DEF RestAt, cut

\* Of a text that is refused, or of which all targets but the last are meant.
LEMMA LastDiffers ==
  ASSUME NEW cs \in Seq(PatchTargets), NEW a \in PatchTargets, NEW b \in PatchTargets, NEW l,
         LeftOf(a, b, l), NEW s, NEW d,
         ParsePatchTargets(d, s) = Failed \/ ParsePatchTargets(d, s) = Done(Append(MeantOf(cs), a))
  PROVE  RestAt(s, Append(cs, b), d, l)
<1> DEFINE cut == Append(MeantOf(cs), a)
           w == Append(cs, b)
           N == Len(cs)
<1>1. /\ N \in Nat /\ MeantOf(cs) \in Seq(PatchTargets) /\ Len(MeantOf(cs)) = N
      /\ MeantAs(b) \in PatchTargets /\ MeantOf(w) = Append(MeantOf(cs), MeantAs(b))
  BY MeantIs, MeantAsIs, MeantGrows
<1>2. /\ cut \in Seq(PatchTargets) /\ Len(cut) = N + 1 /\ cut[N + 1] = a
      /\ Len(w) = N + 1 /\ w[N + 1] = b
      /\ \A i \in 1..N : cut[i] = MeantOf(w)[i]
  BY <1>1
<1> HIDE DEF cut, w, N
<1>3. RestOk(cut, w, l)
  <2>1. Len(cut) - 1 = N
    BY <1>1, <1>2
  <2> QED
    BY <1>1, <1>2, <2>1 DEF RestOk
<1>4. <<>> \in Seq(PatchTargets) /\ RestOk(<<>>, w, l)
  BY DEF RestOk
<1>5. ParsePatchTargets(d, s).targets = <<>> \/ ParsePatchTargets(d, s).targets = cut
  BY DEF Failed, Done, cut
<1> QED
  BY <1>2, <1>3, <1>4, <1>5 DEF RestAt, w

\* What the writer wants by a line that is no noise, v where w was wanted before.
LineWants(s, x, w, v, d) ==
  /\ x.kind = "plus" =>
       /\ SectionOf(s, d).mode = "add"
       /\ v = ExtendedOf(w, SectionOf(s, d), d, <<>>, <<x.word>>)
  /\ x.kind = "header" =>
       /\ x.mode \in PatchModes /\ x.word \in HeaderPaths /\ v = HeaderWants(w, x.mode, x.word)
       /\ At("search", s) = {} \/ At("header", s) # {}

\* What a target is made of.
LEMMA AnyTarget ==
  ASSUME NEW p, NEW m, NEW b, NEW f, NEW t, t = PatchTarget(p, m, b, f)
  PROVE  t.path = p /\ t.mode = m /\ t.blocks = b /\ t.newFile = f
BY DEF PatchTarget

\* What is left of an added line: a new file has one line more, or none if it is blank.
LEMMA AddedMeans ==
  ASSUME NEW o \in PatchTargets, NEW word \in AllWords, NEW a, a = MeantAs(More(o, <<>>, <<word>>))
  PROVE  /\ a \in PatchTargets
         /\ word = "" => BeginningOf(a, o)
         /\ \A other \in AllWords : \A l : l.kind = "plus" /\ l.word = word =>
              LeftOf(a, More(o, <<>>, <<other>>), l)
<1> DEFINE f == o.newFile
           N == Len(f)
<1>1. f \in Seq(AllWords) /\ N \in Nat /\ o.blocks \in Seq(PatchBlocks)
  BY DEF PatchTargets
<1>2. ASSUME NEW x \in AllWords
      PROVE  /\ More(o, <<>>, <<x>>) \in PatchTargets
             /\ More(o, <<>>, <<x>>) = PatchTarget(o.path, o.mode, o.blocks, Append(f, x))
  <2>1. <<>> \in Seq(PatchBlocks) /\ <<x>> \in Seq(AllWords)
    BY OneWord
  <2>2. o.blocks \o <<>> = o.blocks /\ f \o <<x>> = Append(f, x)
    BY <1>1
  <2> QED
    BY <2>1, <2>2, MoreIs DEF More
<1>3. /\ a \in PatchTargets /\ a.path = o.path /\ a.mode = o.mode /\ a.blocks = o.blocks
      /\ a.newFile = Trimmed(Append(f, word))
  <2> DEFINE t == More(o, <<>>, <<word>>)
             g == Append(f, word)
  <2>1. t \in PatchTargets /\ t = PatchTarget(o.path, o.mode, o.blocks, g)
    BY <1>2
  <2>2. a = MeantAs(t)
    OBVIOUS
  <2> HIDE DEF t, g
  <2>3. t.path = o.path /\ t.mode = o.mode /\ t.blocks = o.blocks /\ t.newFile = g
    BY <2>1, AnyTarget
  <2> QED
    BY <2>1, <2>2, <2>3, MeantAsIs DEF g
<1> HIDE DEF f, N
<1>4. Trimmed(Append(f, word)) = IF word = "" THEN f ELSE Append(f, word)
  <2> DEFINE g == Append(f, word)
  <2>1. g # <<>> /\ Len(g) = N + 1 /\ g[N + 1] = word /\ SubSeq(g, 1, N) = f /\ (N + 1) - 1 = N
    BY <1>1 DEF N
  <2> HIDE DEF g
  <2>2. Trimmed(g) = IF word = "" THEN f ELSE g
    BY <2>1 DEF Trimmed
  <2> QED
    BY <2>2 DEF g
<1>5. IsPrefixOf(o.blocks, o.blocks) /\ IsPrefixOf(f, f)
  BY <1>1 DEF IsPrefixOf, N
<1>6. word = "" => BeginningOf(a, o)
  BY <1>3, <1>4, <1>5 DEF BeginningOf, f
<1>7. ASSUME NEW other \in AllWords, NEW l, l.kind = "plus", l.word = word
      PROVE  LeftOf(a, More(o, <<>>, <<other>>), l)
  <2> DEFINE b == More(o, <<>>, <<other>>)
             g == Append(f, other)
  <2>0. b = PatchTarget(o.path, o.mode, o.blocks, g)
    BY <1>2
  <2> HIDE DEF b, g
  <2>1. b.path = o.path /\ b.mode = o.mode /\ b.blocks = o.blocks /\ b.newFile = g
    BY <2>0, AnyTarget
  <2>2. Len(g) = N + 1 /\ SubSeq(g, 1, N) = f /\ N \in 0..Len(g) - 1 /\ IsPrefixOf(f, g)
                 /\ g = Append(f, other)
    <3>1. /\ g \in Seq(AllWords) /\ Len(g) = N + 1 /\ SubSeq(g, 1, N) = f
          /\ \A i \in 1..N : f[i] = g[i]
      BY <1>1 DEF N, g
    <3> QED
      BY <1>1, <3>1 DEF IsPrefixOf, N, g
  <2>3. \/ IsPrefixOf(a.newFile, b.newFile)
        \/ \E k \in 0..Len(b.newFile) - 1 : a.newFile = Append(SubSeq(b.newFile, 1, k), l.word)
    <3>1. CASE word = ""
      BY <1>3, <1>4, <2>1, <2>2, <3>1
    <3>2. CASE word # ""
      <4>1. N \in 0..Len(b.newFile) - 1 /\ a.newFile = Append(SubSeq(b.newFile, 1, N), l.word)
        BY <1>3, <1>4, <1>7, <2>1, <2>2, <3>2
      <4> QED
        BY <4>1
    <3> QED
      BY <3>1, <3>2
  <2>4. LeftOf(a, b, l)
    BY <1>3, <1>5, <1>7, <2>1, <2>3 DEF LeftOf
  <2> QED
    BY <2>4 DEF b
<1> QED
  BY <1>3, <1>6, <1>7

\* A section with a path and a mode has the last target.
LEMMA LastWanted ==
  ASSUME NEW s \in Texts, NEW w, NEW d \in HeaderPaths, Understood(s, w, d),
         SectionOf(s, d).mode = "add", SectionOf(s, d).word # NoPath
  PROVE  \E cs \in Seq(PatchTargets), o \in PatchTargets : w = Append(cs, o)
<1> DEFINE sec == SectionOf(s, d)
<1>1. sec.mode = "add" /\ sec.word # NoPath /\ At("header", s) # {}
  BY DEF SectionOf, Header, Line
<1>2. IsSection(sec) /\ (PatchRefused(s, w, sec) \/ PatchFollowed(s, w, sec))
  BY <1>1 DEF Understood
<1> HIDE DEF sec
<1>3. CASE PatchRefused(s, w, sec)
  BY <1>1, <1>3, Zenon DEF PatchRefused
<1>4. CASE PatchFollowed(s, w, sec)
  <2>1. PICK cs \in Seq(PatchTargets), ls \in Texts : w = WithOpen(cs, sec, ls)
    BY <1>4 DEF PatchFollowed
  <2>2. w = Append(cs, OpenTarget(sec, ls))
    BY <1>1, <2>1 DEF WithOpen
  <2>3. OpenTarget(sec, ls) \in PatchTargets
    BY <1>1, <1>2, SectionFlushed
  <2> QED
    BY <2>2, <2>3
<1> QED
  BY <1>2, <1>3, <1>4

\* A line of a new file that is cut.
LEMMA AddedRest ==
  ASSUME NEW s \in Texts, NEW w, NEW v, NEW d \in HeaderPaths, Understood(s, w, d),
         WantsMore(w, v), SectionOf(s, d).mode = "add",
         NEW l \in AllLines,
         \/ l = Blank
         \/ l.kind = "plus" /\ \E other \in AllWords :
                                 v = ExtendedOf(w, SectionOf(s, d), d, <<>>, <<other>>)
  PROVE  RestAt(Append(s, l), v, d, l)
<1> DEFINE t == Append(s, l)
           sec == SectionOf(s, d)
           u == ExtendedOf(w, sec, d, <<>>, <<l.word>>)
<1>1. t \in Texts /\ Understood(t, u, d) /\ w \in Seq(PatchTargets) /\ l.word \in AllWords
  <2>1. t \in Texts
    BY LineAppended
  <2>2. Understood(t, u, d)
    BY AddedUnderstood
  <2>3. l.word \in AllWords
    BY DEF AllLines, AllWords
  <2> QED
    BY <2>1, <2>2, <2>3, WantedType
<1> HIDE DEF t
<1>2. CASE sec.word = NoPath
  <2>1. u = w
    BY <1>2 DEF ExtendedOf
  <2>2. CutAt(t, w, d)
    BY <1>1, <2>1, UnderstoodCut
  <2> QED
    BY <2>2, CutRest DEF t
<1>3. CASE sec.word # NoPath
  <2>1. PICK cs \in Seq(PatchTargets), o \in PatchTargets : w = Append(cs, o)
    BY <1>3, LastWanted
  <2>2. \A x \in AllWords : ExtendedOf(w, sec, d, <<>>, <<x>>) = Append(cs, More(o, <<>>, <<x>>))
    <3> SUFFICES ASSUME NEW x \in AllWords
                 PROVE  ExtendedOf(w, sec, d, <<>>, <<x>>) = Append(cs, More(o, <<>>, <<x>>))
      OBVIOUS
    <3> DEFINE es == <<>>
               ws == <<x>>
    <3>1. es \in Seq(PatchBlocks) /\ ws \in Seq(AllWords)
      BY OneWord
    <3> HIDE DEF es, ws, sec
    <3>2. ExtendedOf(Append(cs, o), sec, d, es, ws) = Append(cs, More(o, es, ws))
      BY <1>3, <3>1, ExtendedLast
    <3> QED
      BY <2>1, <3>2, Zenon DEF es, ws
  <2> DEFINE m == More(o, <<>>, <<l.word>>)
             a == MeantAs(m)
  <2>3. m \in PatchTargets
    BY <1>1, OneWord, MoreIs
  <2>4. /\ a \in PatchTargets
        /\ l.word = "" => BeginningOf(a, o)
        /\ \A other \in AllWords : l.kind = "plus" => LeftOf(a, More(o, <<>>, <<other>>), l)
    BY <1>1, AddedMeans
  <2>5. ParsePatchTargets(d, t) = Failed \/ ParsePatchTargets(d, t) = Done(Append(MeantOf(cs), a))
    <3>1. u = Append(cs, m)
      BY <1>1, <2>2
    <3> HIDE DEF m, u
    <3>2. MeantOf(u) = Append(MeantOf(cs), a)
      BY <2>3, <3>1, MeantGrows
    <3>3. ParsePatchTargets(d, t) = Failed \/ ParsePatchTargets(d, t) = Done(MeantOf(u))
      BY <1>1, RoundTripFrom DEF u
    <3> QED
      BY <3>2, <3>3
  <2> HIDE DEF a, m
  <2>6. CASE l = Blank
    <3>1. l.word = ""
      BY <2>6 DEF Blank, Text, Line
    <3>2. RestAt(t, Append(cs, o), d, l)
      BY <2>4, <2>5, <3>1, BeginningLeft, LastDiffers
    <3>3. RestAt(t, v, d, l)
      BY <2>1, <3>2, RestGoesOn DEF RestAt
    <3> QED
      BY <3>3 DEF t
  <2>7. CASE l # Blank
    <3>1. PICK other \in AllWords : v = ExtendedOf(w, sec, d, <<>>, <<other>>)
      BY <2>7
    <3>2. v = Append(cs, More(o, <<>>, <<other>>)) /\ l.kind = "plus"
      BY <2>2, <2>7, <3>1
    <3>3. More(o, <<>>, <<other>>) \in PatchTargets
      BY OneWord, MoreIs
    <3>4. LeftOf(a, More(o, <<>>, <<other>>), l)
      BY <2>4, <3>2
    <3>5. RestAt(t, v, d, l)
      BY <2>4, <2>5, <3>2, <3>3, <3>4, LastDiffers
    <3> QED
      BY <3>5 DEF t
  <2> QED
    BY <2>6, <2>7
<1> QED
  BY <1>2, <1>3

\* A header that is cut.
LEMMA HeaderRest ==
  ASSUME NEW s \in Texts, NEW w, NEW d \in HeaderPaths, Understood(s, w, d),
         At("search", s) = {} \/ At("header", s) # {},
         NEW mode \in PatchModes, NEW path \in PatchPaths, path # NoPath, NEW p \in HeaderPaths,
         WantsMore(w, HeaderWants(w, mode, path))
  PROVE  RestAt(Append(s, Header(mode, p)), HeaderWants(w, mode, path), d, Header(mode, p))
<1> DEFINE l == Header(mode, p)
           t == Append(s, l)
           v == HeaderWants(w, mode, path)
           u == HeaderWants(w, mode, p)
<1>1. l \in AllLines /\ l.kind = "header" /\ l.mode = mode /\ l.word = p
  BY DEF Header, Line, AllLines, PatchModes, HeaderPaths
<1>2. Understood(t, u, d) /\ w \in Seq(PatchTargets)
  BY HeaderUnderstood, WantedType
<1> HIDE DEF l
<1>3. t \in Texts
  BY <1>1, LineAppended
<1> HIDE DEF t
<1>4. CASE p = NoPath
  <2>1. u = w
    BY <1>4 DEF HeaderWants
  <2>2. CutAt(t, w, d)
    BY <1>2, <1>3, <2>1, UnderstoodCut
  <2>3. RestAt(t, v, d, l)
    BY <2>2, CutRest
  <2> QED
    BY <2>3 DEF t, l
<1>5. CASE p # NoPath
  <2> DEFINE a == PatchTarget(p, mode, <<>>, <<>>)
             b == PatchTarget(path, mode, <<>>, <<>>)
  <2>1. /\ a \in PatchTargets /\ a.path = p /\ a.mode = mode /\ a.blocks = <<>> /\ a.newFile = <<>>
        /\ b \in PatchTargets /\ b.path = path /\ b.mode = mode /\ b.blocks = <<>> /\ b.newFile = <<>>
    BY <1>5 DEF PatchTarget, PatchTargets, HeaderPaths
  <2>2. u = Append(w, a) /\ v = Append(w, b)
    BY <1>5 DEF HeaderWants
  <2> HIDE DEF a, b, u, v
  <2>3. MeantAs(a) = a
    <3>1. Trimmed(a.newFile) = a.newFile
      BY <2>1 DEF Trimmed
    <3> QED
      BY <2>1, <3>1 DEF MeantAs, PatchTargets
  <2>4. MeantOf(u) = Append(MeantOf(w), a) /\ (HollowIn(u) <=> HollowIn(w) \/ HollowAt(a))
    BY <1>2, <2>1, <2>2, <2>3, MeantGrows
  <2>5. ParsePatchTargets(d, t) = IF u = <<>> \/ HollowIn(u) THEN Failed ELSE Done(MeantOf(u))
    BY <1>2, <1>3, RoundTripFrom DEF u
  <2>6. CASE HollowIn(u)
    <3>1. ParsePatchTargets(d, t) = Failed
      BY <2>5, <2>6
    <3>2. CutAt(t, v, d)
      BY <3>1, FailedCut
    <3>3. v \in Seq(PatchTargets)
      BY <1>2, <2>1, <2>2
    <3>4. RestAt(t, v, d, l)
      <4>1. ParsePatchTargets(d, t).targets = <<>> /\ <<>> \in Seq(PatchTargets)
        BY <3>1 DEF Failed
      <4> QED
        BY <4>1 DEF RestAt, RestOk
    <3> QED
      BY <3>4 DEF t, l, v
  <2>7. CASE ~HollowIn(u)
    <3>1. mode # "update"
      BY <2>1, <2>4, <2>7 DEF HollowAt
    <3>2. LeftOf(a, b, l)
      <4>1. IsPrefixOf(<<>>, <<>>)
        BY DEF IsPrefixOf
      <4> QED
        BY <1>1, <2>1, <3>1, <4>1 DEF LeftOf
    <3>3. ParsePatchTargets(d, t) = Failed \/ ParsePatchTargets(d, t) = Done(Append(MeantOf(w), a))
      BY <2>4, <2>5
    <3>4. RestAt(t, v, d, l)
      BY <1>2, <2>1, <2>2, <3>2, <3>3, LastDiffers
    <3> QED
      BY <3>4 DEF t, l, v
  <2> QED
    BY <2>6, <2>7
<1> QED
  BY <1>4, <1>5

\* A line that is cut.
LEMMA RestOfLine ==
  ASSUME NEW s \in Texts, NEW w, NEW v, NEW d \in HeaderPaths, Understood(s, w, d),
         WantsMore(w, v), NEW x \in AllLines, NEW l \in Rests(x), LineWants(s, x, w, v, d)
  PROVE  RestAt(Append(s, l), v, d, l)
<1>1. /\ l \in AllLines
      /\ \/ l.kind \in {"text", "envelope"}
         \/ l.kind = "plus" /\ x.kind = "plus"
         \/ /\ l.kind = "header" /\ x.kind = "header" /\ x.word # NoPath
            /\ l.word \in HeaderPaths /\ l = Header(x.mode, l.word)
  BY RestIs
<1>2. CASE l.kind \in {"text", "envelope"} /\ (l = Blank => SectionOf(s, d).mode # "add")
  <2>1. Understood(Append(s, l), w, d) /\ Append(s, l) \in Texts
    BY <1>1, <1>2, NoiseUnderstood, LineAppended
  <2>2. CutAt(Append(s, l), w, d)
    BY <2>1, UnderstoodCut
  <2> QED
    BY <2>2, CutRest
<1>3. CASE l = Blank /\ SectionOf(s, d).mode = "add"
  BY <1>1, <1>3, AddedRest
<1>4. CASE l.kind = "plus" /\ x.kind = "plus"
  <2>1. /\ SectionOf(s, d).mode = "add" /\ x.word \in AllWords
        /\ v = ExtendedOf(w, SectionOf(s, d), d, <<>>, <<x.word>>)
    BY <1>4 DEF LineWants, AllLines, AllWords
  <2> QED
    BY <1>1, <1>4, <2>1, AddedRest
<1>5. CASE l.kind = "header" /\ x.kind = "header" /\ x.word # NoPath
           /\ l.word \in HeaderPaths /\ l = Header(x.mode, l.word)
  <2>1. /\ x.mode \in PatchModes /\ x.word \in PatchPaths /\ v = HeaderWants(w, x.mode, x.word)
        /\ At("search", s) = {} \/ At("header", s) # {}
    BY <1>5 DEF LineWants, HeaderPaths
  <2>2. RestAt(Append(s, Header(x.mode, l.word)), v, d, Header(x.mode, l.word))
    BY <1>5, <2>1, HeaderRest
  <2> QED
    BY <1>5, <2>2
<1> QED
  BY <1>1, <1>2, <1>3, <1>4, <1>5

\* Texts that begin with the same lines.
LEMMA SameFront ==
  ASSUME NEW s \in Texts, NEW t \in Texts, NEW n \in Nat, n <= Len(s), n <= Len(t),
         \A i \in 1..n : t[i] = s[i]
  PROVE  Front(t, n) = Front(s, n)
<1>1. n \in 0..Len(s) /\ n \in 0..Len(t)
  BY FrontIs
<1>2. /\ Front(s, n) \in Texts /\ Len(Front(s, n)) = n /\ \A i \in 1..n : Front(s, n)[i] = s[i]
      /\ Front(t, n) \in Texts /\ Len(Front(t, n)) = n /\ \A i \in 1..n : Front(t, n)[i] = t[i]
  BY <1>1, FrontAt
<1>3. \A i \in 1..n : Front(t, n)[i] = Front(s, n)[i]
  BY <1>2, Zenon
<1> QED
  BY <1>2, <1>3 DEF Texts

\* What is left of the lines of a text that goes on.
LEMMA RestsGoOn ==
  ASSUME NEW s \in Texts, NEW t \in Texts, NEW w, NEW v, NEW d, RestsOf(s, w, d),
         WantsMore(w, v), Len(s) <= Len(t), \A i \in 1..Len(s) : t[i] = s[i],
         \A n \in Len(s) + 1..Len(t) : \A l \in Rests(t[n]) :
           RestAt(Append(Front(t, n - 1), l), v, d, l)
  PROVE  RestsOf(t, v, d)
<1>1. Len(s) \in Nat /\ Len(t) \in Nat
  BY DEF Texts
<1>2. ASSUME NEW n \in 1..Len(t), NEW l \in Rests(t[n])
      PROVE  RestAt(Append(Front(t, n - 1), l), v, d, l)
  <2>1. CASE n \in 1..Len(s)
    <3>1. t[n] = s[n] /\ n - 1 \in Nat /\ n - 1 <= Len(s) /\ n - 1 <= Len(t)
      BY <1>1, <2>1
    <3>2. \A i \in 1..n - 1 : t[i] = s[i]
      BY <1>1, <2>1
    <3>3. Front(t, n - 1) = Front(s, n - 1)
      BY <3>1, <3>2, SameFront
    <3>4. RestAt(Append(Front(s, n - 1), l), w, d, l)
      BY <1>2, <2>1, <3>1 DEF RestsOf
    <3>5. RestAt(Append(Front(s, n - 1), l), v, d, l)
      BY <3>4, RestGoesOn DEF RestAt
    <3> QED
      BY <3>3, <3>5
  <2>2. CASE n \in Len(s) + 1..Len(t)
    BY <1>2, <2>2
  <2> QED
    BY <1>1, <2>1, <2>2
<1> QED
  BY <1>2 DEF RestsOf

\* What is left of the lines of a text with one line more.
LEMMA RestsOfLine ==
  ASSUME NEW s \in Texts, NEW x \in AllLines, NEW w, NEW v, NEW d \in HeaderPaths,
         Understood(s, w, d), RestsOf(s, w, d), WantsMore(w, v), LineWants(s, x, w, v, d)
  PROVE  RestsOf(Append(s, x), v, d)
<1> DEFINE t == Append(s, x)
           N == Len(s)
<1>1. /\ t \in Texts /\ Len(t) = N + 1 /\ N \in Nat /\ t[N + 1] = x
      /\ \A i \in 1..N : t[i] = s[i]
  BY DEF Texts
<1> HIDE DEF t
<1>2. ASSUME NEW n \in N + 1..Len(t), NEW l \in Rests(t[n])
      PROVE  RestAt(Append(Front(t, n - 1), l), v, d, l)
  <2>1. n = N + 1 /\ n - 1 = N /\ N <= Len(s) /\ N <= Len(t)
    BY <1>1
  <2>2. Front(t, N) = s
    <3>1. Front(t, N) = Front(s, N)
      BY <1>1, <2>1, SameFront
    <3> QED
      BY <3>1, FrontIs
  <2>3. l \in Rests(x)
    BY <1>1, <1>2, <2>1
  <2> QED
    BY <2>1, <2>2, <2>3, RestOfLine
<1>3. N <= Len(t)
  BY <1>1
<1> QED
  BY <1>1, <1>2, <1>3, RestsGoOn DEF t

\* A block with an envelope inside is none, if it does not end.
LEMMA EnvelopeInBlock ==
  ASSUME NEW s \in Texts, NEW w, NEW d \in HeaderPaths, Understood(s, w, d),
         SectionOf(s, d).mode = "update",
         NEW y \in Texts, \A k \in {"header", "envelope", "search", "replace"} : At(k, y) = {},
         NEW l \in AllLines, l.kind = "envelope",
         NEW t, t = Then(Opening(s), y)
  PROVE  CutAt(Append(t, l), w, d)
<1> DEFINE u == Append(t, l)
<1>1. CutAt(t, w, d)
  BY CutInBlock
<1>2. t \in Texts
  <2>1. At("header", y) = {} /\ At("envelope", y) = {}
    OBVIOUS
  <2> QED
    BY <2>1, OpenedRead
<1>3. u \in Texts /\ At("header", u) = At("header", t)
  BY <1>2, LineAppended, AtGrows
<1>4. CASE At("header", u) = {}
  <2> DEFINE z == Append(y, l)
  <2>1. z \in Texts /\ At("search", z) = {} /\ At("replace", z) = {}
    <3>1. \A k \in {"search", "replace"} : At(k, y) = {} /\ l.kind # k
      OBVIOUS
    <3> QED
      BY <3>1, LineAppended, AtGrows
  <2>2. u = Then(Opening(s), z)
    <3>1. Opening(s) \in Texts
      <4>1. Mark("search") \in AllLines
        BY DEF Mark, Line, AllLines
      <4> QED
        BY <4>1 DEF Opening, Texts
    <3> QED
      BY <3>1, ThenGrows
  <2> HIDE DEF u, z
  <2>3. ~BlocksOk(u)
    BY <2>1, <2>2, CutBlocks
  <2>4. ParsePatchTargets(d, u) = Failed
    BY <1>4, <2>3 DEF ParsePatchTargets
  <2> QED
    BY <2>4, FailedCut DEF u
<1>5. CASE At("header", u) # {}
  <2>1. PatchParsed(u) = PatchParsed(t)
    <3>1. PatchParsed(u) = ReadLine(PatchParsed(t), l)
      BY <1>2, ReadersGrow
    <3>2. \A st : ReadLine(st, l) = st
      BY DEF ReadLine
    <3> QED
      BY <3>1, <3>2
  <2> HIDE DEF u
  <2>2. ParsePatchTargets(d, u) = ParsePatchTargets(d, t)
    BY <1>3, <1>5, <2>1 DEF ParsePatchTargets, PatchParsed
  <2>3. CutAt(u, w, d)
    BY <1>1, <2>2 DEF CutAt
  <2> QED
    BY <2>3 DEF u
<1> QED
  BY <1>4, <1>5

\* A line of a block that is cut.
LEMMA RestInBlock ==
  ASSUME NEW s \in Texts, NEW w, NEW v, NEW d \in HeaderPaths, Understood(s, w, d),
         SectionOf(s, d).mode = "update", WantsMore(w, v),
         NEW y \in Texts, \A k \in {"header", "envelope", "search", "replace"} : At(k, y) = {},
         NEW x \in AllLines, x.kind # "header", NEW l \in Rests(x)
  PROVE  RestAt(Append(Then(Opening(s), y), l), v, d, l)
<1> DEFINE t == Then(Opening(s), y)
<1>1. l \in AllLines /\ l.kind \in {"text", "envelope", "plus"}
  BY RestIs
<1>2. CASE l.kind = "envelope"
  <2>1. CutAt(Append(t, l), w, d)
    BY <1>1, <1>2, EnvelopeInBlock
  <2> QED
    BY <2>1, CutRest
<1>3. CASE l.kind # "envelope"
  <2> DEFINE z == Append(y, l)
  <2>1. z \in Texts /\ \A k \in {"header", "envelope", "search", "replace"} : At(k, z) = {}
    <3>1. z \in Texts
      BY <1>1, LineAppended
    <3>2. ASSUME NEW k \in {"header", "envelope", "search", "replace"}
          PROVE  At(k, z) = {}
      <4>1. At(k, y) = {} /\ l.kind # k
        BY <1>1, <1>3
      <4> QED
        BY <1>1, <4>1, AtGrows
    <3> QED
      BY <3>1, <3>2
  <2>2. Append(t, l) = Then(Opening(s), z)
    <3>1. Opening(s) \in Texts
      <4>1. Mark("search") \in AllLines
        BY DEF Mark, Line, AllLines
      <4> QED
        BY <4>1 DEF Opening, Texts
    <3> QED
      BY <1>1, <3>1, ThenGrows
  <2> HIDE DEF z
  <2>3. CutAt(Then(Opening(s), z), w, d)
    BY <2>1, CutInBlock
  <2> QED
    BY <2>2, <2>3, CutRest
<1> QED
  BY <1>2, <1>3

\* What is left of the lines of a text with one block more.
LEMMA RestsOfBlock ==
  ASSUME NEW s \in Texts, NEW w, NEW v, NEW d \in HeaderPaths, Understood(s, w, d),
         SectionOf(s, d).mode = "update", RestsOf(s, w, d), WantsMore(w, v),
         NEW x, PatchSearched(x), NEW r, PatchReplacing(r),
         NEW t, t = Then(Opening(s), PatchWritten(x, r))
  PROVE  RestsOf(t, v, d)
<1> DEFINE b == PatchWritten(x, r)
           u == Opening(s)
           m == Mark("search")
<1>1. /\ b \in Texts /\ At("search", b) = {} /\ At("header", b) = {} /\ At("envelope", b) = {}
      /\ \A n \in 0..Len(b) - 1 : At("replace", Front(b, n)) = {}
  BY PairWritten
<1>2. m \in AllLines /\ m.kind = "search"
  BY DEF Mark, Line, AllLines
<1>3. /\ u \in Texts /\ Len(u) = Len(s) + 1 /\ Len(s) \in Nat /\ u[Len(s) + 1] = m
      /\ \A i \in 1..Len(s) : u[i] = s[i]
  BY <1>2 DEF Opening, Texts
<1> HIDE DEF b, u, m
<1>4. /\ t \in Texts /\ Len(t) = Len(u) + Len(b) /\ Len(b) \in Nat
      /\ \A i \in 1..Len(u) : t[i] = u[i]
      /\ \A i \in 1..Len(b) : t[Len(u) + i] = b[i]
  <2>1. t = Then(u, b)
    BY DEF u, b
  <2>2. Len(b) \in Nat
    BY <1>1 DEF Texts
  <2>3. /\ Then(u, b) \in Texts /\ Len(Then(u, b)) = Len(u) + Len(b)
        /\ \A i \in 1..Len(u) : Then(u, b)[i] = u[i]
        /\ \A i \in 1..Len(b) : Then(u, b)[Len(u) + i] = b[i]
    BY <1>1, <1>3, ThenIs
  <2> QED
    BY <2>1, <2>2, <2>3, Zenon
<1>5. ASSUME NEW n \in Len(s) + 1..Len(t), NEW l \in Rests(t[n])
      PROVE  RestAt(Append(Front(t, n - 1), l), v, d, l)
  <2>1. CASE n = Len(s) + 1
    <3>1. n - 1 = Len(s) /\ n \in 1..Len(u) /\ Len(s) <= Len(t)
      BY <1>3, <1>4, <2>1
    <3>2. t[n] = m
      BY <1>3, <1>4, <2>1, <3>1
    <3>3. Front(t, n - 1) = s
      <4>1. \A i \in 1..Len(s) : i \in 1..Len(u)
        BY <1>3
      <4>2. \A i \in 1..Len(s) : t[i] = s[i]
        BY <1>3, <1>4, <4>1
      <4>3. Front(t, Len(s)) = Front(s, Len(s))
        BY <1>3, <1>4, <3>1, <4>2, SameFront
      <4> QED
        BY <3>1, <4>3, FrontIs
    <3>4. LineWants(s, m, w, v, d)
      BY <1>2 DEF LineWants
    <3> QED
      BY <1>2, <1>5, <3>2, <3>3, <3>4, RestOfLine
  <2>2. CASE n # Len(s) + 1
    <3> DEFINE k == (n - 1) - Len(u)
               y == Front(b, k)
    <3>1. /\ k \in 0..Len(b) - 1 /\ k \in 0..Len(b) /\ k + 1 \in 1..Len(b)
          /\ n = Len(u) + (k + 1) /\ n - 1 = Len(u) + k /\ n - 1 \in 0..Len(u) + Len(b)
      BY <1>3, <1>4, <2>2
    <3>2. t[n] = b[k + 1] /\ b[k + 1] \in AllLines /\ b[k + 1].kind # "header"
      <4> HIDE DEF k
      <4>1. b[k + 1] \in AllLines /\ k + 1 \in DOMAIN b
        BY <1>1, <3>1 DEF Texts
      <4> QED
        BY <1>1, <1>4, <3>1, <4>1 DEF At
    <3> HIDE DEF k
    <3>3. y \in Texts
      BY <1>1, <3>1, FrontAt
    <3>4. \A q \in {"header", "envelope", "search", "replace"} : At(q, y) = {}
      <4>1. \A q \in {"header", "envelope", "search"} : At(q, y) = {}
        BY <1>1, <3>1, AtOfBoth
      <4>2. At("replace", y) = {}
        BY <1>1, <3>1
      <4> QED
        BY <4>1, <4>2
    <3>5. Front(t, n - 1) = Then(u, y)
      <4>1. /\ Then(u, y) \in Texts /\ Len(Then(u, y)) = Len(u) + k
            /\ \A i \in 1..Len(u) : Then(u, y)[i] = u[i]
            /\ \A i \in 1..k : Then(u, y)[Len(u) + i] = y[i] /\ y[i] = b[i]
        <5>1. Len(y) = k /\ \A i \in 1..k : y[i] = b[i]
          BY <1>1, <3>1, FrontAt
        <5> HIDE DEF y
        <5> QED
          BY <1>3, <3>3, <5>1, ThenIs
      <4> DEFINE z == Then(u, y)
                 c == n - 1
      <4>2. /\ c \in Nat /\ c <= Len(t) /\ Len(z) = c /\ z \in Texts
        BY <1>3, <1>4, <3>1, <4>1
      <4>3. \A i \in 1..c : t[i] = z[i]
        <5> SUFFICES ASSUME NEW i \in 1..c
                     PROVE  t[i] = z[i]
          OBVIOUS
        <5>1. CASE i \in 1..Len(u)
          BY <1>4, <4>1, <5>1
        <5>2. CASE i \notin 1..Len(u)
          <6> DEFINE j == i - Len(u)
          <6>1. j \in 1..k /\ j \in 1..Len(b) /\ i = Len(u) + j
            BY <1>3, <3>1, <5>2
          <6> HIDE DEF j, z
          <6>2. z[Len(u) + j] = b[j] /\ t[Len(u) + j] = b[j]
            BY <1>4, <4>1, <6>1 DEF z
          <6> QED
            BY <6>1, <6>2
        <5> QED
          BY <5>1, <5>2
      <4> HIDE DEF z, c
      <4>4. Front(t, c) = Front(z, c)
        BY <1>4, <4>2, <4>3, SameFront
      <4>5. Front(z, c) = z
        BY <4>2, FrontIs
      <4> QED
        BY <4>4, <4>5 DEF z, c
    <3> HIDE DEF y
    <3>6. RestAt(Append(Then(u, y), l), v, d, l)
      BY <1>5, <3>2, <3>3, <3>4, RestInBlock DEF u
    <3> QED
      BY <3>5, <3>6
  <2> QED
    BY <2>1, <2>2
<1>6. Len(s) <= Len(t) /\ \A i \in 1..Len(s) : t[i] = s[i]
  <2>1. \A i \in 1..Len(s) : i \in 1..Len(u)
    BY <1>3
  <2> QED
    BY <1>3, <1>4, <2>1
<1> QED
  BY <1>4, <1>5, <1>6, RestsGoOn

-----------------------------------------------------------------------------
(* The patch is understood *)

\* The writer writes texts, and what is read of them is what is wanted.
PatchInv ==
  /\ text \in Texts /\ defaultPath \in HeaderPaths
  /\ sections \in Nat
  /\ (sections = 0) <=> (At("header", text) = {})
  /\ Understood(text, wanted, defaultPath)
  /\ Cuts(text, wanted, defaultPath)
  /\ RestsOf(text, wanted, defaultPath)

\* The section that is written is the one of the text.
LEMMA SectionIs ==
  ASSUME (sections = 0) <=> (At("header", text) = {})
  PROVE  Section = SectionOf(text, defaultPath)
<1>1. CASE sections = 0
  BY <1>1 DEF Section, SectionOf
<1>2. CASE sections # 0
  BY <1>2 DEF Section, SectionOf
<1> QED
  BY <1>1, <1>2

\* More is wanted as the writer writes it.
LEMMA ExtendedIs ==
  ASSUME (sections = 0) <=> (At("header", text) = {}), NEW block, NEW words
  PROVE  Extended(block, words) =
           ExtendedOf(wanted, SectionOf(text, defaultPath), defaultPath, block, words)
<1>1. Section = SectionOf(text, defaultPath)
  BY SectionIs
<1> QED
  BY <1>1, Zenon DEF Extended, ExtendedOf

\* The lines of the searches and replacements the writer writes.
LEMMA WritersTexts ==
  /\ \A s \in Searches : PatchSearched(Lines(s))
  /\ \A r \in Replacements : PatchReplacing(r)
<1>1. ASSUME NEW s \in Searches
      PROVE  PatchSearched(Lines(s))
  <2>1. PICK w \in Words : s = <<w>>
    BY DEF Searches
  <2> DEFINE x == Lines(s)
  <2>2. x = <<Text(w)>>
    BY <2>1 DEF Lines
  <2>3. Text(w) \in AllLines /\ Text(w).kind = "text"
    BY DEF Text, Line, AllLines
  <2> HIDE DEF x
  <2>4. x \in Texts /\ DOMAIN x = 1..1 /\ x[1] = Text(w)
    BY <2>2, <2>3 DEF Texts
  <2>5. \A k \in {"header", "envelope", "search", "split", "replace"} : At(k, x) = {}
    BY <2>3, <2>4 DEF At
  <2>6. PatchSearched(x)
    BY <2>4, <2>5 DEF PatchSearched
  <2> QED
    BY <2>6 DEF x
<1>2. ASSUME NEW r \in Replacements
      PROVE  PatchReplacing(r)
  <2>1. \/ r = <<>> \/ r = <<Mark("split")>> \/ \E w \in Words : r = <<Text(w), Blank>>
    BY DEF Replacements
  <2>2. CASE r = <<>>
    <3>1. r \in Texts /\ DOMAIN r = {}
      BY <2>2 DEF Texts
    <3>2. \A k : At(k, r) = {}
      BY <3>1 DEF At
    <3> QED
      BY <3>1, <3>2 DEF PatchReplacing
  <2>3. CASE r = <<Mark("split")>>
    <3> DEFINE l == Mark("split")
    <3>1. l \in AllLines /\ l.kind = "split"
      BY DEF Mark, Line, AllLines
    <3>2. r = <<l>>
      BY <2>3
    <3> HIDE DEF l
    <3>3. r \in Texts /\ DOMAIN r = 1..1 /\ r[1] = l
      BY <3>1, <3>2 DEF Texts
    <3>4. \A k \in {"header", "envelope", "search", "replace"} : At(k, r) = {}
      BY <3>1, <3>3 DEF At
    <3> QED
      BY <3>3, <3>4 DEF PatchReplacing
  <2>4. ASSUME NEW w \in Words, r = <<Text(w), Blank>>
        PROVE  PatchReplacing(r)
    <3> DEFINE l == Text(w)
               m == Blank
    <3>1. l \in AllLines /\ m \in AllLines /\ l.kind = "text" /\ m.kind = "text"
      BY BlankIs DEF Text, Blank, Line, AllLines
    <3>2. r = <<l, m>>
      BY <2>4
    <3> HIDE DEF l, m
    <3>3. r \in Texts /\ DOMAIN r = 1..2 /\ r[1] = l /\ r[2] = m
      BY <3>1, <3>2 DEF Texts
    <3>4. \A k \in {"header", "envelope", "search", "replace"} : At(k, r) = {}
      BY <3>1, <3>3 DEF At
    <3> QED
      BY <3>3, <3>4 DEF PatchReplacing
  <2> QED
    BY <2>1, <2>2, <2>3, <2>4
<1> QED
  BY <1>1, <1>2

\* Texts behind each other, from the front or from the end.
LEMMA ThreeTexts ==
  ASSUME NEW a \in Texts, NEW b \in Texts, NEW c \in Texts
  PROVE  Then(Then(a, b), c) = Then(a, Then(b, c))
<1>1. a \in Seq(AllLines) /\ b \in Seq(AllLines) /\ c \in Seq(AllLines)
  BY DEF Texts
<1>2. (a \o b) \o c = a \o (b \o c)
  BY <1>1, ConcatAssociative
<1> QED
  BY <1>2 DEF Then

\* So it is with five.
LEMMA FiveTexts ==
  ASSUME NEW p \in Texts, NEW x \in Texts, NEW q \in Texts, NEW r \in Texts, NEW t \in Texts
  PROVE  Then(Then(Then(Then(p, x), q), r), t) = Then(p, Then(Then(Then(x, q), r), t))
<1>1. ASSUME NEW a \in Texts, NEW b \in Texts, NEW c \in Texts
      PROVE  Then(Then(a, b), c) = Then(a, Then(b, c))
  BY ThreeTexts
<1>2. Then(x, q) \in Texts
  BY ThenIs
<1>3. Then(Then(x, q), r) \in Texts
  BY <1>2, ThenIs
<1>4. Then(Then(p, x), q) = Then(p, Then(x, q))
  BY <1>1
<1>5. Then(Then(p, Then(x, q)), r) = Then(p, Then(Then(x, q), r))
  BY <1>1, <1>2
<1>6. Then(Then(p, Then(Then(x, q), r)), t) = Then(p, Then(Then(Then(x, q), r), t))
  BY <1>1, <1>3
<1> QED
  BY <1>4, <1>5, <1>6, Zenon

\* What the writer appends for a block is a search marker and the block.
LEMMA BlockAppended ==
  ASSUME NEW s \in Texts, NEW x \in Texts, NEW r \in Texts
  PROVE  s \o (<<Mark("search")>> \o x \o <<Mark("split")>> \o r \o <<Mark("replace")>>)
           = Then(Opening(s), PatchWritten(x, r))
<1> DEFINE a == Mark("search")
           b == Mark("split")
           c == Mark("replace")
<1>1. a \in AllLines /\ b \in AllLines /\ c \in AllLines
  BY DEF Mark, Line, AllLines
<1>2. s \in Seq(AllLines) /\ x \in Seq(AllLines) /\ r \in Seq(AllLines)
  BY DEF Texts
<1> HIDE DEF a, b, c
<1>3. Opening(s) = s \o <<a>>
  BY <1>1, <1>2 DEF Opening, a
<1> DEFINE ab == x \o <<b>>
           abr == ab \o r
           w == abr \o <<c>>
<1>4. PatchWritten(x, r) = w
  <2>1. Append(x, b) = ab /\ ab \in Seq(AllLines)
    BY <1>1, <1>2
  <2>2. Append(abr, c) = w
    <3>1. abr \in Seq(AllLines)
      BY <1>2, <2>1
    <3> HIDE DEF abr
    <3> QED
      BY <1>1, <3>1
  <2> HIDE DEF w
  <2> QED
    BY <2>1, <2>2 DEF PatchWritten, Then, b, c
<1>5. <<a>> \o x \o <<b>> \o r \o <<c>> = <<a>> \o w
  <2> DEFINE A == <<a>>
             B == <<b>>
             C == <<c>>
  <2>1. A \in Texts /\ B \in Texts /\ C \in Texts
    BY <1>1 DEF Texts
  <2> HIDE DEF A, B, C
  <2>2. Then(Then(Then(Then(A, x), B), r), C) = Then(A, Then(Then(Then(x, B), r), C))
    BY <2>1, FiveTexts
  <2> QED
    BY <2>2, Zenon DEF Then, A, B, C
<1>6. s \o (<<a>> \o w) = (s \o <<a>>) \o w
  <2> DEFINE A == <<a>>
  <2>1. w \in Seq(AllLines) /\ A \in Seq(AllLines)
    BY <1>1, <1>2
  <2> HIDE DEF w, A
  <2>2. w \in Texts /\ A \in Texts
    BY <2>1 DEF Texts
  <2>3. Then(Then(s, A), w) = Then(s, Then(A, w))
    BY <2>2, ThreeTexts
  <2> QED
    BY <2>3, Zenon DEF Then, A
<1> HIDE DEF w
<1> QED
  BY <1>3, <1>4, <1>5, <1>6, Zenon DEF Then, a, b, c

\* It begins so.
LEMMA PatchInvInit == PatchInit => PatchInv
<1> SUFFICES ASSUME PatchInit
             PROVE  PatchInv
  OBVIOUS
<1>1. /\ text = <<>> /\ wanted = <<>> /\ sections = 0 /\ defaultPath \in HeaderPaths
  BY PatchAssumption DEF PatchInit, HeaderPaths
<1>2. <<>> \in Texts /\ Len(<<>>) = 0 /\ \A k : At(k, <<>>) = {}
  BY DEF Texts, At
<1>3. PatchParsed(<<>>) = State(NoPath, "", <<>>, <<>>)
  BY ReadersBegin DEF NoSection, State
<1>4. AllWhole(<<>>) /\ Parts(<<>>) = <<>>
  BY ReadersBegin DEF AllWhole
<1>5. HeadlessOk(<<>>, <<>>, defaultPath)
  BY <1>2, <1>3, <1>4 DEF HeadlessOk
<1>6. Understood(text, wanted, defaultPath)
  BY <1>1, <1>2, <1>5 DEF Understood
<1>7. Cuts(text, wanted, defaultPath) /\ RestsOf(text, wanted, defaultPath)
  BY <1>1, <1>2 DEF Cuts, RestsOf
<1> QED
  BY <1>1, <1>2, <1>6, <1>7 DEF PatchInv

\* One line more, of a header, a new file or noise.
LEMMA PatchInvLine ==
  ASSUME PatchInv, NEW l \in AllLines, Appends(<<l>>), UNCHANGED defaultPath,
         IF l.kind = "header" THEN sections' = sections + 1 ELSE sections' = sections,
         WantsMore(wanted, wanted'), Understood(Append(text, l), wanted', defaultPath),
         LineWants(text, l, wanted, wanted', defaultPath)
  PROVE  PatchInv'
<1>1. /\ text \in Texts /\ defaultPath \in HeaderPaths /\ sections \in Nat
      /\ (sections = 0) <=> (At("header", text) = {})
      /\ Cuts(text, wanted, defaultPath) /\ RestsOf(text, wanted, defaultPath)
      /\ Understood(text, wanted, defaultPath)
  BY DEF PatchInv
<1>2. text' = Append(text, l) /\ text' \in Texts
  <2>1. text' = text \o <<l>>
    BY DEF Appends
  <2>2. Append(text, l) \in Texts
    BY <1>1 DEF Texts
  <2> QED
    BY <1>1, <2>1, <2>2, LineAppended
<1>3. Cuts(text', wanted', defaultPath) /\ RestsOf(text', wanted', defaultPath)
  BY <1>1, <1>2, CutsOfLine, RestsOfLine
<1>4. (sections' = 0) <=> (At("header", text') = {})
  <2>1. At("header", Append(text, l)) =
          IF l.kind = "header" THEN At("header", text) \cup {Len(text) + 1}
          ELSE At("header", text)
    BY <1>1, AtGrows
  <2> QED
    BY <1>1, <1>2, <2>1
<1>5. sections' \in Nat
  BY <1>1
<1> QED
  BY <1>1, <1>2, <1>3, <1>4, <1>5 DEF PatchInv

\* Each step keeps it.
LEMMA PatchInvNext == PatchInv /\ [PatchNext]_patchVars => PatchInv'
<1> SUFFICES ASSUME PatchInv, [PatchNext]_patchVars
             PROVE  PatchInv'
  OBVIOUS
<1> DEFINE s == text
           w == wanted
           d == defaultPath
           sec == SectionOf(s, d)
<1>1. /\ s \in Texts /\ d \in HeaderPaths /\ sections \in Nat
      /\ (sections = 0) <=> (At("header", s) = {})
      /\ Understood(s, w, d) /\ Cuts(s, w, d) /\ RestsOf(s, w, d)
  BY DEF PatchInv
<1>2. w \in Seq(PatchTargets)
  BY <1>1, WantedType
<1>3. Section = sec
  BY <1>1, SectionIs
<1>4. \A block, words : Extended(block, words) = ExtendedOf(w, sec, d, block, words)
  BY <1>1, ExtendedIs
<1> HIDE DEF sec
<1>5. ASSUME NEW mode \in PatchModes, NEW path \in HeaderPaths, WriteHeader(mode, path)
      PROVE  PatchInv'
  <2> DEFINE l == Header(mode, path)
  <2>1. /\ Appends(<<l>>) /\ sections' = sections + 1 /\ UNCHANGED defaultPath
        /\ wanted' = HeaderWants(w, mode, path)
        /\ At("search", s) = {} \/ At("header", s) # {}
    <3>1. At("search", s) = {} \/ sections > 0
      BY <1>5 DEF WriteHeader
    <3>2. At("search", s) = {} \/ At("header", s) # {}
      BY <1>1, <3>1
    <3> QED
      BY <1>5, <3>2 DEF WriteHeader, HeaderWants
  <2>2. l \in AllLines /\ l.kind = "header"
    BY DEF Header, Line, AllLines, PatchModes, HeaderPaths
  <2>3. Understood(Append(s, l), wanted', d)
    BY <1>1, <2>1, HeaderUnderstood
  <2>4. WantsMore(w, wanted')
    BY <1>2, <2>1, HeaderWantsMore
  <2>5. LineWants(s, l, w, wanted', d)
    <3>1. l.kind = "header" /\ l.mode = mode /\ l.word = path
      BY DEF Header, Line
    <3> HIDE DEF l
    <3> QED
      BY <2>1, <3>1 DEF LineWants
  <2> HIDE DEF l
  <2> QED
    BY <2>1, <2>2, <2>3, <2>4, <2>5, PatchInvLine
<1>6. ASSUME NEW x \in Searches, NEW r \in Replacements, WriteBlock(x, r)
      PROVE  PatchInv'
  <2> DEFINE y == Lines(x)
             p == PatchPair(y, r)
  <2>1. PatchSearched(y) /\ PatchReplacing(r) /\ y \in Texts /\ r \in Texts
    BY WritersTexts DEF PatchSearched, PatchReplacing
  <2>2. sec.mode = "update" /\ sections' = sections /\ defaultPath' = d
    BY <1>3, <1>6 DEF WriteBlock
  <2>3. text' = Then(Opening(s), PatchWritten(y, r))
    <3>1. text' = s \o (<<Mark("search")>> \o y \o <<Mark("split")>> \o r \o <<Mark("replace")>>)
      BY <1>6 DEF WriteBlock, Appends
    <3> HIDE DEF y
    <3> QED
      BY <1>1, <2>1, <3>1, BlockAppended
  <2>4. wanted' = ExtendedOf(w, sec, d, <<p>>, <<>>)
    <3>1. wanted' = Extended(<<p>>, <<>>)
      BY <1>6 DEF WriteBlock, PatchPair
    <3> HIDE DEF p
    <3> QED
      BY <1>4, <3>1
  <2> HIDE DEF y
  <2>5. p \in PatchBlocks
    BY <2>1, PairWritten
  <2>6. Understood(text', wanted', d)
    BY <1>1, <2>1, <2>2, <2>3, <2>4, BlockUnderstood DEF sec
  <2>7. text' \in Texts /\ ((At("header", text') = {}) <=> (At("header", s) = {}))
    <3> DEFINE b == PatchWritten(y, r)
    <3>1. b \in Texts /\ At("header", b) = {} /\ At("envelope", b) = {}
      BY <2>1, PairWritten
    <3> HIDE DEF b
    <3>2. text' = Then(Opening(s), b)
      BY <2>3 DEF b
    <3> QED
      BY <1>1, <3>1, <3>2, OpenedRead
  <2>8. wanted' \in Seq(PatchTargets)
    BY <1>1, <2>6, <2>7, WantedType
  <2>9. WantsMore(w, wanted')
    <3>1. <<p>> \in Seq(PatchBlocks) /\ <<>> \in Seq(AllWords)
      BY <2>5
    <3> HIDE DEF p
    <3> QED
      BY <1>2, <2>4, <2>8, <3>1, ExtendedWantsMore
  <2>10. Cuts(text', wanted', d) /\ RestsOf(text', wanted', d)
    BY <1>1, <2>1, <2>2, <2>3, <2>6, <2>9, CutsOfBlock, RestsOfBlock DEF sec
  <2> QED
    BY <1>1, <2>2, <2>6, <2>7, <2>10 DEF PatchInv
<1>7. ASSUME NEW l \in AddedLines, WriteAdded(l)
      PROVE  PatchInv'
  <2>1. /\ sec.mode = "add" /\ Appends(<<l>>) /\ sections' = sections /\ UNCHANGED defaultPath
        /\ wanted' = ExtendedOf(w, sec, d, <<>>, <<l.word>>)
    BY <1>3, <1>4, <1>7 DEF WriteAdded
  <2>2. l \in AllLines /\ l.kind # "header" /\ (l.kind = "plus" \/ l = Blank)
    BY BlankIs, LinesAre DEF AddedLines
  <2>3. l.word \in AllWords
    BY <2>2 DEF AllLines, AllWords
  <2>4. Understood(Append(s, l), wanted', d)
    BY <1>1, <2>1, <2>2, AddedUnderstood DEF sec
  <2>5. WantsMore(w, wanted')
    <3>1. wanted' \in Seq(PatchTargets)
      <4>1. Append(s, l) \in Texts
        BY <1>1, <2>2, LineAppended
      <4> QED
        BY <1>1, <2>4, <4>1, WantedType
    <3>2. <<l.word>> \in Seq(AllWords)
      BY <2>3, OneWord
    <3>3. <<>> \in Seq(PatchBlocks)
      BY OneWord
    <3> QED
      BY <1>2, <2>1, <3>1, <3>2, <3>3, ExtendedWantsMore
  <2>6. LineWants(s, l, w, wanted', d)
    BY <2>1, <2>2 DEF LineWants, sec
  <2> QED
    BY <2>1, <2>2, <2>4, <2>5, <2>6, PatchInvLine
<1>8. ASSUME NEW l \in Noise, WriteNoise(l)
      PROVE  PatchInv'
  <2>1. /\ l = Blank => sec.mode # "add"
        /\ Appends(<<l>>) /\ sections' = sections /\ UNCHANGED defaultPath /\ wanted' = w
    BY <1>3, <1>8 DEF WriteNoise
  <2>2. l \in AllLines /\ l.kind \in {"envelope", "text"}
    <3>1. l = Mark("envelope") \/ l = Blank \/ \E u \in Words : l = Text(u)
      BY DEF Noise
    <3>2. Mark("envelope") \in AllLines /\ Mark("envelope").kind = "envelope"
      BY DEF Mark, Line, AllLines
    <3>3. \A u \in Words \cup {""} : Text(u) \in AllLines /\ Text(u).kind = "text"
      BY DEF Text, Line, AllLines
    <3> QED
      BY <3>1, <3>2, <3>3 DEF Blank
  <2>3. Understood(Append(s, l), wanted', d)
    BY <1>1, <2>1, <2>2, NoiseUnderstood DEF sec
  <2>4. WantsMore(w, wanted')
    <3>1. \A o \in PatchTargets : BeginningOf(o, o)
      BY BeginningIs
    <3>2. Len(w) \in Nat /\ (w # <<>> => w[Len(w)] \in PatchTargets)
      BY <1>2
    <3> QED
      BY <1>2, <2>1, <3>1, <3>2 DEF WantsMore
  <2>5. l.kind # "header" /\ l.kind # "plus"
    BY <2>2
  <2>6. LineWants(s, l, w, wanted', d)
    BY <2>5 DEF LineWants
  <2> QED
    BY <2>1, <2>2, <2>3, <2>4, <2>5, <2>6, PatchInvLine
<1>9. CASE UNCHANGED patchVars
  BY <1>9 DEF patchVars, PatchInv
<1> QED
  <2>1. NamedPaths \cup {NoPath} \subseteq HeaderPaths
    BY PatchAssumption DEF HeaderPaths
  <2> QED
    BY <1>5, <1>6, <1>7, <1>8, <1>9, <2>1 DEF PatchNext, PatchModes

\* What is read is what is meant, of the text and of any beginning of it.
LEMMA PatchInvShows == PatchInv => PatchUnderstood
<1> SUFFICES ASSUME PatchInv
             PROVE  PatchUnderstood
  OBVIOUS
<1>1. text \in Texts /\ defaultPath \in HeaderPaths /\ Understood(text, wanted, defaultPath)
      /\ Cuts(text, wanted, defaultPath) /\ RestsOf(text, wanted, defaultPath)
  BY DEF PatchInv
<1>2. wanted \in Seq(PatchTargets)
  BY <1>1, WantedType
<1>3. Meant = MeantOf(wanted) /\ Hollow = HollowIn(wanted)
  BY DEF Meant, MeantOf, Hollow, HollowIn
<1>4. RoundTrip
  <2>1. ParsePatchTargets(defaultPath, text) =
          IF wanted = <<>> \/ HollowIn(wanted) THEN Failed ELSE Done(MeantOf(wanted))
    BY <1>1, RoundTripFrom
  <2> QED
    BY <1>3, <2>1 DEF RoundTrip
<1>5. CutMeansLess
  <2>1. DOMAIN text = 1..Len(text)
    BY <1>1 DEF Texts
  <2>2. ASSUME NEW n \in 1..Len(text)
        PROVE  CutOk(ParsePatchTargets(defaultPath, SubSeq(text, 1, n)).targets, wanted)
    BY <1>1 DEF Cuts, CutAt, Front
  <2> QED
    BY <1>3, <2>1, <2>2 DEF CutMeansLess, CutOk, BeginningOf
<1>6. RestMeansLess
  <2>1. DOMAIN text = 1..Len(text)
    BY <1>1 DEF Texts
  <2>2. ASSUME NEW n \in 1..Len(text), NEW l \in Rests(text[n])
        PROVE  RestOk(ParsePatchTargets(defaultPath, Append(SubSeq(text, 1, n - 1), l)).targets,
                      wanted, l)
    BY <1>1 DEF RestsOf, RestAt, Front
  <2> QED
    BY <1>3, <2>1, <2>2 DEF RestMeansLess, RestOk
<1> QED
  BY <1>4, <1>5, <1>6 DEF PatchUnderstood

\* What a patch is read as is what the model meant, in order and with all its blocks
\* and lines.  Cut off behind a line it means less of it, and so it does inside one,
\* but for a file that is to be added or deleted: a header that is cut may name another.
THEOREM PatchAlwaysUnderstood == PatchSpec => []PatchUnderstood
<1>1. PatchInit => PatchInv
  BY PatchInvInit
<1>2. PatchInv /\ [PatchNext]_patchVars => PatchInv'
  BY PatchInvNext
<1>3. PatchInv => PatchUnderstood
  BY PatchInvShows
<1> QED
  BY <1>1, <1>2, <1>3, PTL DEF PatchSpec
=============================================================================
