------------------------------- MODULE PatchText -------------------------------
(***************************************************************************)
(* The text of a patch: ParsePatchTargets, parsePatchBlocks and            *)
(* parseAddFileContent of service/internal/tools/edit.go, which turn what  *)
(* the model wrote into the plan ApplyPatch carries out (see FileTools).   *)
(*                                                                         *)
(* The parser sees lines.  The state machine is the one who writes them: a *)
(* section for each target, a block or a line at a time, with the noise a  *)
(* language model adds.  Its text may end behind any line, or inside one.  *)
(*                                                                         *)
(* A line that is a marker inside a search text, or a header or envelope   *)
(* inside any text, is taken for what it looks like: the writer writes no  *)
(* such line, but for one more split in a text that replaces, which is      *)
(* harmless.  A line of a new file is marked "+" or blank: a blank line in  *)
(* its section is one of the file, and no noise.  Any other is left out.   *)
(***************************************************************************)
EXTENDS Naturals, Sequences, FiniteSets

CONSTANTS
  PatchPaths,    \* paths a header may name, be it whole or cut off
  NamedPaths,    \* those the writer names
  NoPath,        \* a header may name none; no target path may be given
  Words,         \* ordinary lines of text
  MaxSections,   \* bound on the sections of a text
  MaxPieces,     \* bound on the blocks and added lines
  MaxNoise       \* bound on the lines of noise

ASSUME PatchAssumption ==
  /\ NoPath \notin PatchPaths /\ NamedPaths \subseteq PatchPaths
  /\ {MaxSections, MaxPieces, MaxNoise} \subseteq Nat

VARIABLES
  text,         \* the lines written so far
  wanted,       \* the targets the writer means
  sections,     \* sections begun
  pieces,       \* blocks and added lines so far
  noise,        \* lines of noise so far
  defaultPath   \* the argument "path" of the tool call

patchVars == <<text, wanted, sections, pieces, noise, defaultPath>>

Line(kind, mode, word) == [kind |-> kind, mode |-> mode, word |-> word]
Header(mode, path) == Line("header", mode, path)
Mark(kind) == Line(kind, "", "")
Text(w) == Line("text", "", w)
Plus(w) == Line("plus", "", w)
Blank == Text("")

PatchTarget(path, mode, blocks, newFile) ==
  [path |-> path, mode |-> mode, blocks |-> blocks, newFile |-> newFile]

-----------------------------------------------------------------------------
(* parsePatchBlocks *)

At(kind, lines) == {i \in DOMAIN lines : lines[i].kind = kind}
First(is) == CHOOSE i \in is : \A j \in is : i <= j

\* The text of lines: a single blank line is no text.
Joined(lines) == IF lines = <<Blank>> THEN <<>> ELSE lines

\* Mutated form of Complete: the end of the replacement may be missing.
CompleteWithSplit(part) == At("split", part) # {}

\* A part has a split, and the end of the replacement behind it.
Complete(part) ==
  /\ At("split", part) # {} /\ At("replace", part) # {}
  /\ First(At("split", part)) < First(At("replace", part))

Block(part) ==
  LET split == First(At("split", part))
      end == First(At("replace", part) \cup {Len(part) + 1})
  IN [search |-> Joined(SubSeq(part, 1, split - 1)),
      replace |-> Joined(SubSeq(part, split + 1, end - 1))]

\* What is read, one line after the other.
Reading(lines, start, Step(_, _)) ==
  LET read[n \in 0..Len(lines)] == IF n = 0 THEN start ELSE Step(read[n - 1], lines[n])
  IN read[Len(lines)]

\* What follows each search marker, up to the next.
WithLine(parts, line) ==
  IF line.kind = "search" THEN Append(parts, <<>>)
  ELSE IF parts = <<>> THEN <<>>
  ELSE [parts EXCEPT ![Len(parts)] = Append(@, line)]

Parts(lines) == Reading(lines, <<>>, WithLine)

BlocksOk(lines) ==
  LET ps == Parts(lines) IN ps # <<>> /\ \A n \in DOMAIN ps : Complete(ps[n])

ParseBlocks(lines) == LET ps == Parts(lines) IN [n \in DOMAIN ps |-> Block(ps[n])]

\* parseAddFileContent: lines marked "+" and blank ones, less one line end.
WithAdded(words, line) ==
  IF line.kind = "plus" \/ line = Blank THEN Append(words, line.word) ELSE words

Added(lines) == Reading(lines, <<>>, WithAdded)

Trimmed(words) ==
  IF words # <<>> /\ words[Len(words)] = "" THEN SubSeq(words, 1, Len(words) - 1) ELSE words

AddContent(lines) == Trimmed(Added(lines))

-----------------------------------------------------------------------------
(* ParsePatchTargets *)

NoSection == [path |-> NoPath, mode |-> "", lines |-> <<>>, targets |-> <<>>, ok |-> TRUE]

\* The section that is open becomes a target, unless it has no path; an update
\* without a whole block is an error.
Flush(st) ==
  IF st.path = NoPath THEN st
  ELSE IF st.mode = "update" /\ ~BlocksOk(st.lines) THEN [st EXCEPT !.ok = FALSE]
  ELSE [st EXCEPT !.targets = Append(@, PatchTarget(st.path, st.mode,
          IF st.mode = "update" THEN ParseBlocks(st.lines) ELSE <<>>,
          IF st.mode = "add" THEN AddContent(st.lines) ELSE <<>>))]

\* Mutated form of Opened: the lines of the section before stay.
OpenedKeepingLines(st, line) == [st EXCEPT !.path = line.word, !.mode = line.mode]

Opened(st, line) == [st EXCEPT !.path = line.word, !.mode = line.mode, !.lines = <<>>]

ReadLine(st, line) ==
  CASE ~st.ok \/ line.kind = "envelope" -> st
    [] st.ok /\ line.kind = "header" -> Opened(Flush(st), line)
    [] OTHER -> [st EXCEPT !.lines = Append(@, line)]

Failed == [ok |-> FALSE, targets |-> <<>>]
Done(targets) == [ok |-> TRUE, targets |-> targets]

ParsePatchTargets(default, lines) ==
  IF At("header", lines) = {}
  THEN IF default # NoPath /\ BlocksOk(lines)
       THEN Done(<<PatchTarget(default, "update", ParseBlocks(lines), <<>>)>>) ELSE Failed
  ELSE LET st == Flush(Reading(lines, NoSection, ReadLine))
       IN IF st.ok /\ st.targets # <<>> THEN Done(st.targets) ELSE Failed

-----------------------------------------------------------------------------
(* The writer *)

PatchInit ==
  /\ text = <<>> /\ wanted = <<>>
  /\ sections = 0 /\ pieces = 0 /\ noise = 0
  /\ defaultPath \in NamedPaths \cup {NoPath}

Appends(lines) == text' = text \o lines

WriteHeader(mode, path) ==
  /\ sections < MaxSections
  /\ At("search", text) = {} \/ sections > 0  \* no blocks for a path not named before it
  /\ Appends(<<Header(mode, path)>>)
  /\ wanted' = IF path = NoPath THEN wanted ELSE Append(wanted, PatchTarget(path, mode, <<>>, <<>>))
  /\ sections' = sections + 1
  /\ UNCHANGED <<pieces, noise, defaultPath>>

\* The section being written: a header before it names its mode and path.
Section == IF sections = 0 THEN Header("update", defaultPath)
           ELSE text[CHOOSE i \in At("header", text) : \A j \in At("header", text) : j <= i]

Lines(ws) == [i \in DOMAIN ws |-> Text(ws[i])]

More(target, block, words) ==
  PatchTarget(target.path, target.mode, target.blocks \o block, target.newFile \o words)

\* The writer's mind: the last target gets one more block, or line.
Extended(block, words) ==
  IF Section.word = NoPath THEN wanted
  ELSE LET ts == IF wanted = <<>> THEN <<PatchTarget(defaultPath, "update", <<>>, <<>>)>> ELSE wanted
       IN [ts EXCEPT ![Len(ts)] = More(@, block, words)]

WriteBlock(search, replace) ==
  /\ Section.mode = "update" /\ pieces < MaxPieces
  /\ Appends(<<Mark("search")>> \o Lines(search) \o <<Mark("split")>>
            \o replace \o <<Mark("replace")>>)
  /\ wanted' = Extended(<<[search |-> Joined(Lines(search)), replace |-> Joined(replace)]>>, <<>>)
  /\ pieces' = pieces + 1
  /\ UNCHANGED <<sections, noise, defaultPath>>

\* A line of a new file.
WriteAdded(line) ==
  /\ Section.mode = "add" /\ pieces < MaxPieces
  /\ Appends(<<line>>)
  /\ wanted' = Extended(<<>>, <<line.word>>)
  /\ pieces' = pieces + 1
  /\ UNCHANGED <<sections, noise, defaultPath>>

\* The envelope, talk between the blocks or, but for a new file, a blank line.
WriteNoise(line) ==
  /\ noise < MaxNoise
  /\ line = Blank => Section.mode # "add"
  /\ Appends(<<line>>)
  /\ noise' = noise + 1
  /\ UNCHANGED <<wanted, sections, pieces, defaultPath>>

Searches == {<<w>> : w \in Words}
Replacements == {<<>>, <<Mark("split")>>} \cup {<<Text(w), Blank>> : w \in Words}
AddedLines == {Blank} \cup {Plus(w) : w \in Words \cup {""}}
Noise == {Mark("envelope"), Blank} \cup {Text(w) : w \in Words}

PatchNext ==
  \/ \E mode \in {"update", "add", "delete"}, path \in NamedPaths \cup {NoPath} : WriteHeader(mode, path)
  \/ \E s \in Searches, r \in Replacements : WriteBlock(s, r)
  \/ \E l \in AddedLines : WriteAdded(l)
  \/ \E l \in Noise : WriteNoise(l)

PatchSpec == PatchInit /\ [][PatchNext]_patchVars

-----------------------------------------------------------------------------
(* Properties *)

\* A new file is written without the last line end.
Meant == [n \in DOMAIN wanted |-> [wanted[n] EXCEPT !.newFile = Trimmed(@)]]
Hollow == \E n \in DOMAIN wanted : wanted[n].mode = "update" /\ wanted[n].blocks = <<>>

\* The parser understands what the writer means, with all the noise of
\* WriteNoise: the targets, in order, with all their blocks and lines and no
\* others.  It refuses a text that means nothing, or has an update without a
\* block, as a whole.
RoundTrip ==
  ParsePatchTargets(defaultPath, text) =
    IF wanted = <<>> \/ Hollow THEN Failed ELSE Done(Meant)

IsPrefixOf(s, t) == Len(s) <= Len(t) /\ \A i \in DOMAIN s : s[i] = t[i]

\* An answer of the model is cut off at its length limit.  A text that is cut
\* behind a line is refused, or means a beginning of what it meant: no target
\* but the last is different, and that one has the first of its blocks or lines.
CutMeansLess ==
  \A n \in DOMAIN text :
    LET cut == ParsePatchTargets(defaultPath, SubSeq(text, 1, n)).targets
    IN cut # <<>> =>
         /\ Len(cut) <= Len(wanted)
         /\ \A i \in 1..Len(cut) - 1 : cut[i] = Meant[i]
         /\ LET a == cut[Len(cut)]
                b == wanted[Len(cut)]
            IN /\ a.path = b.path /\ a.mode = b.mode
               /\ IsPrefixOf(a.blocks, b.blocks) /\ IsPrefixOf(a.newFile, b.newFile)

\* What may be left of a line that is cut: the beginning of a header names any
\* path or none, that of a marker is text, that of text may look like the envelope.
Rests(line) ==
  {Blank} \cup
  CASE line.kind = "plus" -> {Plus(w) : w \in Words \cup {""}}
    [] line.kind = "header" /\ line.word # NoPath ->
         {Text(w) : w \in Words} \cup {Header(line.mode, p) : p \in PatchPaths \cup {NoPath}}
    [] line.kind = "text" -> {Text(w) : w \in Words} \cup {Mark("envelope")}
    [] OTHER -> {Text(w) : w \in Words}

\* A target a means a beginning of b, where rest is left of a line.  The line may
\* have been one of the new file: a ends with what is left of it.  It may have been
\* the header, and what is left names another path: a is an empty new file there,
\* or deletes what is there.
LeftOf(a, b, rest) ==
  /\ a.mode = b.mode
  /\ \/ a.path = b.path
     \/ rest.kind = "header" /\ a.path = rest.word /\ a.mode # "update" /\ a.newFile = <<>>
  /\ IsPrefixOf(a.blocks, b.blocks)
  /\ \/ IsPrefixOf(a.newFile, b.newFile)
     \/ /\ rest.kind = "plus"
        /\ \E k \in 0..Len(b.newFile) - 1 : a.newFile = Append(SubSeq(b.newFile, 1, k), rest.word)

\* So does a text that is cut inside a line, with the two exceptions of LeftOf
\* and no other.
RestMeansLess ==
  \A n \in DOMAIN text : \A rest \in Rests(text[n]) :
    LET cut == ParsePatchTargets(defaultPath, Append(SubSeq(text, 1, n - 1), rest)).targets
    IN cut # <<>> =>
         /\ Len(cut) <= Len(wanted)
         /\ \A i \in 1..Len(cut) - 1 : cut[i] = Meant[i]
         /\ LeftOf(cut[Len(cut)], wanted[Len(cut)], rest)

\* Together: what the model meant, or no more than a beginning of it, unless the
\* text is cut inside the header of a file that is to be added or deleted.
PatchUnderstood == RoundTrip /\ CutMeansLess /\ RestMeansLess
=============================================================================
