---------------------------- MODULE RuntimeConfig ----------------------------
(***************************************************************************)
(* The settings of a run, service/internal/config/config.go: Load reads    *)
(* the environment once, Config.Runtime lays the user's and then the       *)
(* repository's config.json over it, every time it is called.              *)
(*                                                                         *)
(* A text setting is modelled by the layer it comes from, a directory by   *)
(* its absolute path, a switch of the environment by what its word means   *)
(* to getenvBool.  A number is read digit by digit, as getenvInt does,     *)
(* with an int that wraps.                                                 *)
(***************************************************************************)
EXTENDS Integers, Sequences, Functions

CONSTANTS
  TextSettings,  \* the default model and the paths of the LSP and MCP files
  Dirs,          \* directories a file may list, of custom commands
  Numbers,       \* what a file may give as a number
  Digits,        \* digits of a number in the environment, and
  MaxDigits,     \* bound on how many it has
  HalfInts,      \* half the number of ints there are: 2^63 in the program
  Fallback       \* the built-in value of the number

MaxInt == HalfInts - 1

ASSUME ConfigAssumption ==
  /\ Numbers \subseteq -MaxInt..MaxInt /\ Digits \subseteq 0..9
  /\ HalfInts \in Nat \ {0} /\ MaxDigits \in Nat
  /\ Fallback \in 1..MaxInt

VARIABLES
  phase,     \* "parsing", "ready", "user", "project", "merging", "done"
  digits,    \* what getenvInt has read so far
  number,    \* its result so far
  switch,    \* what AUTO_COMPACT says: "yes", "no" or neither
  env,       \* Config.CompactLimit
  runtime,   \* the RuntimeConfig being built
  stray,     \* history: the number was broken off at a character that is no digit
  said       \* history: what each file said when it was read

configVars == <<phase, digits, number, switch, env, runtime, stray, said>>

FileLayers == {"user", "project"}
Overlays == [texts : SUBSET TextSettings, enabled : {"unset", "yes", "no"},
             limit : Numbers, dirs : {<<>>} \cup {<<d>> : d \in Dirs} \cup (Dirs \X Dirs)]
Silent == [texts |-> {}, enabled |-> "unset", limit |-> 0, dirs |-> <<>>]

\* getenvBool: a word it does not know, or none, leaves the switch on.
AutoCompact == IF switch = "no" THEN "no" ELSE "yes"

\* Runtime starts from the Config that Load has made.
FromEnv(n) ==
  [text |-> [s \in TextSettings |-> "env"], enabled |-> AutoCompact, limit |-> n, dirs |-> <<>>]

ConfigInit ==
  /\ phase = "parsing"
  /\ digits = <<>> /\ number = 0 /\ stray = FALSE
  /\ switch \in {"yes", "no", "neither"}
  /\ env = Fallback
  /\ runtime = FromEnv(Fallback)
  /\ said = [f \in FileLayers |-> Silent]

-----------------------------------------------------------------------------
(* getenvInt *)

\* Mutated form of Wrap: the number is kept in fewer bits.
WrapNarrow(n) == n % (HalfInts \div 4)

\* What is left of n in an int.
Wrap(n) ==
  LET m == n % (2 * HalfInts) IN IF m > MaxInt THEN m - 2 * HalfInts ELSE m

ReadDigit(d) ==
  /\ phase = "parsing" /\ Len(digits) < MaxDigits
  /\ digits' = Append(digits, d)
  /\ number' = Wrap(number * 10 + d)
  /\ UNCHANGED <<phase, switch, env, runtime, stray, said>>

\* Mutated form of IsSet: zero counts as a number that was set.
IsNotNegative(n) == n >= 0

IsSet(n) == n > 0

ParsedAs(result) ==
  /\ phase = "parsing"
  /\ env' = result
  /\ digits' = <<>> /\ number' = 0
  /\ phase' = "ready"
  /\ UNCHANGED <<switch, runtime, said>>

\* The text ends; it may have been empty.
EndOfNumber ==
  /\ ParsedAs(IF IsSet(number) THEN number ELSE Fallback)
  /\ UNCHANGED stray

\* A character that is no digit: what was read is given up.
OtherCharacter ==
  /\ ParsedAs(Fallback)
  /\ stray' = TRUE

-----------------------------------------------------------------------------
(* Config.Runtime *)

BeginRuntime ==
  /\ phase \in {"ready", "done"}
  /\ phase' = "user"
  /\ runtime' = FromEnv(env)
  /\ said' = [f \in FileLayers |-> Silent]
  /\ UNCHANGED <<digits, number, switch, env, stray>>

\* Mutated form of Overlaid: a file that leaves a switch out turns it off.
OverlaidOrOff(f, o) ==
  [text    |-> [s \in TextSettings |-> IF s \in o.texts THEN f ELSE runtime.text[s]],
   enabled |-> IF o.enabled = "yes" THEN "yes" ELSE "no",
   limit   |-> IF IsSet(o.limit) THEN o.limit ELSE runtime.limit,
   dirs    |-> runtime.dirs \o o.dirs]

\* applyOverlay, of what the file of layer f says.
Overlaid(f, o) ==
  [text    |-> [s \in TextSettings |-> IF s \in o.texts THEN f ELSE runtime.text[s]],
   enabled |-> IF o.enabled = "unset" THEN runtime.enabled ELSE o.enabled,
   limit   |-> IF IsSet(o.limit) THEN o.limit ELSE runtime.limit,
   dirs    |-> runtime.dirs \o o.dirs]

After == [user |-> "project", project |-> "merging"]

ReadFile(f, o) ==
  /\ phase = f
  /\ runtime' = Overlaid(f, o)
  /\ said' = [said EXCEPT ![f] = o]
  /\ phase' = After[f]
  /\ UNCHANGED <<digits, number, switch, env, stray>>

\* No home or repository, no such file, or no JSON in it.
PassOver(f) ==
  /\ phase = f
  /\ phase' = After[f]
  /\ UNCHANGED <<digits, number, switch, env, runtime, stray, said>>

\* Mutated form of Unique: the last of each is kept.
UniqueLast(ds) ==
  LET kept[n \in 1..Len(ds) + 1] ==
        IF n > Len(ds) THEN <<>>
        ELSE IF ds[n] \in Range(kept[n + 1]) THEN kept[n + 1] ELSE <<ds[n]>> \o kept[n + 1]
  IN kept[1]

\* Kept(ds)[n]: what uniqueStrings keeps of the first n.
Kept(ds) ==
  LET kept[n \in 0..Len(ds)] ==
        IF n = 0 THEN <<>>
        ELSE IF ds[n] \in Range(kept[n - 1]) THEN kept[n - 1] ELSE Append(kept[n - 1], ds[n])
  IN kept

\* uniqueStrings keeps the first of each.
Unique(ds) == Kept(ds)[Len(ds)]

MergeDirs ==
  /\ phase = "merging"
  /\ runtime' = [runtime EXCEPT !.dirs = Unique(@)]
  /\ phase' = "done"
  /\ UNCHANGED <<digits, number, switch, env, stray, said>>

ConfigNext ==
  \/ \E d \in Digits : ReadDigit(d)
  \/ EndOfNumber \/ OtherCharacter
  \/ BeginRuntime \/ MergeDirs
  \/ \E f \in FileLayers : PassOver(f) \/ \E o \in Overlays : ReadFile(f, o)

ConfigSpec == ConfigInit /\ [][ConfigNext]_configVars

-----------------------------------------------------------------------------
(* Properties *)

\* Every variable keeps its type: whatever the environment and the files say,
\* the limit is a positive number, which maybeCompactHistory divides the
\* history by (see CompactionAssumption).
ConfigTypeOK ==
  /\ phase \in {"parsing", "ready", "user", "project", "merging", "done"}
  /\ digits \in Seq(0..9) /\ number \in -MaxInt - 1..MaxInt
  /\ switch \in {"yes", "no", "neither"} /\ stray \in BOOLEAN
  /\ env \in 1..MaxInt /\ runtime.limit \in 1..MaxInt
  /\ runtime.text \in [TextSettings -> FileLayers \cup {"env"}]
  /\ runtime.enabled \in {"yes", "no"}
  /\ runtime.dirs \in Seq(Dirs)
  /\ said \in [FileLayers -> Overlays \cup {Silent}]

\* The value of a sequence of digits, and of each beginning of it.
ValuesOf(ds) ==
  LET value[n \in 0..Len(ds)] == IF n = 0 THEN 0 ELSE 10 * value[n - 1] + ds[n]
  IN value
ValueOf(ds) == ValuesOf(ds)[Len(ds)]

\* A positive number that fits an int is taken as it is.  The built-in value is
\* taken for a text with another character, however it begins, for none and for
\* zero.  A longer number is cut to the bits of an int: of it ConfigTypeOK says
\* that it comes out positive.
NumberIsExact ==
  [][ phase = "parsing" /\ phase' = "ready" =>
        /\ stray' \/ ValueOf(digits) = 0 => env' = Fallback
        /\ ~stray' /\ ValueOf(digits) \in 1..MaxInt => env' = ValueOf(digits) ]_configVars

\* Every setting has the value of the last layer that gives one: the
\* repository's file before the user's, and that before the environment.  A
\* layer gives a switch by naming it, even to turn it off, and a number by a
\* positive one.  Compaction is on if no layer says yes or no to it.
LastOf(gives(_), env0, value(_)) ==
  IF gives("project") THEN value("project") ELSE IF gives("user") THEN value("user") ELSE env0

LastSpeakerWins ==
  phase = "done" =>
    /\ \A s \in TextSettings :
         runtime.text[s] = LastOf(LAMBDA f : s \in said[f].texts, "env", LAMBDA f : f)
    /\ runtime.enabled = LastOf(LAMBDA f : said[f].enabled # "unset",
                                IF switch = "no" THEN "no" ELSE "yes",
                                LAMBDA f : said[f].enabled)
    /\ runtime.limit = LastOf(LAMBDA f : said[f].limit > 0, env, LAMBDA f : said[f].limit)

\* The directories of both files are kept, each once, the user's first: the
\* first directory with a command of a name is the one that gives it.
EveryDirOnce ==
  phase = "done" =>
    /\ Range(runtime.dirs) = Range(said["user"].dirs) \cup Range(said["project"].dirs)
    /\ IsInjective(runtime.dirs)
    /\ \A i, j \in DOMAIN runtime.dirs :
         runtime.dirs[i] \in Range(said["user"].dirs)
           /\ runtime.dirs[j] \notin Range(said["user"].dirs) => i < j

\* Together: every setting is the one the last speaker meant.
SettingsLayered == NumberIsExact /\ [](LastSpeakerWins /\ EveryDirOnce)
=============================================================================
