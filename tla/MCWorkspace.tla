------------------------------ MODULE MCWorkspace ------------------------------
(* Instances for TLC of what a run works on and what its user sees of it: the *)
(* files and patch texts of its tools, the settings, and the messages and the *)
(* prompt of the web client.  The modules share no state: a behaviour is one  *)
(* of the part that is chosen at the beginning, and the others do not begin.  *)
EXTENDS FileTools, PatchText, RuntimeConfig, WebChat, WebPrompt, Subtasks,
        CommandText, Ranking

VARIABLE part

MCCalls == {"c1", "c2"}
MCPaths == {"f", "g", "h"}
MCPieces == {"a", "b", "x"}
MCInitial == [p \in MCPaths |->
  CASE p = "f" -> <<"a", "b", "b">> [] p = "g" -> <<"b", "a">> [] OTHER -> Absent]
MCSaved == {<<"a">>, <<"b", "x", "a">>}

MCBlock(s, r, a) == [search |-> s, replace |-> r, all |-> a]
MCUpdate(p, bs) == [path |-> p, mode |-> "update", blocks |-> bs, text |-> <<>>]
MCAdd(p, t) == [path |-> p, mode |-> "add", blocks |-> <<>>, text |-> t]
MCDelete(p) == [path |-> p, mode |-> "delete", blocks |-> <<>>, text |-> <<>>]

\* file_write; file_edit, once with replace_all and once ambiguous in f; patches
\* over several files; a patch that names f twice.
MCPlans == {
  <<MCAdd("h", <<"x">>)>>,
  <<MCUpdate("f", <<MCBlock("b", "x", TRUE)>>)>>,
  <<MCUpdate("f", <<MCBlock("b", "a", FALSE)>>)>>,
  <<MCUpdate("f", <<MCBlock("a", "x", FALSE), MCBlock("x", "b", FALSE)>>),
    MCUpdate("g", <<MCBlock("b", "a", FALSE)>>), MCDelete("h")>>,
  <<MCDelete("g"), MCAdd("h", <<"a", "b">>), MCUpdate("f", <<MCBlock("a", "x", FALSE)>>)>>,
  <<MCUpdate("f", <<MCBlock("a", "x", FALSE)>>), MCUpdate("f", <<MCBlock("a", "b", FALSE)>>)>> }

\* Two sends in the first session, and still a message of one of the runs.
MCRoom == <<3, 1>>

\* Two names of arguments, one the beginning of the other, in every spelling.
MCNames == {"f", "fx"}
MCRest == [n \in MCNames |-> IF n = "fx" THEN {<<"f", "x">>} ELSE {}]
MCTexts == {Lit("a"), AllArgs, Pos(1), Dollar("f"), Dollar("fx"), Brace("f"),
            Mustache("f", <<Lit("d")>>), Mustache("fx", <<>>)}
MCSnippets == MCTexts \cup {Lit(x) : x \in {"a", "d", "f", "fx", "p", "true", "v", "w", "x"}}
MCTemplates == UNION {[1..n -> MCTexts] : n \in 0..2}
MCDeclared == {<<>>, <<Definition("f", TRUE, <<>>), Definition("fx", FALSE, <<Lit("d")>>)>>}
MCGiven == {Word(<<Lit("v")>>), Word(<<Dollar("fx")>>), Pair("f", <<Lit("p")>>),
            FlagPair("fx", <<Lit("w")>>), Flag("f"), Flag("fx")}
MCArguments == UNION {[1..n -> MCGiven] : n \in 0..3}

\* Three keys, two of one label, so that their order can be the map's.
MCKeys == {"k1", "k2", "k3"}
MCLabel == [k \in MCKeys |-> IF k = "k3" THEN 2 ELSE 1]
MCMatches == {Match(k, n, r) : k \in MCKeys, n \in {1, 2}, r \in {<<"x">>, <<"y", "x">>}}
MCFound == UNION {[1..n -> MCMatches] : n \in 0..4}

ASSUME MCAssumption == "q1" \in Requests

-----------------------------------------------------------------------------
RankIdle ==
  /\ found = <<>> /\ taken = 0 /\ merged = [k \in MatchKeys |-> NoMatch]
  /\ ranked = <<>> /\ rankPc = "merging"

MCInit ==
  /\ part \in {"files", "patch", "config", "chat", "prompt", "tasks", "mongotasks",
             "text", "ranking"}
  /\ Init /\ PatchInit /\ ConfigInit /\ WebChatInit /\ PromptInit
  /\ SubtasksInit /\ TextInit
  /\ part # "patch" => defaultPath = NoPath
  /\ part # "config" => switch = "neither"
  /\ part # "text" => parsed = 0 /\ given = <<>> /\ template = <<>> /\ order = <<>>
  /\ IF part = "ranking" THEN RankInit ELSE RankIdle
  /\ inMongo = (part = "mongotasks")

\* Part p makes a step, and no other.
In(p) ==
  /\ part = p /\ part' = p
  /\ p # "files" => UNCHANGED vars
  /\ p # "patch" => UNCHANGED patchVars
  /\ p # "config" => UNCHANGED configVars
  /\ p # "chat" => UNCHANGED chatVars
  /\ p # "prompt" => UNCHANGED promptVars
  /\ p \notin {"tasks", "mongotasks"} => UNCHANGED subtaskVars
  /\ p # "text" => UNCHANGED textVars
  /\ p # "ranking" => UNCHANGED rankVars

MCNext ==
  \/ In("files") /\ Next
  \/ In("patch") /\ PatchNext
  \/ In("config") /\ ConfigNext
  \/ In("chat") /\ WebChatNext
  \/ In("prompt") /\ PromptNext
  \/ In("tasks") /\ SubtasksNext
  \/ In("mongotasks") /\ SubtasksStep("q1")
  \/ In("text") /\ TextNext
  \/ In("ranking") /\ RankNext

MCSpec ==
  MCInit /\ [][MCNext]_<<part, vars, patchVars, configVars, chatVars, promptVars,
                         subtaskVars, textVars, rankVars>>

\* The variables of the file tools, of the settings, of the messages that are
\* shown and of the nested runs keep their types, whatever is chosen to run.
WorkspaceTypeOK == TypeOK /\ ConfigTypeOK /\ WebChatTypeOK /\ SubtasksTypeOK
=============================================================================
