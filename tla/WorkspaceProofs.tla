---------------------------- MODULE WorkspaceProofs ----------------------------
(***************************************************************************)
(* The parts of the workspace beside each other, as MCWorkspace composes   *)
(* them: each behaves as it does alone, so that what is proved of it there *)
(* holds here.                                                             *)
(***************************************************************************)
EXTENDS MCWorkspace, ToolboxProofs, ClientProofs, SubtasksProofs

-----------------------------------------------------------------------------
(* The parts together *)

\* A step of the composition is one of a part, and none of the others; each part
\* begins as it begins alone.
LEMMA PartsAlone ==
  MCSpec => Spec /\ ConfigSpec /\ WebChatSpec /\ PromptSpec /\ SubtasksSpec
<1>1. MCInit => Init /\ ConfigInit /\ WebChatInit /\ PromptInit /\ SubtasksInit
  BY DEF MCInit
<1> DEFINE all == <<part, vars, patchVars, configVars, chatVars, promptVars,
                    subtaskVars, textVars, rankVars>>
<1>2. ASSUME [MCNext]_all
      PROVE  /\ [Next]_vars /\ [ConfigNext]_configVars /\ [WebChatNext]_chatVars
             /\ [PromptNext]_promptVars /\ [SubtasksNext]_subtaskVars
  <2>1. CASE UNCHANGED all
    BY <2>1
  <2>2. ASSUME NEW p, In(p), p \notin {"files", "config", "chat", "prompt", "tasks", "mongotasks"}
        PROVE  UNCHANGED vars /\ UNCHANGED configVars /\ UNCHANGED chatVars
                 /\ UNCHANGED promptVars /\ UNCHANGED subtaskVars
    BY <2>2 DEF In
  <2>3. CASE In("patch") \/ In("text") \/ In("ranking")
    BY <2>2, <2>3
  <2>4. CASE In("files") /\ Next
    BY <2>4 DEF In
  <2>5. CASE In("config") /\ ConfigNext
    BY <2>5 DEF In
  <2>6. CASE In("chat") /\ WebChatNext
    BY <2>6 DEF In
  <2>7. CASE In("prompt") /\ PromptNext
    BY <2>7 DEF In
  <2>8. CASE In("tasks") /\ SubtasksNext
    BY <2>8 DEF In
  <2>9. CASE In("mongotasks") /\ SubtasksStep("q1")
    BY <2>9, MCAssumption DEF In, SubtasksNext
  <2> QED
    BY <1>2, <2>1, <2>3, <2>4, <2>5, <2>6, <2>7, <2>8, <2>9 DEF MCNext
<1> QED
  BY <1>1, <1>2, PTL DEF MCSpec, Spec, ConfigSpec, WebChatSpec, PromptSpec, SubtasksSpec

\* Every module's variables keep their types, whatever the parts work on.
THEOREM WorkspaceTypesKept == MCSpec => []WorkspaceTypeOK
<1>1. /\ Spec => []TypeOK
      /\ ConfigSpec => []ConfigTypeOK
      /\ WebChatSpec => []WebChatTypeOK
      /\ SubtasksSpec => []SubtasksTypeOK
  BY FileTypesKept, SettingsTypesKept, ShownOnce, SubtasksTypesKept
<1> QED
  BY <1>1, PartsAlone, PTL DEF WorkspaceTypeOK
===============================================================================
