------------------------------- MODULE McpTools -------------------------------
(***************************************************************************)
(* How a tool of an MCP server reaches the model and comes back as a call: *)
(* availableTools, listMCPTools and callMCPTool of                         *)
(* service/internal/app/integrations.go, executeMCPTool of app.go.         *)
(*                                                                         *)
(* The model is offered every tool of every configured server under a name *)
(* made from both (sanitizeToolName maps several characters to one, so two *)
(* tools may share a name).  When it calls a name, the servers are asked   *)
(* for their tools once more, in the random order of a Go map, and the     *)
(* first tool with that name is called: servers, their tools and the       *)
(* configuration may be others by then.  The calls themselves are in       *)
(* McpClient.                                                              *)
(***************************************************************************)
EXTENDS Naturals, FiniteSets, Sequences, Functions

CONSTANTS
  Servers, Tools,   \* names in the configuration, names servers give
  NameOf(_, _),     \* the sanitized name of a tool of a server
  MaxChanges        \* bound on the changes of the surroundings

\* What a server lists is finite.
ASSUME ToolsAssumption == MaxChanges \in Nat /\ IsFiniteSet(Tools)

VARIABLES
  configured,  \* servers in the configuration file
  tools,       \* the tools each server lists; a server that fails lists none
  listing,     \* "idle", "offering", "resolving", "calling"
  unlisted,    \* servers the listing has still to ask
  listed,      \* the tools listed so far, in order
  offered,     \* the tools the model was offered last
  asked,       \* the name it calls
  called,      \* what was called: a set, empty when the call failed
  changes,     \* how often the surroundings have changed
  offeredAt    \* history: changes when the last offer began

surroundings == <<configured, tools, changes>>
toolsVars == <<surroundings, listing, unlisted, listed, offered, asked, called, offeredAt>>

Pairs == Servers \X Tools
Never == MaxChanges + 1
Names == {NameOf(p[1], p[2]) : p \in Pairs}
Named(ps, n) == {p \in ps : NameOf(p[1], p[2]) = n}

ToolsInit ==
  /\ configured \in SUBSET Servers
  /\ tools \in [Servers -> SUBSET Tools]
  /\ listing = "idle"
  /\ unlisted = {} /\ listed = <<>>
  /\ offered = {} /\ called = {}
  /\ asked \in Names
  /\ changes = 0 /\ offeredAt = Never

\* availableTools
BeginOffer ==
  /\ listing = "idle"
  /\ listing' = "offering"
  /\ unlisted' = configured /\ listed' = <<>>
  /\ called' = {}
  /\ offeredAt' = changes
  /\ UNCHANGED <<surroundings, offered, asked>>

\* The model calls a name, one it was offered or another.
BeginCall ==
  /\ listing = "idle"
  /\ listing' = "resolving"
  /\ unlisted' = configured /\ listed' = <<>>
  /\ called' = {}
  /\ asked' \in Names
  /\ UNCHANGED <<surroundings, offered, offeredAt>>

\* The sequences that have each member of S once.
InSomeOrder(S) == Bijection(1..Cardinality(S), S)

Listing == listing \in {"offering", "resolving"}

\* Mutated form of ListServer: a server that lists nothing ends the listing.
ListServerOrStop(s) ==
  /\ Listing /\ s \in unlisted
  /\ unlisted' = IF tools[s] = {} THEN {} ELSE unlisted \ {s}
  /\ \E order \in InSomeOrder({s} \X tools[s]) : listed' = listed \o order
  /\ UNCHANGED <<surroundings, listing, offered, asked, called, offeredAt>>

\* Mutated form of ListServer: servers are asked over and over.
ListServerAgain(s) ==
  /\ Listing /\ s \in unlisted /\ Len(listed) < 4
  /\ \E order \in InSomeOrder({s} \X tools[s]) : listed' = listed \o order
  /\ UNCHANGED <<surroundings, listing, unlisted, offered, asked, called, offeredAt>>

\* listMCPTools asks one server after the other; one that fails is passed over.
ListServer(s) ==
  /\ Listing /\ s \in unlisted
  /\ unlisted' = unlisted \ {s}
  /\ \E order \in InSomeOrder({s} \X tools[s]) : listed' = listed \o order
  /\ UNCHANGED <<surroundings, listing, offered, asked, called, offeredAt>>

Offer ==
  /\ listing = "offering" /\ unlisted = {}
  /\ offered' = Range(listed)
  /\ listing' = "idle"
  /\ UNCHANGED <<surroundings, unlisted, listed, asked, called, offeredAt>>

\* Mutated form of Match: the name of the server is enough.
MatchServer(i) ==
  \E t \in Tools : NameOf(listed[i][1], t) = asked

Match(i) == NameOf(listed[i][1], listed[i][2]) = asked

\* executeMCPTool: the first match of the new list.
Resolve ==
  /\ listing = "resolving" /\ unlisted = {}
  /\ LET matches == {i \in DOMAIN listed : Match(i)}
     IN IF matches = {}
        THEN listing' = "idle" /\ called' = {}
        ELSE LET i == CHOOSE j \in matches : \A k \in matches : j <= k
             IN listing' = "calling" /\ called' = {listed[i]}
  /\ UNCHANGED <<surroundings, unlisted, listed, offered, asked, offeredAt>>

\* callMCPTool reads the configuration again.
Dial ==
  /\ listing = "calling"
  /\ listing' = "idle"
  /\ called' = {p \in called : p[1] \in configured}
  /\ UNCHANGED <<surroundings, unlisted, listed, offered, asked, offeredAt>>

\* Somebody edits the configuration, or a server comes, goes or changes.
SomethingChanges ==
  /\ changes < MaxChanges
  /\ changes' = changes + 1
  /\ \/ configured' \in SUBSET Servers /\ UNCHANGED tools
     \/ /\ \E s \in Servers, ts \in SUBSET Tools : tools' = [tools EXCEPT ![s] = ts]
        /\ UNCHANGED configured
  /\ UNCHANGED <<listing, unlisted, listed, offered, asked, called, offeredAt>>

ToolsNext ==
  \/ BeginOffer \/ BeginCall \/ Offer \/ Resolve \/ Dial \/ SomethingChanges
  \/ \E s \in Servers : ListServer(s)

ToolsSpec == ToolsInit /\ [][ToolsNext]_toolsVars

-----------------------------------------------------------------------------
(* Properties *)

\* Every variable keeps its type, and no listing asks a server twice.
ToolsTypeOK ==
  /\ configured \subseteq Servers /\ tools \in [Servers -> SUBSET Tools]
  /\ listing \in {"idle", "offering", "resolving", "calling"}
  /\ unlisted \subseteq Servers
  /\ listed \in Seq(Pairs)
  /\ \A i \in DOMAIN listed : Listing => listed[i][1] \notin unlisted
  /\ offered \subseteq Pairs /\ called \subseteq Pairs
  /\ asked \in Names
  /\ changes \in 0..MaxChanges /\ offeredAt \in 0..Never

\* While nothing changes around it, a call of a name the model was offered
\* reaches a tool that was offered under that name: the one the model saw, if
\* no other shares the name.
CallsWhatWasOffered ==
  changes = offeredAt /\ listing = "idle" /\ called # {} =>
    called \subseteq Named(offered, asked)

\* And it is found if, and only if, one was offered: a server that fails hides
\* its own tools and no others, in whatever order the servers are asked.
OfferedIsFound ==
  [][ listing = "resolving" /\ listing' # "resolving" /\ changes = offeredAt =>
        (called' # {}) = (Named(offered, asked) # {}) ]_toolsVars

\* Together: what the model saw is what it calls.
CallsAsOffered == []CallsWhatWasOffered /\ OfferedIsFound
=============================================================================
