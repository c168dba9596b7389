--------------------------- MODULE WorldAuthoring ---------------------------
(***************************************************************************)
(* The canvas of the World and what its editor does on it: the tools and   *)
(* their composers (an element placed by a click, a relation drawn between *)
(* two nodes), the commands by bar, palette, toolbar and key, the filters  *)
(* and the selection, the positions drawn over the published ones, and how *)
(* all of it follows the editing session (its saves, lease and database    *)
(* are WorldEditSession).                                                  *)
(*                                                                         *)
(* Every change is saved in the lease with its step: the debounce, the     *)
(* queue and their failures are WorldEditSession.                          *)
(* A position is who placed the node: the session's editor, or a visitor,  *)
(* who may drag nodes around without saving anything; Nil is the place the *)
(* automatic layout gives it.                                              *)
(***************************************************************************)
EXTENDS Integers, FiniteSets

CONSTANTS
  Node,      \* the nodes of the World at first,
  New,       \*  and those that may be created
  Edge,      \* the relations at first,
  Pair,      \*  and the <<source, target>> that may be drawn
  Narrow,    \* [{"type", "relation", "query"} -> the nodes a filter keeps]
  MaxOp,     \* bound on what the user does and on what befalls the session
  Nil

VARIABLES
  session,   \* its state, whether the draft changed, and the graph shown
  saved,     \* the draft in the lease's row: positions and graph
  published, \* what everybody sees
  ui,        \* useWorldAuthoringUi
  compose,   \* the element being placed: type, place, name, and the type picker
  candidate, \* the relation being drawn, or Nil
  look,      \* filters, selection, canvas or list
  overrides, \* positionOverrides
  shell,     \* the drawers of the page around
  ops

vars == <<session, saved, published, ui, compose, candidate, look, overrides, shell, ops>>

All == Node \cup New
Placed == {"editor", "visitor"}
Layout == [All -> Placed \cup {Nil}]
NoLayout == [n \in All |-> Nil]
Content == [layout : Layout, nodes : SUBSET All, edges : SUBSET Pair]

TypeOK ==
  /\ session \in [state : {"view", "acquiring", "editing", "publishing"}, dirty : BOOLEAN,
                  nodes : SUBSET All, edges : SUBSET Pair]
  /\ saved \in Content /\ published \in Content /\ overrides \in Layout
  /\ ui \in [tool : {"select", "create", "connect"}, minimal : BOOLEAN,
             inspector : {"closed", "overlay", "docked"}, palette : BOOLEAN]
  /\ compose \in [type : BOOLEAN, point : BOOLEAN, name : BOOLEAN, picker : BOOLEAN]
  /\ candidate \in Pair \cup {Nil}
  /\ look \in [narrow : SUBSET DOMAIN Narrow, selected : All \cup {Nil}, list : BOOLEAN]
  /\ shell \in [navigation : BOOLEAN, header : BOOLEAN]
  /\ ops \in 0..MaxOp

createWorldAuthoringUiState ==
  [tool |-> "select", minimal |-> FALSE, inspector |-> "docked", palette |-> FALSE]
NoCompose == [type |-> FALSE, point |-> FALSE, name |-> FALSE, picker |-> FALSE]

Init ==
  /\ session = [state |-> "view", dirty |-> FALSE, nodes |-> Node, edges |-> Edge]
  /\ saved = [layout |-> NoLayout, nodes |-> Node, edges |-> Edge]
  /\ published = saved
  /\ overrides = NoLayout
  /\ ui = createWorldAuthoringUiState /\ compose = NoCompose /\ candidate = Nil
  /\ look = [narrow |-> {}, selected |-> Nil, list |-> FALSE]
  /\ shell = [navigation |-> TRUE, header |-> FALSE]
  /\ ops = 0

-----------------------------------------------------------------------------
(* What is shown. *)
editing == session.state \in {"editing", "publishing"}
busy == session.state \in {"acquiring", "publishing"}

(* A relation filter keeps the nodes of a relation, a query those near one. *)
Ends(edges) == UNION {{e[1], e[2]} : e \in edges}
filterWorldProjection(s) == Narrow["type"]
filterWorldRelations(s) == Narrow["relation"] \cup Ends(s.edges)
searchWorldProjection(s) ==
  Narrow["query"] \cup Ends({e \in s.edges : {e[1], e[2]} \cap Narrow["query"] # {}})
Kept(s, f) ==
  CASE f = "type" -> filterWorldProjection(s) [] f = "relation" -> filterWorldRelations(s)
    [] f = "query" -> searchWorldProjection(s)
Shown(s, l) == {n \in s.nodes : \A f \in l.narrow : n \in Kept(s, f)}
visibleProjection == Shown(session, look)

(* A selection out of sight is dropped. *)
Selects(l, n) == [l EXCEPT !.selected = n]
useWorldExplorerView(s, l) == IF l.selected \in Shown(s, l) THEN l ELSE Selects(l, Nil)

AuthoringPanelVisible == session.state = "editing"
directCreateEnabled == AuthoringPanelVisible /\ ~look.list /\ ~ui.minimal
relationAuthoringAvailable == directCreateEnabled
connectionActive == relationAuthoringAvailable /\ ui.tool = "connect"

(* The composer keeps a name only while it is on the canvas. *)
ControlsShown(s, u, l) == s.state = "editing" /\ ~l.list /\ ~u.minimal /\ u.tool # "connect"
WorldDirectCreateControls(s, u, c, l) ==
  IF ControlsShown(s, u, l) THEN [c EXCEPT !.name = @ /\ c.point]
  ELSE [c EXCEPT !.name = FALSE, !.picker = FALSE]

worldCommandIsAvailable(id) ==
  LET editable == session.state = "editing" IN
  CASE id \in {"palette", "focus", "discard"} -> editable
    [] id = "enter" -> session.state = "view"
    [] id = "create" -> editable /\ ~ui.minimal
    [] id = "connect" -> editable /\ look.selected # Nil /\ ~ui.minimal
    [] id = "publish" -> editable /\ session.dirty
    [] id = "finish" -> editable /\ ~session.dirty
    [] id \in {"search", "list", "inspector", "reorganize"} ->
         ~ui.minimal /\ session.state # "publishing"
    [] OTHER -> TRUE

-----------------------------------------------------------------------------
(* The reducer of the interface. *)
authoringStarted(u) ==
  [tool |-> "select", minimal |-> FALSE, inspector |-> "closed", palette |-> FALSE]
authoringStopped(u) == createWorldAuthoringUiState

toggleFocusMode(u) ==
  IF u.minimal THEN [u EXCEPT !.minimal = FALSE, !.inspector = "closed"]
  ELSE [u EXCEPT !.minimal = TRUE, !.inspector = "closed", !.palette = FALSE]

nextWorldInspectorMode(mode) ==
  CASE mode = "closed" -> "overlay" [] mode = "overlay" -> "docked" [] OTHER -> "closed"
toggleInspector(u, open) ==
  [u EXCEPT !.inspector = IF open = "overlay" THEN nextWorldInspectorMode(@)
                          ELSE IF @ = "closed" THEN "docked" ELSE "closed"]

setTool(u, t) == [u EXCEPT !.tool = t]

-----------------------------------------------------------------------------
(* Each action says what becomes of the session, the interface, the        *)
(* composer, the drawn relation and the view, in this order; the effects   *)
(* of the components run with it.                                          *)
Becomes(s, u, c, p, l) ==
  /\ session' = s /\ ui' = u /\ candidate' = p
  /\ look' = useWorldExplorerView(s, l)
  /\ compose' = WorldDirectCreateControls(s, u, c, look')
Shows(u, c, p, l) == Becomes(session, u, c, p, l) /\ UNCHANGED <<saved, published, overrides, shell>>
Op == ops < MaxOp /\ ops' = ops + 1

(* layoutCandidateFor: every node where it is drawn. *)
layoutCandidateFor(o) == [n \in All |-> IF o[n] # Nil THEN o[n] ELSE published.layout[n]]
Saves(s, o) ==
  saved' = IF session.state = "editing"
             THEN [layout |-> layoutCandidateFor(o), nodes |-> s.nodes, edges |-> s.edges]
             ELSE saved

(* The session. *)
Stays(state, u) == Becomes([session EXCEPT !.state = state], u, compose, candidate, look)

start ==
  /\ worldCommandIsAvailable("enter")
  /\ Stays("acquiring", ui)
  /\ UNCHANGED <<saved, published, overrides, shell>>

(* The page around follows: its drawers close, and open again afterwards. *)
setAuthoringActive(active) ==
  shell' = [navigation |-> ~active, header |-> shell.header /\ ~active]

onApplyLayoutDraft == saved.layout

Acquired ==
  /\ session.state = "acquiring" /\ UNCHANGED <<ops, saved, published>>
  /\ \/ /\ overrides' = onApplyLayoutDraft
        /\ setAuthoringActive(TRUE)
        /\ Becomes([state |-> "editing", dirty |-> saved # published,
                    nodes |-> saved.nodes, edges |-> saved.edges],
                   authoringStarted(ui), compose, candidate, look)
     \/ Stays("view", ui) /\ UNCHANGED <<overrides, shell>>

(* The session is over: the tools and their composers end with it. *)
Stopped(content) ==
  /\ published' = content
  /\ setAuthoringActive(FALSE)
  /\ Becomes([state |-> "view", dirty |-> FALSE, nodes |-> content.nodes, edges |-> content.edges],
             authoringStopped(ui), NoCompose, Nil, look)

(* The lease is lost: what was drawn stays on the page. *)
markLeaseLost == editing /\ Stopped(published) /\ UNCHANGED <<saved, overrides>>

publish(u) ==
  /\ worldCommandIsAvailable("publish")
  /\ Saves(session, overrides)
  /\ Stays("publishing", u)
  /\ UNCHANGED <<published, overrides, shell>>

completePublishedEdit ==
  /\ session.state = "publishing" /\ UNCHANGED <<ops, saved, overrides>>
  /\ \/ Stopped(saved)
     \/ Stays("editing", ui) /\ UNCHANGED <<published, shell>>

(* finish keeps the draft as it was saved, discard gives it up. *)
release ==
  /\ \/ worldCommandIsAvailable("finish") /\ UNCHANGED saved
     \/ worldCommandIsAvailable("discard") /\ saved' = published
  /\ overrides' = NoLayout
  /\ Stopped(published)

-----------------------------------------------------------------------------
(* Placing an element. *)
Dropped == [NoCompose EXCEPT !.picker = compose.picker]

(* The controls are there unless a relation is being drawn. *)
Controls == directCreateEnabled /\ ~connectionActive
OpenPicker ==
  /\ Controls
  /\ Shows(ui, [compose EXCEPT !.picker = ~@], candidate, look)

beginDirectCreate ==
  /\ Controls /\ compose.picker
  /\ Shows(setTool(ui, "create"), [NoCompose EXCEPT !.type = TRUE], Nil, Selects(look, Nil))

CancelPlacing ==
  /\ Controls /\ (compose.picker \/ compose.type)
  /\ \E c \in {NoCompose, Dropped} : Shows(setTool(ui, "select"), c, candidate, look)

TypeName ==
  /\ Controls /\ compose.point /\ ~compose.name
  /\ Shows(ui, [compose EXCEPT !.name = TRUE], candidate, look)

(* A place on the canvas, or nothing selected any more. *)
handleCanvasPaneClick ==
  /\ ~look.list
  /\ IF directCreateEnabled /\ ui.tool = "create" /\ compose.type
       THEN Shows(ui, [compose EXCEPT !.point = TRUE], candidate, look)
       ELSE Shows(ui, compose, candidate, Selects(look, Nil))

appendWorldDraftNode(n) == session.nodes \cup {n}

(* The new element is selected, unless the relation filter hides it. *)
createDirectNode(n) ==
  /\ Controls /\ compose.type /\ compose.point /\ compose.name
  /\ n \in New \ session.nodes
  /\ overrides' = [overrides EXCEPT ![n] = "editor"]
  /\ Becomes([session EXCEPT !.nodes = appendWorldDraftNode(n), !.dirty = TRUE],
             [setTool(ui, "select") EXCEPT !.inspector = "overlay"], NoCompose, candidate,
             [look EXCEPT !.narrow = @ \cap {"relation"}, !.selected = n])
  /\ Saves(session', overrides')
  /\ UNCHANGED <<published, shell>>

-----------------------------------------------------------------------------
(* Drawing a relation. *)
(* Mutant: the element that was being placed is not forgotten. *)
ConnectionKeepsPlacing(u, n) == Shows(setTool(u, "connect"), compose, Nil, Selects(look, n))
beginConnectionFromNode(u, n) == Shows(setTool(u, "connect"), Dropped, Nil, Selects(look, n))

relationConnectionIsValid(p) ==
  connectionActive /\ p[1] # p[2] /\ {p[1], p[2]} \subseteq session.nodes

captureRelationCandidate(p) ==
  /\ relationConnectionIsValid(p) /\ {p[1], p[2]} \subseteq visibleProjection
  /\ Shows(ui, compose, p, look)

(* A relation that is there already is refused. *)
confirmRelation ==
  /\ connectionActive /\ candidate # Nil
  /\ IF candidate \in session.edges \/ ~({candidate[1], candidate[2]} \subseteq session.nodes)
       THEN Shows(ui, compose, candidate, look)
       ELSE /\ Becomes([session EXCEPT !.edges = @ \cup {candidate}, !.dirty = TRUE],
                       setTool(ui, "select"), compose, Nil,
                       [look EXCEPT !.narrow = {}, !.selected = candidate[1]])
            /\ Saves(session', overrides) /\ UNCHANGED <<published, overrides, shell>>

reconnectRelation(e, p) ==
  /\ connectionActive /\ e \in session.edges /\ relationConnectionIsValid(p)
  /\ Becomes([session EXCEPT !.edges = (@ \ {e}) \cup {p}, !.dirty = TRUE],
             setTool(ui, "select"), compose, Nil, Selects(look, p[1]))
  /\ Saves(session', overrides) /\ UNCHANGED <<published, overrides, shell>>

cancelRelationAuthoring ==
  /\ connectionActive
  /\ Shows(setTool(ui, "select"), compose, Nil, look)

-----------------------------------------------------------------------------
(* The canvas. *)
onNodeSelect(n) ==
  /\ ~look.list /\ n \in visibleProjection
  /\ IF ui.tool = "create"
       THEN Shows(setTool(ui, "select"), Dropped, candidate, Selects(look, n))
       ELSE Shows(ui, compose, candidate, Selects(look, n))

rememberNodePosition(n) ==
  /\ ~look.list /\ n \in visibleProjection
  /\ overrides' = [overrides EXCEPT ![n] = IF editing THEN "editor" ELSE "visitor"]
  /\ Becomes([session EXCEPT !.dirty = @ \/ session.state = "editing"], ui, compose, candidate, look)
  /\ Saves(session, overrides')
  /\ UNCHANGED <<published, shell>>

(* Back to the published places; the draft counts as unchanged. *)
resetLayout(u) ==
  /\ overrides' = NoLayout
  /\ Becomes([session EXCEPT !.dirty = @ /\ (session.nodes # published.nodes \/ session.edges # published.edges)],
             u, compose, candidate, Selects(look, Nil))
  /\ Saves(session, NoLayout)
  /\ UNCHANGED <<published, shell>>

(* The buttons of a selected node: details, and connect. *)
WorldEntityNode ==
  /\ ~look.list /\ look.selected # Nil
  /\ \/ editing /\ ui.inspector = "closed"
        /\ Shows(toggleInspector(ui, "overlay"), compose, candidate, look)
     \/ relationAuthoringAvailable /\ beginConnectionFromNode(ui, look.selected)

(* Selecting from the lists of relations, or from the palette. *)
WorldAccessibleRelations(n) ==
  /\ n \in visibleProjection
  /\ \E e \in session.edges : n \in {e[1], e[2]} /\ {e[1], e[2]} \subseteq visibleProjection
  /\ Shows(ui, compose, candidate, Selects(look, n))

(* The inspector: the content editor in a session, else the connections. *)
WorldInspectorContent(n) ==
  /\ ui.inspector # "closed" /\ session.state # "publishing"
  /\ IF session.state = "editing" THEN n \in session.nodes
     ELSE /\ look.selected # Nil /\ n \in visibleProjection
          /\ n \in Ends({e \in session.edges : look.selected \in {e[1], e[2]}})
  /\ Shows(ui, compose, candidate, Selects(look, n))

selectEntityFromPalette(n) ==
  /\ editing /\ ui.palette /\ n \in session.nodes
  /\ Shows([ui EXCEPT !.palette = FALSE], compose, candidate,
             [narrow |-> {}, selected |-> n, list |-> FALSE])

-----------------------------------------------------------------------------
(* The bar of search, filters, view and positions. *)
WorldFloatingChrome ==
  /\ ~(editing /\ ui.minimal)
  /\ \/ /\ \/ \E f \in DOMAIN Narrow :
                Shows(ui, compose, candidate,
                        [look EXCEPT !.narrow = IF f \in @ THEN @ \ {f} ELSE @ \cup {f}])
           \/ Shows(ui, compose, candidate, [look EXCEPT !.list = ~@])
     \/ ~busy /\ resetLayout(ui)

(* The commands, by button, key or palette, u being the interface then. *)
openDirectCreateFromCommand(u) ==
  Shows(u, IF ui.tool = "connect" THEN compose ELSE [compose EXCEPT !.picker = ~@],
        candidate, [look EXCEPT !.list = FALSE])

executeWorldCommand(u, id) ==
  /\ worldCommandIsAvailable(id)
  /\ \/ id = "inspector"
        /\ Shows(toggleInspector(u, IF editing THEN "overlay" ELSE "docked"), compose, candidate, look)
     \/ id = "focus" /\ Shows(toggleFocusMode(u), compose, candidate, look)
     \/ id = "list" /\ Shows(u, compose, candidate, [look EXCEPT !.list = TRUE])
     \/ id = "create" /\ openDirectCreateFromCommand(u)
     \/ id = "connect" /\ relationAuthoringAvailable /\ beginConnectionFromNode(u, look.selected)
     \/ id = "palette" /\ Shows([u EXCEPT !.palette = ~@], compose, candidate, look)
     \/ id = "reorganize" /\ resetLayout(u)
     \/ id = "publish" /\ publish(u)

worldCommandForShortcut ==
  editing /\ \E id \in {"palette", "connect", "focus"} : executeWorldCommand(ui, id)

(* The palette closes, and runs what was chosen. *)
WorldCommandPalette ==
  /\ editing /\ ui.palette
  /\ LET closed == [ui EXCEPT !.palette = FALSE] IN
     \/ Shows(closed, compose, candidate, look)
     \/ \E id \in {"reorganize", "list", "inspector", "focus", "create", "connect", "publish"} :
          executeWorldCommand(closed, id)

WorldConductorBar ==
  \/ start \/ release
  \/ /\ editing
     /\ \E id \in {"inspector", "focus", "palette", "publish"} : executeWorldCommand(ui, id)

(* The drawers of the page. *)
WorldWorkspaceShell ==
  /\ \/ shell' = [shell EXCEPT !.navigation = ~@]
     \/ ~editing /\ shell' = [shell EXCEPT !.header = ~@]
  /\ UNCHANGED <<session, saved, published, overrides, ui, compose, candidate, look>>

Step ==
  \/ WorldConductorBar \/ markLeaseLost \/ WorldFloatingChrome
  \/ worldCommandForShortcut \/ WorldCommandPalette \/ WorldWorkspaceShell
  \/ OpenPicker \/ beginDirectCreate \/ CancelPlacing \/ TypeName \/ handleCanvasPaneClick
  \/ confirmRelation \/ cancelRelationAuthoring \/ WorldEntityNode
  \/ \E n \in All : createDirectNode(n) \/ onNodeSelect(n) \/ rememberNodePosition(n)
                    \/ WorldAccessibleRelations(n) \/ selectEntityFromPalette(n)
                    \/ WorldInspectorContent(n)
  \/ \E p \in Pair : captureRelationCandidate(p) \/ \E e \in Pair : reconnectRelation(e, p)

Next == (Op /\ Step) \/ Acquired \/ completePublishedEdit

Spec == Init /\ [][Next]_vars

-----------------------------------------------------------------------------
(* What is being composed belongs to the tool in hand and to this session: *)
(* no key, command, view or end of the session leaves half of it behind    *)
(* for the next one.                                                       *)
ToolOwnsItsDraft ==
  /\ ui.tool = "create" <=> compose.type
  /\ compose.point => compose.type
  /\ compose.name => compose.point /\ directCreateEnabled
  /\ candidate # Nil => ui.tool = "connect"
  /\ ui.tool # "select" => editing

(* What a visitor moved about on the page is never saved or published.     *)
VisitorMovesStayLocal ==
  "visitor" \notin {saved.layout[n] : n \in All} \cup {published.layout[n] : n \in All}
=============================================================================
