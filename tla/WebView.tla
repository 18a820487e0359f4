------------------------------ MODULE WebView ------------------------------
(***************************************************************************)
(* The rendering of the web client (createApp in frontend/app.js): five    *)
(* views over one document of bounded size, of which only the shown one    *)
(* keeps its large content mounted.  The topology and map views are drawn  *)
(* by the coordinator of RenderCoordinator, the label view by the table of *)
(* LabelTable, each over many frames; an import of labels is read          *)
(* asynchronously and may end in any view.                                 *)
(*                                                                         *)
(* The requests themselves are WebClient's.  Here a lane is only whether   *)
(* it is ready with a report: an answer is committed in the view that      *)
(* asked for it, since leaving that view cancels the request, and clearing *)
(* a purpose, in whatever view, is what an edit, a new request, a failure  *)
(* and a cancellation have in common.  What a report has to show (its      *)
(* findings, its routes) is a number of elements chosen when it is drawn.  *)
(***************************************************************************)
EXTENDS RenderCoordinator, LabelTable, CommonPrefix

CONSTANTS
    Views, InitialView,
    InitialTargets,         \* rows of the diagnostics form: at first (4 in the code),
    MaxTargets, RowCost,    \* at most (20), and the elements of one
    ReportSizes,            \* elements of a diagnostics report
    FindingCost,            \* elements of an open finding
    FilterCost, ContextCost,    \* elements of a target filter and of the context panel
    CommonInputs,           \* lists of addresses given to the common-prefix view
    Wants,                  \* elements a topology or map view has to show
    Filters,                \* selections of targets
    InitialLabels,          \* what localStorage holds
    ImportFiles,            \* the addresses the valid rows of an import file name
    MaxActs                 \* bound on what the user and the server do

ASSUME ViewAssumption ==
    /\ {"diagnostics", "topology", "geo-map", "ip-labels", "common-prefix"} = Views
    /\ InitialView \in Views
    /\ InitialLabels \in [IPs -> Labels \cup {NoLabel}]
    /\ Cardinality(Labelled(InitialLabels)) <= LabelRecords
    /\ {MaxTargets, RowCost, FindingCost, FilterCost, ContextCost} \subseteq Nat \ {0}
    /\ ImportFiles \subseteq SUBSET IPs
    /\ Wants \cup ReportSizes \subseteq Nat
    /\ MaxActs \in Nat /\ InitialTargets \in 1 .. MaxTargets
    /\ \A list \in CommonInputs : \A i \in DOMAIN list :
          list[i].form \in Families \cup {"mapped", "invalid"}
    \* 232 static elements, 4 rows of 18 at first
    /\ Static + InitialTargets * RowCost <= Limit
    \* 20 rows at most, two cards of 16 with 64 members between them
    /\ \A list \in CommonInputs :
          CommonElements(list, CommonPrefixOf(list)) \in 0 .. Limit - Static - MaxTargets * RowCost
    \* reports are numbered from 1, and so are the filters, the first of which is of all targets
    /\ NoReport \notin Nat \ {0}
    /\ Filters \in SUBSET Nat /\ Filters # {}

VARIABLES
    activeInstance, activeView,
    diagnostics,        \* elements of the report the lane is ready with, 0: none
    report, reports,    \* currentTopologyReport, and how many there were
    renderSource,       \* the report of the render source
    filter, mode,       \* selectedTopologyTargets and topologyViewState.mode
    w,                  \* the document and the coordinator
    labels, table,
    imports,            \* import files being read
    importGeneration,
    acts                \* counts towards MaxActs

renderVars == <<report, reports, renderSource, filter, mode>>
labelVars == <<labels, table, imports, importGeneration>>
vars == <<activeInstance, activeView, diagnostics, renderVars, w, labelVars, acts>>

TopologyViews == {"topology", "geo-map"}
RootOf(v) == IF v = "geo-map" THEN "geo" ELSE "topology"

(* ownsRequest of the coordinator: the report it may draw. *)
Source == IF renderSource = report THEN renderSource ELSE NoReport

EmptyDocument == [s \in Surfaces |-> IF s = "targets" THEN InitialTargets * RowCost ELSE 0]

(* The document after the label table has become t. *)
WithTable(x, t) == [x EXCEPT !.dom.labels = TableElements(t)]

Init ==
    /\ activeInstance = TRUE
    /\ activeView = InitialView
    /\ diagnostics = 0
    /\ report = NoReport /\ reports = 0 /\ renderSource = NoReport
    /\ filter \in Filters /\ mode = "2d"
    /\ labels = InitialLabels
    /\ imports = {} /\ importGeneration = 0 /\ acts = 0
    /\ LET x == CreateWorkspace(EmptyDocument)
       IN  /\ table = IF InitialView = "ip-labels"
                      THEN RenderIPLabelTable(CreateTable, labels, x.dom, CancelWorks)
                      ELSE CreateTable
           /\ w = WithTable(x, table)

-----------------------------------------------------------------------------
(* startActiveTopologyRender, for the view v and the given report, filter  *)
(* and labels.  Everything of the other views leaves the document first;   *)
(* the target filter is mounted whole or the view is limited; the context  *)
(* panel is mounted if it fits; then the coordinator starts.               *)

Unstaged(x) ==
    Unmounted(x.dom, {"context", "diagnostics", "finding", "labels", "topology", "geo",
                      "filter", "summary"})

RenderActive(x, v, request, want, throws) ==
    LET cancelled == CancelRender(x)
        bare == [cancelled EXCEPT !.dom = Unstaged(cancelled), !.content = [r \in Roots |-> {}],
                                  !.resize = @ /\ v # "geo-map", !.final = 0]
        filtered == [bare EXCEPT !.dom.filter = FilterCost, !.phase = "rendering"]
        summed == IF v = "topology" THEN Summary(filtered) ELSE filtered
        staged == IF Fits(summed.dom, ContextCost)
                  THEN [summed EXCEPT !.dom.context = ContextCost] ELSE summed
    IN  IF Fits(bare.dom, FilterCost) THEN StartRender(staged, request, want, throws)
        ELSE [bare EXCEPT !.phase = "render-limited"]

Request(v, rep, f, l, m) ==
    [root |-> RootOf(v), source |-> rep, filter |-> f, labels |-> l, mode |-> m]

(* The same as an action, with the label table of the handler that calls   *)
(* it unmounted.  A source that was given up leaves an idle view.          *)
StartActiveTopologyRender(v, rep, source, f, l, t) ==
    /\ table' = UnmountIPLabelTable(t, CancelWorks)
    /\ IF source = NoReport
       THEN w' = [CancelRender(w) EXCEPT !.dom = Unmounted(CancelRender(w).dom,
                        {"context", "diagnostics", "finding", "labels", "topology", "geo"}),
                        !.content = [r \in Roots |-> {}], !.phase = "idle"]
       ELSE \E want \in Wants, throws \in BOOLEAN :
               w' = RenderActive(w, v, Request(v, rep, f, l, mode), want, throws)

(* disposeTopologyRender, with the filter and the summary. *)
DisposeTopologyRender(x) ==
    LET cancelled == CancelRender(x)
    IN  [cancelled EXCEPT !.dom = Unmounted(cancelled.dom, {"topology", "geo", "filter", "summary"}),
                          !.content = [r \in Roots |-> {}],
                          !.resize = FALSE, !.phase = "idle"]

(* clearPurpose("topology") *)
CleanTopology(x) ==
    LET disposed == DisposeTopologyRender(x)
    IN  [disposed EXCEPT !.dom.context = 0, !.final = 0]

-----------------------------------------------------------------------------
(* The diagnostics view. *)

CleanDiagnostics(x) == [x EXCEPT !.dom = Unmounted(x.dom, {"diagnostics", "finding"})]

(* clearPurpose("diagnostics"), in any view: an edit of the form, a request*)
(* that starts or is cancelled, or an edit of the connection settings,     *)
(* which lie outside the views.                                            *)
ClearDiagnostics ==
    /\ activeInstance /\ diagnostics # 0
    /\ diagnostics' = 0
    /\ w' = CleanDiagnostics(w)
    /\ UNCHANGED <<activeInstance, activeView, renderVars, labelVars>>

(* addTarget and the invalidation that follows it. *)
AddTarget ==
    /\ activeInstance /\ activeView = "diagnostics"
    /\ w.dom.targets < MaxTargets * RowCost /\ Fits(w.dom, RowCost)
    /\ diagnostics' = 0
    /\ w' = CleanDiagnostics([w EXCEPT !.dom.targets = @ + RowCost])
    /\ UNCHANGED <<activeInstance, activeView, renderVars, labelVars>>

RemoveTarget ==
    /\ activeInstance /\ activeView = "diagnostics" /\ w.dom.targets > RowCost
    /\ diagnostics' = 0
    /\ w' = CleanDiagnostics([w EXCEPT !.dom.targets = @ - RowCost])
    /\ UNCHANGED <<activeInstance, activeView, renderVars, labelVars>>

(* presentReport: staged whole, and refused whole. *)
Presented(x, n) == [CleanDiagnostics(x) EXCEPT !.dom.diagnostics = n]

MayPresent(x, n) == FitsReplacing(x.dom, {"diagnostics", "finding"}, n)

(* The answer of a diagnostics request, whose start cleared the view. *)
DiagnosticsAnswer(n) ==
    /\ activeInstance /\ activeView = "diagnostics" /\ diagnostics = 0
    /\ MayPresent(w, n)
    /\ diagnostics' = n
    /\ w' = Presented(w, n)
    /\ UNCHANGED <<activeInstance, activeView, renderVars, labelVars>>

(* toggleFindingPanel: one panel at a time replaces the open one. *)
OpenFinding ==
    /\ activeInstance /\ activeView = "diagnostics" /\ w.dom.diagnostics > 0
    /\ FitsReplacing(w.dom, {"finding"}, FindingCost)
    /\ w' = [w EXCEPT !.dom.finding = FindingCost]
    /\ UNCHANGED <<activeInstance, activeView, diagnostics, renderVars, labelVars>>

CloseFinding ==
    /\ activeInstance /\ activeView = "diagnostics" /\ w.dom.finding > 0
    /\ w' = [w EXCEPT !.dom.finding = 0]
    /\ UNCHANGED <<activeInstance, activeView, diagnostics, renderVars, labelVars>>

-----------------------------------------------------------------------------
(* The topology and map views. *)

(* The answer of a topology request, whose start cleared the view. *)
TopologyAnswer ==
    /\ activeInstance /\ activeView = "topology" /\ report = NoReport
    /\ reports' = reports + 1
    /\ report' = reports' /\ renderSource' = reports'
    /\ filter' = CHOOSE f \in Filters : \A g \in Filters : f <= g
    /\ table' = UnmountIPLabelTable(table, CancelWorks)
    /\ \E want \in Wants, throws \in BOOLEAN :
          w' = RenderActive([w EXCEPT !.observed = 0], activeView,
                            Request(activeView, report', filter', labels, mode), want, throws)
    /\ UNCHANGED <<activeInstance, activeView, diagnostics, mode, labels, imports, importGeneration>>

(* The report is given up in any view, also while the map is mounted: the  *)
(* connection settings lie outside the views, and an edit of them clears   *)
(* both purposes.                                                          *)
ClearTopology ==
    /\ activeInstance /\ report # NoReport
    /\ report' = NoReport /\ renderSource' = NoReport
    /\ w' = [CleanTopology(w) EXCEPT !.observed = 0]
    /\ UNCHANGED <<activeInstance, activeView, diagnostics, reports, filter, mode, labelVars>>

(* A target filter is changed; in the map view, also an address selected   *)
(* in the context panel, which leaves the filter as it is.                 *)
ChangeFilter(f) ==
    /\ activeInstance /\ activeView \in TopologyViews /\ report # NoReport
    /\ f # filter \/ activeView = "geo-map"
    /\ filter' = f
    /\ StartActiveTopologyRender(activeView, report, renderSource, f, labels, table)
    /\ UNCHANGED <<activeInstance, activeView, diagnostics, report, reports, renderSource, mode,
                   labels, imports, importGeneration>>

(* The 2D and 3D buttons. *)
ChooseMode(m) ==
    /\ activeInstance /\ activeView = "topology" /\ mode # m
    /\ mode' = m
    /\ w' = UpdateTopologyView(w, Source, m)
    /\ UNCHANGED <<activeInstance, activeView, diagnostics, report, reports, renderSource, filter,
                   labelVars>>

Resize ==
    /\ activeInstance /\ activeView = "topology" /\ ~w.resize
    /\ w' = [w EXCEPT !.resize = TRUE]
    /\ UNCHANGED <<activeInstance, activeView, diagnostics, renderVars, labelVars>>

(* The frame of scheduleTopologyResize: the graph is drawn for the size    *)
(* and the mode of the page as it is.                                      *)
ResizeFrame ==
    /\ w.resize
    /\ w' = [(IF activeInstance /\ activeView = "topology"
              THEN UpdateTopologyView(w, Source, mode) ELSE w) EXCEPT !.resize = FALSE]
    /\ UNCHANGED <<activeInstance, activeView, diagnostics, renderVars, labelVars>>

(* A frame of the current session, with what may fail in it. *)
SessionFrame ==
    /\ w.current.step # "none"
    /\ \E ok \in BOOLEAN : w' = RunFrame(w, w.current, Source, ok)
    /\ UNCHANGED <<activeInstance, activeView, diagnostics, renderVars, labelVars>>

(* A frame that should have been cancelled with its session. *)
StaleFrame ==
    /\ \E s \in w.stale : w' = RunFrame(w, s, Source, TRUE)
    /\ UNCHANGED <<activeInstance, activeView, diagnostics, renderVars, labelVars>>

-----------------------------------------------------------------------------
(* Labels. *)

(* renderIPLabelTable and refreshRenderedLabels after the labels became l. *)
LabelsBecome(l) ==
    /\ labels' = l
    /\ IF activeView = "ip-labels"
       THEN /\ table' = RenderIPLabelTable(table, l, w.dom, CancelWorks)
            /\ w' = WithTable(w, table')
       ELSE IF activeView = "topology" /\ report # NoReport /\ renderSource # NoReport
       THEN StartActiveTopologyRender(activeView, report, renderSource, filter, l, table)
       ELSE /\ table' = UnmountIPLabelTable(table, CancelWorks)
            /\ w' = WithTable(w, table')

(* The form of the label view, or the editor of the topology view. *)
SaveLabel(ip, label) ==
    /\ activeInstance /\ activeView \in {"ip-labels", "topology"}
    /\ labels[ip] # label
    /\ labels[ip] # NoLabel \/ Cardinality(Labelled(labels)) < LabelRecords
    /\ LabelsBecome(UpsertIPLabels(labels, {ip}, label))
    /\ UNCHANGED <<activeInstance, activeView, diagnostics, renderVars, imports, importGeneration>>

ShownIPs == {table.rows[i].ip : i \in DOMAIN table.rows}

(* The delete button of a row, a row whose label was emptied, or the       *)
(* editor's delete button.                                                 *)
DeleteLabel(ip) ==
    /\ activeInstance /\ labels[ip] # NoLabel
    /\ activeView = "topology" \/ ip \in ShownIPs
    /\ LabelsBecome([labels EXCEPT ![ip] = NoLabel])
    /\ UNCHANGED <<activeInstance, activeView, diagnostics, renderVars, imports, importGeneration>>

(* A row's label is edited in place: the record and the row are one. *)
EditRow(ip, label) ==
    /\ activeInstance /\ ip \in ShownIPs /\ labels[ip] # label
    /\ labels' = [labels EXCEPT ![ip] = label]
    /\ table' = [table EXCEPT !.rows = [i \in DOMAIN table.rows |->
            IF table.rows[i].ip = ip THEN [ip |-> ip, label |-> label] ELSE table.rows[i]]]
    /\ UNCHANGED <<activeInstance, activeView, diagnostics, renderVars, w, imports, importGeneration>>

TurnPage(page) ==
    /\ activeInstance /\ activeView = "ip-labels" /\ table.state # "limited"
    /\ page \in {table.page - 1, table.page + 1} /\ page * table.size \in 0 .. Len(Rows(labels)) - 1
    /\ table' = RenderIPLabelTable([table EXCEPT !.page = page], labels, w.dom, CancelWorks)
    /\ w' = WithTable(w, table')
    /\ UNCHANGED <<activeInstance, activeView, diagnostics, renderVars, labels, imports, importGeneration>>

TableFrame(r) ==
    /\ table' = AppendChunk(table, r, labels, w.dom)
    /\ w' = WithTable(w, table')
    /\ UNCHANGED <<activeInstance, activeView, diagnostics, renderVars, labels, imports, importGeneration>>

StartImport(ips, label) ==
    /\ activeInstance /\ activeView = "ip-labels"
    /\ importGeneration' = importGeneration + 1
    /\ imports' = imports \cup {[gen |-> importGeneration', ips |-> ips, label |-> label]}
    /\ UNCHANGED <<activeInstance, activeView, diagnostics, renderVars, w, labels, table>>

(* file.text() settles; only the last import that was started is applied. *)
OwnsImport(i) == activeInstance /\ i.gen = importGeneration

ImportRead(i) ==
    /\ imports' = imports \ {i}
    /\ IF OwnsImport(i) THEN LabelsBecome(UpsertIPLabels(labels, i.ips, i.label))
       ELSE UNCHANGED <<labels, table, w>>
    /\ UNCHANGED <<activeInstance, activeView, diagnostics, renderVars, importGeneration>>

-----------------------------------------------------------------------------
(* renderCommonPrefix: replaces its result without asking for room. *)
RenderCommonPrefix(list) ==
    /\ activeInstance /\ activeView = "common-prefix"
    /\ w' = [w EXCEPT !.dom.common = CommonElements(list, CommonPrefixOf(list))]
    /\ UNCHANGED <<activeInstance, activeView, diagnostics, renderVars, labelVars>>

(* What switchView unmounts when it goes to v. *)
Leave(x, v) ==
    LET left == IF v = "diagnostics" THEN x ELSE CleanDiagnostics(x)
        bare == [left EXCEPT !.dom.context = 0, !.dom.labels = 0]
    IN  IF v \in TopologyViews THEN bare ELSE DisposeTopologyRender(bare)

SwitchView(v) ==
    LET bare == Leave(w, v)
    IN  /\ activeInstance /\ activeView # v
        /\ activeView' = v
        /\ IF v \in TopologyViews /\ report # NoReport
           THEN StartActiveTopologyRender(v, report, renderSource, filter, labels, table)
           ELSE IF v = "ip-labels"
           THEN /\ table' = RenderIPLabelTable(table, labels, bare.dom, CancelWorks)
                /\ w' = WithTable(bare, table')
           ELSE /\ table' = UnmountIPLabelTable(table, CancelWorks)
                /\ w' = IF v = "diagnostics" /\ diagnostics # 0 /\ MayPresent(bare, diagnostics)
                        THEN Presented(bare, diagnostics) ELSE bare
        /\ UNCHANGED <<activeInstance, diagnostics, renderVars, labels, imports, importGeneration>>

(* A page that announces its end may yet survive. *)
BeforeUnload ==
    /\ activeInstance
    /\ renderSource # NoReport
    /\ renderSource' = NoReport
    /\ w' = LET x == DisposeTopologyRender(w)
            IN  [x EXCEPT !.dom.context = 0, !.dom.filter = w.dom.filter,
                          !.dom.summary = w.dom.summary, !.final = 0, !.observed = 0]
    /\ UNCHANGED <<activeInstance, activeView, diagnostics, report, reports, filter, mode, labelVars>>

Destroy ==
    /\ activeInstance
    /\ activeInstance' = FALSE
    /\ importGeneration' = importGeneration + 1
    /\ table' = UnmountIPLabelTable(table, CancelWorks)
    /\ w' = LET x == CancelRender(WithTable(w, table'))
            IN  [x EXCEPT !.dom = Unmounted(x.dom, {"context", "filter"}), !.resize = FALSE]
    /\ diagnostics' = 0 /\ report' = NoReport /\ renderSource' = NoReport
    /\ UNCHANGED <<activeView, reports, filter, mode, labels, imports>>

-----------------------------------------------------------------------------
UserActs ==
    \/ ClearDiagnostics \/ AddTarget \/ RemoveTarget \/ OpenFinding \/ CloseFinding
    \/ \E n \in ReportSizes : DiagnosticsAnswer(n)
    \/ TopologyAnswer \/ ClearTopology \/ Resize
    \/ \E f \in Filters : ChangeFilter(f)
    \/ \E m \in {"2d", "3d"} : ChooseMode(m)
    \/ \E ip \in IPs : DeleteLabel(ip) \/ \E l \in Labels : SaveLabel(ip, l) \/ EditRow(ip, l)
    \/ \E page \in 0 .. Cardinality(IPs) : TurnPage(page)
    \/ \E ips \in ImportFiles, l \in Labels : StartImport(ips, l)
    \/ \E list \in CommonInputs : RenderCommonPrefix(list)
    \/ \E v \in Views : SwitchView(v)
    \/ BeforeUnload \/ Destroy

BrowserActs ==
    \/ SessionFrame \/ StaleFrame \/ ResizeFrame
    \/ \E r \in table.pending : TableFrame(r)
    \/ \E i \in imports : ImportRead(i)

Next ==
    \/ acts < MaxActs /\ acts' = acts + 1 /\ UserActs
    \/ UNCHANGED acts /\ BrowserActs

(* Frames run; nothing is assumed of the user, the server or an import. *)
CurrentTableFrame == UNCHANGED acts /\ \E r \in table.pending : r.current /\ TableFrame(r)

Fairness ==
    /\ WF_vars(UNCHANGED acts /\ SessionFrame)
    /\ WF_vars(UNCHANGED acts /\ ResizeFrame)
    /\ WF_vars(CurrentTableFrame)

Spec == Init /\ [][Next]_vars /\ Fairness

-----------------------------------------------------------------------------
(* The document never exceeds its limit, whatever is mounted, retained and *)
(* replaced in the five views, although a common-prefix result and the     *)
(* message of an empty graph are mounted without asking for room.          *)
DocumentIsBounded == Elements(w.dom) <= Limit

(* What the topology and map roots show belongs to one session, the        *)
(* current one, of the report, the view and the targets the page has now,  *)
(* and in the topology view of the labels it has now; a view that says it  *)
(* is ready shows the whole plan; and the counts in the summary are those  *)
(* of that session.                                                        *)
SurfaceIsCurrent ==
    /\ \A r \in Roots : w.dom[r] > 0 =>
          /\ r = RootOf(activeView) /\ activeView \in TopologyViews
          /\ w.content[r] = {w.current.gen}
          /\ w.current.source = report /\ w.current.filter = filter
          /\ r = "topology" => w.current.labels = labels
    /\ activeInstance /\ w.phase = "ready" =>
          /\ w.current.finished
          /\ w.dom[w.current.root] = w.current.committed
          /\ w.current.next = Len(w.current.chunks) + 1
    /\ activeInstance /\ w.dom.summary > 0 /\ w.final # 0 => w.final = w.current.gen /\ w.current.finished

(* A table that says it is complete shows the rows of its page of the      *)
(* labels as they are, also when labels were added, imported, edited or    *)
(* removed between two chunks of it, and no other view keeps any of it.    *)
LabelTableIsCurrent ==
    LET rows == Rows(labels)
        page == SubSeq(rows, table.page * table.size + 1,
                       Min({(table.page + 1) * table.size, Len(rows)}))
        shown == [i \in DOMAIN page |-> [ip |-> page[i], label |-> labels[page[i]]]]
    IN  /\ table.state = "ready" => table.rows = shown
        /\ table.state = "rendering" => IsPrefix(table.rows, shown)
        /\ table.state = "empty" => Labelled(labels) = {}
        /\ activeView # "ip-labels" => w.dom.labels = 0

(* A view does not stay busy: a graph, a map or a table that is being      *)
(* rendered is finished, limited, failed or replaced.                      *)
RenderingEnds ==
    /\ (activeInstance /\ w.phase = "rendering") ~> ~(activeInstance /\ w.phase = "rendering")
    /\ (table.state = "rendering") ~> (table.state # "rendering")

(* A finished graph that is drawn in another mode than the chosen one. *)
ModeMissed ==
    activeInstance /\ w.phase = "ready" /\ w.current.canvas /\ w.current.root = "topology"
        /\ w.current.mode # mode

(* It does not stay so: a mode that is chosen while the graph is still     *)
(* mounted in chunks is made up for once the graph is ready (onState and   *)
(* the resize it schedules).                                               *)
ModeIsShown == ModeMissed ~> ~ModeMissed
=============================================================================
