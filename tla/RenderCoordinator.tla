------------------------- MODULE RenderCoordinator -------------------------
(***************************************************************************)
(* TopologyRenderCoordinator (frontend/topology-renderer.js) and the state *)
(* the application keeps about it (onState in frontend/app.js).  A session *)
(* plans the elements of one view, commits them in chunks, one per frame,  *)
(* draws its canvas and finishes.  Between two frames anything may happen; *)
(* a frame that could not be cancelled still runs its callback.            *)
(*                                                                         *)
(* The workspace w is one record, and the methods are operators from w to  *)
(* w.  "source" is what ownsRequest answers for: the report of the render  *)
(* source while its lane is ready with it, or NoReport.  A session is the  *)
(* object start() makes; its root's token is its generation.  What a plan  *)
(* holds is a number of elements; canvas contents and keyboard handling    *)
(* are left out.                                                           *)
(***************************************************************************)
EXTENDS DocumentBudget, Sequences

CONSTANTS
    NoReport,
    Base,               \* elements of the canvas and its inspector or legend
    Reserve,            \* elements a plan leaves free (180 and 300 in the code)
    ChunkSize,          \* elements of a chunk (100 in the code)
    CancelWorks         \* FALSE: cancelScheduled throws and the frame stays

ASSUME RenderAssumption ==
    /\ Base \in Nat \ {0} /\ Reserve \in Nat \ {0} /\ ChunkSize \in Nat \ {0}
    /\ CancelWorks \in BOOLEAN

Roots == {"topology", "geo"}

NoSession ==
    [gen |-> 0, root |-> "topology", source |-> NoReport, filter |-> 0, labels |-> <<>>,
     mode |-> "2d", chunks |-> <<>>, next |-> 1, step |-> "none", canvas |-> FALSE,
     committed |-> 0, aborted |-> FALSE, finished |-> FALSE]

CreateWorkspace(dom) ==
    [dom |-> dom, generation |-> 0, current |-> NoSession, stale |-> {},
     owner |-> [r \in Roots |-> 0],         \* ROOT_OWNERS
     content |-> [r \in Roots |-> {}],      \* the sessions a root has elements of
     phase |-> "idle",                      \* renderPhase
     observed |-> 0,                        \* renderSource.renderGeneration
     final |-> 0,                           \* the generation of finalTopologyPlan
     resize |-> FALSE]                      \* topologyResizeHandle

(* Mutant: a callback asks only whether its report is still shown. *)
ActiveUnfenced(w, s, source) == s.source = source

Active(w, s, source) ==
    /\ w.current.gen = s.gen /\ w.generation = s.gen
    /\ ~s.aborted
    /\ w.owner[s.root] = s.gen
    /\ s.source = source

(* The session object s has become t. *)
Update(w, s, t) ==
    IF w.current.gen = s.gen THEN [w EXCEPT !.current = t]
    ELSE [w EXCEPT !.stale = (@ \ {s}) \cup {t}]

ClearRoot(w, r) == [w EXCEPT !.dom[r] = 0, !.content[r] = {}]

-----------------------------------------------------------------------------
(* renderTopologySummary: one line, or text in the root when it is full. *)
Summary(w) ==
    LET bare == [w EXCEPT !.dom.summary = 0]
    IN  IF Fits(bare.dom, 1) THEN [bare EXCEPT !.dom.summary = 1] ELSE bare

(* Mutant: a finished graph is not measured again. *)
OnStateUnmeasured(w, s, source, phase) ==
    IF s.source # source \/ s.gen < w.observed THEN w
    ELSE LET seen == IF phase = "rendering" \/ s.gen > w.observed
                     THEN [w EXCEPT !.observed = s.gen, !.final = 0] ELSE w
             noted == [seen EXCEPT !.phase = phase,
                                   !.final = IF phase \in {"ready", "render-empty"} THEN s.gen ELSE @]
         IN  IF s.root = "topology" THEN Summary(noted) ELSE noted

(* onState: a state of an older session is dropped; a finished graph is    *)
(* measured, and thereby drawn, once more in a later frame.                *)
OnState(w, s, source, phase) ==
    IF s.source # source \/ s.gen < w.observed THEN w
    ELSE LET seen == IF phase = "rendering" \/ s.gen > w.observed
                     THEN [w EXCEPT !.observed = s.gen, !.final = 0] ELSE w
             noted == [seen EXCEPT !.phase = phase,
                                   !.final = IF phase \in {"ready", "render-empty"} THEN s.gen ELSE @,
                                   !.resize = @ \/ (phase = "ready" /\ s.root = "topology")]
         IN  IF s.root = "topology" THEN Summary(noted) ELSE noted

-----------------------------------------------------------------------------
(* cancel(): the surface is cleared by the session that owns it. *)
CancelRender(w) ==
    LET s == w.current
        freed == [w EXCEPT !.current = NoSession,
                           !.stale = IF s.step = "none" \/ CancelWorks THEN @
                                     ELSE @ \cup {[s EXCEPT !.aborted = TRUE]}]
    IN  IF s.gen = 0 THEN w
        ELSE IF w.owner[s.root] = s.gen
        THEN [ClearRoot(freed, s.root) EXCEPT !.owner[s.root] = 0]
        ELSE freed

(* Mutant: a failure clears the root and tells nobody. *)
FailSilently(w, s, source) ==
    IF Active(w, s, source)
    THEN Update(ClearRoot(w, s.root), s, [s EXCEPT !.aborted = TRUE, !.step = "none", !.finished = TRUE])
    ELSE w

Fail(w, s, source) ==
    LET failed == [s EXCEPT !.aborted = TRUE, !.step = "none", !.finished = TRUE]
    IN  IF ~Active(w, s, source) THEN w
        ELSE OnState(Update(ClearRoot(w, s.root), s, failed), s, source, "render-error")

Finish(w, s, source) ==
    IF ~Active(w, s, source) THEN w
    ELSE OnState(Update(w, s, [s EXCEPT !.finished = TRUE, !.step = "none"]), s, source, "ready")

(* The elements planTopologyDOM mounts for a view that has "want" of its   *)
(* own, and how they are cut into chunks.                                  *)
Planned(want, budget) == IF Base + want <= budget THEN Base + want ELSE budget

Chunks(n) ==
    [i \in 1 .. (n + ChunkSize - 1) \div ChunkSize |->
        IF i * ChunkSize <= n THEN ChunkSize ELSE n % ChunkSize]

RenderBudget(w) == Limit - Elements(w.dom) - Reserve

(* start(), which the application calls with its session cancelled.  A     *)
(* plan that throws fails the session; one that has no room, or a graph    *)
(* that has nothing to show, finishes at once.                             *)
StartRender(w, request, want, throws) ==
    LET g == w.generation + 1
        r == request.root
        s == [NoSession EXCEPT !.gen = g, !.root = r, !.source = request.source,
                               !.filter = request.filter, !.labels = request.labels,
                               !.mode = request.mode]
        begun == [ClearRoot(w, r) EXCEPT !.generation = g, !.current = s, !.owner[r] = g]
        budget == RenderBudget(begun)
        chunks == Chunks(Planned(want, budget))
        done == [s EXCEPT !.finished = TRUE]
        going == [s EXCEPT !.chunks = chunks, !.step = "chunk"]
    IN  IF throws THEN Fail(begun, s, s.source)
        ELSE IF budget < 0 \/ (r = "geo" /\ want > 0 /\ budget < Base)
        THEN OnState(Update(begun, s, done), done, s.source, "render-limited")
        ELSE IF r = "topology" /\ (want = 0 \/ budget <= Base)
        THEN OnState(Update([begun EXCEPT !.dom[r] = 1, !.content[r] = {g}], s, done),
                     done, s.source, "render-empty")
        ELSE LET started == OnState(Update(begun, s, going), going, s.source, "rendering")
             IN  IF chunks = <<>> THEN Finish(started, going, s.source) ELSE started

-----------------------------------------------------------------------------
(* The callbacks of a frame.  One whose session was cancelled does nothing *)
(* and is forgotten.                                                       *)

Idle(w, s) ==
    IF w.current.gen = s.gen THEN [w EXCEPT !.current.step = "none"]
    ELSE [w EXCEPT !.stale = @ \ {s}]

(* After a chunk or a drawing: the next chunk, or the end. *)
Continue(w, s, source) ==
    IF s.next <= Len(s.chunks)
    THEN Update(w, s, [s EXCEPT !.step = "chunk"])
    ELSE Finish(w, s, source)

(* commitDOMChunk: all of the chunk, or an error and none of it. *)
CommitChunk(w, s, source, ok) ==
    LET n == s.chunks[s.next]
        t == [s EXCEPT !.next = @ + 1, !.canvas = TRUE, !.committed = @ + n, !.step = "none"]
        mounted == Update([w EXCEPT !.dom[s.root] = @ + n, !.content[s.root] = @ \cup {s.gen}], s, t)
        draws == (s.root = "topology" /\ s.next = 1) \/ (s.root = "geo" /\ s.next = Len(s.chunks))
    IN  IF ~Active(w, s, source) THEN Idle(w, s)
        ELSE IF ~ok \/ ~Fits(w.dom, n) THEN Fail(w, s, source)
        ELSE IF draws THEN Update(mounted, t, [t EXCEPT !.step = "draw"])
        ELSE Continue(mounted, t, source)

(* A graph whose canvas cannot be drawn goes on; a map fails. *)
Draw(w, s, source, ok) ==
    IF ~Active(w, s, source) THEN Idle(w, s)
    ELSE IF s.root = "geo" /\ ~ok THEN Fail(w, s, source)
    ELSE Continue(w, s, source)

RunFrame(w, s, source, ok) ==
    IF s.step = "chunk" THEN CommitChunk(w, s, source, ok) ELSE Draw(w, s, source, ok)

(* updateTopologyView: refused until the canvas is in the document. *)
UpdateTopologyView(w, source, mode) ==
    LET s == w.current
    IN  IF s.root = "topology" /\ s.gen = w.observed /\ Active(w, s, source) /\ s.canvas
        THEN [w EXCEPT !.current.mode = mode] ELSE w
=============================================================================
