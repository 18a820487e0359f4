----------------------------- MODULE WebClient -----------------------------
(***************************************************************************)
(* The web client's application (createApp in frontend/app.js) without its *)
(* rendering: two request lanes, the credentials of the API bases, the     *)
(* views, and the context controller that looks up an address of the shown *)
(* topology report.  A handler of an event, and an async function between  *)
(* two awaits, run without interruption and are one action each.           *)
(*                                                                         *)
(* A request record is the object start() keeps in "active" together with  *)
(* the local state of that call.  A report is the owner of the request     *)
(* that it answers.  Fields of the forms, bases and tokens are model       *)
(* values; the browser (fetch, AbortController, timers, sessionStorage) is *)
(* external.  A fetch that was aborted rejects, but an answer that was     *)
(* already on its way may come first.                                      *)
(***************************************************************************)
EXTENDS RequestLane, IPContextController, FiniteSets

CONSTANTS
    Inputs, Invalid,        \* contents of a form; Invalid fails canonicalisation
    Bases, InsecureBases,   \* API bases; the ones that are neither HTTPS nor local
    Tokens, NoToken, NoBase,
    Addresses, NoAddress,   \* addresses the catalog of a report offers
    Views,                  \* diagnostics, topology, geo-map and the others
    InitialView,            \* the view of the hash the page is opened with
    InitialBase,            \* the API base of the page
    InitialAuth,            \* the checkbox, which the browser may restore
    InitialStorage,         \* sessionStorage survives a reload of the page
    NoView, NoReport,
    Throws,                 \* errors of a request: TypeError, http, invalid-response
    MaxOwners,              \* bound on the requests ever started
    MaxRevision,            \* bound on the credential changes of a base
    MaxEdits                \* bound on the edits, credential and view changes together

Owners == 1 .. MaxOwners

(* The canonical input of a request, and the scope of a context lookup. *)
Signatures ==
    [purpose : Purposes, input : Inputs, base : Bases, auth : BOOLEAN, revision : 0 .. MaxRevision]

Scopes ==
    [report : Owners, address : Addresses, base : Bases, revision : 0 .. MaxRevision,
     auth : BOOLEAN, token : Tokens \cup {NoToken}]

ASSUME WebClientAssumption ==
    /\ {"diagnostics", "topology"} = Purposes
    /\ {"diagnostics", "topology"} \subseteq Views /\ InitialView \in Views
    /\ InitialAuth \in BOOLEAN
    /\ InsecureBases \subseteq Bases /\ InitialBase \in Bases /\ NoBase \notin Bases
    /\ InitialStorage \in [Bases -> Tokens \cup {NoToken}]
    /\ NoToken \notin Tokens /\ NoAddress \notin Addresses
    /\ Invalid \in Inputs
    /\ NoOwner \notin Owners /\ NoReport \notin Owners
    /\ NoSig \notin Signatures /\ NoScope \notin Scopes
    /\ MaxOwners \in Nat /\ MaxRevision \in Nat /\ MaxEdits \in Nat

TopologyViews == {"topology", "geo-map"}

VARIABLES
    activeInstance, activeView,
    input,          \* by purpose, what the form holds
    base, authEnabled,
    storage,        \* sessionStorage: the token of a base
    storageReads,   \* getItem works
    revisions, credentialIndeterminate,
    lanes, active, laneBases,
    requests, ownerSequence,
    report,         \* currentReport and currentTopologyReport
    context, contextView, selectedContextIP,
    edits           \* counts towards MaxEdits

formVars == <<input, base, authEnabled>>
credentialVars == <<storage, storageReads, revisions, credentialIndeterminate>>
laneVars == <<lanes, active, laneBases, requests, ownerSequence, report>>
contextVars == <<context, contextView, selectedContextIP>>
vars == <<activeInstance, activeView, formVars, credentialVars, laneVars, contextVars, edits>>

Unasked ==
    [stage |-> "none", sig |-> NoSig, base |-> NoBase, token |-> NoToken,
     reason |-> "none", aborted |-> FALSE, timer |-> FALSE]

Init ==
    /\ activeInstance = TRUE
    /\ activeView = InitialView
    /\ input \in [Purposes -> Inputs \ {Invalid}]
    /\ base = InitialBase
    /\ authEnabled = InitialAuth
    /\ storage = InitialStorage
    /\ storageReads = TRUE
    /\ revisions = [b \in Bases |-> 0]
    /\ credentialIndeterminate = {}
    /\ lanes = [p \in Purposes |-> CreateRequestLane]
    /\ active = [p \in Purposes |-> NoOwner]
    /\ laneBases = [p \in Purposes |-> NoBase]
    /\ requests = [o \in Owners |-> Unasked]
    /\ ownerSequence = 0
    /\ report = [p \in Purposes |-> NoReport]
    /\ context = CreateIPContextController
    /\ contextView = NoView
    /\ selectedContextIP = NoAddress
    /\ edits = 0

(* readInput and inputSignature over given fields; purpose p. *)
Signature(p, in, b, auth, revs) ==
    IF in[p] = Invalid THEN NoSig
    ELSE [purpose |-> p, input |-> in[p], base |-> b, auth |-> auth, revision |-> revs[b]]

TokenFor(b) == IF storageReads THEN storage[b] ELSE NoToken

Aborted(r, reason) ==
    [r EXCEPT !.reason = reason, !.aborted = TRUE, !.timer = @ /\ ~ClearTimerWorks]

AbortActive(p, reason) ==
    [o \in Owners |-> IF o = active[p] THEN Aborted(requests[o], reason) ELSE requests[o]]

-----------------------------------------------------------------------------
(* The context panel. *)

(* contextOwner() in a state with the given topology lane and report. *)
ContextOwner(lane, rep, address) ==
    IF rep = NoReport \/ address = NoAddress \/ lane.phase # "ready"
       \/ input["topology"] = Invalid
       \/ (authEnabled /\ base \in credentialIndeterminate)
    THEN NoScope
    ELSE [report |-> rep, address |-> address, base |-> base,
          revision |-> revisions[base], auth |-> authEnabled,
          token |-> IF authEnabled THEN TokenFor(base) ELSE NoToken]

(* contextView.isActive(), and what isCurrentOwner compares with. *)
PanelActive ==
    /\ activeInstance /\ contextView = activeView
    /\ activeView \in TopologyViews /\ lanes["topology"].phase = "ready"

ScopeNow ==
    IF PanelActive
    THEN ContextOwner(lanes["topology"], report["topology"], selectedContextIP)
    ELSE NoScope

(* unmountContext(true): cancel, then an owner of nothing. *)
UnmountContextClear ==
    /\ context' = SetOwner(ContextCancel(context), NoScope)
    /\ contextView' = NoView
    /\ selectedContextIP' = NoAddress

UnmountContext ==
    /\ context' = ContextCancel(context)
    /\ contextView' = NoView
    /\ UNCHANGED selectedContextIP

(* mountIPContextView for the view v: a panel for which the document has   *)
(* no room is not mounted.                                                 *)
MountIPContextView(v, fits) == IF fits THEN v ELSE NoView

(* unmountContext and mountContext, as startActiveTopologyRender calls them *)
(* for the view v.  The address is the selected node's, the one selected    *)
(* before, or the first of the catalog; without room for the target filter  *)
(* there is no panel.                                                       *)
RemountContext(v, lane, rep) ==
    LET cancelled == ContextCancel(context)
    IN  \/ /\ context' = cancelled              \* render-limited by the target filter
           /\ contextView' = NoView
           /\ UNCHANGED selectedContextIP
        \/ \E address \in Addresses \cup {NoAddress}, fits \in BOOLEAN :
             /\ selectedContextIP' = address
             /\ context' = SetOwner(cancelled, ContextOwner(lane, rep, address))
             /\ contextView' = MountIPContextView(v, fits)

(* clearPurpose(p): the report and everything made from it. *)
ClearPurpose(p) ==
    /\ report' = [report EXCEPT ![p] = NoReport]
    /\ IF p = "topology" THEN UnmountContextClear ELSE UNCHANGED contextVars

(* invalidate(p) for every p in ps, over the fields as they now are. *)
Invalidate(ps, in, b, auth, revs) ==
    /\ requests' = [o \in Owners |->
            IF \E p \in ps : active[p] = o THEN Aborted(requests[o], "input-change") ELSE requests[o]]
    /\ active' = [p \in Purposes |-> IF p \in ps THEN NoOwner ELSE active[p]]
    /\ laneBases' = [p \in Purposes |-> IF p \in ps THEN NoBase ELSE laneBases[p]]
    /\ report' = [p \in Purposes |-> IF p \in ps THEN NoReport ELSE report[p]]
    /\ lanes' = [p \in Purposes |->
            IF p \in ps THEN InputChanged(lanes[p], Signature(p, in, b, auth, revs)) ELSE lanes[p]]
    /\ IF "topology" \in ps THEN UnmountContextClear ELSE UNCHANGED contextVars
    /\ UNCHANGED ownerSequence

-----------------------------------------------------------------------------
(* Edits of the forms.  Each has a listener that invalidates its lanes. *)

EditInput(p, value) ==
    /\ activeInstance /\ input[p] # value
    /\ input' = [input EXCEPT ![p] = value]
    /\ Invalidate({p}, input', base, authEnabled, revisions)
    /\ UNCHANGED <<activeInstance, activeView, base, authEnabled, credentialVars>>

EditBase(b) ==
    /\ activeInstance /\ base # b
    /\ base' = b
    /\ Invalidate(Purposes, input, b, authEnabled, revisions)
    /\ UNCHANGED <<activeInstance, activeView, input, authEnabled, credentialVars>>

ToggleAuth ==
    /\ activeInstance
    /\ authEnabled' = ~authEnabled
    /\ Invalidate(Purposes, input, base, authEnabled', revisions)
    /\ UNCHANGED <<activeInstance, activeView, input, base, credentialVars>>

-----------------------------------------------------------------------------
(* applyCredential: read, change, verify, and roll back when the change    *)
(* cannot be verified.  Every call of sessionStorage may fail.             *)

(* Mutant: a lane whose request is under way is overlooked. *)
OnBaseIdle(p, b) ==
    /\ active[p] = NoOwner
    /\ IF laneBases[p] # NoBase THEN laneBases[p] = b ELSE input[p] # Invalid /\ base = b

(* invalidateCredentialBase: the lanes that are, or would be, on base b. *)
OnBase(p, b) ==
    IF active[p] # NoOwner THEN requests[active[p]].base = b
    ELSE IF laneBases[p] # NoBase THEN laneBases[p] = b
    ELSE input[p] # Invalid /\ base = b

CredentialChanged(b, token, indeterminate) ==
    /\ revisions[b] < MaxRevision
    /\ storage' = [storage EXCEPT ![b] = token]
    /\ revisions' = [revisions EXCEPT ![b] = @ + 1]
    /\ credentialIndeterminate' = indeterminate
    /\ Invalidate({p \in Purposes : OnBase(p, b)}, input, base, authEnabled, revisions')
    /\ UNCHANGED <<activeInstance, activeView, formVars, storageReads>>

(* The change is made and verified; NoToken is the delete button. *)
CredentialCommits(token) ==
    /\ activeInstance /\ storageReads
    /\ CredentialChanged(base, token, credentialIndeterminate \ {base})

(* The change is not verified, and neither is the rollback: the store may  *)
(* hold the old token, the new one or none.                                *)
CredentialIndeterminate(token) ==
    /\ activeInstance /\ storageReads
    /\ CredentialChanged(base, token, credentialIndeterminate \cup {base})

(* getItem starts to throw (storage disabled), which is noticed once there *)
(* is a token to read.  A change that throws, and one whose rollback is    *)
(* verified, leave everything as it was.                                   *)
StorageBreaks ==
    /\ activeInstance /\ storageReads /\ authEnabled /\ storage[base] # NoToken
    /\ storageReads' = FALSE
    /\ UNCHANGED <<activeInstance, activeView, formVars, storage, revisions,
                   credentialIndeterminate, laneVars, contextVars>>

-----------------------------------------------------------------------------
(* start(p): the part before the first await. *)

(* The lane of a request that start() itself refuses: started, failed and  *)
(* finalized in one go.                                                    *)
RefusedLane(p, owner, sig, error) ==
    LET started == RequestStarted(lanes[p], owner, sig)
    IN  RequestFinalized(RequestFailed(started, owner, sig, error), owner, sig)

(* The request before this one is aborted, and stays in "active" until its *)
(* own finally when the new input is invalid.                              *)
StartInvalid(p) ==
    /\ activeInstance /\ input[p] = Invalid
    /\ requests' = AbortActive(p, "replaced")
    /\ lanes' = [lanes EXCEPT ![p] = InputChanged(@, NoSig)]
    /\ ClearPurpose(p)
    /\ UNCHANGED <<activeInstance, activeView, formVars, credentialVars, active, laneBases,
                   ownerSequence>>

StartToken == IF authEnabled THEN TokenFor(base) ELSE NoToken

(* Reasons for which start() refuses before it sends anything: an unknown  *)
(* credential, a clock that jumped past the deadline, a credential that    *)
(* would travel unencrypted.                                               *)
StartRefusals ==
    (IF authEnabled /\ base \in credentialIndeterminate THEN {"http"} ELSE {"timeout"})
    \cup (IF StartToken # NoToken /\ base \in InsecureBases THEN {"http"} ELSE {})

MaySend ==
    /\ ~(authEnabled /\ base \in credentialIndeterminate)
    /\ ~(StartToken # NoToken /\ base \in InsecureBases)

Start(p) ==
    LET o == ownerSequence + 1
        sig == Signature(p, input, base, authEnabled, revisions)
    IN  /\ activeInstance /\ input[p] # Invalid /\ o \in Owners
        /\ ownerSequence' = o
        /\ laneBases' = [laneBases EXCEPT ![p] = base]
        /\ \/ /\ MaySend
              /\ lanes' = [lanes EXCEPT ![p] = RequestStarted(@, o, sig)]
              /\ active' = [active EXCEPT ![p] = o]
              /\ requests' = [AbortActive(p, "replaced") EXCEPT ![o] =
                    [Unasked EXCEPT !.stage = "fetch", !.sig = sig, !.base = base,
                                    !.token = StartToken, !.timer = TRUE]]
           \/ \E error \in StartRefusals :
              /\ lanes' = [lanes EXCEPT ![p] = RefusedLane(p, o, sig, error)]
              /\ active' = [active EXCEPT ![p] = NoOwner]
              /\ requests' = AbortActive(p, "replaced")
        /\ ClearPurpose(p)
        /\ UNCHANGED <<activeInstance, activeView, formVars, credentialVars>>

-----------------------------------------------------------------------------
(* start(p): the parts after an await, and its catch and finally blocks. *)

PurposeOf(o) == requests[o].sig.purpose

OwnsLane(o) == activeInstance /\ OwnsRequest(lanes[PurposeOf(o)], o, requests[o].sig)

(* finally: only the request the purpose still has takes itself out. *)
FinalLane(o, lane) ==
    IF activeInstance /\ active[PurposeOf(o)] = o
    THEN RequestFinalized(lane, o, requests[o].sig) ELSE lane

EndRequest(o) ==
    /\ requests' = [requests EXCEPT ![o] =
            [Unasked EXCEPT !.stage = "done", !.timer = requests[o].timer /\ ~ClearTimerWorks]]
    /\ active' = [p \in Purposes |->
            IF activeInstance /\ active[p] = o THEN NoOwner ELSE active[p]]
    /\ UNCHANGED <<activeInstance, activeView, formVars, credentialVars, laneBases, ownerSequence>>

(* The response's headers are here; readResponseText goes on. *)
FetchResponds(o) ==
    /\ requests[o].stage = "fetch"
    /\ requests' = [requests EXCEPT ![o].stage = "body"]
    /\ UNCHANGED <<activeInstance, activeView, formVars, credentialVars, lanes, active, laneBases,
                   ownerSequence, report, contextVars>>

(* Mutant: the answer is committed to the lane of whoever owns it now. *)
CommitsUnowned(o) == activeInstance /\ lanes[PurposeOf(o)].phase = "loading"

Commits(o) == OwnsLane(o)

(* The body is complete, valid and presentable.  An answer nobody waits    *)
(* for is dropped.                                                         *)
AnswerArrives(o) ==
    LET p == PurposeOf(o)
        ready == RequestSucceeded(lanes[p], o, requests[o].sig, o)
    IN  /\ requests[o].stage = "body"
        /\ EndRequest(o)
        /\ IF Commits(o)
           THEN /\ lanes' = [lanes EXCEPT ![p] = FinalLane(o, ready)]
                /\ report' = [report EXCEPT ![p] = o]
                /\ IF p # "topology" THEN UNCHANGED contextVars
                   ELSE IF activeView \in TopologyViews
                   THEN RemountContext(activeView, lanes'[p], o)
                   ELSE UnmountContext
           ELSE /\ lanes' = [lanes EXCEPT ![p] = FinalLane(o, @)]
                /\ UNCHANGED <<report, contextVars>>

(* What can be thrown to the catch block: parseResponse refuses a response *)
(* that is an API error or no report only once its body was read, and an   *)
(* AbortError needs an abort.                                              *)
MayThrow(o, thrown) ==
    /\ requests[o].stage \in {"fetch", "body"}
    /\ thrown \in {"http", "invalid-response"} => requests[o].stage = "body"
    /\ thrown = "AbortError" => requests[o].aborted

(* The catch block.  "thrown" is what was thrown: by the fetch or the read *)
(* of the body, by parseResponse, or by the presentation of the report.    *)
RequestThrows(o, thrown) ==
    LET p == PurposeOf(o)
        silent == thrown = "AbortError"
                  /\ requests[o].reason \in {"user", "navigation", "replaced", "input-change"}
        failed == RequestFailed(lanes[p], o, requests[o].sig,
                                NormalizeRequestError(thrown, requests[o].reason))
    IN  /\ MayThrow(o, thrown)
        /\ EndRequest(o)
        /\ IF OwnsLane(o) /\ ~silent
           THEN /\ lanes' = [lanes EXCEPT ![p] = FinalLane(o, failed)]
                /\ ClearPurpose(p)
           ELSE /\ lanes' = [lanes EXCEPT ![p] = FinalLane(o, @)]
                /\ UNCHANGED <<report, contextVars>>

(* Mutant: the deadline marks the request and forgets to abort it. *)
TimerMarksOnly(o) ==
    /\ requests[o].timer
    /\ requests' = [requests EXCEPT ![o].timer = FALSE, ![o].reason = "timeout"]
    /\ UNCHANGED <<activeInstance, activeView, formVars, credentialVars, lanes, active, laneBases,
                   ownerSequence, report, contextVars>>

(* The request's deadline.  A timer that could not be cleared finds that   *)
(* its request is no longer the purpose's.                                 *)
TimerFires(o) ==
    /\ requests[o].timer
    /\ requests' = [requests EXCEPT ![o] =
            IF \E p \in Purposes : active[p] = o
            THEN [@ EXCEPT !.timer = FALSE, !.reason = "timeout", !.aborted = TRUE]
            ELSE [@ EXCEPT !.timer = FALSE]]
    /\ UNCHANGED <<activeInstance, activeView, formVars, credentialVars, lanes, active, laneBases,
                   ownerSequence, report, contextVars>>

-----------------------------------------------------------------------------
(* cancel(p), and leaving a view. *)

CancelOwned(p) ==
    active[p] # NoOwner /\ OwnsRequest(lanes[p], active[p], requests[active[p]].sig)

(* The lane's part of cancel(p, reason). *)
CancelLane(p, reason) ==
    LET o == active[p]
        sig == requests[o].sig
    IN  /\ requests' = AbortActive(p, reason)
        /\ IF CancelOwned(p)
           THEN /\ lanes' = [lanes EXCEPT ![p] =
                        RequestFinalized(RequestCancelled(@, o, sig, reason), o, sig)]
                /\ active' = [active EXCEPT ![p] = NoOwner]
                /\ report' = [report EXCEPT ![p] = NoReport]
           ELSE UNCHANGED <<lanes, active, report>>

Cancel(p) ==
    /\ activeInstance /\ active[p] # NoOwner
    /\ CancelLane(p, "user")
    /\ IF p # "topology" THEN UNCHANGED contextVars
       ELSE IF CancelOwned(p) THEN UnmountContextClear
       ELSE /\ context' = ContextCancel(context)
            /\ UNCHANGED <<contextView, selectedContextIP>>
    /\ UNCHANGED <<activeInstance, activeView, formVars, credentialVars, laneBases, ownerSequence>>

SwitchView(v) ==
    LET leaves == activeView \in Purposes /\ active[activeView] # NoOwner
    IN  /\ activeInstance /\ activeView # v
        /\ activeView' = v
        /\ IF leaves THEN CancelLane(activeView, "navigation")
           ELSE UNCHANGED <<requests, lanes, active, report>>
        /\ IF v \in TopologyViews /\ report["topology"] # NoReport /\ lanes["topology"].phase = "ready"
           THEN RemountContext(v, lanes["topology"], report["topology"])
           ELSE IF leaves /\ activeView = "topology" /\ CancelOwned("topology")
           THEN UnmountContextClear
           ELSE UnmountContext
        /\ UNCHANGED <<activeInstance, formVars, credentialVars, laneBases, ownerSequence>>

(* A page that announces its end may yet survive (the user stays). *)
BeforeUnload ==
    /\ activeInstance
    /\ requests' = [o \in Owners |->
            IF \E p \in Purposes : active[p] = o THEN Aborted(requests[o], "beforeunload") ELSE requests[o]]
    /\ active' = [p \in Purposes |-> NoOwner]
    /\ UnmountContextClear
    /\ UNCHANGED <<activeInstance, activeView, formVars, credentialVars, lanes, laneBases,
                   ownerSequence, report>>

Destroy ==
    /\ activeInstance
    /\ activeInstance' = FALSE
    /\ requests' = [o \in Owners |->
            IF \E p \in Purposes : active[p] = o THEN Aborted(requests[o], "destroy") ELSE requests[o]]
    /\ active' = [p \in Purposes |-> NoOwner]
    /\ report' = [p \in Purposes |-> NoReport]
    /\ context' = ContextDestroy(context)
    /\ contextView' = NoView
    /\ UNCHANGED <<activeView, formVars, credentialVars, lanes, laneBases, ownerSequence,
                   selectedContextIP>>

-----------------------------------------------------------------------------
(* The context panel's controls, and the steps of its lookups. *)

unchangedByContext == <<activeInstance, activeView, formVars, credentialVars, laneVars>>

(* A target filter, a page of nodes or a label changed: the topology view  *)
(* is rendered again, and with it the panel.                               *)
Rerender ==
    /\ activeInstance /\ activeView \in TopologyViews
    /\ report["topology"] # NoReport /\ lanes["topology"].phase = "ready"
    /\ RemountContext(activeView, lanes["topology"], report["topology"])
    /\ UNCHANGED unchangedByContext

SelectContextIP(address) ==
    /\ PanelActive /\ selectedContextIP # address
    /\ selectedContextIP' = address
    /\ context' = SetOwner(context, ContextOwner(lanes["topology"], report["topology"], address))
    /\ UNCHANGED <<unchangedByContext, contextView>>

(* The query button is enabled while an address is selected and nothing is *)
(* loading.                                                                *)
QueryEnabled == PanelActive /\ selectedContextIP # NoAddress /\ context.phase # "loading"

(* onQuery: setOwner(contextOwner()), then query(). *)
QueryContext ==
    LET owned == SetOwner(context, ScopeNow)
    IN  /\ QueryEnabled
        /\ MayQuery(owned, ScopeNow)
        /\ IF CacheHit(owned) THEN context' = QueryCached(owned)
           ELSE IF owned.owner.token # NoToken /\ base \in InsecureBases
           THEN context' = QueryInsecure(owned)
           ELSE \/ context' = QueryUnarmed(owned)
                \/ owned.started < MaxFlights /\ context' = QueryStarts(owned)
        /\ UNCHANGED <<unchangedByContext, contextView, selectedContextIP>>

CancelContext ==
    /\ PanelActive /\ context.phase = "loading"
    /\ context' = ContextCancel(context)
    /\ UNCHANGED <<unchangedByContext, contextView, selectedContextIP>>

InFlight(f) == context.ops[f].stage \in {"fetch", "read"}

(* The fetch of a lookup settles: with a response, or with an error (an    *)
(* AbortError once it was aborted).                                        *)
ContextFetch(f) ==
    /\ context.ops[f].stage = "fetch"
    /\ \/ \E answer \in {"ok"} \cup ErrorPhases :
            context' = FetchResolves(context, f, ScopeNow, answer)
       \/ \E phase \in ErrorPhases :
            context' = FetchRejects(context, f, ScopeNow, phase)
    /\ UNCHANGED <<unchangedByContext, contextView, selectedContextIP>>

(* A read of its body settles: with the last chunk, with bytes that do not *)
(* make a snapshot of this address, or with an error.                      *)
ContextRead(f) ==
    /\ context.ops[f].stage = "read"
    /\ \/ \E fresh \in BOOLEAN : context' = ReadDone(context, f, ScopeNow, fresh)
       \/ \E phase \in ErrorPhases :
            context' = ReadFails(context, f, ScopeNow, phase)
    /\ UNCHANGED <<unchangedByContext, contextView, selectedContextIP>>

(* An aborted fetch or read rejects, whatever the server does. *)
ContextAbortSettles(f) ==
    /\ InFlight(f) /\ context.ops[f].aborted
    /\ context' = EndFlight(context, f, ScopeNow, "unavailable")
    /\ UNCHANGED <<unchangedByContext, contextView, selectedContextIP>>

(* The deadline passes; it means nothing to a flight that was aborted and  *)
(* has no timer left.                                                      *)
ContextDeadline(f) ==
    /\ InFlight(f) /\ ~context.ops[f].late
    /\ ~context.ops[f].aborted \/ context.ops[f].timer
    /\ context' = [context EXCEPT !.ops[f].late = TRUE]
    /\ UNCHANGED <<unchangedByContext, contextView, selectedContextIP>>

ContextTimerFires(f) ==
    /\ context.ops[f].timer
    /\ context.ops[f].late \/ ~InFlight(f)
    /\ context' = [Timeout(context, f, ScopeNow) EXCEPT !.ops[f].timer = FALSE]
    /\ UNCHANGED <<unchangedByContext, contextView, selectedContextIP>>

ContextCleanup(f) ==
    /\ context.ops[f].stage = "cleanup"
    /\ context' = CleanupDone(context, f)
    /\ UNCHANGED <<unchangedByContext, contextView, selectedContextIP>>

(* A cached snapshot reaches its expires_at. *)
SnapshotExpires ==
    /\ \E i \in DOMAIN context.cache :
          /\ context.cache[i].fresh
          /\ context' = [context EXCEPT !.cache[i].fresh = FALSE]
    /\ UNCHANGED <<unchangedByContext, contextView, selectedContextIP>>

-----------------------------------------------------------------------------
Edits ==
    \/ \E p \in Purposes, value \in Inputs : EditInput(p, value)
    \/ \E b \in Bases : EditBase(b)
    \/ ToggleAuth
    \/ \E token \in Tokens \cup {NoToken} :
          CredentialCommits(token) \/ CredentialIndeterminate(token)
    \/ \E v \in Views : SwitchView(v)

UserActs ==
    \/ \E p \in Purposes : StartInvalid(p) \/ Start(p) \/ Cancel(p)
    \/ Rerender \/ QueryContext \/ CancelContext
    \/ \E address \in Addresses \cup {NoAddress} : SelectContextIP(address)
    \/ BeforeUnload \/ Destroy

BrowserActs ==
    \/ StorageBreaks \/ SnapshotExpires
    \/ \E o \in Owners :
          \/ FetchResponds(o) \/ AnswerArrives(o) \/ TimerFires(o)
          \/ \E thrown \in Throws \cup {"AbortError"} :
                RequestThrows(o, thrown)
    \/ \E f \in Flights :
          \/ ContextFetch(f) \/ ContextRead(f) \/ ContextAbortSettles(f) \/ ContextDeadline(f)
          \/ ContextTimerFires(f) \/ ContextCleanup(f)

Next ==
    \/ edits < MaxEdits /\ edits' = edits + 1 /\ Edits
    \/ UNCHANGED edits /\ (UserActs \/ BrowserActs)

(* Timers fire, time passes, and an aborted fetch rejects; nothing is      *)
(* assumed of the server or of the user.                                   *)
Fairness ==
    /\ \A o \in Owners :
          /\ WF_vars(UNCHANGED edits /\ TimerFires(o))
          /\ WF_vars(UNCHANGED edits /\ RequestThrows(o, "AbortError"))
    /\ \A f \in Flights :
          /\ WF_vars(UNCHANGED edits /\ ContextDeadline(f))
          /\ WF_vars(UNCHANGED edits /\ ContextTimerFires(f))

Spec == Init /\ [][Next]_vars /\ Fairness

-----------------------------------------------------------------------------
(* The report that is written to a file when the user asks for one. *)
DownloadOwned(p) == IF lanes[p].phase = "ready" THEN lanes[p].result.report ELSE NoReport

(* The report a purpose shows and offers for download is its lane's, it    *)
(* answers the input, server and credential the page holds now, and a lane *)
(* is ready only with a report: an answer that comes after an edit, a      *)
(* cancellation, a change of view or of credential changes nothing.        *)
ShownIsCurrent ==
    activeInstance => \A p \in Purposes :
        /\ DownloadOwned(p) = report[p]
        /\ lanes[p].phase = "ready" =>
             /\ report[p] # NoReport
             /\ lanes[p].result.sig = Signature(p, input, base, authEnabled, revisions)

(* A request that is under way and was not aborted carries the credential  *)
(* the store holds for its server, and that credential is not in doubt:    *)
(* changing or losing track of a credential reaches both lanes and the     *)
(* context lookup.                                                         *)
CredentialsAreCurrent ==
    /\ \A o \in Owners :
          requests[o].stage \in {"fetch", "body"} /\ ~requests[o].aborted /\ requests[o].token # NoToken
            => /\ storage[requests[o].base] = requests[o].token
               /\ requests[o].base \notin credentialIndeterminate
    /\ \A f \in Flights :
          LET op == context.ops[f]
          IN  InFlight(f) /\ ~op.aborted /\ op.owner.token # NoToken
                => /\ storage[op.owner.base] = op.owner.token
                   /\ op.owner.base \notin credentialIndeterminate

(* A snapshot that the panel may show was fetched, or cached, for the      *)
(* report, address, server and credential of the page as it is.            *)
ContextIsScoped ==
    context.phase = "ready" =>
        /\ context.value = context.owner
        /\ storageReads => context.owner =
             ContextOwner(lanes["topology"], report["topology"], selectedContextIP)

(* However often lookups are cancelled and started, at most one is running *)
(* or cleaning up.                                                         *)
OneContextLookup ==
    \A f, g \in Flights :
        /\ InFlight(f) \/ context.ops[f].stage = "cleanup"
        /\ InFlight(g) \/ context.ops[g].stage = "cleanup"
        => f = g

(* A lane does not load forever, whatever the server does. *)
LoadingEnds ==
    \A p \in Purposes : []<>~(activeInstance /\ lanes[p].phase = "loading")

(* Nor does the context panel, unless the credential store stops answering *)
(* in between (isCurrentOwner then disowns the lookup's result).           *)
ContextLoadingEnds ==
    []<>~(context.phase = "loading" /\ storageReads)
=============================================================================
