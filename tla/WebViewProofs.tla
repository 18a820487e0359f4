--------------------------- MODULE WebViewProofs ---------------------------
(***************************************************************************)
(* Theorems about WebView and about the common prefix one of its views     *)
(* shows.                                                                  *)
(***************************************************************************)
EXTENDS WebView, FiniteSetTheorems, SequenceTheorems, WellFoundedInduction, TLAPS

-----------------------------------------------------------------------------
(* The common prefix.  What computeGroup relies on, for every width and    *)
(* every list of members: it compares only the smallest and the largest    *)
(* member, and yet the range it reports holds them all and no longer       *)
(* prefix would.                                                           *)

(* The values a family's addresses can have, and lists of its members. *)
ValuesOf(family) == 0 .. Pow2[Width[family]] - 1

TextsOf(family) == [form : {"v4", "v6", "mapped"}, value : ValuesOf(family)]

MemberLists(family) == {list \in Seq(TextsOf(family)) : Len(list) > 0}

(* A set of naturals that is not empty has a least element: Min is it. *)
LEMMA MinIsLeast ==
    ASSUME NEW T \in SUBSET Nat, T # {}
    PROVE  Min(T) \in T /\ \A y \in T : Min(T) <= y
<1>1. PICK x \in T : \A y \in T : ~(<<y, x>> \in OpToRel(<, Nat))
  BY NatLessThanWellFounded, WFMin
<1>2. \A y \in T : ~(y < x)
  BY <1>1 DEF OpToRel
<1>3. \E z \in T : \A y \in T : z <= y
  BY <1>2
<1> QED BY <1>3 DEF Min

(* One that is bounded has a greatest element: Max is it. *)
LEMMA MaxIsGreatest ==
    ASSUME NEW N \in Nat, NEW T \in SUBSET (0 .. N), T # {}
    PROVE  Max(T) \in T /\ \A y \in T : Max(T) >= y
<1> DEFINE D == {N - v : v \in T}
<1>1. D \in SUBSET Nat /\ D # {}
  <2>1. \A v \in T : N - v \in Nat
    OBVIOUS
  <2>2. PICK v \in T : TRUE
    OBVIOUS
  <2>3. N - v \in D
    BY <2>2
  <2> QED BY <2>1, <2>3
<1>2. Min(D) \in D /\ \A d \in D : Min(D) <= d
  BY <1>1, MinIsLeast
<1>3. PICK x \in T : Min(D) = N - x
  BY <1>2
<1>4. \A y \in T : N - x <= N - y
  BY <1>2, <1>3
<1>5. \E z \in T : \A y \in T : z >= y
  BY <1>4
<1> QED BY <1>5 DEF Max

LEMMA DivMod ==
    ASSUME NEW v \in Nat, NEW p \in Nat \ {0}
    PROVE  /\ v \div p \in Nat /\ v % p \in 0 .. p - 1
           /\ v = p * (v \div p) + (v % p)
OBVIOUS

LEMMA DivMonotone ==
    ASSUME NEW v \in Nat, NEW u \in Nat, NEW p \in Nat \ {0}, v <= u
    PROVE  v \div p <= u \div p
OBVIOUS

LEMMA WidthIsBit ==
    ASSUME NEW family \in Families
    PROVE  /\ Width[family] \in Nat /\ Width[family] <= Width["v6"]
           /\ \A k \in 0 .. Width[family] : Pow2[k] \in Nat \ {0}
<1>1. Width["v4"] \in Nat /\ Width["v6"] \in Nat /\ Width["v4"] <= Width["v6"]
  BY WidthAssumption DEF Families
<1>2. family = "v4" \/ family = "v6"
  BY DEF Families
<1>3. Width[family] \in Nat /\ Width[family] <= Width["v6"]
  BY <1>1, <1>2
<1>4. \A k \in 0 .. Width["v6"] : Pow2[k] \in Nat \ {0}
  BY Pow2Assumption
<1>5. \A k \in 0 .. Width[family] : k \in 0 .. Width["v6"]
  BY <1>1, <1>3
<1> QED BY <1>3, <1>4, <1>5

LEMMA MemberValues ==
    ASSUME NEW family \in Families, NEW members \in MemberLists(family)
    PROVE  LET values == {members[i].value : i \in DOMAIN members}
           IN  values \in SUBSET ValuesOf(family) /\ values # {}
<1>1. members \in Seq(TextsOf(family)) /\ Len(members) > 0
  BY DEF MemberLists
<1>2. \A i \in DOMAIN members : members[i].value \in ValuesOf(family)
  <2>1. \A t \in TextsOf(family) : t.value \in ValuesOf(family)
    BY DEF TextsOf
  <2>2. \A i \in DOMAIN members : members[i] \in TextsOf(family)
    BY <1>1
  <2> QED BY <2>1, <2>2
<1>3. 1 \in DOMAIN members
  BY <1>1
<1> QED BY <1>2, <1>3

(* The free bits exist: without all its bits every value of a family is    *)
(* the same.  They are the fewest without which two values are.            *)
LEMMA FreeBitsAreLeast ==
    ASSUME NEW family \in Families, NEW min \in ValuesOf(family), NEW max \in ValuesOf(family)
    PROVE  LET free == FreeBits(min, max, Width[family])
           IN  /\ free \in 0 .. Width[family]
               /\ min \div Pow2[free] = max \div Pow2[free]
               /\ \A k \in 0 .. free - 1 : min \div Pow2[k] # max \div Pow2[k]
<1> DEFINE width == Width[family]
           T == {k \in 0 .. width : min \div Pow2[k] = max \div Pow2[k]}
<1>1. width \in Nat /\ Pow2[width] \in Nat \ {0}
  BY WidthIsBit
<1>2. \A v \in ValuesOf(family) : v \div Pow2[width] = 0
  <2> SUFFICES ASSUME NEW v \in ValuesOf(family) PROVE v \div Pow2[width] = 0
    OBVIOUS
  <2>1. v \in Nat /\ v < Pow2[width]
    BY <1>1 DEF ValuesOf
  <2> HIDE DEF width
  <2> QED BY <1>1, <2>1
<1>3. width \in T
  BY <1>1, <1>2
<1>4. T \in SUBSET Nat /\ T # {}
  BY <1>1, <1>3
<1>5. Min(T) \in T /\ \A y \in T : Min(T) <= y
  BY <1>4, MinIsLeast
<1>6. FreeBits(min, max, width) = Min(T)
  BY DEF FreeBits
<1> HIDE DEF T
<1>7. ASSUME NEW k \in 0 .. Min(T) - 1 PROVE min \div Pow2[k] # max \div Pow2[k]
  <2>1. k \in 0 .. width /\ k \notin T
    BY <1>1, <1>5 DEF T
  <2> QED BY <2>1 DEF T
<1>8. Min(T) \in 0 .. width /\ min \div Pow2[Min(T)] = max \div Pow2[Min(T)]
  BY <1>5 DEF T
<1> QED BY <1>6, <1>7, <1>8

(* Whatever the smallest and the largest of some values share, all the     *)
(* values between them share; the range is that of their prefix.           *)
LEMMA BetweenShares ==
    ASSUME NEW p \in Nat \ {0}, NEW min \in Nat, NEW max \in Nat, NEW v \in Nat,
           min <= v, v <= max, min \div p = max \div p
    PROVE  /\ v \div p = min \div p
           /\ min - (min % p) <= v
           /\ v <= min - (min % p) + p - 1
<1>1. v \div p = min \div p
  <2>1. min \div p <= v \div p /\ v \div p <= max \div p
    BY DivMonotone
  <2>2. min \div p \in Nat /\ v \div p \in Nat /\ max \div p \in Nat
    BY DivMod
  <2> QED BY <2>1, <2>2
<1> DEFINE q == min \div p
<1>2. p * q \in Nat
  BY DivMod
<1>3. min = p * q + (min % p) /\ min % p \in 0 .. p - 1
  BY DivMod
<1>4. v = p * q + (v % p) /\ v % p \in 0 .. p - 1
  BY DivMod, <1>1
<1>5. min - (min % p) = p * q
  BY <1>2, <1>3
<1> QED BY <1>1, <1>2, <1>4, <1>5

(* The range computeGroup reports for two or more members holds every      *)
(* member, although only the smallest and the largest are looked at.       *)
THEOREM RangeHoldsMembers ==
    ASSUME NEW family \in Families, NEW members \in MemberLists(family)
    PROVE  LET group == ComputeGroup(family, members)
           IN  \A i \in DOMAIN members :
                   group.rangeFirst <= members[i].value /\ members[i].value <= group.rangeLast
<1> DEFINE values == {members[i].value : i \in DOMAIN members}
           min == Min(values)
           max == Max(values)
           free == FreeBits(min, max, Width[family])
<1>1. Pow2[Width[family]] \in Nat \ {0}
  BY WidthIsBit
<1>2. values \in SUBSET ValuesOf(family) /\ values # {}
  BY MemberValues
<1>3. ValuesOf(family) \subseteq Nat
  BY <1>1 DEF ValuesOf
<1>4. /\ min \in values /\ \A v \in values : min <= v
      /\ max \in values /\ \A v \in values : max >= v
  <2> HIDE DEF values
  <2>1. values \in SUBSET Nat
    BY <1>2, <1>3
  <2>2. min \in values /\ \A v \in values : min <= v
    BY <1>2, <2>1, MinIsLeast
  <2>3. Pow2[Width[family]] - 1 \in Nat
    BY <1>1
  <2>4. max \in values /\ \A v \in values : max >= v
    BY <1>2, <2>3, MaxIsGreatest DEF ValuesOf
  <2> QED BY <2>2, <2>4
<1>5. /\ free \in 0 .. Width[family]
      /\ min \div Pow2[free] = max \div Pow2[free]
  BY <1>2, <1>4, FreeBitsAreLeast
<1>6. Pow2[free] \in Nat \ {0}
  BY <1>5, WidthIsBit
<1>7. /\ ComputeGroup(family, members).rangeFirst = min - (min % Pow2[free])
      /\ ComputeGroup(family, members).rangeLast = min - (min % Pow2[free]) + Pow2[free] - 1
  BY DEF ComputeGroup, GroupOf, RangeFirst, RangeLast
<1>8. ASSUME NEW i \in DOMAIN members
      PROVE  /\ min - (min % Pow2[free]) <= members[i].value
             /\ members[i].value <= min - (min % Pow2[free]) + Pow2[free] - 1
  <2> DEFINE v == members[i].value
  <2>1. v \in values
    OBVIOUS
  <2>2. min \in Nat /\ max \in Nat /\ v \in Nat /\ min <= v /\ v <= max
    BY <1>2, <1>3, <1>4, <2>1
  <2> HIDE DEF v, min, max, free
  <2>3. /\ min - (min % Pow2[free]) <= v
        /\ v <= min - (min % Pow2[free]) + Pow2[free] - 1
    BY <1>5, <1>6, <2>2, BetweenShares
  <2> QED BY <2>3 DEF v
<1> QED BY <1>7, <1>8

(* No longer prefix would do: if computeGroup reports fewer shared bits    *)
(* than an address has, two members differ in the bit after them.          *)
THEOREM SharedBitsAreMost ==
    ASSUME NEW family \in Families, NEW members \in MemberLists(family),
           NEW k \in 0 .. Width[family] - 1,
           Width[family] - k > ComputeGroup(family, members).sharedBits
    PROVE  \E i, j \in DOMAIN members :
               members[i].value \div Pow2[k] # members[j].value \div Pow2[k]
<1> DEFINE values == {members[i].value : i \in DOMAIN members}
           min == Min(values)
           max == Max(values)
           free == FreeBits(min, max, Width[family])
<1>1. Width[family] \in Nat /\ Pow2[Width[family]] \in Nat \ {0}
  BY WidthIsBit
<1>2. values \in SUBSET ValuesOf(family) /\ values # {}
  BY MemberValues
<1>3. values \in SUBSET Nat /\ Pow2[Width[family]] - 1 \in Nat
  BY <1>1, <1>2 DEF ValuesOf
<1>4. min \in values /\ max \in values
  <2> HIDE DEF values
  <2> QED BY <1>2, <1>3, MinIsLeast, MaxIsGreatest DEF ValuesOf
<1>5. /\ free \in 0 .. Width[family]
      /\ \A n \in 0 .. free - 1 : min \div Pow2[n] # max \div Pow2[n]
  BY <1>2, <1>4, FreeBitsAreLeast
<1>6. ComputeGroup(family, members).sharedBits = Width[family] - free
  BY DEF ComputeGroup, GroupOf
<1>7. k \in 0 .. free - 1
  BY <1>1, <1>5, <1>6
<1>8. min \div Pow2[k] # max \div Pow2[k]
  BY <1>5, <1>7
<1>9. PICK i, j \in DOMAIN members : members[i].value = min /\ members[j].value = max
  BY <1>4
<1> QED BY <1>8, <1>9

-----------------------------------------------------------------------------
(***************************************************************************)
(* The inductive invariant of WebView.                                     *)
(***************************************************************************)

LabelMaps == [IPs -> Labels \cup {NoLabel}]

Session ==
    [gen : Nat, root : Roots, source : Nat \cup {NoReport}, filter : Filters \cup {0},
     labels : LabelMaps \cup {<<>>}, mode : {"2d", "3d"}, chunks : Seq(Nat), next : Nat,
     step : {"none", "chunk", "draw"}, canvas : BOOLEAN, committed : Nat,
     aborted : BOOLEAN, finished : BOOLEAN]

Phases == {"idle", "rendering", "ready", "render-error", "render-limited", "render-empty"}

Workspace ==
    [dom : [Surfaces -> Nat], generation : Nat, current : Session, stale : SUBSET Session,
     owner : [Roots -> Nat], content : [Roots -> SUBSET Nat], phase : Phases,
     observed : Nat, final : Nat, resize : BOOLEAN]

(* The document is within its limit. *)
Bounded(x) == Elements(x.dom) <= Limit

(* Nobody has a session but the current one: it owns its root, and no     *)
(* root has elements of another.                                           *)
Owned(x) ==
    /\ x.current.gen = 0 => x.current = NoSession
    /\ x.current.gen # 0 => x.owner[x.current.root] = x.current.gen
                            /\ x.content[x.current.root] \subseteq {x.current.gen}
    /\ \A r \in Roots : x.dom[r] > 0 =>
          x.current.gen # 0 /\ r = x.current.root /\ x.content[r] = {x.current.gen}
    /\ \A s \in x.stale : s.aborted

(* A session with a frame before it has mounted what it has committed.     *)
Going(x) ==
    x.current.step # "none" =>
        /\ ~x.current.finished
        /\ x.dom[x.current.root] = x.current.committed
        /\ x.current.next \in 1 .. Len(x.current.chunks) + 1
        /\ x.current.step = "chunk" => x.current.next <= Len(x.current.chunks)

Complete(x) ==
    x.phase = "ready" =>
        /\ x.current.finished
        /\ x.dom[x.current.root] = x.current.committed
        /\ x.current.next = Len(x.current.chunks) + 1

(* The counts of a finished plan are forgotten before another begins.      *)
Counted(x) ==
    /\ x.current.gen # 0 /\ x.final # 0 => x.final = x.current.gen /\ x.current.finished
    /\ x.current.gen = 0 /\ x.dom.summary > 0 => x.final = 0

DocInv(x) == x \in Workspace /\ Bounded(x) /\ Owned(x) /\ Going(x)

WorkInv == DocInv(w) /\ (activeInstance => Complete(w) /\ Counted(w))

(* The current session is of what the page shows. *)
ViewInv ==
    w.current.gen # 0 =>
        /\ activeInstance /\ activeView \in TopologyViews
        /\ w.current.root = RootOf(activeView)
        /\ report # NoReport /\ renderSource # NoReport
        /\ w.current.source = report /\ w.current.filter = filter
        /\ activeView = "topology" => w.current.labels = labels

PageOf(t, l) ==
    SubSeq(Rows(l), t.page * t.size + 1, Min({(t.page + 1) * t.size, Len(Rows(l))}))

Row == [ip : IPs, label : Labels \cup {NoLabel}]

Render == [current : BOOLEAN, visible : Seq(IPs), offset : Nat]

TableType ==
    [owned : BOOLEAN, page : Nat, size : Nat \ {0}, rows : Seq(Row),
     state : {"none", "rendering", "ready", "empty", "limited"}, pending : SUBSET Render]

TableInv(t, l) ==
    /\ t \in TableType
    /\ ~t.owned => t.rows = <<>> /\ t.state = "none"
    /\ t.state \in {"none", "empty", "limited"} => t.rows = <<>>
    /\ t.state = "empty" => Labelled(l) = {}
    /\ Len(t.rows) <= Len(PageOf(t, l))
    /\ \A i \in 1 .. Len(t.rows) : t.rows[i] = [ip |-> PageOf(t, l)[i], label |-> l[PageOf(t, l)[i]]]
    /\ t.state = "ready" => Len(t.rows) = Len(PageOf(t, l))
    /\ \A r \in t.pending : r.current =>
          /\ t.owned /\ t.state = "rendering"
          /\ r.visible = PageOf(t, l)
          /\ r.offset = Len(t.rows) /\ r.offset < Len(r.visible)
    /\ \A r, q \in t.pending : r.current /\ q.current => r = q

LabelInv ==
    /\ labels \in LabelMaps
    /\ TableInv(table, labels)
    /\ w.dom.labels = TableElements(table)
    /\ activeView # "ip-labels" => ~table.owned
    /\ \A i \in imports : i.ips \subseteq IPs /\ i.label \in Labels

PageInv ==
    /\ activeInstance \in BOOLEAN /\ activeView \in Views
    /\ diagnostics \in Nat /\ reports \in Nat
    /\ report \in Nat \cup {NoReport} /\ renderSource \in {report, NoReport}
    /\ filter \in Filters /\ mode \in {"2d", "3d"}
    /\ \E k \in 1 .. MaxTargets : w.dom.targets = k * RowCost
    /\ activeView = "common-prefix" =>
          \A s \in Surfaces \ {"targets", "common"} : w.dom[s] = 0

Inv == WorkInv /\ ViewInv /\ LabelInv /\ PageInv

-----------------------------------------------------------------------------
(* The document. *)

LEMMA ElementsAreCounted ==
    ASSUME NEW dom \in [Surfaces -> Nat]
    PROVE  Elements(dom) \in Nat
BY BudgetAssumption DEF Elements, Surfaces

LEMMA FewerElements ==
    ASSUME NEW d \in [Surfaces -> Nat], NEW e \in [Surfaces -> Nat],
           \A s \in Surfaces : d[s] <= e[s]
    PROVE  Elements(d) <= Elements(e)
BY BudgetAssumption DEF Elements, Surfaces

LEMMA ElementsReplaced ==
    ASSUME NEW d \in [Surfaces -> Nat], NEW e \in [Surfaces -> Nat], NEW s \in Surfaces,
           \A r \in Surfaces \ {s} : e[r] = d[r]
    PROVE  Elements(e) = Elements(d) - d[s] + e[s]
BY BudgetAssumption DEF Elements, Surfaces

LEMMA UnmountedElements ==
    ASSUME NEW d \in [Surfaces -> Nat], NEW S
    PROVE  /\ Unmounted(d, S) \in [Surfaces -> Nat]
           /\ \A s \in Surfaces : Unmounted(d, S)[s] = IF s \in S THEN 0 ELSE d[s]
           /\ Elements(Unmounted(d, S)) <= Elements(d)
<1>1. Unmounted(d, S) \in [Surfaces -> Nat]
  BY DEF Unmounted
<1>2. \A s \in Surfaces : Unmounted(d, S)[s] = IF s \in S THEN 0 ELSE d[s]
  BY DEF Unmounted
<1>3. \A s \in Surfaces : Unmounted(d, S)[s] <= d[s]
  BY <1>2
<1> QED BY <1>1, <1>2, <1>3, FewerElements

(* y has the sessions of x, and its elements outside S. *)
Kept(x, y) ==
    /\ y.generation = x.generation /\ y.current = x.current /\ y.stale = x.stale
    /\ y.owner = x.owner /\ y.content = x.content

Elsewhere(x, y, S) == \A s \in Surfaces \ S : y.dom[s] = x.dom[s]

LEMMA RootSurfaces == Roots \subseteq Surfaces \ {"summary", "labels", "targets", "common"}
BY DEF Roots, Surfaces

LEMMA NoSessionIsSession == NoSession \in Session
BY DEF NoSession, Session, Roots

LEMMA SummaryHolds ==
    ASSUME NEW x \in Workspace
    PROVE  /\ Summary(x) \in Workspace
           /\ Kept(x, Summary(x)) /\ Elsewhere(x, Summary(x), {"summary"})
           /\ Summary(x).phase = x.phase /\ Summary(x).final = x.final
           /\ Bounded(x) => Bounded(Summary(x))
<1> DEFINE d == [x.dom EXCEPT !["summary"] = 0]
           e == [d EXCEPT !["summary"] = 1]
           y == [x EXCEPT !.dom = IF Fits(d, 1) THEN e ELSE d]
<1>1. x.dom \in [Surfaces -> Nat] /\ "summary" \in Surfaces
  BY DEF Workspace, Surfaces
<1>2. d \in [Surfaces -> Nat] /\ Elements(d) = Elements(x.dom) - x.dom["summary"]
  <2>1. d \in [Surfaces -> Nat] /\ d["summary"] = 0
        /\ \A r \in Surfaces \ {"summary"} : d[r] = x.dom[r]
    BY <1>1
  <2>2. Elements(x.dom) \in Nat /\ x.dom["summary"] \in Nat
    BY <1>1, ElementsAreCounted
  <2> HIDE DEF d
  <2>3. Elements(d) = Elements(x.dom) - x.dom["summary"] + d["summary"]
    BY <1>1, <2>1, ElementsReplaced
  <2> QED BY <2>1, <2>2, <2>3
<1>3. e \in [Surfaces -> Nat] /\ Elements(e) = Elements(d) + 1
  <2>2. d["summary"] = 0
    BY <1>1
  <2> HIDE DEF d
  <2>4. e \in [Surfaces -> Nat] /\ e["summary"] = 1
        /\ \A r \in Surfaces \ {"summary"} : e[r] = d[r]
    BY <1>1, <1>2
  <2> HIDE DEF e
  <2>1. Elements(e) = Elements(d) - d["summary"] + 1 /\ e \in [Surfaces -> Nat]
    BY <1>1, <1>2, <2>4, ElementsReplaced
  <2>3. Elements(d) \in Nat
    BY <1>2, ElementsAreCounted
  <2> QED BY <2>1, <2>2, <2>3
<1>4. Summary(x) = y
  BY DEF Summary, Workspace
<1>5. Elements(x.dom) \in Nat /\ x.dom["summary"] \in Nat
  BY <1>1, ElementsAreCounted
<1>6. y.dom = (IF Fits(d, 1) THEN e ELSE d)
  BY DEF Workspace
<1>7. Elements(x.dom) <= Limit => Elements(y.dom) <= Limit
  BY <1>2, <1>3, <1>5, <1>6, BudgetAssumption DEF Fits
<1>8. \A s \in Surfaces \ {"summary"} : y.dom[s] = x.dom[s]
  BY <1>1, <1>6
<1>9. y \in Workspace
  BY <1>2, <1>3 DEF Workspace
<1>10. Kept(x, y) /\ y.phase = x.phase /\ y.final = x.final
  BY DEF Kept, Workspace
<1> QED BY <1>4, <1>7, <1>8, <1>9, <1>10 DEF Bounded, Elsewhere

LEMMA OnStateHolds ==
    ASSUME NEW x \in Workspace, NEW s \in Session, NEW source, NEW phase \in Phases
    PROVE  LET y == OnState(x, s, source, phase)
           IN  /\ y \in Workspace
               /\ Kept(x, y) /\ Elsewhere(x, y, {"summary"})
               /\ y.phase \in {x.phase, phase}
               /\ y.final \in {0, x.final} \/ (y.final = s.gen /\ phase \in {"ready", "render-empty"})
               /\ Bounded(x) => Bounded(y)
<1> DEFINE seen == IF phase = "rendering" \/ s.gen > x.observed
                   THEN [x EXCEPT !.observed = s.gen, !.final = 0] ELSE x
           noted == [seen EXCEPT !.phase = phase,
                                 !.final = IF phase \in {"ready", "render-empty"} THEN s.gen ELSE @,
                                 !.resize = @ \/ (phase = "ready" /\ s.root = "topology")]
           y == OnState(x, s, source, phase)
<1>1. y = x \/ y = noted \/ y = Summary(noted)
  BY DEF OnState
<1>2. s.gen \in Nat
  BY DEF Session
<1>3. /\ seen \in Workspace /\ Kept(x, seen) /\ seen.dom = x.dom
      /\ seen.phase = x.phase /\ seen.final \in {0, x.final}
  BY <1>2 DEF Workspace, Kept
<1>4. /\ noted \in Workspace /\ Kept(seen, noted) /\ noted.dom = seen.dom /\ noted.phase = phase
      /\ noted.final = seen.final \/ (noted.final = s.gen /\ phase \in {"ready", "render-empty"})
  <2> HIDE DEF seen
  <2>1. noted \in Workspace
    BY <1>2, <1>3 DEF Workspace
  <2> QED BY <1>2, <1>3, <2>1 DEF Workspace, Kept
<1> HIDE DEF seen, noted, y
<1>5. /\ Kept(x, noted) /\ Elsewhere(x, noted, {"summary"}) /\ noted.dom = x.dom
      /\ noted.final \in {0, x.final} \/ (noted.final = s.gen /\ phase \in {"ready", "render-empty"})
  BY <1>3, <1>4 DEF Kept, Elsewhere
<1>6. CASE y = x
  BY <1>6 DEF Kept, Elsewhere, y
<1>7. CASE y = noted
  BY <1>4, <1>5, <1>7 DEF Bounded, y
<1>8. CASE y = Summary(noted)
  <2>1. /\ y \in Workspace /\ Kept(noted, y) /\ Elsewhere(noted, y, {"summary"})
        /\ y.phase = noted.phase /\ y.final = noted.final
        /\ Bounded(noted) => Bounded(y)
    BY <1>4, <1>8, SummaryHolds
  <2>2. Kept(x, y) /\ Elsewhere(x, y, {"summary"})
    BY <1>5, <2>1 DEF Kept, Elsewhere
  <2>3. Bounded(x) => Bounded(y)
    BY <1>5, <2>1 DEF Bounded
  <2> QED BY <1>4, <1>5, <2>1, <2>2, <2>3 DEF y
<1> QED BY <1>1, <1>6, <1>7, <1>8

(* What a session has to keep true depends on nothing onState changes. *)
LEMMA Carried ==
    ASSUME NEW x, NEW y, Owned(x), Going(x), Kept(x, y), \A r \in Roots : y.dom[r] = x.dom[r],
           x \in Workspace
    PROVE  Owned(y) /\ Going(y)
<1>1. x.current.root \in Roots
  BY DEF Workspace, Session
<1> QED BY <1>1 DEF Owned, Going, Kept

LEMMA OnStateKeeps ==
    ASSUME NEW x, DocInv(x), NEW s \in Session, NEW source, NEW phase \in Phases
    PROVE  DocInv(OnState(x, s, source, phase))
<1> PICK y : y = OnState(x, s, source, phase)
  OBVIOUS
<1>1. x \in Workspace /\ Bounded(x) /\ Owned(x) /\ Going(x)
  BY DEF DocInv
<1>2. /\ y \in Workspace
      /\ Kept(x, y) /\ Elsewhere(x, y, {"summary"})
      /\ Bounded(x) => Bounded(y)
  BY <1>1, OnStateHolds
<1>3. \A r \in Roots : y.dom[r] = x.dom[r]
  BY <1>2, RootSurfaces DEF Elsewhere
<1>4. Owned(y) /\ Going(y)
  BY <1>1, <1>2, <1>3, Carried
<1> QED BY <1>1, <1>2, <1>4 DEF DocInv

-----------------------------------------------------------------------------
(* The coordinator. *)

(* cancel() leaves no session and nothing in either root, whichever had    *)
(* been drawn and whether or not its frame can be cancelled.               *)
LEMMA CancelHolds ==
    ASSUME NEW x, DocInv(x)
    PROVE  LET y == CancelRender(x)
           IN  /\ DocInv(y) /\ y.current = NoSession
               /\ \A r \in Roots : y.dom[r] = 0
               /\ Elsewhere(x, y, Roots)
               /\ y.phase = x.phase /\ y.final = x.final
<1> PICK s : s = x.current
  OBVIOUS
<1> PICK y : y = CancelRender(x)
  OBVIOUS
<1>1. x \in Workspace /\ Bounded(x) /\ Owned(x) /\ Going(x) /\ s \in Session /\ s.root \in Roots
  BY DEF DocInv, Workspace, Session
<1>2. x.dom \in [Surfaces -> Nat] /\ s.root \in Surfaces /\ s.gen \in Nat
  BY <1>1, RootSurfaces DEF Workspace, Session
<1>3. CASE s.gen = 0
  <2>1. y = x /\ x.current = NoSession
    BY <1>1, <1>3 DEF CancelRender, Owned
  <2>2. \A r \in Roots : x.dom[r] = 0
    BY <1>1, <1>2, <1>3, RootSurfaces DEF Owned
  <2> QED BY <2>1, <2>2 DEF Elsewhere
<1>4. CASE s.gen # 0
  <2> DEFINE stale == IF s.step = "none" \/ CancelWorks THEN x.stale
                      ELSE x.stale \cup {[s EXCEPT !.aborted = TRUE]}
             freed == [x EXCEPT !.current = NoSession, !.stale = stale]
  <2>1. x.owner[s.root] = s.gen /\ \A r \in Roots : x.dom[r] > 0 => r = s.root
    BY <1>1, <1>4 DEF Owned
  <2>2. y = [ClearRoot(freed, s.root) EXCEPT !.owner[s.root] = 0]
    BY <1>1, <1>4, <2>1 DEF CancelRender, Workspace
  <2>3. stale \in SUBSET Session /\ \A q \in stale : q.aborted
    <3>1. [s EXCEPT !.aborted = TRUE] \in Session /\ [s EXCEPT !.aborted = TRUE].aborted
      BY <1>1 DEF Session
    <3> QED BY <1>1, <3>1 DEF Workspace, Owned
  <2> HIDE DEF stale
  <2>4. freed \in Workspace /\ freed.current = NoSession /\ freed.stale = stale /\ freed.dom = x.dom
        /\ freed.phase = x.phase /\ freed.final = x.final
    BY <1>1, <2>3, NoSessionIsSession DEF Workspace
  <2> HIDE DEF freed
  <2>5. /\ y \in Workspace /\ y.current = NoSession /\ y.stale = stale
        /\ y.phase = x.phase /\ y.final = x.final
        /\ y.dom = [x.dom EXCEPT ![s.root] = 0]
    <3> DEFINE z == ClearRoot(freed, s.root)
    <3>1. z.dom = [x.dom EXCEPT ![s.root] = 0] /\ z.dom \in [Surfaces -> Nat]
      BY <1>2, <2>4 DEF ClearRoot, Workspace
    <3>2. z.content \in [Roots -> SUBSET Nat]
      BY <1>1, <2>4 DEF ClearRoot, Workspace
    <3>3. /\ z \in Workspace /\ z.current = NoSession /\ z.stale = stale
          /\ z.phase = x.phase /\ z.final = x.final
      BY <2>4, <3>1, <3>2 DEF ClearRoot, Workspace
    <3> HIDE DEF z
    <3>4. y = [z EXCEPT !.owner = [z.owner EXCEPT ![s.root] = 0]]
      BY <2>2 DEF z
    <3>5. [z.owner EXCEPT ![s.root] = 0] \in [Roots -> Nat]
      BY <3>3 DEF Workspace
    <3> QED BY <3>1, <3>3, <3>4, <3>5 DEF Workspace
  <2>6. \A q \in Surfaces : y.dom[q] = IF q = s.root THEN 0 ELSE x.dom[q]
    BY <1>2, <2>5
  <2>7. \A r \in Roots : y.dom[r] = 0
    BY <1>2, <2>1, <2>6, RootSurfaces
  <2>8. Bounded(y)
    <3>1. y.dom \in [Surfaces -> Nat] /\ \A q \in Surfaces : y.dom[q] <= x.dom[q]
      BY <1>2, <2>5, <2>6 DEF Workspace
    <3>2. Elements(y.dom) <= Elements(x.dom) /\ Elements(y.dom) \in Nat /\ Elements(x.dom) \in Nat
      BY <1>2, <3>1, FewerElements, ElementsAreCounted
    <3> QED BY <1>1, <3>2, BudgetAssumption DEF Bounded
  <2>9. Owned(y) /\ Going(y)
    BY <2>3, <2>5, <2>7 DEF Owned, Going, NoSession
  <2>10. Elsewhere(x, y, Roots)
    BY <1>1, <2>6 DEF Elsewhere
  <2> QED BY <2>5, <2>7, <2>8, <2>9, <2>10 DEF DocInv
<1> QED BY <1>2, <1>3, <1>4

(* y goes on with the session of x: it is for the same report, filter and  *)
(* labels, in the same root.                                               *)
SameSession(x, y) ==
    /\ y.current.gen = x.current.gen /\ y.current.root = x.current.root
    /\ y.current.source = x.current.source /\ y.current.filter = x.current.filter
    /\ y.current.labels = x.current.labels
    /\ Elsewhere(x, y, Roots \cup {"summary"})

(* A session is being drawn: no view is ready, no plan is final.           *)
Busy(x) ==
    /\ DocInv(x) /\ x.current.gen # 0 /\ ~x.current.finished
    /\ x.phase # "ready" /\ x.final = 0

(* What holds of it after a callback. *)
Drawn(x, y) == DocInv(y) /\ Complete(y) /\ Counted(y) /\ SameSession(x, y)

LEMMA BusyIsDrawn ==
    ASSUME NEW x, Busy(x)
    PROVE  Drawn(x, x)
BY DEF Busy, Drawn, Complete, Counted, SameSession, Elsewhere

(* The current session has become t. *)
LEMMA UpdateHolds ==
    ASSUME NEW x \in Workspace, NEW s, s = x.current, NEW t \in Session
    PROVE  LET y == Update(x, s, t)
           IN  /\ y \in Workspace /\ y = [x EXCEPT !.current = t]
               /\ y.current = t /\ y.dom = x.dom /\ y.owner = x.owner /\ y.content = x.content
               /\ y.stale = x.stale /\ y.generation = x.generation
               /\ y.phase = x.phase /\ y.final = x.final
BY DEF Update, Workspace

LEMMA ActiveIsCurrent ==
    ASSUME NEW x, DocInv(x), NEW s \in x.stale, NEW source
    PROVE  ~Active(x, s, source)
BY DEF DocInv, Owned, Active

(* The frame of a session that lost its surface, or of one that failed to  *)
(* be cancelled, changes nothing that is shown.                            *)
LEMMA IdleHolds ==
    ASSUME NEW x, DocInv(x), NEW s
    PROVE  LET y == Idle(x, s)
           IN  /\ DocInv(y) /\ y.dom = x.dom /\ SameSession(x, y)
               /\ Complete(x) => Complete(y)
               /\ Counted(x) => Counted(y)
<1> PICK y : y = Idle(x, s)
  OBVIOUS
<1> PICK c : c = [x.current EXCEPT !.step = "none"]
  OBVIOUS
<1>1. x \in Workspace /\ x.current \in Session
  BY DEF DocInv, Workspace
<1>2. c \in Session /\ c.step = "none" /\ c.gen = x.current.gen /\ c.root = x.current.root
      /\ c.source = x.current.source /\ c.filter = x.current.filter /\ c.labels = x.current.labels
      /\ c.finished = x.current.finished /\ c.committed = x.current.committed
      /\ c.next = x.current.next /\ c.chunks = x.current.chunks
  BY <1>1 DEF Session
<1>3. x.current = NoSession => c = NoSession
  <2>1. NoSession.step = "none"
    BY DEF NoSession
  <2>2. NoSession = [NoSession EXCEPT !.step = NoSession.step]
    BY NoSessionIsSession DEF Session
  <2> QED BY <2>1, <2>2
<1>4. CASE x.current.gen = s.gen
  <2>1. y = [x EXCEPT !.current = c]
    BY <1>1, <1>4 DEF Idle
  <2>2. y \in Workspace /\ y.current = c /\ Kept([x EXCEPT !.current = c], y)
        /\ y.dom = x.dom /\ y.phase = x.phase /\ y.final = x.final
        /\ y.stale = x.stale /\ y.owner = x.owner /\ y.content = x.content
    BY <1>1, <1>2, <2>1 DEF Workspace, Kept
  <2>3. Bounded(y) /\ Owned(y) /\ Going(y)
    BY <1>2, <1>3, <2>2 DEF DocInv, Bounded, Owned, Going
  <2>4. SameSession(x, y)
    BY <1>2, <2>2 DEF SameSession, Elsewhere
  <2>5. (Complete(x) => Complete(y)) /\ (Counted(x) => Counted(y))
    BY <1>2, <2>2 DEF Complete, Counted
  <2> QED BY <2>2, <2>3, <2>4, <2>5 DEF DocInv
<1>5. CASE x.current.gen # s.gen
  <2>1. y = [x EXCEPT !.stale = @ \ {s}]
    BY <1>5 DEF Idle
  <2>2. y \in Workspace /\ y.current = x.current /\ y.dom = x.dom /\ y.phase = x.phase
        /\ y.final = x.final /\ y.stale \subseteq x.stale /\ y.owner = x.owner /\ y.content = x.content
    BY <1>1, <2>1 DEF Workspace
  <2>3. Bounded(y) /\ Owned(y) /\ Going(y)
    BY <2>2 DEF DocInv, Bounded, Owned, Going
  <2>4. SameSession(x, y)
    BY <2>2 DEF SameSession, Elsewhere
  <2>5. (Complete(x) => Complete(y)) /\ (Counted(x) => Counted(y))
    BY <2>2 DEF Complete, Counted
  <2> QED BY <2>2, <2>3, <2>4, <2>5 DEF DocInv
<1> QED BY <1>4, <1>5

(* onState for the current session: a view is made ready only by a session *)
(* that has finished with all it committed in its root.                    *)
LEMMA StateHolds ==
    ASSUME NEW x, DocInv(x), x.current.gen # 0, x.phase # "ready", x.final = 0,
           NEW s \in Session, s.gen = x.current.gen, NEW source, NEW phase \in Phases,
           phase \in {"ready", "render-empty"} => x.current.finished,
           phase = "ready" => /\ x.dom[x.current.root] = x.current.committed
                              /\ x.current.next = Len(x.current.chunks) + 1
    PROVE  Drawn(x, OnState(x, s, source, phase))
<1>y. PICK y : y = OnState(x, s, source, phase)
  OBVIOUS
<1>1. x \in Workspace /\ x.current.root \in Roots
  BY DEF DocInv, Workspace, Session
<1>2. /\ Kept(x, y) /\ Elsewhere(x, y, {"summary"})
      /\ y.phase \in {x.phase, phase}
      /\ y.final \in {0, x.final} \/ (y.final = s.gen /\ phase \in {"ready", "render-empty"})
  BY <1>y, <1>1, OnStateHolds
<1>3. DocInv(y)
  BY <1>y, OnStateKeeps
<1>4. y.dom[x.current.root] = x.dom[x.current.root]
  BY <1>1, <1>2, RootSurfaces DEF Elsewhere
<1>5. Complete(y) /\ Counted(y)
  BY <1>2, <1>4 DEF Complete, Counted, Kept
<1>6. SameSession(x, y)
  BY <1>2 DEF SameSession, Kept, Elsewhere
<1> QED BY <1>y, <1>3, <1>5, <1>6 DEF Drawn

(* A failure clears the root and ends the session. *)
LEMMA FailHolds ==
    ASSUME NEW x, Busy(x), NEW source
    PROVE  Drawn(x, Fail(x, x.current, source))
<1> PICK s : s = x.current
  OBVIOUS
<1>t. PICK t : t = [s EXCEPT !.aborted = TRUE, !.step = "none", !.finished = TRUE]
  OBVIOUS
<1>1. x \in Workspace /\ s \in Session /\ s.root \in Roots /\ s.root \in Surfaces
  BY RootSurfaces DEF Busy, DocInv, Workspace, Session
<1>2. t \in Session /\ t.gen = s.gen /\ t.root = s.root /\ t.source = s.source
      /\ t.filter = s.filter /\ t.labels = s.labels /\ t.step = "none"
  BY <1>t, <1>1 DEF Session
<1>c. PICK c : c = ClearRoot(x, s.root)
  OBVIOUS
<1>3. /\ c \in Workspace /\ c.current = s /\ c.dom = [x.dom EXCEPT ![s.root] = 0]
      /\ c.content = [x.content EXCEPT ![s.root] = {}] /\ c.owner = x.owner /\ c.stale = x.stale
      /\ c.phase = x.phase /\ c.final = x.final
  BY <1>c, <1>1 DEF ClearRoot, Workspace
<1>u. PICK u : u = Update(c, s, t)
  OBVIOUS
<1>4. /\ u \in Workspace /\ u.current = t /\ u.dom = c.dom /\ u.owner = c.owner
      /\ u.content = c.content /\ u.stale = c.stale /\ u.phase = c.phase /\ u.final = c.final
  BY <1>u, <1>2, <1>3, UpdateHolds
<1>5. DocInv(u)
  <2>1. x.dom \in [Surfaces -> Nat] /\ u.dom \in [Surfaces -> Nat]
        /\ \A q \in Surfaces : u.dom[q] = IF q = s.root THEN 0 ELSE x.dom[q]
    BY <1>1, <1>3, <1>4 DEF Workspace
  <2>2. \A q \in Surfaces : u.dom[q] <= x.dom[q]
    BY <2>1
  <2>3. Elements(u.dom) <= Elements(x.dom) /\ Elements(u.dom) \in Nat /\ Elements(x.dom) \in Nat
    BY <2>1, <2>2, FewerElements, ElementsAreCounted
  <2>4. Bounded(u)
    BY <2>3, BudgetAssumption DEF Bounded, Busy, DocInv
  <2>5. \A r \in Roots : u.dom[r] = 0
    BY <1>1, <2>1, RootSurfaces DEF Busy, DocInv, Owned
  <2>6. u.content[s.root] = {}
    BY <1>1, <1>3, <1>4 DEF Workspace
  <2>7. Owned(u)
    BY <1>2, <1>3, <1>4, <2>5, <2>6 DEF Busy, DocInv, Owned
  <2>8. Going(u)
    BY <1>2, <1>4 DEF Going
  <2> QED BY <1>4, <2>4, <2>7, <2>8 DEF DocInv
<1>6. SameSession(x, u)
  BY <1>1, <1>2, <1>3, <1>4 DEF SameSession, Elsewhere, Workspace
<1>7. Drawn(u, OnState(u, s, source, "render-error"))
  BY <1>1, <1>2, <1>3, <1>4, <1>5, StateHolds DEF Busy, Phases
<1>8. Fail(x, s, source) = IF ~Active(x, s, source) THEN x ELSE OnState(u, s, source, "render-error")
  BY <1>t, <1>c, <1>u DEF Fail
<1>9. \A y : Drawn(u, y) => Drawn(x, y)
  BY <1>6 DEF Drawn, SameSession, Elsewhere
<1> QED BY <1>7, <1>8, <1>9, BusyIsDrawn

(* A session that has mounted everything it planned is finished. *)
LEMMA FinishHolds ==
    ASSUME NEW x, Busy(x), NEW source,
           x.dom[x.current.root] = x.current.committed,
           x.current.next = Len(x.current.chunks) + 1
    PROVE  Drawn(x, Finish(x, x.current, source))
<1> PICK s : s = x.current
  OBVIOUS
<1>t. PICK t : t = [s EXCEPT !.finished = TRUE, !.step = "none"]
  OBVIOUS
<1>1. x \in Workspace /\ s \in Session
  BY DEF Busy, DocInv, Workspace
<1>2. t \in Session /\ t.gen = s.gen /\ t.root = s.root /\ t.source = s.source
      /\ t.filter = s.filter /\ t.labels = s.labels /\ t.step = "none" /\ t.finished
      /\ t.committed = s.committed /\ t.next = s.next /\ t.chunks = s.chunks
  BY <1>t, <1>1 DEF Session
<1>u. PICK u : u = Update(x, s, t)
  OBVIOUS
<1>3. /\ u \in Workspace /\ u.current = t /\ u.dom = x.dom /\ u.owner = x.owner
      /\ u.content = x.content /\ u.stale = x.stale /\ u.phase = x.phase /\ u.final = x.final
  BY <1>u, <1>1, <1>2, UpdateHolds
<1>4. DocInv(u)
  BY <1>2, <1>3 DEF Busy, DocInv, Bounded, Owned, Going
<1>5. Drawn(u, OnState(u, s, source, "ready"))
  BY <1>1, <1>2, <1>3, <1>4, StateHolds DEF Busy, Phases
<1>6. Finish(x, s, source) = IF ~Active(x, s, source) THEN x ELSE OnState(u, s, source, "ready")
  BY <1>t, <1>u DEF Finish
<1>7. \A y : Drawn(u, y) => Drawn(x, y)
  BY <1>2, <1>3 DEF Drawn, SameSession, Elsewhere
<1> QED BY <1>5, <1>6, <1>7, BusyIsDrawn

LEMMA ContinueHolds ==
    ASSUME NEW x, Busy(x), NEW source,
           x.dom[x.current.root] = x.current.committed,
           x.current.next \in 1 .. Len(x.current.chunks) + 1
    PROVE  Drawn(x, Continue(x, x.current, source))
<1> PICK s : s = x.current
  OBVIOUS
<1>1. x \in Workspace /\ s \in Session /\ Len(s.chunks) \in Nat
  BY DEF Busy, DocInv, Workspace, Session
<1>2. CASE s.next <= Len(s.chunks)
  <2>t. PICK t : t = [s EXCEPT !.step = "chunk"]
    OBVIOUS
  <2>u. PICK u : u = Update(x, s, t)
    OBVIOUS
  <2>1. t \in Session /\ t.gen = s.gen /\ t.root = s.root /\ t.source = s.source
        /\ t.filter = s.filter /\ t.labels = s.labels /\ t.step = "chunk" /\ t.finished = s.finished
        /\ t.committed = s.committed /\ t.next = s.next /\ t.chunks = s.chunks
    BY <2>t, <1>1 DEF Session
  <2>2. /\ u \in Workspace /\ u.current = t /\ u.dom = x.dom /\ u.owner = x.owner
        /\ u.content = x.content /\ u.stale = x.stale /\ u.phase = x.phase /\ u.final = x.final
    BY <2>u, <1>1, <2>1, UpdateHolds
  <2>3. DocInv(u)
    BY <1>2, <2>1, <2>2 DEF Busy, DocInv, Bounded, Owned, Going
  <2>4. Complete(u) /\ Counted(u) /\ SameSession(x, u)
    BY <2>1, <2>2 DEF Busy, Complete, Counted, SameSession, Elsewhere
  <2> QED BY <1>2, <2>t, <2>u, <2>3, <2>4 DEF Continue, Drawn
<1>3. CASE ~(s.next <= Len(s.chunks))
  <2>1. s.next = Len(s.chunks) + 1
    BY <1>1, <1>3
  <2>2. Continue(x, s, source) = Finish(x, s, source)
    BY <1>3 DEF Continue
  <2> QED BY <2>1, <2>2, FinishHolds
<1> QED BY <1>2, <1>3

(* A chunk is mounted if there is room for it. *)
LEMMA CommitHolds ==
    ASSUME NEW x, Busy(x), x.current.step = "chunk", NEW source, NEW ok
    PROVE  Drawn(x, CommitChunk(x, x.current, source, ok))
<1> PICK s : s = x.current
  OBVIOUS
<1>1. x \in Workspace /\ s \in Session /\ s.root \in Roots /\ s.root \in Surfaces
      /\ x.dom \in [Surfaces -> Nat] /\ x.content \in [Roots -> SUBSET Nat] /\ s.gen \in Nat
  BY RootSurfaces DEF Busy, DocInv, Workspace, Session
<1>2. /\ x.dom[s.root] = s.committed /\ s.next \in 1 .. Len(s.chunks)
      /\ Len(s.chunks) \in Nat /\ s.committed \in Nat
  BY <1>1 DEF Busy, DocInv, Going, Session
<1>n. PICK n : n = s.chunks[s.next]
  OBVIOUS
<1>3. n \in Nat
  BY <1>n, <1>1, <1>2 DEF Session
<1>t. PICK t : t = [s EXCEPT !.next = @ + 1, !.canvas = TRUE, !.committed = @ + n, !.step = "none"]
  OBVIOUS
<1>m. PICK m : m = [x EXCEPT !.dom[s.root] = @ + n, !.content[s.root] = @ \cup {s.gen}]
  OBVIOUS
<1>u. PICK u : u = Update(m, s, t)
  OBVIOUS
<1>v. PICK v : v = [t EXCEPT !.step = "draw"]
  OBVIOUS
<1> DEFINE draws == (s.root = "topology" /\ s.next = 1) \/ (s.root = "geo" /\ s.next = Len(s.chunks))
<1>4. CommitChunk(x, s, source, ok) =
        IF ~Active(x, s, source) THEN Idle(x, s)
        ELSE IF ~ok \/ ~Fits(x.dom, n) THEN Fail(x, s, source)
        ELSE IF draws THEN Update(u, t, v)
        ELSE Continue(u, t, source)
  BY <1>n, <1>t, <1>m, <1>u, <1>v DEF CommitChunk
<1> HIDE DEF draws
<1>5. CASE ~Active(x, s, source)
  <2>1. Drawn(x, Idle(x, s))
    BY BusyIsDrawn, IdleHolds DEF Busy, Drawn
  <2> QED BY <1>4, <1>5, <2>1
<1>6. CASE Active(x, s, source) /\ (~ok \/ ~Fits(x.dom, n))
  BY <1>4, <1>6, FailHolds
<1>7. CASE Active(x, s, source) /\ ok /\ Fits(x.dom, n)
  <2>1. t \in Session /\ t.gen = s.gen /\ t.root = s.root /\ t.source = s.source
        /\ t.filter = s.filter /\ t.labels = s.labels /\ t.step = "none" /\ t.finished = s.finished
        /\ t.committed = s.committed + n /\ t.next = s.next + 1 /\ t.chunks = s.chunks
    <3>1. s.next \in Nat /\ s.next + 1 \in Nat /\ s.committed + n \in Nat
      BY <1>1, <1>2, <1>3 DEF Session
    <3>2. t = [s EXCEPT !.next = s.next + 1, !.canvas = TRUE, !.committed = s.committed + n,
                        !.step = "none"]
      BY <1>t
    <3> QED BY <1>1, <3>1, <3>2 DEF Session
  <2>2. /\ m \in Workspace /\ m.current = s
        /\ m.dom = [x.dom EXCEPT ![s.root] = x.dom[s.root] + n]
        /\ m.content = [x.content EXCEPT ![s.root] = x.content[s.root] \cup {s.gen}]
        /\ m.owner = x.owner /\ m.stale = x.stale /\ m.phase = x.phase /\ m.final = x.final
    <3> DEFINE d == [x.dom EXCEPT ![s.root] = x.dom[s.root] + n]
               e == [x.content EXCEPT ![s.root] = x.content[s.root] \cup {s.gen}]
    <3>1. d \in [Surfaces -> Nat] /\ e \in [Roots -> SUBSET Nat]
      BY <1>1, <1>3
    <3>2. m = [x EXCEPT !.dom = d, !.content = e]
      BY <1>1, <1>m DEF Workspace
    <3> HIDE DEF d, e
    <3>3. /\ m \in Workspace /\ m.current = s /\ m.dom = d /\ m.content = e
          /\ m.owner = x.owner /\ m.stale = x.stale /\ m.phase = x.phase /\ m.final = x.final
      BY <1>1, <3>1, <3>2 DEF Workspace
    <3> QED BY <3>3 DEF d, e
  <2>3. /\ u \in Workspace /\ u.current = t /\ u.dom = m.dom /\ u.owner = m.owner
        /\ u.content = m.content /\ u.stale = m.stale /\ u.phase = m.phase /\ u.final = m.final
    BY <1>u, <2>1, <2>2, UpdateHolds
  <2>4. u.dom \in [Surfaces -> Nat] /\ u.dom[s.root] = x.dom[s.root] + n
        /\ \A q \in Surfaces \ {s.root} : u.dom[q] = x.dom[q]
    BY <1>1, <1>3, <2>2, <2>3
  <2>5. Bounded(u)
    <3>1. Elements(u.dom) = Elements(x.dom) - x.dom[s.root] + u.dom[s.root]
      BY <1>1, <2>4, ElementsReplaced
    <3>2. Elements(x.dom) \in Nat /\ x.dom[s.root] \in Nat
      BY <1>1, ElementsAreCounted
    <3> QED BY <1>3, <1>7, <2>4, <3>1, <3>2, BudgetAssumption DEF Fits, Bounded
  <2>6. u.content[s.root] = {s.gen} /\ x.owner[s.root] = s.gen
    BY <1>1, <2>2, <2>3 DEF Busy, DocInv, Owned
  <2>7. \A r \in Roots : u.dom[r] > 0 => r = s.root
    BY <1>1, <2>4, RootSurfaces DEF Busy, DocInv, Owned
  <2>8. Owned(u)
    BY <2>1, <2>2, <2>3, <2>6, <2>7 DEF Busy, DocInv, Owned
  <2>9. Going(u)
    BY <2>1, <2>3 DEF Going
  <2>10. DocInv(u)
    BY <2>3, <2>5, <2>8, <2>9 DEF DocInv
  <2>11. Busy(u)
    BY <2>1, <2>2, <2>3, <2>10 DEF Busy
  <2>12. SameSession(x, u)
    BY <1>1, <2>1, <2>3, <2>4 DEF SameSession, Elsewhere
  <2>13. u.dom[t.root] = t.committed /\ t.next \in 1 .. Len(t.chunks) + 1
    BY <1>2, <2>1, <2>4
  <2>14. CASE draws
    <3>z. PICK z : z = Update(u, t, v)
      OBVIOUS
    <3>1. v \in Session /\ v.gen = t.gen /\ v.root = t.root /\ v.source = t.source
          /\ v.filter = t.filter /\ v.labels = t.labels /\ v.step = "draw" /\ v.finished = t.finished
          /\ v.committed = t.committed /\ v.next = t.next /\ v.chunks = t.chunks
      BY <1>v, <2>1 DEF Session
    <3>2. /\ z \in Workspace /\ z.current = v /\ z.dom = u.dom /\ z.owner = u.owner
          /\ z.content = u.content /\ z.stale = u.stale /\ z.phase = u.phase /\ z.final = u.final
      BY <3>z, <2>3, <3>1, UpdateHolds
    <3>3. DocInv(z)
      BY <2>1, <2>3, <2>10, <2>11, <2>13, <3>1, <3>2 DEF Busy, DocInv, Bounded, Owned, Going
    <3>4. Complete(z) /\ Counted(z)
      BY <2>3, <2>11, <3>1, <3>2 DEF Busy, Complete, Counted
    <3>5. SameSession(x, z)
      BY <2>3, <2>12, <3>1, <3>2 DEF SameSession, Elsewhere
    <3> QED BY <1>4, <1>7, <2>14, <3>z, <3>3, <3>4, <3>5 DEF Drawn
  <2>15. CASE ~draws
    <3>1. Drawn(u, Continue(u, t, source))
      BY <2>3, <2>11, <2>13, ContinueHolds
    <3>2. Drawn(x, Continue(u, t, source))
      BY <2>12, <3>1 DEF Drawn, SameSession, Elsewhere
    <3> QED BY <1>4, <1>7, <2>15, <3>2
  <2> QED BY <2>14, <2>15
<1> QED BY <1>5, <1>6, <1>7

LEMMA DrawHolds ==
    ASSUME NEW x, Busy(x), x.current.step # "none", NEW source, NEW ok
    PROVE  Drawn(x, Draw(x, x.current, source, ok))
<1>1. Drawn(x, Idle(x, x.current))
  BY BusyIsDrawn, IdleHolds DEF Busy, Drawn
<1>2. Drawn(x, Fail(x, x.current, source))
  BY FailHolds
<1>3. Drawn(x, Continue(x, x.current, source))
  BY ContinueHolds DEF Busy, DocInv, Going
<1> QED BY <1>1, <1>2, <1>3 DEF Draw

(* A frame of the current session. *)
LEMMA FrameHolds ==
    ASSUME NEW x, DocInv(x), Complete(x), Counted(x), x.current.step # "none",
           NEW source, NEW ok
    PROVE  Drawn(x, RunFrame(x, x.current, source, ok))
<1>1. x.current.gen # 0
  BY DEF DocInv, Owned, NoSession
<1>2. Busy(x)
  BY <1>1 DEF Busy, DocInv, Going, Complete, Counted
<1>3. x.current.step = "chunk" => Drawn(x, CommitChunk(x, x.current, source, ok))
  BY <1>2, CommitHolds
<1>4. Drawn(x, Draw(x, x.current, source, ok))
  BY <1>2, DrawHolds
<1> QED BY <1>3, <1>4 DEF RunFrame

(* A frame that could not be cancelled. *)
LEMMA StaleFrameHolds ==
    ASSUME NEW x, DocInv(x), NEW s \in x.stale, NEW source, NEW ok
    PROVE  RunFrame(x, s, source, ok) = Idle(x, s)
BY ActiveIsCurrent DEF RunFrame, CommitChunk, Draw

LEMMA ChunksAreCounted ==
    ASSUME NEW n \in Nat
    PROVE  Chunks(n) \in Seq(Nat)
BY RenderAssumption DEF Chunks

Requests ==
    [root : Roots, source : Nat \cup {NoReport}, filter : Filters, labels : LabelMaps,
     mode : {"2d", "3d"}]

Shows(x, request) ==
    /\ x.current.root = request.root /\ x.current.source = request.source
    /\ x.current.filter = request.filter /\ x.current.labels = request.labels

(* start() makes one session, of what was asked for.  The message of an    *)
(* empty graph, which is mounted without asking for room, has room: the    *)
(* plan leaves Reserve elements free.                                      *)
LEMMA StartHolds ==
    ASSUME NEW x, DocInv(x), x.current = NoSession, x.phase # "ready", x.final = 0,
           NEW request \in Requests, NEW want \in Nat, NEW throws
    PROVE  LET y == StartRender(x, request, want, throws)
           IN  /\ DocInv(y) /\ Complete(y) /\ Counted(y)
               /\ y.current.gen # 0 /\ Shows(y, request)
               /\ Elsewhere(x, y, Roots \cup {"summary"})
<1>g. PICK g : g = x.generation + 1
  OBVIOUS
<1>r. PICK r : r = request.root
  OBVIOUS
<1>s. PICK s : s = [NoSession EXCEPT !.gen = g, !.root = r, !.source = request.source,
                        !.filter = request.filter, !.labels = request.labels,
                        !.mode = request.mode]
  OBVIOUS
<1>b. PICK b : b = [ClearRoot(x, r) EXCEPT !.generation = g, !.current = s, !.owner[r] = g]
  OBVIOUS
<1>n. PICK budget : budget = RenderBudget(b)
  OBVIOUS
<1>c. PICK chunks : chunks = Chunks(Planned(want, budget))
  OBVIOUS
<1>d. PICK done : done = [s EXCEPT !.finished = TRUE]
  OBVIOUS
<1>e. PICK going : going = [s EXCEPT !.chunks = chunks, !.step = "chunk"]
  OBVIOUS
<1>f. PICK full : full = [b EXCEPT !.dom[r] = 1, !.content[r] = {g}]
  OBVIOUS
<1>l. PICK started : started = OnState(Update(b, s, going), going, s.source, "rendering")
  OBVIOUS
<1>y. StartRender(x, request, want, throws) =
        IF throws THEN Fail(b, s, s.source)
        ELSE IF budget < 0 \/ (r = "geo" /\ want > 0 /\ budget < Base)
        THEN OnState(Update(b, s, done), done, s.source, "render-limited")
        ELSE IF r = "topology" /\ (want = 0 \/ budget <= Base)
        THEN OnState(Update(full, s, done), done, s.source, "render-empty")
        ELSE IF chunks = <<>> THEN Finish(started, going, s.source) ELSE started
  BY <1>g, <1>r, <1>s, <1>b, <1>n, <1>c, <1>d, <1>e, <1>f, <1>l DEF StartRender
<1>1. /\ x \in Workspace /\ x.dom \in [Surfaces -> Nat] /\ r \in Roots /\ r \in Surfaces
      /\ g \in Nat /\ g # 0 /\ x.content \in [Roots -> SUBSET Nat] /\ x.owner \in [Roots -> Nat]
  BY <1>g, <1>r, RootSurfaces DEF DocInv, Workspace, Requests
<1>2. /\ s \in Session /\ s.gen = g /\ s.root = r /\ s.step = "none" /\ ~s.finished
      /\ s.chunks = <<>> /\ s.next = 1 /\ s.committed = 0
      /\ s.source = request.source /\ s.filter = request.filter /\ s.labels = request.labels
      /\ ~s.aborted
  <2>1. NoSession.step = "none" /\ ~NoSession.finished /\ NoSession.chunks = <<>>
        /\ NoSession.next = 1 /\ NoSession.committed = 0 /\ ~NoSession.aborted
    BY DEF NoSession
  <2>2. request.source \in Nat \cup {NoReport} /\ request.filter \in Filters \cup {0}
        /\ request.labels \in LabelMaps \cup {<<>>} /\ request.mode \in {"2d", "3d"}
    BY DEF Requests
  <2> QED BY <1>1, <1>s, <2>1, <2>2, NoSessionIsSession DEF Session
<1>3. \A q \in Roots : x.dom[q] = 0
  <2>1. x.current.gen = 0
    BY DEF NoSession
  <2> QED BY <1>1, <2>1, RootSurfaces DEF DocInv, Owned
<1>4. /\ b \in Workspace /\ b.current = s /\ b.generation = g
      /\ b.dom = [x.dom EXCEPT ![r] = 0] /\ b.content = [x.content EXCEPT ![r] = {}]
      /\ b.owner = [x.owner EXCEPT ![r] = g] /\ b.stale = x.stale
      /\ b.phase = x.phase /\ b.final = x.final
  <2> DEFINE d == [x.dom EXCEPT ![r] = 0]
             e == [x.content EXCEPT ![r] = {}]
             f == [x.owner EXCEPT ![r] = g]
  <2>1. d \in [Surfaces -> Nat] /\ e \in [Roots -> SUBSET Nat] /\ f \in [Roots -> Nat]
    BY <1>1
  <2>2. b = [x EXCEPT !.dom = d, !.content = e, !.generation = g, !.current = s, !.owner = f]
    BY <1>1, <1>b DEF ClearRoot, Workspace
  <2> HIDE DEF d, e, f
  <2>3. /\ b \in Workspace /\ b.current = s /\ b.generation = g
        /\ b.dom = d /\ b.content = e /\ b.owner = f /\ b.stale = x.stale
        /\ b.phase = x.phase /\ b.final = x.final
    BY <1>1, <1>2, <2>1, <2>2 DEF Workspace
  <2> QED BY <2>3 DEF d, e, f
<1>5. b.dom = x.dom /\ \A q \in Roots : b.dom[q] = 0
  BY <1>1, <1>3, <1>4
<1>6. DocInv(b)
  <2>1. Bounded(b)
    BY <1>5 DEF DocInv, Bounded
  <2>2. b.owner[r] = g /\ b.content[r] = {}
    BY <1>1, <1>4
  <2>3. Owned(b)
    BY <1>1, <1>2, <1>4, <1>5, <2>2 DEF DocInv, Owned
  <2>4. Going(b)
    BY <1>2, <1>4 DEF Going
  <2> QED BY <1>4, <2>1, <2>3, <2>4 DEF DocInv
<1>7. Busy(b)
  BY <1>1, <1>2, <1>4, <1>6 DEF Busy
<1>8. ASSUME NEW z, NEW y, z.current.gen = g, Shows(z, request), z.dom = x.dom \/ z.dom = full.dom,
             Drawn(z, y)
      PROVE  /\ DocInv(y) /\ Complete(y) /\ Counted(y)
             /\ y.current.gen # 0 /\ Shows(y, request)
             /\ Elsewhere(x, y, Roots \cup {"summary"})
  <2>1. \A q \in Surfaces \ Roots : z.dom[q] = x.dom[q]
    BY <1>1, <1>4, <1>5, <1>8, <1>f DEF Workspace
  <2> QED BY <1>1, <1>8, <2>1 DEF Drawn, SameSession, Shows, Elsewhere
<1>9. CASE throws
  <2>1. Drawn(b, Fail(b, s, s.source))
    BY <1>4, <1>7, FailHolds
  <2>2. b.current.gen = g /\ Shows(b, request)
    BY <1>2, <1>4, <1>r DEF Shows
  <2> QED BY <1>5, <1>8, <1>9, <1>y, <2>1, <2>2
<1>10. done \in Session /\ done.gen = g /\ done.root = r /\ done.step = "none" /\ done.finished
       /\ done.source = s.source /\ done.filter = s.filter /\ done.labels = s.labels
  BY <1>2, <1>d DEF Session
<1>11. CASE ~throws /\ (budget < 0 \/ (r = "geo" /\ want > 0 /\ budget < Base))
  <2>u. PICK u : u = Update(b, s, done)
    OBVIOUS
  <2>1. /\ u \in Workspace /\ u.current = done /\ u.dom = b.dom /\ u.owner = b.owner
        /\ u.content = b.content /\ u.stale = b.stale /\ u.phase = b.phase /\ u.final = b.final
    BY <1>4, <1>10, <2>u, UpdateHolds
  <2>2. DocInv(u)
    BY <1>2, <1>4, <1>6, <1>10, <2>1, <1>1 DEF DocInv, Bounded, Owned, Going
  <2>3. Drawn(u, OnState(u, done, s.source, "render-limited"))
    BY <1>1, <1>4, <1>10, <2>1, <2>2, StateHolds DEF Phases
  <2>4. u.current.gen = g /\ Shows(u, request) /\ u.dom = x.dom
    BY <1>2, <1>5, <1>10, <1>r, <2>1 DEF Shows
  <2> QED BY <1>8, <1>11, <1>y, <2>u, <2>3, <2>4
<1>12. CASE /\ ~throws /\ ~(budget < 0 \/ (r = "geo" /\ want > 0 /\ budget < Base))
            /\ r = "topology" /\ (want = 0 \/ budget <= Base)
  <2>u. PICK u : u = Update(full, s, done)
    OBVIOUS
  <2>1. /\ full \in Workspace /\ full.current = s /\ full.owner = b.owner /\ full.stale = b.stale
        /\ full.dom = [x.dom EXCEPT ![r] = 1] /\ full.content = [b.content EXCEPT ![r] = {g}]
        /\ full.phase = b.phase /\ full.final = b.final
    <3> DEFINE d == [x.dom EXCEPT ![r] = 1]
               e == [b.content EXCEPT ![r] = {g}]
    <3>1. d \in [Surfaces -> Nat] /\ e \in [Roots -> SUBSET Nat]
      BY <1>1, <1>4
    <3>2. full = [b EXCEPT !.dom = d, !.content = e]
      BY <1>4, <1>5, <1>f DEF Workspace
    <3> HIDE DEF d, e
    <3>3. /\ full \in Workspace /\ full.current = s /\ full.owner = b.owner /\ full.stale = b.stale
          /\ full.dom = d /\ full.content = e /\ full.phase = b.phase /\ full.final = b.final
      BY <1>4, <3>1, <3>2 DEF Workspace
    <3> QED BY <3>3 DEF d, e
  <2>2. /\ u \in Workspace /\ u.current = done /\ u.dom = full.dom /\ u.owner = full.owner
        /\ u.content = full.content /\ u.stale = full.stale /\ u.phase = full.phase
        /\ u.final = full.final
    BY <1>10, <2>u, <2>1, UpdateHolds
  <2>3. u.dom \in [Surfaces -> Nat] /\ u.dom[r] = 1 /\ x.dom[r] = 0
        /\ (\A q \in Surfaces \ {r} : u.dom[q] = x.dom[q])
    BY <1>1, <1>3, <2>1, <2>2
  <2>4. Bounded(u)
    <3>1. Elements(u.dom) = Elements(x.dom) - x.dom[r] + u.dom[r]
      BY <1>1, <2>3, ElementsReplaced
    <3>2. Elements(x.dom) \in Nat
      BY <1>1, ElementsAreCounted
    <3>3. budget = Limit - Elements(x.dom) - Reserve
      BY <1>5, <1>n DEF RenderBudget
    <3> QED BY <1>12, <2>3, <3>1, <3>2, <3>3, BudgetAssumption, RenderAssumption DEF Bounded
  <2>5. u.content[r] = {g} /\ b.owner[r] = g
    BY <1>1, <1>4, <2>1, <2>2
  <2>6. \A q \in Roots : u.dom[q] > 0 => q = r
    BY <1>3, <2>3, RootSurfaces
  <2>7. Owned(u)
    BY <1>1, <1>6, <1>10, <2>1, <2>2, <2>5, <2>6 DEF DocInv, Owned
  <2>8. DocInv(u)
    BY <1>10, <2>2, <2>4, <2>7 DEF DocInv, Going
  <2>9. Drawn(u, OnState(u, done, s.source, "render-empty"))
    BY <1>1, <1>4, <1>10, <2>1, <2>2, <2>8, StateHolds DEF Phases
  <2>10. u.current.gen = g /\ Shows(u, request) /\ u.dom = full.dom
    BY <1>2, <1>10, <1>r, <2>2 DEF Shows
  <2> QED BY <1>8, <1>12, <1>y, <2>u, <2>9, <2>10
<1>13. CASE /\ ~throws /\ ~(budget < 0 \/ (r = "geo" /\ want > 0 /\ budget < Base))
            /\ ~(r = "topology" /\ (want = 0 \/ budget <= Base))
  <2>u. PICK u : u = Update(b, s, going)
    OBVIOUS
  <2>1. chunks \in Seq(Nat) /\ Len(chunks) \in Nat
    <3>1. budget \in Nat
      <4>1. Elements(b.dom) \in Nat
        BY <1>1, <1>5, ElementsAreCounted
      <4> QED BY <1>13, <1>n, <4>1, BudgetAssumption, RenderAssumption DEF RenderBudget
    <3>2. Planned(want, budget) \in Nat
      BY <3>1, RenderAssumption DEF Planned
    <3> QED BY <1>c, <3>2, ChunksAreCounted
  <2>2. going \in Session /\ going.gen = g /\ going.root = r /\ going.step = "chunk"
        /\ ~going.finished /\ going.chunks = chunks /\ going.next = 1 /\ going.committed = 0
        /\ going.source = s.source /\ going.filter = s.filter /\ going.labels = s.labels
        /\ ~going.aborted
    BY <1>2, <1>e, <2>1 DEF Session
  <2>3. /\ u \in Workspace /\ u.current = going /\ u.dom = b.dom /\ u.owner = b.owner
        /\ u.content = b.content /\ u.stale = b.stale /\ u.phase = b.phase /\ u.final = b.final
        /\ u.generation = b.generation
    BY <1>4, <2>u, <2>2, UpdateHolds
  <2>4. Bounded(u) /\ Owned(u)
    BY <1>1, <1>2, <1>4, <1>6, <2>2, <2>3 DEF DocInv, Bounded, Owned
  <2>5. u.current.gen = g /\ Shows(u, request) /\ u.dom = x.dom
    BY <1>2, <1>5, <1>r, <2>2, <2>3 DEF Shows
  <2>6. CASE chunks # <<>>
    <3>1. 1 <= Len(chunks)
      BY <2>1, <2>6
    <3>2. u.dom[r] = 0
      BY <1>1, <1>5, <2>3
    <3>3. Going(u)
      BY <2>1, <2>2, <2>3, <3>1, <3>2 DEF Going
    <3>4. Drawn(u, started)
      BY <1>1, <1>4, <1>l, <2>u, <2>2, <2>3, <2>4, <3>3, StateHolds DEF Phases, DocInv
    <3> QED BY <1>8, <1>13, <1>y, <2>5, <2>6, <3>4
  <2>7. CASE chunks = <<>>
    <3>t. PICK t : t = [going EXCEPT !.finished = TRUE, !.step = "none"]
      OBVIOUS
    <3>z. PICK z : z = Update(started, going, t)
      OBVIOUS
    <3>1. t \in Session /\ t.gen = g /\ t.root = r /\ t.step = "none" /\ t.finished
          /\ t.chunks = <<>> /\ t.next = 1 /\ t.committed = 0
          /\ t.source = s.source /\ t.filter = s.filter /\ t.labels = s.labels
      BY <2>2, <2>7, <3>t DEF Session
    <3>2. /\ started \in Workspace /\ Kept(u, started) /\ Elsewhere(u, started, {"summary"})
          /\ started.phase \in {u.phase, "rendering"} /\ started.final = 0
          /\ Bounded(started)
      BY <1>4, <1>l, <2>u, <2>2, <2>3, <2>4, OnStateHolds DEF Phases
    <3>3. started.current = going /\ started.generation = g /\ started.owner[r] = g
      BY <1>1, <1>4, <2>3, <3>2 DEF Kept
    <3>4. Active(started, going, s.source)
      BY <2>2, <3>3 DEF Active
    <3>5. Finish(started, going, s.source) = OnState(z, going, s.source, "ready")
      BY <3>4, <3>t, <3>z DEF Finish
    <3>6. /\ z \in Workspace /\ z.current = t /\ z.dom = started.dom /\ z.owner = u.owner
          /\ z.content = u.content /\ z.stale = u.stale /\ z.phase = started.phase /\ z.final = 0
      BY <3>1, <3>2, <3>3, <3>z, UpdateHolds DEF Kept
    <3>7. \A q \in Roots : z.dom[q] = u.dom[q]
      BY <3>2, <3>6, RootSurfaces DEF Elsewhere
    <3>8. Owned(z)
      <4>1. \A q \in Roots : z.dom[q] = 0
        BY <1>5, <2>3, <3>7
      <4>2. u.owner[r] = g /\ u.content[r] \subseteq {g} /\ \A q \in u.stale : q.aborted
        BY <1>1, <2>2, <2>3, <2>4 DEF Owned
      <4> QED BY <1>1, <3>1, <3>6, <4>1, <4>2 DEF Owned
    <3>9. DocInv(z)
      BY <3>1, <3>2, <3>6, <3>8 DEF DocInv, Bounded, Going
    <3>10. z.dom[r] = 0
      BY <1>1, <1>5, <2>3, <3>7
    <3>11. z.phase # "ready"
      BY <1>4, <2>3, <3>2, <3>6
    <3>12. Drawn(z, OnState(z, going, s.source, "ready"))
      <4>1. z.current.next = Len(z.current.chunks) + 1 /\ z.current.finished
            /\ z.dom[z.current.root] = z.current.committed
        BY <3>1, <3>6, <3>10
      <4>2. z.current.gen # 0 /\ going.gen = z.current.gen
        BY <1>1, <2>2, <3>1, <3>6
      <4> QED BY <2>2, <3>6, <3>9, <3>11, <4>1, <4>2, StateHolds DEF Phases
    <3>v. PICK y : y = OnState(z, going, s.source, "ready")
      OBVIOUS
    <3>13. DocInv(y) /\ Complete(y) /\ Counted(y) /\ y.current.gen # 0 /\ Shows(y, request)
      BY <1>1, <1>2, <1>r, <3>1, <3>6, <3>12, <3>v DEF Drawn, SameSession, Shows
    <3>14. Elsewhere(x, y, Roots \cup {"summary"})
      BY <1>5, <2>3, <3>2, <3>6, <3>12, <3>v DEF Drawn, SameSession, Elsewhere
    <3> QED BY <1>13, <1>y, <2>7, <3>5, <3>v, <3>13, <3>14
  <2> QED BY <2>6, <2>7
<1> QED BY <1>9, <1>11, <1>12, <1>13

-----------------------------------------------------------------------------
(* The document of the application. *)

(* Without a session nothing is in either root. *)
LEMMA BlankHolds ==
    ASSUME NEW x \in Workspace, Bounded(x), x.current = NoSession,
           \A r \in Roots : x.dom[r] = 0, \A s \in x.stale : s.aborted
    PROVE  DocInv(x)
BY DEF DocInv, Owned, Going, NoSession

(* Other surfaces are mounted and unmounted beside a session. *)
LEMMA MountHolds ==
    ASSUME NEW x, DocInv(x), NEW d \in [Surfaces -> Nat], Elements(d) <= Limit,
           \A r \in Roots : d[r] = x.dom[r]
    PROVE  LET y == [x EXCEPT !.dom = d]
           IN  /\ DocInv(y) /\ y.dom = d /\ y.current = x.current
               /\ Complete(x) => Complete(y)
               /\ Counted(x) /\ (d["summary"] > 0 => x.dom["summary"] > 0) => Counted(y)
<1> PICK y : y = [x EXCEPT !.dom = d]
  OBVIOUS
<1>1. x \in Workspace /\ x.current.root \in Roots
  BY DEF DocInv, Workspace, Session
<1>2. /\ y \in Workspace /\ y.dom = d /\ Kept(x, y) /\ y.phase = x.phase /\ y.final = x.final
  BY <1>1 DEF Workspace, Kept
<1>3. Owned(y) /\ Going(y)
  BY <1>1, <1>2, Carried DEF DocInv
<1>4. Complete(x) => Complete(y)
  BY <1>1, <1>2 DEF Complete, Kept
<1>5. Counted(x) /\ (d["summary"] > 0 => x.dom["summary"] > 0) => Counted(y)
  BY <1>2 DEF Counted, Kept
<1> QED BY <1>2, <1>3, <1>4, <1>5 DEF DocInv, Bounded, Kept

(* A view that is limited, or drawn by one session of what was asked for;  *)
(* the label table has left the document.                                  *)
LEMMA RenderHolds ==
    ASSUME NEW x, DocInv(x), NEW v, NEW request \in Requests, NEW want \in Nat, NEW throws
    PROVE  LET y == RenderActive(x, v, request, want, throws)
           IN  /\ DocInv(y) /\ Complete(y) /\ Counted(y)
               /\ y.current.gen # 0 => Shows(y, request)
               /\ y.dom["labels"] = 0 /\ y.dom["targets"] = x.dom["targets"]
<1>c. PICK c : c = CancelRender(x)
  OBVIOUS
<1>b. PICK bare : bare = [c EXCEPT !.dom = Unstaged(c), !.content = [r \in Roots |-> {}],
                                   !.resize = @ /\ v # "geo-map", !.final = 0]
  OBVIOUS
<1>f. PICK filtered : filtered = [bare EXCEPT !.dom.filter = FilterCost, !.phase = "rendering"]
  OBVIOUS
<1>s. PICK summed : summed = IF v = "topology" THEN Summary(filtered) ELSE filtered
  OBVIOUS
<1>t. PICK staged : staged = IF Fits(summed.dom, ContextCost)
                             THEN [summed EXCEPT !.dom.context = ContextCost] ELSE summed
  OBVIOUS
<1>l. PICK limited : limited = [bare EXCEPT !.phase = "render-limited"]
  OBVIOUS
<1>y. RenderActive(x, v, request, want, throws) =
        IF Fits(bare.dom, FilterCost) THEN StartRender(staged, request, want, throws) ELSE limited
  BY <1>c, <1>b, <1>f, <1>s, <1>t, <1>l DEF RenderActive
<1>0. FilterCost \in Nat /\ ContextCost \in Nat
  BY ViewAssumption
<1>1. DocInv(c) /\ c.current = NoSession /\ (\A r \in Roots : c.dom[r] = 0) /\ Elsewhere(x, c, Roots)
  BY <1>c, CancelHolds
<1>2. c \in Workspace /\ c.dom \in [Surfaces -> Nat] /\ Elements(c.dom) <= Limit
  BY <1>1 DEF DocInv, Workspace, Bounded
<1>3. /\ Unstaged(c) \in [Surfaces -> Nat] /\ Elements(Unstaged(c)) <= Elements(c.dom)
      /\ \A s \in {"topology", "geo", "labels", "filter", "summary", "context"} : Unstaged(c)[s] = 0
      /\ Unstaged(c)["targets"] = c.dom["targets"]
  <2> DEFINE S == {"context", "diagnostics", "finding", "labels", "topology", "geo",
                   "filter", "summary"}
  <2>1. Unstaged(c) = Unmounted(c.dom, S)
    BY DEF Unstaged
  <2>2. /\ Unmounted(c.dom, S) \in [Surfaces -> Nat]
        /\ \A s \in Surfaces : Unmounted(c.dom, S)[s] = IF s \in S THEN 0 ELSE c.dom[s]
        /\ Elements(Unmounted(c.dom, S)) <= Elements(c.dom)
    BY <1>2, UnmountedElements
  <2>3. S \subseteq Surfaces /\ "targets" \in Surfaces /\ "targets" \notin S
    BY DEF Surfaces
  <2> QED BY <2>1, <2>2, <2>3
<1>4. /\ bare \in Workspace /\ bare.current = NoSession /\ bare.dom = Unstaged(c)
      /\ bare.stale = c.stale /\ bare.final = 0 /\ bare.phase = c.phase
  <2>1. [r \in Roots |-> {}] \in [Roots -> SUBSET Nat]
    OBVIOUS
  <2> QED BY <1>2, <1>3, <1>b, <2>1, <1>1 DEF Workspace
<1>5. Elements(bare.dom) <= Limit /\ Elements(bare.dom) \in Nat
  <2>1. Elements(bare.dom) \in Nat /\ Elements(c.dom) \in Nat
    BY <1>2, <1>3, <1>4, ElementsAreCounted
  <2> QED BY <1>2, <1>3, <1>4, <2>1, BudgetAssumption
<1>6. /\ \A r \in Roots : bare.dom[r] = 0
      /\ \A s \in bare.stale : s.aborted
      /\ bare.dom["labels"] = 0 /\ bare.dom["targets"] = x.dom["targets"]
      /\ bare.dom["filter"] = 0 /\ bare.dom["summary"] = 0 /\ bare.dom["context"] = 0
  BY <1>1, <1>3, <1>4 DEF DocInv, Owned, Roots, Elsewhere, Surfaces
<1>7. CASE ~Fits(bare.dom, FilterCost)
  <2>1. /\ limited \in Workspace /\ limited.current = NoSession /\ limited.dom = bare.dom
        /\ limited.stale = bare.stale /\ limited.final = 0 /\ limited.phase = "render-limited"
    BY <1>4, <1>l DEF Workspace, Phases
  <2>2. DocInv(limited)
    BY <1>5, <1>6, <2>1, BlankHolds DEF Bounded
  <2>3. Complete(limited) /\ Counted(limited) /\ limited.current.gen = 0
    BY <2>1 DEF Complete, Counted, NoSession
  <2> QED BY <1>6, <1>7, <1>y, <2>1, <2>2, <2>3
<1>8. CASE Fits(bare.dom, FilterCost)
  <2>d. PICK d : d = [bare.dom EXCEPT !["filter"] = FilterCost]
    OBVIOUS
  <2>1. d \in [Surfaces -> Nat] /\ d["filter"] = FilterCost
        /\ (\A s \in Surfaces \ {"filter"} : d[s] = bare.dom[s]) /\ "filter" \in Surfaces
        /\ bare.dom \in [Surfaces -> Nat]
    BY <1>0, <1>3, <1>4, <2>d DEF Surfaces
  <2>2. Elements(d) <= Limit
    <3>1. Elements(d) = Elements(bare.dom) - bare.dom["filter"] + d["filter"]
      BY <2>1, ElementsReplaced
    <3> QED BY <1>0, <1>5, <1>6, <1>8, <2>1, <3>1, BudgetAssumption DEF Fits
  <2>3. /\ filtered \in Workspace /\ filtered.current = NoSession /\ filtered.dom = d
        /\ filtered.stale = bare.stale /\ filtered.final = 0 /\ filtered.phase = "rendering"
    <3>1. filtered = [bare EXCEPT !.dom = d, !.phase = "rendering"]
      BY <1>4, <1>f, <2>d DEF Workspace
    <3> QED BY <1>4, <2>1, <3>1 DEF Workspace, Phases
  <2>4. /\ summed \in Workspace /\ summed.current = NoSession /\ Elsewhere(filtered, summed, {"summary"})
        /\ summed.stale = bare.stale /\ summed.final = 0 /\ summed.phase = "rendering"
        /\ Elements(summed.dom) <= Limit
    BY <1>s, <2>2, <2>3, SummaryHolds DEF Kept, Elsewhere, Bounded
  <2>5. summed.dom \in [Surfaces -> Nat] /\ \A s \in Surfaces \ {"summary", "filter"} : summed.dom[s] = bare.dom[s]
    BY <2>1, <2>3, <2>4 DEF Elsewhere, Workspace
  <2>6. /\ staged \in Workspace /\ staged.current = NoSession
        /\ staged.stale = bare.stale /\ staged.final = 0 /\ staged.phase = "rendering"
        /\ Elements(staged.dom) <= Limit
        /\ \A s \in Surfaces \ {"summary", "filter", "context"} : staged.dom[s] = bare.dom[s]
    <3>1. CASE Fits(summed.dom, ContextCost)
      <4>e. PICK e : e = [summed.dom EXCEPT !["context"] = ContextCost]
        OBVIOUS
      <4>1. e \in [Surfaces -> Nat] /\ e["context"] = ContextCost /\ "context" \in Surfaces
            /\ (\A s \in Surfaces \ {"context"} : e[s] = summed.dom[s])
        BY <1>0, <2>5, <4>e DEF Surfaces
      <4>2. Elements(e) <= Limit
        <5>1. Elements(e) = Elements(summed.dom) - summed.dom["context"] + e["context"]
          BY <2>5, <4>1, ElementsReplaced
        <5>2. summed.dom["context"] = 0
          BY <1>6, <2>5, <4>1
        <5>3. Elements(summed.dom) \in Nat
          BY <2>5, ElementsAreCounted
        <5> QED BY <1>0, <3>1, <4>1, <5>1, <5>2, <5>3, BudgetAssumption DEF Fits
      <4>3. staged = [summed EXCEPT !.dom = e]
        BY <1>t, <2>4, <3>1, <4>e DEF Workspace
      <4>4. /\ staged \in Workspace /\ staged.current = NoSession /\ staged.dom = e
            /\ staged.stale = summed.stale /\ staged.final = summed.final
            /\ staged.phase = summed.phase
        BY <2>4, <4>1, <4>3 DEF Workspace
      <4> QED BY <2>4, <2>5, <4>1, <4>2, <4>4
    <3>2. CASE ~Fits(summed.dom, ContextCost)
      BY <1>t, <2>4, <2>5, <3>2
    <3> QED BY <3>1, <3>2
  <2>7. Roots \subseteq Surfaces \ {"summary", "filter", "context"}
        /\ {"labels", "targets"} \subseteq Surfaces \ ({"summary", "filter", "context"} \cup Roots)
    BY DEF Roots, Surfaces
  <2>8. DocInv(staged)
    BY <1>6, <2>6, <2>7, BlankHolds DEF Bounded
  <2>y. PICK y : y = StartRender(staged, request, want, throws)
    OBVIOUS
  <2>9. /\ DocInv(y) /\ Complete(y) /\ Counted(y) /\ Shows(y, request)
        /\ Elsewhere(staged, y, Roots \cup {"summary"})
    BY <2>6, <2>8, <2>y, StartHolds
  <2>10. y.dom["labels"] = 0 /\ y.dom["targets"] = x.dom["targets"]
    BY <1>6, <2>6, <2>7, <2>9 DEF Elsewhere
  <2> QED BY <1>8, <1>y, <2>y, <2>9, <2>10
<1> QED BY <1>7, <1>8

(* Giving a topology up leaves its roots, filter and summary empty. *)
LEMMA DisposeHolds ==
    ASSUME NEW x, DocInv(x)
    PROVE  LET y == DisposeTopologyRender(x)
           IN  /\ DocInv(y) /\ Complete(y) /\ Counted(y) /\ y.current = NoSession
               /\ y.phase = "idle"
               /\ \A s \in {"topology", "geo", "filter", "summary"} : y.dom[s] = 0
               /\ Elsewhere(x, y, {"topology", "geo", "filter", "summary"})
<1> DEFINE S == {"topology", "geo", "filter", "summary"}
<1> PICK c : c = CancelRender(x)
  OBVIOUS
<1> PICK y : y = DisposeTopologyRender(x)
  OBVIOUS
<1>1. DocInv(c) /\ c.current = NoSession /\ Elsewhere(x, c, Roots)
  BY CancelHolds
<1>2. c \in Workspace /\ c.dom \in [Surfaces -> Nat] /\ Elements(c.dom) <= Limit
  BY <1>1 DEF DocInv, Workspace, Bounded
<1>d. PICK d : d = Unmounted(c.dom, S)
  OBVIOUS
<1>3. /\ d \in [Surfaces -> Nat] /\ Elements(d) <= Elements(c.dom)
      /\ \A s \in Surfaces : d[s] = IF s \in S THEN 0 ELSE c.dom[s]
  BY <1>2, <1>d, UnmountedElements
<1>4. Elements(d) <= Limit
  BY <1>2, <1>3, ElementsAreCounted, BudgetAssumption
<1>5. /\ y \in Workspace /\ y.current = NoSession /\ y.dom = d /\ y.stale = c.stale
      /\ y.phase = "idle"
  <2>1. y = [c EXCEPT !.dom = d, !.content = [r \in Roots |-> {}], !.resize = FALSE, !.phase = "idle"]
    BY <1>d DEF DisposeTopologyRender
  <2>2. [r \in Roots |-> {}] \in [Roots -> SUBSET Nat]
    OBVIOUS
  <2> QED BY <1>1, <1>2, <1>3, <2>1, <2>2 DEF Workspace, Phases
<1>6. S \subseteq Surfaces /\ Roots \subseteq S
  BY DEF Surfaces, Roots
<1>7. DocInv(y)
  BY <1>1, <1>3, <1>4, <1>5, <1>6, BlankHolds DEF DocInv, Owned, Bounded
<1>8. \A s \in S : y.dom[s] = 0
  BY <1>3, <1>5, <1>6
<1>9. Complete(y) /\ Counted(y)
  BY <1>5, <1>8 DEF Complete, Counted, NoSession
<1>10. Elsewhere(x, y, S)
  BY <1>1, <1>3, <1>5, <1>6 DEF Elsewhere
<1> QED BY <1>5, <1>7, <1>8, <1>9, <1>10

-----------------------------------------------------------------------------
(* The label table. *)

(* A finite set of numbers can be enumerated in ascending order: otherwise *)
(* take the smallest size of one that cannot, and its least element away.  *)
LEMMA AscendingExists ==
    ASSUME NEW S \in SUBSET Nat, IsFiniteSet(S)
    PROVE  \E f \in [1 .. Cardinality(S) -> S] : \A i, j \in DOMAIN f : i < j => f[i] < f[j]
<1> DEFINE Enumerates(f, T) == \A i, j \in DOMAIN f : i < j => f[i] < f[j]
           Enumerable(T) == \E f \in [1 .. Cardinality(T) -> T] : Enumerates(f, T)
           Bad == {n \in Nat : \E T \in SUBSET Nat : IsFiniteSet(T) /\ Cardinality(T) = n /\ ~Enumerable(T)}
<1>1. SUFFICES ASSUME ~Enumerable(S) PROVE FALSE
  OBVIOUS
<1>2. Cardinality(S) \in Nat
  BY FS_CardinalityType
<1>3. Cardinality(S) \in Bad /\ Bad \in SUBSET Nat
  BY <1>1, <1>2
<1>m. PICK m : m = Min(Bad)
  OBVIOUS
<1>4. m \in Bad /\ \A n \in Bad : m <= n
  BY <1>3, <1>m, MinIsLeast
<1>5. PICK T \in SUBSET Nat : IsFiniteSet(T) /\ Cardinality(T) = m /\ ~Enumerable(T)
  BY <1>4
<1>6. m \in Nat
  BY <1>4
<1>7. CASE T = {}
  <2>1. m = 0 /\ 1 .. m = {}
    BY <1>5, <1>7, FS_EmptySet
  <2>f. PICK f : f = [i \in 1 .. m |-> 0]
    OBVIOUS
  <2>2. f \in [1 .. m -> T] /\ DOMAIN f = {}
    BY <2>1, <2>f
  <2>3. Enumerates(f, T)
    BY <2>2
  <2> QED BY <1>5, <2>2, <2>3
<1>8. CASE T # {}
  <2>x. PICK x : x = Min(T)
    OBVIOUS
  <2>1. x \in T /\ \A y \in T : x <= y
    BY <1>8, <2>x, MinIsLeast
  <2>2. IsFiniteSet(T \ {x}) /\ Cardinality(T \ {x}) = m - 1
    BY <1>5, <2>1, FS_RemoveElement
  <2>3. m - 1 \in Nat
    BY <2>2, FS_CardinalityType
  <2>4. m - 1 \notin Bad
    BY <1>4, <1>6, <2>3
  <2>5. Enumerable(T \ {x})
    BY <2>2, <2>3, <2>4
  <2>6. PICK f \in [1 .. m - 1 -> T \ {x}] : Enumerates(f, T)
    BY <2>2, <2>5
  <2>7. \A i, j \in 1 .. m - 1 : i < j => f[i] < f[j]
    BY <2>6
  <2>g. PICK g : g = [i \in 1 .. m |-> IF i = 1 THEN x ELSE f[i - 1]]
    OBVIOUS
  <2>8. \A i \in 1 .. m : i # 1 => i - 1 \in 1 .. m - 1
    BY <1>6
  <2>9. g \in [1 .. m -> T] /\ DOMAIN g = 1 .. m
    BY <2>1, <2>6, <2>8, <2>g
  <2>10. ASSUME NEW i \in 1 .. m, NEW j \in 1 .. m, i < j PROVE g[i] < g[j]
    <3>1. j # 1 /\ j - 1 \in 1 .. m - 1 /\ f[j - 1] \in T \ {x} /\ g[j] = f[j - 1]
      BY <2>6, <2>8, <2>10, <2>g
    <3>2. CASE i = 1
      <4>1. g[i] = x
        BY <2>10, <2>g, <3>2
      <4>2. x \in Nat /\ f[j - 1] \in Nat /\ f[j - 1] # x /\ x <= f[j - 1]
        BY <1>5, <2>1, <3>1
      <4> QED BY <3>1, <4>1, <4>2
    <3>3. CASE i # 1
      <4>1. i - 1 \in 1 .. m - 1 /\ i - 1 < j - 1 /\ g[i] = f[i - 1]
        BY <2>8, <2>10, <2>g, <3>3
      <4> QED BY <2>7, <3>1, <4>1
    <3> QED BY <3>2, <3>3
  <2>11. Enumerates(g, T)
    BY <2>9, <2>10
  <2> QED BY <1>5, <2>9, <2>11
<1> QED BY <1>7, <1>8

(* Rows lists the labelled addresses. *)
LEMMA RowsHold ==
    ASSUME NEW l
    PROVE  /\ Rows(l) \in Seq(IPs) /\ Len(Rows(l)) \in Nat
           /\ \A i \in 1 .. Len(Rows(l)) : Rows(l)[i] \in Labelled(l)
           /\ Rows(l) = <<>> => Labelled(l) = {}
<1> DEFINE S == Labelled(l)
<1>1. S \in SUBSET Nat /\ S \subseteq IPs /\ IsFiniteSet(S)
  BY LabelAssumption, FS_Subset DEF Labelled
<1>2. Cardinality(S) \in Nat
  BY <1>1, FS_CardinalityType
<1>3. \E f \in [1 .. Cardinality(S) -> S] : \A i, j \in DOMAIN f : i < j => f[i] < f[j]
  BY <1>1, AscendingExists
<1> HIDE DEF S
<1>4. Rows(l) \in [1 .. Cardinality(S) -> S]
  BY <1>3 DEF Rows, S
<1>5. Rows(l) \in Seq(S) /\ Len(Rows(l)) = Cardinality(S)
  BY <1>2, <1>4
<1>6. Rows(l) = <<>> => S = {}
  BY <1>1, <1>2, <1>5, FS_EmptySet
<1>7. Rows(l) \in Seq(IPs)
  <2>1. Rows(l) \in [1 .. Cardinality(S) -> IPs]
    <3>1. S \subseteq IPs
      BY <1>1
    <3> QED BY <1>4, <3>1
  <2> QED BY <1>2, <2>1
<1> QED BY <1>2, <1>4, <1>5, <1>6, <1>7 DEF S

LEMMA SmallerOfTwo ==
    ASSUME NEW a \in Int, NEW b \in Int
    PROVE  Min({a, b}) = IF a <= b THEN a ELSE b
<1> DEFINE m == IF a <= b THEN a ELSE b
<1>1. m \in {a, b} /\ \A y \in {a, b} : m <= y
  OBVIOUS
<1>2. \A x \in {a, b} : (\A y \in {a, b} : x <= y) => x = m
  OBVIOUS
<1> QED BY <1>1, <1>2 DEF Min

LEMMA GreaterOfTwo ==
    ASSUME NEW a \in Int, NEW b \in Int
    PROVE  Max({a, b}) = IF a >= b THEN a ELSE b
<1> DEFINE m == IF a >= b THEN a ELSE b
<1>1. m \in {a, b} /\ \A y \in {a, b} : m >= y
  OBVIOUS
<1>2. \A x \in {a, b} : (\A y \in {a, b} : x >= y) => x = m
  OBVIOUS
<1> QED BY <1>1, <1>2 DEF Max

(* A page is a part of the rows. *)
LEMMA PageHolds ==
    ASSUME NEW l, NEW page \in Nat, NEW size \in Nat \ {0}
    PROVE  LET visible == SubSeq(Rows(l), page * size + 1, Min({(page + 1) * size, Len(Rows(l))}))
           IN  /\ visible \in Seq(IPs) /\ Len(visible) \in Nat
               /\ \A i \in 1 .. Len(visible) : visible[i] \in Labelled(l)
               /\ page * size < Len(Rows(l)) => visible # <<>>
<1>r. PICK rows : rows = Rows(l)
  OBVIOUS
<1>a. PICK a : a = page * size
  OBVIOUS
<1>b. PICK b : b = Min({(page + 1) * size, Len(rows)})
  OBVIOUS
<1>v. PICK v : v = SubSeq(rows, a + 1, b)
  OBVIOUS
<1>1. /\ rows \in Seq(IPs) /\ Len(rows) \in Nat
      /\ \A i \in 1 .. Len(rows) : rows[i] \in Labelled(l)
  BY <1>r, RowsHold
<1>2. a \in Nat /\ (page + 1) * size = a + size
  BY <1>a
<1>3. b = IF a + size <= Len(rows) THEN a + size ELSE Len(rows)
  BY <1>1, <1>2, <1>b, SmallerOfTwo
<1>4. b \in Nat /\ b <= Len(rows)
  BY <1>1, <1>2, <1>3
<1>5. v \in Seq(IPs) /\ Len(v) = (IF a + 1 <= b THEN b - a ELSE 0)
      /\ \A i \in 1 .. Len(v) : v[i] = rows[a + i]
  BY <1>1, <1>2, <1>4, <1>v
<1>6. ASSUME NEW i \in 1 .. Len(v) PROVE v[i] \in Labelled(l)
  <2>1. a + i \in 1 .. Len(rows) /\ v[i] = rows[a + i]
    BY <1>1, <1>2, <1>4, <1>5
  <2> QED BY <1>1, <2>1
<1>7. a < Len(rows) => Len(v) # 0
  BY <1>1, <1>2, <1>3, <1>5
<1>8. v = SubSeq(Rows(l), page * size + 1, Min({(page + 1) * size, Len(Rows(l))}))
  BY <1>a, <1>b, <1>r, <1>v
<1>9. Len(v) \in Nat /\ (page * size < Len(Rows(l)) => v # <<>>)
  BY <1>2, <1>4, <1>5, <1>7, <1>a, <1>r
<1> QED BY <1>5, <1>6, <1>8, <1>9

(* A render that was superseded is not the current one any more. *)
LEMMA CancelledRenders ==
    ASSUME NEW t \in TableType, NEW works
    PROVE  LET y == CancelIPLabelRender(t, works)
           IN  /\ y \in TableType /\ \A r \in y.pending : ~r.current
               /\ y = [t EXCEPT !.pending = y.pending]
<1> DEFINE pending == IF works THEN {} ELSE {[r EXCEPT !.current = FALSE] : r \in t.pending}
<1>1. \A r \in Render : [r EXCEPT !.current = FALSE] \in Render /\ ~[r EXCEPT !.current = FALSE].current
  BY DEF Render
<1>2. pending \in SUBSET Render /\ \A r \in pending : ~r.current
  BY <1>1 DEF TableType
<1>3. CancelIPLabelRender(t, works) = [t EXCEPT !.pending = pending]
  BY DEF CancelIPLabelRender
<1> HIDE DEF pending
<1>4. [t EXCEPT !.pending = pending] \in TableType /\ [t EXCEPT !.pending = pending].pending = pending
  BY <1>2 DEF TableType
<1> QED BY <1>2, <1>3, <1>4

LEMMA TablePage ==
    ASSUME NEW t \in TableType, NEW l
    PROVE  /\ PageOf(t, l) \in Seq(IPs) /\ Len(PageOf(t, l)) \in Nat
           /\ \A i \in 1 .. Len(PageOf(t, l)) : PageOf(t, l)[i] \in Labelled(l)
           /\ t.page * t.size < Len(Rows(l)) => PageOf(t, l) # <<>>
BY PageHolds DEF PageOf, TableType

(* A table that is given up leaves no row, whatever the labels become. *)
LEMMA UnmountTableHolds ==
    ASSUME NEW t, NEW l, TableInv(t, l), NEW m
    PROVE  LET y == UnmountIPLabelTable(t, CancelWorks)
           IN  TableInv(y, m) /\ ~y.owned /\ TableElements(y) = 0
<1> PICK y : y = UnmountIPLabelTable(t, CancelWorks)
  OBVIOUS
<1>c. PICK c : c = CancelIPLabelRender(t, CancelWorks)
  OBVIOUS
<1>1. t \in TableType
  BY DEF TableInv
<1>2. /\ c \in TableType /\ (\A r \in c.pending : ~r.current)
      /\ c = [t EXCEPT !.pending = c.pending]
  BY <1>1, <1>c, CancelledRenders
<1>3. c.owned = t.owned /\ c.rows = t.rows /\ c.state = t.state
  BY <1>1, <1>2 DEF TableType
<1>4. y = IF t.owned THEN [c EXCEPT !.owned = FALSE, !.rows = <<>>, !.state = "none"] ELSE c
  BY <1>c DEF UnmountIPLabelTable
<1>5. /\ y \in TableType /\ ~y.owned /\ y.rows = <<>> /\ y.state = "none"
      /\ \A r \in y.pending : ~r.current
  <2>1. CASE t.owned
    <3>1. <<>> \in Seq(Row)
      OBVIOUS
    <3>2. y = [c EXCEPT !.owned = FALSE, !.rows = <<>>, !.state = "none"]
      BY <1>4, <2>1
    <3>3. /\ y \in TableType /\ ~y.owned /\ y.rows = <<>> /\ y.state = "none"
          /\ y.pending = c.pending
      BY <1>2, <3>1, <3>2 DEF TableType
    <3> QED BY <1>2, <3>3
  <2>2. CASE ~t.owned
    BY <1>1, <1>2, <1>3, <1>4, <2>2 DEF TableInv, TableType
  <2> QED BY <2>1, <2>2
<1>6. Len(PageOf(y, m)) \in Nat
  BY <1>5, TablePage
<1>7. TableInv(y, m)
  BY <1>5, <1>6 DEF TableInv
<1>8. TableElements(y) = 0
  BY <1>5, LabelAssumption DEF TableElements
<1> QED BY <1>5, <1>7, <1>8

(* The last page that begins before the end. *)
LEMMA LastPage ==
    ASSUME NEW n \in Nat \ {0}, NEW size \in Nat \ {0}, NEW page \in Nat,
           page <= (IF 1 >= (n + size - 1) \div size THEN 1 ELSE (n + size - 1) \div size) - 1
    PROVE  page * size < n
<1>q. PICK q : q = (n + size - 1) \div size
  OBVIOUS
<1>1. n + size - 1 \in Nat
  OBVIOUS
<1>2. q \in Nat /\ size * q <= n + size - 1
  <2>1. q \in Nat /\ (n + size - 1) % size \in 0 .. size - 1
        /\ n + size - 1 = size * q + ((n + size - 1) % size)
    BY <1>1, <1>q, DivMod
  <2> QED BY <1>1, <2>1
<1>3. CASE q = 0 \/ page = 0
  <2>1. page = 0
    BY <1>3, <1>q
  <2> QED BY <2>1
<1>4. CASE q # 0 /\ page # 0
  <2>1. page + 1 <= q
    BY <1>2, <1>4, <1>q
  <2>2. size * (page + 1) <= size * q
    BY <1>2, <2>1
  <2>3. size * (page + 1) = page * size + size
    OBVIOUS
  <2>4. page * size \in Nat
    OBVIOUS
  <2> QED BY <1>2, <2>2, <2>3, <2>4
<1> QED BY <1>3, <1>4

(* renderIPLabelTable begins with an empty page of the labels, or with the *)
(* row that says there are none, if there is room for it.                  *)
LEMMA RenderTableHolds ==
    ASSUME NEW t \in TableType, NEW l \in LabelMaps,
           NEW dom \in [Surfaces -> Nat], Elements(dom) <= Limit
    PROVE  LET y == RenderIPLabelTable(t, l, dom, CancelWorks)
           IN  /\ TableInv(y, l) /\ TableElements(y) \in Nat
               /\ Elements(Unmounted(dom, {"labels"})) + TableElements(y) <= Limit
<1> PICK y : y = RenderIPLabelTable(t, l, dom, CancelWorks)
  OBVIOUS
<1>r. PICK rows : rows = Rows(l)
  OBVIOUS
<1>b. PICK bare : bare = Unmounted(dom, {"labels"})
  OBVIOUS
<1>m. PICK room : room = (Limit - Elements(bare)) \div LabelRow
  OBVIOUS
<1>s. PICK size : size = Max({1, Min({LabelPage, room})})
  OBVIOUS
<1>n. PICK pages : pages = Max({1, (Len(rows) + size - 1) \div size})
  OBVIOUS
<1>p. PICK page : page = Min({t.page, pages - 1})
  OBVIOUS
<1>v. PICK visible : visible = SubSeq(rows, page * size + 1, Min({(page + 1) * size, Len(rows)}))
  OBVIOUS
<1>c. PICK c : c = CancelIPLabelRender(t, CancelWorks)
  OBVIOUS
<1>e. PICK begun : begun = [c EXCEPT !.owned = TRUE, !.page = page, !.size = size,
                                     !.rows = <<>>, !.state = "rendering"]
  OBVIOUS
<1>y. y = IF visible = <<>>
          THEN [begun EXCEPT !.state = IF Fits(bare, 2) THEN "empty" ELSE "limited"]
          ELSE [begun EXCEPT !.pending = @ \cup {[current |-> TRUE, visible |-> visible, offset |-> 0]}]
  BY <1>r, <1>b, <1>m, <1>s, <1>n, <1>p, <1>v, <1>c, <1>e DEF RenderIPLabelTable
<1>0. LabelPage \in Nat \ {0} /\ LabelRow \in Nat \ {0}
  BY LabelAssumption
<1>1. Elements(bare) \in Nat /\ Elements(bare) <= Limit
  <2>1. bare \in [Surfaces -> Nat] /\ Elements(bare) <= Elements(dom)
    BY <1>b, UnmountedElements
  <2> QED BY <2>1, ElementsAreCounted, BudgetAssumption
<1>2. room \in Nat
  <2>1. Limit - Elements(bare) \in Nat
    BY <1>1, BudgetAssumption
  <2> QED BY <1>0, <1>m, <2>1, DivMod
<1>3. size \in Nat \ {0}
  <2>1. Min({LabelPage, room}) \in Nat
    BY <1>0, <1>2, SmallerOfTwo
  <2> QED BY <1>s, <2>1, GreaterOfTwo
<1>4. Len(rows) \in Nat /\ (rows = <<>> => Labelled(l) = {})
  BY <1>r, RowsHold
<1>5. pages = (IF 1 >= (Len(rows) + size - 1) \div size THEN 1 ELSE (Len(rows) + size - 1) \div size)
      /\ pages \in Nat \ {0}
  <2>1. Len(rows) + size - 1 \in Nat
    BY <1>3, <1>4
  <2>2. (Len(rows) + size - 1) \div size \in Nat
    BY <1>3, <2>1, DivMod
  <2> QED BY <1>n, <2>2, GreaterOfTwo
<1>6. page \in Nat /\ page <= pages - 1
  <2>1. t.page \in Nat
    BY DEF TableType
  <2> QED BY <1>5, <1>p, <2>1, SmallerOfTwo
<1>7. Len(rows) # 0 => page * size < Len(rows)
  BY <1>3, <1>4, <1>5, <1>6, LastPage
<1>8. visible \in Seq(IPs) /\ Len(visible) \in Nat /\ (page * size < Len(rows) => visible # <<>>)
  BY <1>3, <1>6, <1>r, <1>v, PageHolds
<1>9. visible = <<>> => Labelled(l) = {}
  <2>1. Len(rows) = 0 => rows = <<>>
    BY <1>r, RowsHold
  <2> QED BY <1>4, <1>7, <1>8, <2>1
<1>10. c \in TableType /\ \A r \in c.pending : ~r.current
  BY <1>c, CancelledRenders
<1>11. /\ begun \in TableType /\ begun.owned /\ begun.page = page /\ begun.size = size
       /\ begun.rows = <<>> /\ begun.state = "rendering" /\ begun.pending = c.pending
  <2>1. <<>> \in Seq(Row)
    OBVIOUS
  <2> QED BY <1>3, <1>6, <1>10, <1>e, <2>1 DEF TableType
<1>12. CASE visible = <<>>
  <2>1. /\ y \in TableType /\ y.owned /\ y.rows = <<>> /\ y.pending = c.pending
        /\ y.state = IF Fits(bare, 2) THEN "empty" ELSE "limited"
    BY <1>11, <1>12, <1>y DEF TableType
  <2>2. Len(PageOf(y, l)) \in Nat
    BY <2>1, TablePage
  <2>3. TableInv(y, l)
    BY <1>9, <1>10, <1>12, <2>1, <2>2 DEF TableInv
  <2>4. TableElements(y) = IF Fits(bare, 2) THEN 2 ELSE 0
    BY <1>0, <2>1 DEF TableElements
  <2>5. TableElements(y) \in Nat /\ Elements(bare) + TableElements(y) <= Limit
    BY <1>1, <2>4, BudgetAssumption DEF Fits
  <2> QED BY <1>b, <2>3, <2>5
<1>13. CASE visible # <<>>
  <2>r. PICK r : r = [current |-> TRUE, visible |-> visible, offset |-> 0]
    OBVIOUS
  <2>1. r \in Render /\ r.current /\ r.visible = visible /\ r.offset = 0
    BY <1>8, <2>r DEF Render
  <2>2. /\ y \in TableType /\ y.owned /\ y.rows = <<>> /\ y.state = "rendering"
        /\ y.pending = c.pending \cup {r} /\ y.page = page /\ y.size = size
    <3>1. y = [begun EXCEPT !.pending = begun.pending \cup {r}]
      BY <1>13, <1>y, <2>r
    <3> QED BY <1>11, <2>1, <3>1 DEF TableType
  <2>3. PageOf(y, l) = visible
    BY <1>r, <1>v, <2>2 DEF PageOf
  <2>4. 0 < Len(visible)
    BY <1>8, <1>13
  <2>5. TableInv(y, l)
    BY <1>8, <1>10, <2>1, <2>2, <2>3, <2>4 DEF TableInv
  <2>6. TableElements(y) = 0
    BY <1>0, <2>2 DEF TableElements
  <2> QED BY <1>1, <1>b, <2>5, <2>6
<1> QED BY <1>12, <1>13

(* appendChunk shows the rows of its page in order, each with the label it *)
(* has when it is appended, and asks for the room it takes.                *)
LEMMA AppendHolds ==
    ASSUME NEW t, NEW l \in LabelMaps, TableInv(t, l), NEW r \in t.pending,
           NEW dom \in [Surfaces -> Nat], Elements(dom) <= Limit,
           dom["labels"] = TableElements(t)
    PROVE  LET y == AppendChunk(t, r, l, dom)
           IN  /\ TableInv(y, l) /\ y.owned = t.owned /\ TableElements(y) \in Nat
               /\ Elements(dom) - dom["labels"] + TableElements(y) <= Limit
<1> PICK y : y = AppendChunk(t, r, l, dom)
  OBVIOUS
<1>p. PICK p : p = PageOf(t, l)
  OBVIOUS
<1>l. PICK last : last = Min({r.offset + LabelChunk, Len(r.visible)})
  OBVIOUS
<1>c. PICK chunk : chunk = SubSeq(r.visible, r.offset + 1, last)
  OBVIOUS
<1>a. PICK add : add = [i \in DOMAIN chunk |-> [ip |-> chunk[i], label |-> l[chunk[i]]]]
  OBVIOUS
<1>r. PICK ran : ran = [t EXCEPT !.pending = @ \ {r}]
  OBVIOUS
<1>g. PICK grown : grown = [ran EXCEPT !.rows = @ \o add]
  OBVIOUS
<1>y. y = IF ~OwnsTable(t, r) THEN ran
          ELSE IF ~Fits(dom, LabelRow * Len(chunk)) THEN [ran EXCEPT !.rows = <<>>, !.state = "limited"]
          ELSE IF last < Len(r.visible) THEN [grown EXCEPT !.pending = @ \cup {[r EXCEPT !.offset = last]}]
          ELSE [grown EXCEPT !.state = "ready"]
  BY <1>l, <1>c, <1>a, <1>r, <1>g DEF AppendChunk
<1>0. LabelChunk \in Nat \ {0} /\ LabelRow \in Nat \ {0}
  BY LabelAssumption
<1>1. t \in TableType /\ r \in Render /\ Len(t.rows) \in Nat /\ t.rows \in Seq(Row)
  BY DEF TableInv, TableType
<1>2. p \in Seq(IPs) /\ Len(p) \in Nat
  BY <1>1, <1>p, TablePage
<1>3. /\ ran \in TableType /\ ran.owned = t.owned /\ ran.rows = t.rows /\ ran.state = t.state
      /\ ran.page = t.page /\ ran.size = t.size /\ ran.pending = t.pending \ {r}
  BY <1>1, <1>r DEF TableType
<1>4. \A z : z.page = t.page /\ z.size = t.size => PageOf(z, l) = p
  BY <1>p DEF PageOf
<1>5. Elements(dom) \in Nat /\ dom["labels"] \in Nat
  BY ElementsAreCounted DEF Surfaces
<1>6. CASE ~OwnsTable(t, r)
  <2>1. y = ran
    BY <1>6, <1>y
  <2>2. TableInv(y, l)
    BY <1>3, <1>4, <1>p, <2>1 DEF TableInv
  <2>3. TableElements(y) = TableElements(t)
    BY <1>3, <2>1 DEF TableElements
  <2> QED BY <1>3, <1>5, <2>1, <2>2, <2>3
<1>7. CASE OwnsTable(t, r)
  <2>1. /\ r.current /\ t.owned /\ t.state = "rendering" /\ r.visible = p
        /\ r.offset = Len(t.rows) /\ r.offset < Len(p)
        /\ \A q \in ran.pending : ~q.current
    BY <1>3, <1>7, <1>p DEF OwnsTable, TableInv
  <2>2. last = (IF r.offset + LabelChunk <= Len(p) THEN r.offset + LabelChunk ELSE Len(p))
    BY <1>0, <1>1, <1>2, <1>l, <2>1, SmallerOfTwo
  <2>3. last \in Nat /\ r.offset < last /\ last <= Len(p)
    BY <1>0, <1>1, <1>2, <2>1, <2>2
  <2>4. chunk \in Seq(IPs) /\ Len(chunk) = last - r.offset
        /\ \A i \in 1 .. Len(chunk) : chunk[i] = p[r.offset + i]
    <3>1. r.offset \in Nat /\ chunk = SubSeq(p, r.offset + 1, last)
      BY <1>1, <1>c, <2>1
    <3> QED BY <1>2, <2>3, <3>1
  <2>5. /\ add \in Seq(Row) /\ Len(add) = last - r.offset
        /\ \A i \in 1 .. Len(add) : add[i] = [ip |-> p[r.offset + i], label |-> l[p[r.offset + i]]]
    <3>1. \A i \in 1 .. Len(chunk) : chunk[i] \in IPs /\ l[chunk[i]] \in Labels \cup {NoLabel}
      BY <2>4 DEF LabelMaps
    <3>2. \A i \in 1 .. Len(chunk) : [ip |-> chunk[i], label |-> l[chunk[i]]] \in Row
      BY <3>1 DEF Row
    <3>3. DOMAIN chunk = 1 .. Len(chunk) /\ Len(chunk) \in Nat
      BY <2>4
    <3>4. add \in [1 .. Len(chunk) -> Row]
      BY <1>a, <3>2, <3>3
    <3>5. add \in Seq(Row) /\ Len(add) = Len(chunk)
      BY <3>3, <3>4
    <3> QED BY <1>a, <2>4, <3>3, <3>5
  <2>n. PICK rows : rows = t.rows \o add
    OBVIOUS
  <2>6. /\ rows \in Seq(Row) /\ Len(rows) = last
        /\ \A i \in 1 .. last :
              rows[i] = IF i <= Len(t.rows) THEN t.rows[i] ELSE add[i - Len(t.rows)]
    BY <1>1, <2>1, <2>3, <2>5, <2>n
  <2>7. ASSUME NEW i \in 1 .. last PROVE rows[i] = [ip |-> p[i], label |-> l[p[i]]]
    <3>1. CASE i <= Len(t.rows)
      <4>1. i \in 1 .. Len(t.rows)
        BY <3>1
      <4> QED BY <1>p, <2>6, <3>1, <4>1 DEF TableInv
    <3>2. CASE ~(i <= Len(t.rows))
      <4>1. i - Len(t.rows) \in 1 .. Len(add) /\ r.offset + (i - Len(t.rows)) = i
        BY <1>1, <2>1, <2>3, <2>5, <3>2
      <4>2. rows[i] = add[i - Len(t.rows)]
        BY <2>6, <3>2
      <4>3. add[i - Len(t.rows)] = [ip |-> p[r.offset + (i - Len(t.rows))],
                                    label |-> l[p[r.offset + (i - Len(t.rows))]]]
        BY <2>5, <4>1
      <4> QED BY <4>1, <4>2, <4>3
    <3> QED BY <3>1, <3>2
  <2>8. TableElements(t) = LabelRow * r.offset
    BY <2>1 DEF TableElements
  <2>9. /\ grown \in TableType /\ grown.owned /\ grown.rows = rows /\ grown.state = "rendering"
        /\ grown.page = t.page /\ grown.size = t.size /\ grown.pending = ran.pending
    <3>1. grown = [ran EXCEPT !.rows = rows]
      BY <1>3, <1>g, <2>n
    <3> QED BY <1>3, <2>1, <2>6, <3>1 DEF TableType
  <2>10. CASE ~Fits(dom, LabelRow * Len(chunk))
    <3>1. <<>> \in Seq(Row)
      OBVIOUS
    <3>2. y = [ran EXCEPT !.rows = <<>>, !.state = "limited"]
      BY <1>7, <1>y, <2>10
    <3>3. /\ y \in TableType /\ y.owned /\ y.rows = <<>> /\ y.state = "limited"
          /\ y.pending = ran.pending /\ y.page = t.page /\ y.size = t.size
      BY <1>3, <2>1, <3>1, <3>2 DEF TableType
    <3>4. PageOf(y, l) = p
      BY <1>4, <3>3
    <3>5. TableInv(y, l)
      BY <1>2, <2>1, <3>3, <3>4 DEF TableInv
    <3>6. TableElements(y) = 0
      BY <1>0, <3>3 DEF TableElements
    <3> QED BY <1>5, <2>1, <3>3, <3>5, <3>6, BudgetAssumption
  <2>11. CASE Fits(dom, LabelRow * Len(chunk))
    <3>1. y = IF last < Len(r.visible) THEN [grown EXCEPT !.pending = @ \cup {[r EXCEPT !.offset = last]}]
              ELSE [grown EXCEPT !.state = "ready"]
      BY <1>7, <1>y, <2>11
    <3>q. PICK q : q = [r EXCEPT !.offset = last]
      OBVIOUS
    <3>2. q \in Render /\ q.current = r.current /\ q.visible = p /\ q.offset = last
      BY <1>1, <2>1, <2>3, <3>q DEF Render
    <3>3. Elements(dom) - dom["labels"] + LabelRow * last <= Limit /\ LabelRow * last \in Nat
      <4>1. LabelRow * Len(chunk) = LabelRow * last - LabelRow * r.offset
        BY <1>0, <1>1, <2>1, <2>3, <2>4
      <4>2. LabelRow * last \in Nat /\ LabelRow * r.offset \in Nat
        BY <1>0, <1>1, <2>1, <2>3
      <4> QED BY <1>5, <2>8, <2>11, <4>1, <4>2, BudgetAssumption DEF Fits
    <3>4. CASE last < Len(p)
      <4>1. y = [grown EXCEPT !.pending = grown.pending \cup {q}]
        BY <2>1, <3>1, <3>4, <3>q
      <4>2. /\ y \in TableType /\ y.owned /\ y.rows = rows /\ y.state = "rendering"
            /\ y.pending = ran.pending \cup {q} /\ y.page = t.page /\ y.size = t.size
        BY <2>9, <3>2, <4>1 DEF TableType
      <4>3. PageOf(y, l) = p
        BY <1>4, <4>2
      <4>4. TableInv(y, l)
        BY <1>2, <2>1, <2>3, <2>6, <2>7, <3>2, <3>4, <4>2, <4>3 DEF TableInv
      <4>5. TableElements(y) = LabelRow * last
        BY <2>6, <4>2 DEF TableElements
      <4> QED BY <2>1, <3>3, <4>2, <4>4, <4>5
    <3>5. CASE ~(last < Len(p))
      <4>1. y = [grown EXCEPT !.state = "ready"]
        BY <2>1, <3>1, <3>5
      <4>2. /\ y \in TableType /\ y.owned /\ y.rows = rows /\ y.state = "ready"
            /\ y.pending = ran.pending /\ y.page = t.page /\ y.size = t.size
        BY <2>9, <4>1 DEF TableType
      <4>3. PageOf(y, l) = p /\ last = Len(p)
        BY <1>2, <1>4, <2>3, <3>5, <4>2
      <4>4. TableInv(y, l)
        BY <1>2, <2>1, <2>6, <2>7, <4>2, <4>3 DEF TableInv
      <4>5. TableElements(y) = LabelRow * last
        BY <2>6, <4>2 DEF TableElements
      <4> QED BY <2>1, <3>3, <4>2, <4>4, <4>5
    <3> QED BY <3>4, <3>5
  <2> QED BY <2>10, <2>11
<1> QED BY <1>6, <1>7

(* An edited row is the record it shows; the labelled addresses stay the   *)
(* same, and with them the page.                                           *)
Edited(t, ip, label) ==
    [t EXCEPT !.rows = [i \in DOMAIN t.rows |->
        IF t.rows[i].ip = ip THEN [ip |-> ip, label |-> label] ELSE t.rows[i]]]

LEMMA EditHolds ==
    ASSUME NEW t, NEW l \in LabelMaps, TableInv(t, l), NEW ip \in IPs, NEW label \in Labels,
           \E i \in DOMAIN t.rows : t.rows[i].ip = ip
    PROVE  /\ TableInv(Edited(t, ip, label), [l EXCEPT ![ip] = label])
           /\ Edited(t, ip, label).owned = t.owned
           /\ TableElements(Edited(t, ip, label)) = TableElements(t)
           /\ t.owned
<1>y. PICK y : y = Edited(t, ip, label)
  OBVIOUS
<1>m. PICK m : m = [l EXCEPT ![ip] = label]
  OBVIOUS
<1>p. PICK p : p = PageOf(t, l)
  OBVIOUS
<1>1. t \in TableType /\ Len(t.rows) \in Nat /\ t.rows \in Seq(Row) /\ DOMAIN t.rows = 1 .. Len(t.rows)
  BY DEF TableInv, TableType
<1>2. /\ p \in Seq(IPs) /\ Len(p) \in Nat /\ Len(t.rows) <= Len(p)
      /\ (\A i \in 1 .. Len(p) : p[i] \in Labelled(l))
      /\ \A i \in 1 .. Len(t.rows) : t.rows[i] = [ip |-> p[i], label |-> l[p[i]]]
  BY <1>1, <1>p, TablePage DEF TableInv
<1>3. PICK k \in 1 .. Len(t.rows) : t.rows[k].ip = ip
  BY <1>1
<1>4. ip \in Labelled(l)
  <2>1. k \in 1 .. Len(p)
    BY <1>1, <1>2
  <2>2. t.rows[k] = [ip |-> p[k], label |-> l[p[k]]]
    BY <1>2
  <2>3. t.rows[k].ip = p[k]
    BY <2>2
  <2> QED BY <1>2, <1>3, <2>1, <2>3
<1>5. m \in LabelMaps /\ Labelled(m) = Labelled(l)
  <2>1. m \in LabelMaps /\ m[ip] = label /\ \A a \in IPs : a # ip => m[a] = l[a]
    BY <1>m DEF LabelMaps
  <2> QED BY <1>4, <2>1, LabelAssumption DEF Labelled
<1>6. Rows(m) = Rows(l)
  BY <1>5 DEF Rows
<1>r. PICK rows : rows = [i \in DOMAIN t.rows |->
        IF t.rows[i].ip = ip THEN [ip |-> ip, label |-> label] ELSE t.rows[i]]
  OBVIOUS
<1>7. rows \in Seq(Row) /\ Len(rows) = Len(t.rows)
  <2>1. [ip |-> ip, label |-> label] \in Row
    BY DEF Row
  <2>2. rows \in [1 .. Len(t.rows) -> Row]
    BY <1>1, <1>r, <2>1
  <2> QED BY <1>1, <2>2
<1>8. ASSUME NEW i \in 1 .. Len(t.rows) PROVE rows[i] = [ip |-> p[i], label |-> m[p[i]]]
  <2>1. t.rows[i] = [ip |-> p[i], label |-> l[p[i]]] /\ p[i] \in IPs
    BY <1>1, <1>2
  <2>2. rows[i] = IF t.rows[i].ip = ip THEN [ip |-> ip, label |-> label] ELSE t.rows[i]
    BY <1>1, <1>r
  <2>3. m[p[i]] = IF p[i] = ip THEN label ELSE l[p[i]]
    BY <1>m, <2>1 DEF LabelMaps
  <2> QED BY <2>1, <2>2, <2>3
<1>9. /\ y \in TableType /\ y.rows = rows /\ y.owned = t.owned /\ y.state = t.state
      /\ y.page = t.page /\ y.size = t.size /\ y.pending = t.pending
  BY <1>1, <1>7, <1>r, <1>y DEF TableType, Edited
<1>10. PageOf(y, m) = p
  BY <1>6, <1>9, <1>p DEF PageOf
<1>11. t.rows # <<>> /\ t.owned
  BY <1>1, <1>3 DEF TableInv
<1>12. t.state \notin {"none", "empty", "limited"}
  BY <1>11 DEF TableInv
<1>13. TableInv(y, m)
  BY <1>2, <1>5, <1>7, <1>8, <1>9, <1>10, <1>11, <1>12, <1>p DEF TableInv
<1>14. TableElements(y) = TableElements(t)
  BY <1>7, <1>9 DEF TableElements
<1> QED BY <1>9, <1>11, <1>13, <1>14, <1>m, <1>y

-----------------------------------------------------------------------------
(* The actions.  First, those that leave the label view's table alone. *)

(* The mode of the graph, the pending resize and what was last observed    *)
(* are not what a session is of.                                           *)
LEMMA ModeHolds ==
    ASSUME NEW x, DocInv(x), NEW source, NEW m \in {"2d", "3d"}
    PROVE  LET y == UpdateTopologyView(x, source, m)
           IN  /\ DocInv(y) /\ SameSession(x, y) /\ y.dom = x.dom
               /\ Complete(x) => Complete(y)
               /\ Counted(x) => Counted(y)
<1> PICK y : y = UpdateTopologyView(x, source, m)
  OBVIOUS
<1>1. x \in Workspace /\ x.current \in Session
  BY DEF DocInv, Workspace
<1>2. CASE y = x
  BY <1>2 DEF SameSession, Elsewhere
<1>3. CASE y # x
  <2>c. PICK c : c = [x.current EXCEPT !.mode = m]
    OBVIOUS
  <2>1. x.current.canvas /\ y = [x EXCEPT !.current = c]
    BY <1>1, <1>3, <2>c DEF UpdateTopologyView, Workspace
  <2>2. c \in Session /\ c.gen = x.current.gen /\ c.root = x.current.root /\ c.step = x.current.step
        /\ c.source = x.current.source /\ c.filter = x.current.filter /\ c.labels = x.current.labels
        /\ c.finished = x.current.finished /\ c.committed = x.current.committed
        /\ c.next = x.current.next /\ c.chunks = x.current.chunks
    BY <1>1, <2>c DEF Session
  <2>3. ~NoSession.canvas
    BY DEF NoSession
  <2>4. x.current.gen # 0
    BY <2>1, <2>3 DEF DocInv, Owned
  <2>5. /\ y \in Workspace /\ y.current = c /\ y.dom = x.dom /\ y.phase = x.phase
        /\ y.final = x.final /\ y.stale = x.stale /\ y.owner = x.owner /\ y.content = x.content
    BY <1>1, <2>1, <2>2 DEF Workspace
  <2>6. DocInv(y)
    BY <2>2, <2>4, <2>5 DEF DocInv, Bounded, Owned, Going
  <2>7. (Complete(x) => Complete(y)) /\ (Counted(x) => Counted(y))
    BY <2>2, <2>5 DEF Complete, Counted
  <2> QED BY <2>2, <2>5, <2>6, <2>7 DEF SameSession, Elsewhere
<1> QED BY <1>2, <1>3

LEMMA FlagHolds ==
    ASSUME NEW x, DocInv(x), NEW y, y \in Workspace, Kept(x, y), y.dom = x.dom,
           y.phase = x.phase, y.final = x.final
    PROVE  /\ DocInv(y) /\ SameSession(x, y)
           /\ Complete(x) => Complete(y)
           /\ Counted(x) => Counted(y)
BY DEF DocInv, Bounded, Owned, Going, Complete, Counted, Kept, SameSession, Elsewhere

(* A step of the current session, or beside it, that leaves the page's     *)
(* own surfaces alone.                                                     *)
LEMMA SessionKeeps ==
    ASSUME Inv, DocInv(w'), activeInstance => Complete(w') /\ Counted(w'),
           SameSession(w, w'),
           w'.dom = w.dom \/ activeView # "common-prefix",
           mode' \in {"2d", "3d"},
           UNCHANGED <<activeInstance, activeView, diagnostics, report, reports, renderSource,
                       filter, labelVars>>
    PROVE  Inv'
<1>1. WorkInv'
  BY DEF Inv, WorkInv
<1>2. ViewInv'
  BY DEF Inv, ViewInv, SameSession, labelVars, TopologyViews, RootOf
<1>3. w'.dom["labels"] = w.dom["labels"] /\ w'.dom["targets"] = w.dom["targets"]
  BY RootSurfaces DEF SameSession, Elsewhere, Surfaces, Roots
<1>4. LabelInv'
  BY <1>3 DEF Inv, LabelInv, labelVars
<1>5. PageInv'
  BY <1>3 DEF Inv, PageInv
<1> QED BY <1>1, <1>2, <1>4, <1>5 DEF Inv

LEMMA SessionFrameKeeps ==
    ASSUME Inv, SessionFrame
    PROVE  Inv'
<1>1. w.current.step # "none" /\ DocInv(w)
  BY DEF SessionFrame, Inv, WorkInv
<1>2. w.current.gen # 0
  BY <1>1 DEF DocInv, Owned, NoSession
<1>3. activeInstance /\ activeView # "common-prefix" /\ Complete(w) /\ Counted(w)
  BY <1>2 DEF Inv, WorkInv, ViewInv, TopologyViews
<1>4. PICK ok \in BOOLEAN : w' = RunFrame(w, w.current, Source, ok)
  BY DEF SessionFrame
<1>5. Drawn(w, w')
  BY <1>1, <1>3, <1>4, FrameHolds
<1> QED BY <1>3, <1>5, SessionKeeps DEF Drawn, SessionFrame, renderVars, Inv, PageInv

LEMMA StaleFrameKeeps ==
    ASSUME Inv, StaleFrame
    PROVE  Inv'
<1>1. DocInv(w) /\ (activeInstance => Complete(w) /\ Counted(w))
  BY DEF Inv, WorkInv
<1>2. PICK s \in w.stale : w' = RunFrame(w, s, Source, TRUE)
  BY DEF StaleFrame
<1>3. w' = Idle(w, s)
  BY <1>1, <1>2, StaleFrameHolds
<1>4. /\ DocInv(w') /\ w'.dom = w.dom /\ SameSession(w, w')
      /\ Complete(w) => Complete(w')
      /\ Counted(w) => Counted(w')
  BY <1>1, <1>3, IdleHolds
<1> QED BY <1>1, <1>4, SessionKeeps DEF StaleFrame, renderVars, Inv, PageInv

LEMMA ChooseModeKeeps ==
    ASSUME Inv, NEW m \in {"2d", "3d"}, ChooseMode(m)
    PROVE  Inv'
<1>1. DocInv(w) /\ (activeInstance => Complete(w) /\ Counted(w))
  BY DEF Inv, WorkInv
<1>2. w' = UpdateTopologyView(w, Source, m) /\ mode' = m
  BY DEF ChooseMode
<1>3. /\ DocInv(w') /\ w'.dom = w.dom /\ SameSession(w, w')
      /\ Complete(w) => Complete(w')
      /\ Counted(w) => Counted(w')
  BY <1>1, <1>2, ModeHolds
<1> QED BY <1>1, <1>2, <1>3, SessionKeeps DEF ChooseMode

LEMMA ResizeKeeps ==
    ASSUME Inv, Resize
    PROVE  Inv'
<1>1. DocInv(w) /\ w \in Workspace /\ (activeInstance => Complete(w) /\ Counted(w))
  BY DEF Inv, WorkInv, DocInv
<1>2. w' = [w EXCEPT !.resize = TRUE]
  BY DEF Resize
<1>3. w' \in Workspace /\ Kept(w, w') /\ w'.dom = w.dom /\ w'.phase = w.phase /\ w'.final = w.final
  BY <1>1, <1>2 DEF Workspace, Kept
<1>4. /\ DocInv(w') /\ SameSession(w, w')
      /\ Complete(w) => Complete(w')
      /\ Counted(w) => Counted(w')
  BY <1>1, <1>3, FlagHolds
<1> QED BY <1>1, <1>3, <1>4, SessionKeeps DEF Resize, renderVars, Inv, PageInv

LEMMA ResizeFrameKeeps ==
    ASSUME Inv, ResizeFrame
    PROVE  Inv'
<1>u. PICK u : u = IF activeInstance /\ activeView = "topology"
                   THEN UpdateTopologyView(w, Source, mode) ELSE w
  OBVIOUS
<1>1. DocInv(w) /\ (activeInstance => Complete(w) /\ Counted(w)) /\ mode \in {"2d", "3d"}
  BY DEF Inv, WorkInv, PageInv
<1>2. /\ DocInv(u) /\ u.dom = w.dom /\ SameSession(w, u)
      /\ Complete(w) => Complete(u)
      /\ Counted(w) => Counted(u)
  BY <1>1, <1>u, ModeHolds DEF SameSession, Elsewhere
<1>3. w' = [u EXCEPT !.resize = FALSE] /\ u \in Workspace
  BY <1>2, <1>u DEF ResizeFrame, DocInv
<1>4. w' \in Workspace /\ Kept(u, w') /\ w'.dom = u.dom /\ w'.phase = u.phase /\ w'.final = u.final
  BY <1>3 DEF Workspace, Kept
<1>5. /\ DocInv(w') /\ SameSession(u, w')
      /\ Complete(u) => Complete(w')
      /\ Counted(u) => Counted(w')
  BY <1>2, <1>4, FlagHolds
<1>6. SameSession(w, w')
  BY <1>2, <1>5 DEF SameSession, Elsewhere
<1> QED BY <1>1, <1>2, <1>4, <1>5, <1>6, SessionKeeps DEF ResizeFrame, renderVars

(* A surface beside the roots is mounted or unmounted. *)
LEMMA MountKeeps ==
    ASSUME Inv, NEW d \in [Surfaces -> Nat], w' = [w EXCEPT !.dom = d], Elements(d) <= Limit,
           \A s \in Roots \cup {"labels", "summary"} : d[s] = w.dom[s],
           \E k \in 1 .. MaxTargets : d["targets"] = k * RowCost,
           activeView = "common-prefix" => \A s \in Surfaces \ {"targets", "common"} : d[s] = 0,
           diagnostics' \in Nat,
           UNCHANGED <<activeInstance, activeView, renderVars, labelVars>>
    PROVE  Inv'
<1>1. DocInv(w) /\ (activeInstance => Complete(w) /\ Counted(w))
  BY DEF Inv, WorkInv
<1>2. /\ DocInv(w') /\ w'.dom = d /\ w'.current = w.current
      /\ Complete(w) => Complete(w')
      /\ Counted(w) => Counted(w')
  BY <1>1, MountHolds
<1>3. WorkInv'
  BY <1>1, <1>2 DEF WorkInv
<1>4. ViewInv'
  BY <1>2 DEF Inv, ViewInv, renderVars, labelVars
<1>5. LabelInv'
  BY <1>2 DEF Inv, LabelInv, labelVars
<1>6. PageInv'
  BY <1>2 DEF Inv, PageInv, renderVars
<1> QED BY <1>3, <1>4, <1>5, <1>6 DEF Inv

LEMMA DocumentHolds ==
    ASSUME Inv
    PROVE  /\ w \in Workspace /\ w.dom \in [Surfaces -> Nat]
           /\ Elements(w.dom) \in Nat /\ Elements(w.dom) <= Limit /\ Limit \in Nat
BY ElementsAreCounted, BudgetAssumption DEF Inv, WorkInv, DocInv, Workspace, Bounded

LEMMA CleanDiagnosticsHolds ==
    ASSUME NEW dom \in [Surfaces -> Nat]
    PROVE  LET d == Unmounted(dom, {"diagnostics", "finding"})
           IN  /\ d \in [Surfaces -> Nat] /\ Elements(d) <= Elements(dom) /\ Elements(d) \in Nat
               /\ d["diagnostics"] = 0 /\ d["finding"] = 0
               /\ \A s \in Surfaces \ {"diagnostics", "finding"} : d[s] = dom[s]
               /\ \A s \in Roots \cup {"labels", "summary", "targets"} : d[s] = dom[s]
<1> PICK d : d = Unmounted(dom, {"diagnostics", "finding"})
  OBVIOUS
<1>1. d \in [Surfaces -> Nat] /\ Elements(d) <= Elements(dom)
      /\ \A s \in Surfaces : d[s] = IF s \in {"diagnostics", "finding"} THEN 0 ELSE dom[s]
  BY UnmountedElements
<1>2. Elements(d) \in Nat
  BY <1>1, ElementsAreCounted
<1>3. Roots \cup {"labels", "summary", "targets"} \subseteq Surfaces \ {"diagnostics", "finding"}
      /\ {"diagnostics", "finding"} \subseteq Surfaces
  BY DEF Roots, Surfaces
<1> QED BY <1>1, <1>2, <1>3

LEMMA ClearDiagnosticsKeeps ==
    ASSUME Inv, ClearDiagnostics
    PROVE  Inv'
<1>d. PICK d : d = Unmounted(w.dom, {"diagnostics", "finding"})
  OBVIOUS
<1>1. /\ d \in [Surfaces -> Nat] /\ Elements(d) <= Limit
      /\ \A s \in Roots \cup {"labels", "summary", "targets"} : d[s] = w.dom[s]
  BY <1>d, DocumentHolds, CleanDiagnosticsHolds
<1>2. w' = [w EXCEPT !.dom = d]
  BY <1>d DEF ClearDiagnostics, CleanDiagnostics
<1>3. activeView = "common-prefix" => \A s \in Surfaces \ {"targets", "common"} : d[s] = 0
  <2>1. ASSUME activeView = "common-prefix", NEW s \in Surfaces \ {"targets", "common"}
        PROVE  d[s] = 0
    <3>1. w.dom[s] = 0
      BY <2>1 DEF Inv, PageInv
    <3>2. d[s] = 0 \/ d[s] = w.dom[s]
      BY <1>d, <2>1, DocumentHolds, CleanDiagnosticsHolds
    <3> QED BY <3>1, <3>2
  <2> QED BY <2>1
<1>4. /\ \E k \in 1 .. MaxTargets : d["targets"] = k * RowCost
      /\ diagnostics' \in Nat /\ UNCHANGED <<activeInstance, activeView, renderVars, labelVars>>
  BY <1>1 DEF ClearDiagnostics, Inv, PageInv
<1> QED BY <1>1, <1>2, <1>3, <1>4, MountKeeps

(* A number of rows is that number of times the elements of one. *)
LEMMA MoreRows ==
    ASSUME NEW k \in 1 .. MaxTargets, k * RowCost < MaxTargets * RowCost
    PROVE  k + 1 \in 1 .. MaxTargets /\ (k + 1) * RowCost = k * RowCost + RowCost
<1>1. RowCost \in Nat \ {0} /\ MaxTargets \in Nat \ {0}
  BY ViewAssumption
<1>2. k # MaxTargets
  BY <1>1
<1> QED BY <1>1, <1>2

LEMMA FewerRows ==
    ASSUME NEW k \in 1 .. MaxTargets, k * RowCost > RowCost
    PROVE  k - 1 \in 1 .. MaxTargets /\ (k - 1) * RowCost = k * RowCost - RowCost
<1>1. RowCost \in Nat \ {0} /\ MaxTargets \in Nat \ {0}
  BY ViewAssumption
<1>2. k # 1
  BY <1>1
<1> QED BY <1>1, <1>2

(* The target rows become n elements, and the report is cleared. *)
LEMMA TargetRowsKeep ==
    ASSUME Inv, NEW n \in Nat, NEW e, e = [w.dom EXCEPT !["targets"] = n],
           Elements(w.dom) - w.dom["targets"] + n <= Limit,
           \E k \in 1 .. MaxTargets : n = k * RowCost,
           w' = [w EXCEPT !.dom = Unmounted(e, {"diagnostics", "finding"})],
           activeView = "diagnostics", diagnostics' = 0,
           UNCHANGED <<activeInstance, activeView, renderVars, labelVars>>
    PROVE  Inv'
<1>1. w.dom \in [Surfaces -> Nat] /\ "targets" \in Surfaces
  BY DocumentHolds DEF Surfaces
<1>2. e \in [Surfaces -> Nat] /\ e["targets"] = n
      /\ \A s \in Surfaces \ {"targets"} : e[s] = w.dom[s]
  BY <1>1
<1>3. Elements(e) = Elements(w.dom) - w.dom["targets"] + e["targets"]
  BY <1>1, <1>2, ElementsReplaced
<1>d. PICK d : d = Unmounted(e, {"diagnostics", "finding"})
  OBVIOUS
<1>4. /\ d \in [Surfaces -> Nat] /\ Elements(d) <= Elements(e) /\ Elements(d) \in Nat
      /\ \A s \in Roots \cup {"labels", "summary", "targets"} : d[s] = e[s]
  BY <1>2, <1>d, CleanDiagnosticsHolds
<1>5. Elements(d) <= Limit
  BY <1>1, <1>2, <1>3, <1>4, DocumentHolds, ElementsAreCounted
<1>6. \A s \in Roots \cup {"labels", "summary"} : d[s] = w.dom[s]
  BY <1>2, <1>4 DEF Roots, Surfaces
<1>7. d["targets"] = n
  BY <1>2, <1>4
<1> QED BY <1>4, <1>5, <1>6, <1>7, <1>d, MountKeeps

LEMMA AddTargetKeeps ==
    ASSUME Inv, AddTarget
    PROVE  Inv'
<1>1. PICK k \in 1 .. MaxTargets : w.dom["targets"] = k * RowCost
  BY DEF Inv, PageInv
<1>2. w.dom["targets"] < MaxTargets * RowCost /\ Elements(w.dom) + RowCost <= Limit
  BY DEF AddTarget, Fits
<1>n. PICK n : n = w.dom["targets"] + RowCost
  OBVIOUS
<1>3. RowCost \in Nat /\ w.dom["targets"] \in Nat
  BY DocumentHolds, ViewAssumption DEF Surfaces
<1>4. n \in Nat /\ \E j \in 1 .. MaxTargets : n = j * RowCost
  BY <1>1, <1>2, <1>3, <1>n, MoreRows
<1>5. Elements(w.dom) - w.dom["targets"] + n <= Limit
  BY <1>2, <1>3, <1>n, DocumentHolds
<1>e. PICK e : e = [w.dom EXCEPT !["targets"] = n]
  OBVIOUS
<1>6. w' = [w EXCEPT !.dom = Unmounted(e, {"diagnostics", "finding"})]
  <2>1. w' = CleanDiagnostics([w EXCEPT !.dom.targets = @ + RowCost])
    BY DEF AddTarget
  <2>2. [w EXCEPT !.dom.targets = @ + RowCost] = [w EXCEPT !.dom = e]
    BY <1>e, <1>n, DocumentHolds DEF Workspace
  <2>3. [w EXCEPT !.dom = e].dom = e
    BY DocumentHolds DEF Workspace
  <2> QED BY <2>1, <2>2, <2>3 DEF CleanDiagnostics
<1> QED BY <1>4, <1>5, <1>6, <1>e, TargetRowsKeep DEF AddTarget

LEMMA RemoveTargetKeeps ==
    ASSUME Inv, RemoveTarget
    PROVE  Inv'
<1>1. PICK k \in 1 .. MaxTargets : w.dom["targets"] = k * RowCost
  BY DEF Inv, PageInv
<1>2. w.dom["targets"] > RowCost
  BY DEF RemoveTarget
<1>n. PICK n : n = w.dom["targets"] - RowCost
  OBVIOUS
<1>3. RowCost \in Nat /\ w.dom["targets"] \in Nat
  BY DocumentHolds, ViewAssumption DEF Surfaces
<1>4. n \in Nat /\ \E j \in 1 .. MaxTargets : n = j * RowCost
  BY <1>1, <1>2, <1>3, <1>n, FewerRows
<1>5. Elements(w.dom) - w.dom["targets"] + n <= Limit
  BY <1>3, <1>n, DocumentHolds
<1>e. PICK e : e = [w.dom EXCEPT !["targets"] = n]
  OBVIOUS
<1>6. w' = [w EXCEPT !.dom = Unmounted(e, {"diagnostics", "finding"})]
  <2>1. w' = CleanDiagnostics([w EXCEPT !.dom.targets = @ - RowCost])
    BY DEF RemoveTarget
  <2>2. [w EXCEPT !.dom.targets = @ - RowCost] = [w EXCEPT !.dom = e]
    BY <1>e, <1>n, DocumentHolds DEF Workspace
  <2>3. [w EXCEPT !.dom = e].dom = e
    BY DocumentHolds DEF Workspace
  <2> QED BY <2>1, <2>2, <2>3 DEF CleanDiagnostics
<1> QED BY <1>4, <1>5, <1>6, <1>e, TargetRowsKeep DEF RemoveTarget

(* presentReport: a report that was measured is mounted whole. *)
LEMMA PresentedHolds ==
    ASSUME NEW x \in Workspace, NEW n \in Nat, MayPresent(x, n)
    PROVE  \E d \in [Surfaces -> Nat] :
              /\ Presented(x, n) = [x EXCEPT !.dom = d] /\ Elements(d) <= Limit
              /\ \A s \in Surfaces \ {"diagnostics", "finding"} : d[s] = x.dom[s]
<1>d. PICK d : d = Unmounted(x.dom, {"diagnostics", "finding"})
  OBVIOUS
<1>e. PICK e : e = [d EXCEPT !["diagnostics"] = n]
  OBVIOUS
<1>1. x.dom \in [Surfaces -> Nat] /\ "diagnostics" \in Surfaces
  BY DEF Workspace, Surfaces
<1>2. d \in [Surfaces -> Nat] /\ Elements(d) \in Nat /\ d["diagnostics"] = 0
      /\ \A s \in Surfaces \ {"diagnostics", "finding"} : d[s] = x.dom[s]
  BY <1>1, <1>d, CleanDiagnosticsHolds
<1>3. e \in [Surfaces -> Nat] /\ e["diagnostics"] = n
      /\ \A s \in Surfaces \ {"diagnostics"} : e[s] = d[s]
  BY <1>1, <1>2, <1>e
<1>4. Elements(e) = Elements(d) - d["diagnostics"] + e["diagnostics"]
  BY <1>1, <1>2, <1>3, ElementsReplaced
<1>5. Elements(d) + n <= Limit
  BY <1>d DEF MayPresent, FitsReplacing, Fits
<1>6. Elements(e) <= Limit
  BY <1>2, <1>3, <1>4, <1>5
<1>7. Presented(x, n) = [x EXCEPT !.dom = e]
  <2>1. CleanDiagnostics(x) = [x EXCEPT !.dom = d] /\ [x EXCEPT !.dom = d].dom = d
    BY <1>d DEF CleanDiagnostics, Workspace
  <2>2. Presented(x, n) = [[x EXCEPT !.dom = d] EXCEPT !.dom = [d EXCEPT !["diagnostics"] = n]]
    BY <2>1 DEF Presented
  <2> QED BY <1>e, <2>2 DEF Workspace
<1> QED BY <1>2, <1>3, <1>6, <1>7

LEMMA DiagnosticsAnswerKeeps ==
    ASSUME Inv, NEW n \in ReportSizes, DiagnosticsAnswer(n)
    PROVE  Inv'
<1>1. n \in Nat
  BY ViewAssumption
<1>2. PICK d \in [Surfaces -> Nat] :
         /\ w' = [w EXCEPT !.dom = d] /\ Elements(d) <= Limit
         /\ \A s \in Surfaces \ {"diagnostics", "finding"} : d[s] = w.dom[s]
  BY <1>1, DocumentHolds, PresentedHolds DEF DiagnosticsAnswer
<1>3. \A s \in Roots \cup {"labels", "summary", "targets"} : d[s] = w.dom[s]
  BY <1>2 DEF Roots, Surfaces
<1> QED BY <1>1, <1>2, <1>3, MountKeeps DEF DiagnosticsAnswer, Inv, PageInv

LEMMA OpenFindingKeeps ==
    ASSUME Inv, OpenFinding
    PROVE  Inv'
<1>d. PICK d : d = [w.dom EXCEPT !["finding"] = FindingCost]
  OBVIOUS
<1>b. PICK b : b = Unmounted(w.dom, {"finding"})
  OBVIOUS
<1>1. w.dom \in [Surfaces -> Nat] /\ "finding" \in Surfaces /\ FindingCost \in Nat
  BY DocumentHolds, ViewAssumption DEF Surfaces
<1>2. d \in [Surfaces -> Nat] /\ d["finding"] = FindingCost
      /\ \A s \in Surfaces \ {"finding"} : d[s] = w.dom[s]
  BY <1>1, <1>d
<1>3. b \in [Surfaces -> Nat] /\ Elements(b) \in Nat
      /\ \A s \in Surfaces : b[s] = IF s = "finding" THEN 0 ELSE w.dom[s]
  BY <1>1, <1>b, UnmountedElements, ElementsAreCounted
<1>4. Elements(d) = Elements(b) - b["finding"] + d["finding"]
  BY <1>1, <1>2, <1>3, ElementsReplaced
<1>5. Elements(b) + FindingCost <= Limit
  BY <1>b DEF OpenFinding, FitsReplacing, Fits
<1>6. Elements(d) <= Limit
  BY <1>1, <1>2, <1>3, <1>4, <1>5
<1>7. w' = [w EXCEPT !.dom = d]
  BY <1>d, DocumentHolds DEF OpenFinding, Workspace
<1>8. \A s \in Roots \cup {"labels", "summary", "targets"} : d[s] = w.dom[s]
  BY <1>2 DEF Roots, Surfaces
<1> QED BY <1>2, <1>6, <1>7, <1>8, MountKeeps DEF OpenFinding, Inv, PageInv

LEMMA CloseFindingKeeps ==
    ASSUME Inv, CloseFinding
    PROVE  Inv'
<1>d. PICK d : d = [w.dom EXCEPT !["finding"] = 0]
  OBVIOUS
<1>1. w.dom \in [Surfaces -> Nat] /\ "finding" \in Surfaces
  BY DocumentHolds DEF Surfaces
<1>2. d \in [Surfaces -> Nat] /\ d["finding"] = 0
      /\ \A s \in Surfaces \ {"finding"} : d[s] = w.dom[s]
  BY <1>1, <1>d
<1>3. Elements(d) <= Elements(w.dom)
  BY <1>1, <1>2, FewerElements
<1>4. Elements(d) <= Limit
  BY <1>2, <1>3, DocumentHolds, ElementsAreCounted
<1>5. w' = [w EXCEPT !.dom = d]
  BY <1>d, DocumentHolds DEF CloseFinding, Workspace
<1>6. \A s \in Roots \cup {"labels", "summary", "targets"} : d[s] = w.dom[s]
  BY <1>2 DEF Roots, Surfaces
<1> QED BY <1>2, <1>4, <1>5, <1>6, MountKeeps DEF CloseFinding, Inv, PageInv

(* The result of a common-prefix request, which is mounted without asking  *)
(* for room, has room: there is nothing else in the document but the       *)
(* target rows of the diagnostics form.                                    *)
LEMMA RenderCommonPrefixKeeps ==
    ASSUME Inv, NEW list \in CommonInputs, RenderCommonPrefix(list)
    PROVE  Inv'
<1>n. PICK n : n = CommonElements(list, CommonPrefixOf(list))
  OBVIOUS
<1>1. n \in 0 .. Limit - Static - MaxTargets * RowCost
  BY <1>n, ViewAssumption
<1>d. PICK d : d = [w.dom EXCEPT !["common"] = n]
  OBVIOUS
<1>2. w.dom \in [Surfaces -> Nat] /\ "common" \in Surfaces /\ n \in Nat
  BY <1>1, DocumentHolds DEF Surfaces
<1>3. d \in [Surfaces -> Nat] /\ d["common"] = n
      /\ \A s \in Surfaces \ {"common"} : d[s] = w.dom[s]
  BY <1>2, <1>d
<1>4. \A s \in Surfaces \ {"targets", "common"} : d[s] = 0
  BY <1>3 DEF RenderCommonPrefix, Inv, PageInv
<1>5. PICK k \in 1 .. MaxTargets : w.dom["targets"] = k * RowCost
  BY DEF Inv, PageInv
<1>6. w.dom["targets"] <= MaxTargets * RowCost /\ d["targets"] = w.dom["targets"]
  <2>1. RowCost \in Nat \ {0} /\ MaxTargets \in Nat \ {0}
    BY ViewAssumption
  <2>2. k * RowCost <= MaxTargets * RowCost
    BY <2>1
  <2> QED BY <1>3, <1>5, <2>2 DEF Surfaces
<1>7. Elements(d) = Static + d["targets"] + n
  BY <1>3, <1>4, BudgetAssumption DEF Elements, Surfaces
<1>8. Elements(d) <= Limit
  <2>1. RowCost \in Nat \ {0} /\ MaxTargets \in Nat \ {0} /\ MaxTargets * RowCost \in Nat
    BY ViewAssumption
  <2>2. d["targets"] \in Nat
    BY <1>3 DEF Surfaces
  <2> QED BY <1>1, <1>2, <1>6, <1>7, <2>1, <2>2, BudgetAssumption
<1>9. w' = [w EXCEPT !.dom = d]
  BY <1>d, <1>n, DocumentHolds DEF RenderCommonPrefix, Workspace
<1>10. \A s \in Roots \cup {"labels", "summary", "targets"} : d[s] = w.dom[s]
  BY <1>3 DEF Roots, Surfaces
<1> QED BY <1>3, <1>4, <1>5, <1>8, <1>9, <1>10, MountKeeps DEF RenderCommonPrefix, Inv, PageInv

-----------------------------------------------------------------------------
(* The actions on the labels and their table. *)

LEMMA WithTableHolds ==
    ASSUME NEW x, DocInv(x), NEW t, TableElements(t) \in Nat,
           Elements(x.dom) - x.dom["labels"] + TableElements(t) <= Limit
    PROVE  LET y == WithTable(x, t)
           IN  /\ DocInv(y) /\ y.current = x.current /\ y.dom["labels"] = TableElements(t)
               /\ \A s \in Surfaces \ {"labels"} : y.dom[s] = x.dom[s]
               /\ Complete(x) => Complete(y)
               /\ Counted(x) => Counted(y)
<1> PICK y : y = WithTable(x, t)
  OBVIOUS
<1>d. PICK d : d = [x.dom EXCEPT !["labels"] = TableElements(t)]
  OBVIOUS
<1>1. x \in Workspace /\ x.dom \in [Surfaces -> Nat] /\ "labels" \in Surfaces
  BY DEF DocInv, Workspace, Surfaces
<1>2. y = [x EXCEPT !.dom = d]
  BY <1>1, <1>d DEF WithTable, Workspace
<1>3. d \in [Surfaces -> Nat] /\ d["labels"] = TableElements(t)
      /\ \A s \in Surfaces \ {"labels"} : d[s] = x.dom[s]
  BY <1>1, <1>d
<1>4. Elements(d) = Elements(x.dom) - x.dom["labels"] + d["labels"]
  BY <1>1, <1>3, ElementsReplaced
<1>5. Elements(d) <= Limit
  BY <1>3, <1>4
<1>6. (\A r \in Roots : d[r] = x.dom[r]) /\ d["summary"] = x.dom["summary"]
  BY <1>3 DEF Roots, Surfaces
<1>7. /\ DocInv(y) /\ y.dom = d /\ y.current = x.current
      /\ Complete(x) => Complete(y)
      /\ Counted(x) => Counted(y)
  BY <1>2, <1>3, <1>5, <1>6, MountHolds
<1> QED BY <1>3, <1>7

LEMMA UnownedTable ==
    ASSUME NEW t, NEW l, TableInv(t, l), ~t.owned
    PROVE  TableElements(t) = 0
BY LabelAssumption DEF TableInv, TableElements

LEMMA WithoutLabels ==
    ASSUME NEW dom \in [Surfaces -> Nat]
    PROVE  Elements(Unmounted(dom, {"labels"})) = Elements(dom) - dom["labels"]
<1>d. PICK d : d = Unmounted(dom, {"labels"})
  OBVIOUS
<1>1. d \in [Surfaces -> Nat] /\ "labels" \in Surfaces /\ Elements(dom) \in Nat
      /\ \A s \in Surfaces : d[s] = IF s \in {"labels"} THEN 0 ELSE dom[s]
  BY <1>d, UnmountedElements, ElementsAreCounted DEF Surfaces
<1>2. Elements(d) = Elements(dom) - dom["labels"] + d["labels"]
  BY <1>1, ElementsReplaced
<1>3. Elements(dom) - dom["labels"] \in Int
  BY <1>1
<1> QED BY <1>1, <1>2, <1>3, <1>d

(* The table changes in the view it is shown in, or leaves it. *)
LEMMA TableKeeps ==
    ASSUME Inv, TableInv(table', labels'), labels' \in LabelMaps, TableElements(table') \in Nat,
           Elements(w.dom) - w.dom["labels"] + TableElements(table') <= Limit,
           w' = WithTable(w, table'),
           activeView # "ip-labels" => ~table'.owned,
           labels' = labels \/ w.current.gen = 0 \/ activeView # "topology",
           \A i \in imports' : i.ips \subseteq IPs /\ i.label \in Labels,
           UNCHANGED <<activeInstance, activeView, diagnostics, renderVars>>
    PROVE  Inv'
<1>1. DocInv(w) /\ (activeInstance => Complete(w) /\ Counted(w))
  BY DEF Inv, WorkInv
<1>2. /\ DocInv(w') /\ w'.current = w.current /\ w'.dom["labels"] = TableElements(table')
      /\ (\A s \in Surfaces \ {"labels"} : w'.dom[s] = w.dom[s])
      /\ Complete(w) => Complete(w')
      /\ Counted(w) => Counted(w')
  BY <1>1, WithTableHolds
<1>3. WorkInv'
  BY <1>1, <1>2 DEF WorkInv
<1>4. ViewInv'
  BY <1>2 DEF Inv, ViewInv, renderVars
<1>5. LabelInv'
  BY <1>2 DEF Inv, LabelInv
<1>6. activeView = "common-prefix" => w'.dom["labels"] = 0
  BY <1>2, UnownedTable
<1>7. w'.dom["targets"] = w.dom["targets"]
  BY <1>2 DEF Surfaces
<1>8. PageInv'
  BY <1>2, <1>6, <1>7 DEF Inv, PageInv, renderVars
<1> QED BY <1>3, <1>4, <1>5, <1>8 DEF Inv

(* startActiveTopologyRender: what it leaves is of the view, report,       *)
(* filter and labels it was given, or there is no session.                 *)
LEMMA StartActiveHolds ==
    ASSUME Inv, NEW v \in TopologyViews, NEW f \in Filters, NEW l \in LabelMaps, NEW m,
           report # NoReport, activeInstance,
           StartActiveTopologyRender(v, report, renderSource, f, l, table)
    PROVE  /\ DocInv(w') /\ Complete(w') /\ Counted(w')
           /\ w'.current.gen # 0 =>
                /\ w'.current.root = RootOf(v) /\ w'.current.source = report
                /\ w'.current.filter = f /\ w'.current.labels = l /\ renderSource # NoReport
           /\ w'.dom["labels"] = 0 /\ w'.dom["targets"] = w.dom["targets"]
           /\ TableInv(table', m) /\ ~table'.owned /\ TableElements(table') = 0
<1>1. DocInv(w) /\ Complete(w) /\ Counted(w) /\ w \in Workspace /\ mode \in {"2d", "3d"}
      /\ report \in Nat \cup {NoReport} /\ TableInv(table, labels)
  BY DEF Inv, WorkInv, PageInv, LabelInv, DocInv
<1>2. TableInv(table', m) /\ ~table'.owned /\ TableElements(table') = 0
  BY <1>1, UnmountTableHolds DEF StartActiveTopologyRender
<1>3. CASE renderSource = NoReport
  <2>1. w.current = NoSession /\ w.current.gen = 0
    BY <1>3 DEF Inv, WorkInv, DocInv, Owned, ViewInv
  <2>2. CancelRender(w) = w
    BY <2>1 DEF CancelRender
  <2> DEFINE S == {"context", "diagnostics", "finding", "labels", "topology", "geo"}
  <2>d. PICK d : d = Unmounted(w.dom, S)
    OBVIOUS
  <2>3. w' = [w EXCEPT !.dom = d, !.content = [r \in Roots |-> {}], !.phase = "idle"]
    BY <1>3, <2>2, <2>d DEF StartActiveTopologyRender
  <2>4. d \in [Surfaces -> Nat] /\ Elements(d) <= Elements(w.dom) /\ Elements(d) \in Nat
        /\ \A s \in Surfaces : d[s] = IF s \in S THEN 0 ELSE w.dom[s]
    BY <2>d, DocumentHolds, UnmountedElements, ElementsAreCounted
  <2>5. {"labels", "targets", "summary"} \cup Roots \subseteq Surfaces /\ Roots \subseteq S
        /\ "labels" \in S /\ "targets" \notin S /\ "summary" \notin S
    BY DEF Roots, Surfaces
  <2>6. /\ d["labels"] = 0 /\ d["targets"] = w.dom["targets"] /\ d["summary"] = w.dom["summary"]
        /\ \A r \in Roots : d[r] = 0
    BY <2>4, <2>5
  <2>7. /\ w' \in Workspace /\ w'.dom = d /\ w'.current = NoSession /\ w'.stale = w.stale
        /\ w'.phase = "idle" /\ w'.final = w.final
    <3>1. [r \in Roots |-> {}] \in [Roots -> SUBSET Nat]
      OBVIOUS
    <3> QED BY <1>1, <2>1, <2>3, <2>4, <3>1 DEF Workspace, Phases
  <2>8. Elements(d) <= Limit
    BY <2>4, DocumentHolds
  <2>9. DocInv(w')
    BY <1>1, <2>6, <2>7, <2>8, BlankHolds DEF DocInv, Owned, Bounded
  <2>10. Complete(w') /\ Counted(w') /\ w'.current.gen = 0
    BY <1>1, <2>1, <2>6, <2>7 DEF Complete, Counted
  <2> QED BY <1>2, <2>6, <2>7, <2>9, <2>10
<1>4. CASE renderSource # NoReport
  <2>q. PICK q : q = Request(v, report, f, l, mode)
    OBVIOUS
  <2>1. PICK want \in Wants, throws \in BOOLEAN : w' = RenderActive(w, v, q, want, throws)
    BY <1>4, <2>q DEF StartActiveTopologyRender
  <2>2. q \in Requests /\ q.root = RootOf(v) /\ q.source = report /\ q.filter = f /\ q.labels = l
    BY <1>1, <2>q DEF Request, Requests, RootOf, Roots
  <2>3. want \in Nat
    BY ViewAssumption
  <2>4. /\ DocInv(w') /\ Complete(w') /\ Counted(w')
        /\ w'.current.gen # 0 => Shows(w', q)
        /\ w'.dom["labels"] = 0 /\ w'.dom["targets"] = w.dom["targets"]
    BY <1>1, <2>1, <2>2, <2>3, RenderHolds
  <2> QED BY <1>2, <1>4, <2>2, <2>4 DEF Shows
<1> QED BY <1>3, <1>4

LEMMA ChangeFilterKeeps ==
    ASSUME Inv, NEW f \in Filters, ChangeFilter(f)
    PROVE  Inv'
<1>1. /\ activeInstance /\ activeView \in TopologyViews /\ report # NoReport /\ filter' = f
      /\ StartActiveTopologyRender(activeView, report, renderSource, f, labels, table)
      /\ UNCHANGED <<activeInstance, activeView, diagnostics, report, reports, renderSource, mode,
                     labels, imports, importGeneration>>
  BY DEF ChangeFilter
<1>2. labels \in LabelMaps
  BY DEF Inv, LabelInv
<1>3. /\ DocInv(w') /\ Complete(w') /\ Counted(w')
      /\ w'.current.gen # 0 =>
           /\ w'.current.root = RootOf(activeView) /\ w'.current.source = report
           /\ w'.current.filter = f /\ w'.current.labels = labels /\ renderSource # NoReport
      /\ w'.dom["labels"] = 0 /\ w'.dom["targets"] = w.dom["targets"]
      /\ TableInv(table', labels) /\ ~table'.owned /\ TableElements(table') = 0
  BY <1>1, <1>2, StartActiveHolds
<1>4. WorkInv' /\ ViewInv'
  BY <1>1, <1>3 DEF WorkInv, ViewInv
<1>5. LabelInv'
  BY <1>1, <1>3 DEF Inv, LabelInv
<1>6. PageInv'
  BY <1>1, <1>3 DEF Inv, PageInv, TopologyViews
<1> QED BY <1>4, <1>5, <1>6 DEF Inv

(* Whatever changes the labels shows them anew wherever they are shown. *)
LEMMA LabelsBecomeKeeps ==
    ASSUME Inv, NEW l \in LabelMaps, LabelsBecome(l), activeInstance,
           \A i \in imports' : i.ips \subseteq IPs /\ i.label \in Labels,
           UNCHANGED <<activeInstance, activeView, diagnostics, renderVars>>
    PROVE  Inv'
<1>1. labels' = l /\ TableInv(table, labels) /\ table \in TableType
  BY DEF LabelsBecome, Inv, LabelInv, TableInv
<1>2. Elements(w.dom) \in Nat /\ w.dom["labels"] \in Nat
  BY DocumentHolds DEF Surfaces
<1>3. CASE activeView = "ip-labels"
  <2>1. table' = RenderIPLabelTable(table, l, w.dom, CancelWorks) /\ w' = WithTable(w, table')
    BY <1>3 DEF LabelsBecome
  <2>2. /\ TableInv(table', l) /\ TableElements(table') \in Nat
        /\ Elements(Unmounted(w.dom, {"labels"})) + TableElements(table') <= Limit
    BY <1>1, <2>1, DocumentHolds, RenderTableHolds
  <2>3. Elements(w.dom) - w.dom["labels"] + TableElements(table') <= Limit
    BY <2>2, DocumentHolds, WithoutLabels
  <2> QED BY <1>1, <1>3, <2>1, <2>2, <2>3, TableKeeps
<1>4. CASE activeView = "topology" /\ report # NoReport /\ renderSource # NoReport
  <2>1. StartActiveTopologyRender(activeView, report, renderSource, filter, l, table)
        /\ activeView \in TopologyViews /\ filter \in Filters
    BY <1>4 DEF LabelsBecome, TopologyViews, Inv, PageInv
  <2>2. /\ DocInv(w') /\ Complete(w') /\ Counted(w')
        /\ w'.current.gen # 0 =>
             /\ w'.current.root = RootOf(activeView) /\ w'.current.source = report
             /\ w'.current.filter = filter /\ w'.current.labels = l /\ renderSource # NoReport
        /\ w'.dom["labels"] = 0 /\ w'.dom["targets"] = w.dom["targets"]
        /\ TableInv(table', l) /\ ~table'.owned /\ TableElements(table') = 0
    BY <1>4, <2>1, StartActiveHolds
  <2>3. WorkInv' /\ ViewInv'
    BY <1>1, <1>4, <2>1, <2>2 DEF WorkInv, ViewInv, renderVars
  <2>4. LabelInv'
    BY <1>1, <1>4, <2>2 DEF Inv, LabelInv
  <2>5. PageInv'
    BY <1>4, <2>2 DEF Inv, PageInv, renderVars
  <2> QED BY <2>3, <2>4, <2>5 DEF Inv
<1>5. CASE activeView # "ip-labels" /\ ~(activeView = "topology" /\ report # NoReport /\ renderSource # NoReport)
  <2>1. table' = UnmountIPLabelTable(table, CancelWorks) /\ w' = WithTable(w, table')
    BY <1>5 DEF LabelsBecome
  <2>2. TableInv(table', l) /\ ~table'.owned /\ TableElements(table') = 0
    BY <1>1, <2>1, UnmountTableHolds
  <2>3. Elements(w.dom) - w.dom["labels"] + TableElements(table') <= Limit
    BY <1>2, <2>2, DocumentHolds
  <2>4. w.current.gen = 0 \/ activeView # "topology"
    BY <1>5 DEF Inv, ViewInv
  <2> QED BY <1>1, <2>1, <2>2, <2>3, <2>4, TableKeeps
<1> QED BY <1>3, <1>4, <1>5

LEMMA UpsertedLabels ==
    ASSUME NEW l \in LabelMaps, NEW ips, NEW label \in Labels
    PROVE  UpsertIPLabels(l, ips, label) \in LabelMaps
BY DEF UpsertIPLabels, LabelMaps

LEMMA SaveLabelKeeps ==
    ASSUME Inv, NEW ip \in IPs, NEW label \in Labels, SaveLabel(ip, label)
    PROVE  Inv'
<1>1. labels \in LabelMaps /\ UpsertIPLabels(labels, {ip}, label) \in LabelMaps
  BY UpsertedLabels DEF Inv, LabelInv
<1> QED BY <1>1, LabelsBecomeKeeps DEF SaveLabel, Inv, LabelInv

LEMMA DeleteLabelKeeps ==
    ASSUME Inv, NEW ip \in IPs, DeleteLabel(ip)
    PROVE  Inv'
<1>1. [labels EXCEPT ![ip] = NoLabel] \in LabelMaps
  BY DEF Inv, LabelInv, LabelMaps
<1> QED BY <1>1, LabelsBecomeKeeps DEF DeleteLabel, Inv, LabelInv

LEMMA ImportReadKeeps ==
    ASSUME Inv, NEW i \in imports, ImportRead(i)
    PROVE  Inv'
<1>1. /\ \A j \in imports' : j.ips \subseteq IPs /\ j.label \in Labels
      /\ i.label \in Labels /\ labels \in LabelMaps
      /\ UNCHANGED <<activeInstance, activeView, diagnostics, renderVars>>
  BY DEF ImportRead, Inv, LabelInv
<1>2. CASE OwnsImport(i)
  <2>1. activeInstance /\ LabelsBecome(UpsertIPLabels(labels, i.ips, i.label))
    BY <1>2 DEF ImportRead, OwnsImport
  <2> QED BY <1>1, <2>1, LabelsBecomeKeeps, UpsertedLabels
<1>3. CASE ~OwnsImport(i)
  <2>1. UNCHANGED <<labels, table, w>>
    BY <1>3 DEF ImportRead
  <2> QED BY <1>1, <2>1 DEF Inv, WorkInv, ViewInv, LabelInv, PageInv, renderVars
<1> QED BY <1>2, <1>3

LEMMA StartImportKeeps ==
    ASSUME Inv, NEW ips \in ImportFiles, NEW label \in Labels, StartImport(ips, label)
    PROVE  Inv'
<1>1. ips \subseteq IPs
  BY ViewAssumption
<1>2. \A i \in imports' : i.ips \subseteq IPs /\ i.label \in Labels
  BY <1>1 DEF StartImport, Inv, LabelInv
<1> QED BY <1>2 DEF StartImport, Inv, WorkInv, ViewInv, LabelInv, PageInv, renderVars

LEMMA EditRowKeeps ==
    ASSUME Inv, NEW ip \in IPs, NEW label \in Labels, EditRow(ip, label)
    PROVE  Inv'
<1>1. TableInv(table, labels) /\ labels \in LabelMaps /\ \E i \in DOMAIN table.rows : table.rows[i].ip = ip
  BY DEF Inv, LabelInv, EditRow, ShownIPs
<1>2. table' = Edited(table, ip, label) /\ labels' = [labels EXCEPT ![ip] = label]
  BY DEF EditRow, Edited
<1>3. TableInv(table', labels') /\ table'.owned = table.owned /\ table.owned
      /\ TableElements(table') = TableElements(table)
  BY <1>1, <1>2, EditHolds
<1>4. labels' \in LabelMaps
  BY <1>1, <1>2 DEF LabelMaps
<1>5. w.current.gen = 0
  BY <1>3 DEF Inv, LabelInv, ViewInv, TopologyViews
<1>6. UNCHANGED <<activeInstance, activeView, diagnostics, renderVars, w, imports>>
  BY DEF EditRow
<1>7. WorkInv' /\ ViewInv' /\ PageInv'
  BY <1>5, <1>6 DEF Inv, WorkInv, ViewInv, PageInv, renderVars
<1>8. LabelInv'
  BY <1>3, <1>4, <1>6 DEF Inv, LabelInv
<1> QED BY <1>7, <1>8 DEF Inv

LEMMA TurnPageKeeps ==
    ASSUME Inv, NEW page \in 0 .. Cardinality(IPs), TurnPage(page)
    PROVE  Inv'
<1>t. PICK t : t = [table EXCEPT !.page = page]
  OBVIOUS
<1>1. t \in TableType
  <2>1. page \in Nat
    BY LabelAssumption, FS_CardinalityType
  <2> QED BY <1>t, <2>1 DEF Inv, LabelInv, TableInv, TableType
<1>2. table' = RenderIPLabelTable(t, labels, w.dom, CancelWorks) /\ labels \in LabelMaps
  BY <1>t DEF TurnPage, Inv, LabelInv
<1>3. /\ TableInv(table', labels) /\ TableElements(table') \in Nat
      /\ Elements(Unmounted(w.dom, {"labels"})) + TableElements(table') <= Limit
  BY <1>1, <1>2, DocumentHolds, RenderTableHolds
<1>4. Elements(w.dom) - w.dom["labels"] + TableElements(table') <= Limit
  BY <1>3, DocumentHolds, WithoutLabels
<1> QED BY <1>2, <1>3, <1>4, TableKeeps DEF TurnPage, Inv, LabelInv

LEMMA TableFrameKeeps ==
    ASSUME Inv, NEW r \in table.pending, TableFrame(r)
    PROVE  Inv'
<1>1. TableInv(table, labels) /\ labels \in LabelMaps /\ w.dom["labels"] = TableElements(table)
      /\ (activeView # "ip-labels" => ~table.owned)
  BY DEF Inv, LabelInv
<1>2. table' = AppendChunk(table, r, labels, w.dom)
  BY DEF TableFrame
<1>3. /\ TableInv(table', labels) /\ table'.owned = table.owned /\ TableElements(table') \in Nat
      /\ Elements(w.dom) - w.dom["labels"] + TableElements(table') <= Limit
  BY <1>1, <1>2, DocumentHolds, AppendHolds
<1> QED BY <1>1, <1>3, TableKeeps DEF TableFrame, Inv, LabelInv

(* Reports are numbered from 1, and the first filter is of all targets. *)
LEMMA TopologyAnswerKeeps ==
    ASSUME Inv, TopologyAnswer
    PROVE  Inv'
<1>x. PICK x : x = [w EXCEPT !.observed = 0]
  OBVIOUS
<1>1. DocInv(w) /\ w \in Workspace /\ labels \in LabelMaps /\ TableInv(table, labels)
      /\ mode \in {"2d", "3d"} /\ reports \in Nat
  BY DEF Inv, WorkInv, PageInv, LabelInv, DocInv
<1>2. DocInv(x) /\ x.dom = w.dom
  <2>1. x \in Workspace /\ Kept(w, x) /\ x.dom = w.dom /\ x.phase = w.phase /\ x.final = w.final
    BY <1>1, <1>x DEF Workspace, Kept
  <2> QED BY <1>1, <2>1, FlagHolds
<1>3. /\ activeInstance /\ activeView = "topology"
      /\ reports' = reports + 1 /\ report' = reports' /\ renderSource' = reports'
      /\ filter' = CHOOSE f \in Filters : \A g \in Filters : f <= g
      /\ table' = UnmountIPLabelTable(table, CancelWorks)
      /\ UNCHANGED <<activeInstance, activeView, diagnostics, mode, labels, imports>>
  BY DEF TopologyAnswer
<1>4. filter' \in Filters
  BY <1>3, MinIsLeast, ViewAssumption DEF Min
<1>5. reports' \in Nat \ {0} /\ report' \in Nat /\ report' # NoReport
  BY <1>1, <1>3, ViewAssumption
<1>q. PICK q : q = Request(activeView, report', filter', labels, mode)
  OBVIOUS
<1>6. PICK want \in Wants, throws \in BOOLEAN : w' = RenderActive(x, activeView, q, want, throws)
  BY <1>x, <1>q DEF TopologyAnswer
<1>7. q \in Requests /\ q.root = RootOf(activeView) /\ q.source = report' /\ q.filter = filter'
      /\ q.labels = labels
  BY <1>1, <1>4, <1>5, <1>q DEF Request, Requests, RootOf, Roots
<1>8. want \in Nat
  BY ViewAssumption
<1>9. /\ DocInv(w') /\ Complete(w') /\ Counted(w')
      /\ w'.current.gen # 0 => Shows(w', q)
      /\ w'.dom["labels"] = 0 /\ w'.dom["targets"] = w.dom["targets"]
  BY <1>2, <1>6, <1>7, <1>8, RenderHolds
<1>10. TableInv(table', labels) /\ ~table'.owned /\ TableElements(table') = 0
  BY <1>1, <1>3, UnmountTableHolds
<1>11. WorkInv' /\ ViewInv'
  BY <1>3, <1>5, <1>7, <1>9 DEF WorkInv, ViewInv, Shows, TopologyViews
<1>12. LabelInv'
  BY <1>3, <1>9, <1>10 DEF Inv, LabelInv
<1>13. PageInv'
  BY <1>3, <1>4, <1>5, <1>9 DEF Inv, PageInv
<1> QED BY <1>11, <1>12, <1>13 DEF Inv

(* Nothing is drawn any more, and what is left on the page was there.      *)
LEMMA ClearedKeeps ==
    ASSUME Inv, NEW d \in [Surfaces -> Nat], NEW x, x = DisposeTopologyRender(w),
           w' = [x EXCEPT !.dom = d, !.final = 0, !.observed = 0],
           \A s \in Surfaces : d[s] \in {0, w.dom[s]},
           \A r \in Roots : d[r] = 0,
           \A s \in {"labels", "targets"} : d[s] = w.dom[s],
           report' \in Nat \cup {NoReport}, renderSource' \in {report', NoReport},
           UNCHANGED <<activeInstance, activeView, diagnostics, reports, filter, mode, labelVars>>
    PROVE  Inv'
<1>1. DocInv(x) /\ x.current = NoSession /\ x.phase = "idle"
  BY DisposeHolds DEF Inv, WorkInv
<1>2. Elements(d) <= Limit
  <2>1. \A s \in Surfaces : d[s] <= w.dom[s]
    BY DocumentHolds
  <2>2. Elements(d) <= Elements(w.dom)
    BY <2>1, DocumentHolds, FewerElements
  <2> QED BY <2>2, DocumentHolds, ElementsAreCounted
<1>3. DocInv(w') /\ Complete(w') /\ Counted(w') /\ w'.current = NoSession /\ w'.dom = d
  <2>1. x \in Workspace /\ \A s \in x.stale : s.aborted
    BY <1>1 DEF DocInv, Owned
  <2>2. /\ w' \in Workspace /\ w'.dom = d /\ w'.current = NoSession /\ w'.stale = x.stale
        /\ w'.phase = "idle" /\ w'.final = 0
    BY <1>1, <2>1 DEF Workspace
  <2>3. \A r \in Roots : w'.dom[r] = 0
    BY <2>2
  <2>4. DocInv(w')
    BY <1>2, <2>1, <2>2, <2>3, BlankHolds DEF Bounded
  <2>5. Complete(w') /\ Counted(w')
    BY <2>2 DEF Complete, Counted
  <2> QED BY <2>2, <2>4, <2>5
<1>4. WorkInv' /\ ViewInv'
  BY <1>3 DEF WorkInv, ViewInv, NoSession
<1>5. LabelInv'
  BY <1>3 DEF Inv, LabelInv, labelVars
<1>6. PageInv'
  BY <1>3 DEF Inv, PageInv
<1> QED BY <1>4, <1>5, <1>6 DEF Inv

LEMMA ClearTopologyKeeps ==
    ASSUME Inv, ClearTopology
    PROVE  Inv'
<1>x. PICK x : x = DisposeTopologyRender(w)
  OBVIOUS
<1>d. PICK d : d = [x.dom EXCEPT !["context"] = 0]
  OBVIOUS
<1>1. /\ x \in Workspace /\ x.dom \in [Surfaces -> Nat]
      /\ \A s \in {"topology", "geo", "filter", "summary"} : x.dom[s] = 0
      /\ Elsewhere(w, x, {"topology", "geo", "filter", "summary"})
  BY <1>x, DisposeHolds DEF Inv, WorkInv, DocInv, Workspace
<1>2. "context" \in Surfaces
  BY DEF Surfaces
<1>3. d \in [Surfaces -> Nat] /\ \A s \in Surfaces : d[s] = IF s = "context" THEN 0 ELSE x.dom[s]
  BY <1>1, <1>2, <1>d
<1>4. \A s \in Surfaces : d[s] \in {0, w.dom[s]}
  BY <1>1, <1>3 DEF Elsewhere
<1>5. (\A r \in Roots : d[r] = 0) /\ \A s \in {"labels", "targets"} : d[s] = w.dom[s]
  BY <1>1, <1>3 DEF Elsewhere, Roots, Surfaces
<1>6. w' = [x EXCEPT !.dom = d, !.final = 0, !.observed = 0]
  BY <1>1, <1>d, <1>x DEF ClearTopology, CleanTopology, Workspace
<1> QED BY <1>x, <1>3, <1>4, <1>5, <1>6, ClearedKeeps DEF ClearTopology

LEMMA BeforeUnloadKeeps ==
    ASSUME Inv, BeforeUnload
    PROVE  Inv'
<1>x. PICK x : x = DisposeTopologyRender(w)
  OBVIOUS
<1>d. PICK d : d = [s \in Surfaces |-> IF s = "context" THEN 0
                                       ELSE IF s \in {"filter", "summary"} THEN w.dom[s] ELSE x.dom[s]]
  OBVIOUS
<1>1. /\ x \in Workspace /\ x.dom \in [Surfaces -> Nat]
      /\ \A s \in {"topology", "geo", "filter", "summary"} : x.dom[s] = 0
      /\ Elsewhere(w, x, {"topology", "geo", "filter", "summary"})
  BY <1>x, DisposeHolds DEF Inv, WorkInv, DocInv, Workspace
<1>2. d \in [Surfaces -> Nat]
  BY <1>1, <1>d, DocumentHolds
<1>3. \A s \in Surfaces : d[s] \in {0, w.dom[s]}
  BY <1>1, <1>d DEF Elsewhere
<1>4. (\A r \in Roots : d[r] = 0) /\ \A s \in {"labels", "targets"} : d[s] = w.dom[s]
  BY <1>1, <1>d DEF Elsewhere, Roots, Surfaces
<1>5. w' = [x EXCEPT !.dom = d, !.final = 0, !.observed = 0]
  <2>e. PICK e : e = [x.dom EXCEPT !["context"] = 0, !["filter"] = w.dom["filter"],
                                   !["summary"] = w.dom["summary"]]
    OBVIOUS
  <2>1. {"context", "filter", "summary"} \subseteq Surfaces
    BY DEF Surfaces
  <2>2. e = d
    <3>1. e = [s \in Surfaces |-> IF s = "summary" THEN w.dom["summary"]
                                  ELSE IF s = "filter" THEN w.dom["filter"]
                                  ELSE IF s = "context" THEN 0 ELSE x.dom[s]]
      BY <1>1, <2>1, <2>e
    <3> QED BY <1>d, <3>1
  <2>3. w' = [x EXCEPT !.dom = e, !.final = 0, !.observed = 0]
    BY <1>1, <1>x, <2>e DEF BeforeUnload, Workspace
  <2> QED BY <2>2, <2>3
<1>6. report' \in Nat \cup {NoReport} /\ renderSource' = NoReport
      /\ UNCHANGED <<activeInstance, activeView, diagnostics, reports, filter, mode, labelVars>>
  BY DEF BeforeUnload, Inv, PageInv
<1> QED BY <1>x, <1>2, <1>3, <1>4, <1>5, <1>6, ClearedKeeps

(* A page that is destroyed leaves no table and no session behind.         *)
LEMMA DestroyKeeps ==
    ASSUME Inv, Destroy
    PROVE  Inv'
<1>z. PICK z : z = WithTable(w, table')
  OBVIOUS
<1>x. PICK x : x = CancelRender(z)
  OBVIOUS
<1>d. PICK d : d = Unmounted(x.dom, {"context", "filter"})
  OBVIOUS
<1>1. DocInv(w) /\ labels \in LabelMaps /\ TableInv(table, labels)
  BY DEF Inv, WorkInv, LabelInv
<1>2. TableInv(table', labels) /\ ~table'.owned /\ TableElements(table') = 0
  BY <1>1, UnmountTableHolds DEF Destroy
<1>3. /\ DocInv(z) /\ z.dom["labels"] = 0
      /\ \A s \in Surfaces \ {"labels"} : z.dom[s] = w.dom[s]
  <2>1. Elements(w.dom) - w.dom["labels"] + TableElements(table') <= Limit
    <3>1. w.dom["labels"] \in Nat
      BY DocumentHolds DEF Surfaces
    <3> QED BY <1>2, <3>1, DocumentHolds
  <2>2. TableElements(table') \in Nat
    BY <1>2
  <2> QED BY <1>1, <1>2, <1>z, <2>1, <2>2, WithTableHolds
<1>4. /\ DocInv(x) /\ x.current = NoSession /\ Elsewhere(z, x, Roots)
      /\ \A r \in Roots : x.dom[r] = 0
  BY <1>3, <1>x, CancelHolds
<1>5. x \in Workspace /\ x.dom \in [Surfaces -> Nat] /\ Elements(x.dom) <= Limit
      /\ \A s \in x.stale : s.aborted
  BY <1>4 DEF DocInv, Workspace, Bounded, Owned
<1>6. /\ d \in [Surfaces -> Nat] /\ Elements(d) <= Elements(x.dom)
      /\ \A s \in Surfaces : d[s] = IF s \in {"context", "filter"} THEN 0 ELSE x.dom[s]
  BY <1>5, <1>d, UnmountedElements
<1>7. Elements(d) <= Limit
  BY <1>5, <1>6, ElementsAreCounted, BudgetAssumption
<1>8. /\ w' \in Workspace /\ w'.dom = d /\ w'.current = NoSession /\ w'.stale = x.stale
  <2>1. w' = [x EXCEPT !.dom = d, !.resize = FALSE]
    BY <1>d, <1>x, <1>z DEF Destroy
  <2> QED BY <1>4, <1>5, <1>6, <2>1 DEF Workspace
<1>9. \A r \in Roots : d[r] = 0
  BY <1>4, <1>6, RootSurfaces
<1>10. DocInv(w')
  BY <1>5, <1>7, <1>8, <1>9, BlankHolds DEF Bounded
<1>11. /\ d["labels"] = 0 /\ d["targets"] = w.dom["targets"]
       /\ \A s \in Surfaces : d[s] \in {0, w.dom[s]}
  <2>1. \A s \in Surfaces : x.dom[s] \in {0, z.dom[s]}
    BY <1>4 DEF Elsewhere
  <2>2. x.dom["labels"] = 0 /\ x.dom["targets"] = w.dom["targets"]
    BY <1>3, <1>4 DEF Elsewhere, Roots, Surfaces
  <2>3. \A s \in Surfaces : z.dom[s] \in {0, w.dom[s]}
    BY <1>3
  <2>4. {"labels", "targets"} \subseteq Surfaces \ {"context", "filter"}
    BY DEF Surfaces
  <2> QED BY <1>6, <2>1, <2>2, <2>3, <2>4
<1>12. WorkInv' /\ ViewInv'
  BY <1>8, <1>10 DEF Destroy, WorkInv, ViewInv, NoSession
<1>13. LabelInv'
  BY <1>1, <1>2, <1>8, <1>11 DEF Destroy, Inv, LabelInv
<1>14. PageInv'
  BY <1>8, <1>11 DEF Destroy, Inv, PageInv
<1> QED BY <1>12, <1>13, <1>14 DEF Inv

(* What switchView leaves of the document for the view v. *)
LEMMA LeaveHolds ==
    ASSUME NEW x, DocInv(x), NEW v
    PROVE  LET y == Leave(x, v)
           IN  /\ DocInv(y) /\ y.dom["labels"] = 0 /\ y.dom["targets"] = x.dom["targets"]
               /\ v \in TopologyViews => /\ y.current = x.current
                                         /\ Complete(x) => Complete(y)
                                         /\ Counted(x) => Counted(y)
               /\ v \notin TopologyViews => y.current = NoSession /\ Complete(y) /\ Counted(y)
               /\ v = "common-prefix" => \A s \in Surfaces \ {"targets", "common"} : y.dom[s] = 0
<1>y. PICK y : y = Leave(x, v)
  OBVIOUS
<1>e. PICK e : e = [s \in Surfaces |->
                      IF s \in {"context", "labels"} \/ (v # "diagnostics" /\ s \in {"diagnostics", "finding"})
                      THEN 0 ELSE x.dom[s]]
  OBVIOUS
<1>b. PICK b : b = [x EXCEPT !.dom = e]
  OBVIOUS
<1>1. x \in Workspace /\ x.dom \in [Surfaces -> Nat] /\ Elements(x.dom) <= Limit
  BY DEF DocInv, Workspace, Bounded
<1>2. e \in [Surfaces -> Nat] /\ \A s \in Surfaces : e[s] <= x.dom[s]
  BY <1>1, <1>e
<1>3. Elements(e) <= Limit
  BY <1>1, <1>2, FewerElements, ElementsAreCounted, BudgetAssumption
<1>4. y = IF v \in TopologyViews THEN b ELSE DisposeTopologyRender(b)
  <2>l. PICK left : left = IF v = "diagnostics" THEN x ELSE CleanDiagnostics(x)
    OBVIOUS
  <2>d. PICK d : d = IF v = "diagnostics" THEN x.dom ELSE Unmounted(x.dom, {"diagnostics", "finding"})
    OBVIOUS
  <2>1. d \in [Surfaces -> Nat]
        /\ \A s \in Surfaces : d[s] = IF v # "diagnostics" /\ s \in {"diagnostics", "finding"}
                                      THEN 0 ELSE x.dom[s]
    BY <1>1, <2>d, UnmountedElements
  <2>2. left = [x EXCEPT !.dom = d] /\ left \in Workspace /\ left.dom = d
    BY <1>1, <2>1, <2>d, <2>l DEF CleanDiagnostics, Workspace
  <2>3. [left EXCEPT !.dom.context = 0, !.dom.labels = 0]
            = [x EXCEPT !.dom = [d EXCEPT !["context"] = 0, !["labels"] = 0]]
    BY <1>1, <2>1, <2>2 DEF Workspace
  <2>4. [d EXCEPT !["context"] = 0, !["labels"] = 0] = e
    <3>1. {"context", "labels"} \subseteq Surfaces
      BY DEF Surfaces
    <3>2. [d EXCEPT !["context"] = 0, !["labels"] = 0]
            = [s \in Surfaces |-> IF s \in {"context", "labels"} THEN 0 ELSE d[s]]
      BY <2>1, <3>1
    <3> QED BY <2>1, <3>2, <1>e
  <2>5. y = LET bare == [left EXCEPT !.dom.context = 0, !.dom.labels = 0]
            IN  IF v \in TopologyViews THEN bare ELSE DisposeTopologyRender(bare)
    BY <1>y, <2>l DEF Leave
  <2> QED BY <1>b, <2>3, <2>4, <2>5
<1>5. (\A r \in Roots : e[r] = x.dom[r]) /\ e["summary"] = x.dom["summary"]
      /\ e["labels"] = 0 /\ e["targets"] = x.dom["targets"]
  BY <1>e DEF Roots, Surfaces
<1>6. /\ DocInv(b) /\ b.dom = e /\ b.current = x.current
      /\ Complete(x) => Complete(b)
      /\ Counted(x) => Counted(b)
  BY <1>2, <1>3, <1>5, <1>b, MountHolds
<1>7. CASE v \in TopologyViews
  BY <1>4, <1>5, <1>6, <1>7, <1>y DEF TopologyViews
<1>8. CASE v \notin TopologyViews
  <2>1. /\ DocInv(y) /\ Complete(y) /\ Counted(y) /\ y.current = NoSession
        /\ \A s \in {"topology", "geo", "filter", "summary"} : y.dom[s] = 0
        /\ Elsewhere(b, y, {"topology", "geo", "filter", "summary"})
    BY <1>4, <1>6, <1>8, DisposeHolds
  <2>2. \A s \in Surfaces : y.dom[s] = IF s \in {"topology", "geo", "filter", "summary"} THEN 0 ELSE e[s]
    BY <1>6, <2>1 DEF Elsewhere
  <2>3. y.dom["labels"] = 0 /\ y.dom["targets"] = x.dom["targets"]
    BY <1>5, <2>2 DEF Surfaces
  <2>4. ASSUME v = "common-prefix", NEW s \in Surfaces \ {"targets", "common"}
        PROVE  y.dom[s] = 0
    BY <1>e, <2>2, <2>4 DEF Surfaces
  <2> QED BY <1>8, <1>y, <2>1, <2>3, <2>4
<1> QED BY <1>7, <1>8

(* The views without a report, and the form with the report it is ready    *)
(* with.                                                                   *)
LEMMA BareViewHolds ==
    ASSUME Inv, NEW v \in Views, NEW b, b = Leave(w, v),
           v \in TopologyViews => report = NoReport, activeInstance,
           w' = IF v = "diagnostics" /\ diagnostics # 0 /\ MayPresent(b, diagnostics)
                THEN Presented(b, diagnostics) ELSE b
    PROVE  /\ DocInv(w') /\ Complete(w') /\ Counted(w') /\ w'.current.gen = 0
           /\ w'.dom["labels"] = 0 /\ w'.dom["targets"] = w.dom["targets"]
           /\ v = "common-prefix" => \A s \in Surfaces \ {"targets", "common"} : w'.dom[s] = 0
<1>1. DocInv(w) /\ Complete(w) /\ Counted(w) /\ diagnostics \in Nat
  BY DEF Inv, WorkInv, PageInv
<1>2. /\ DocInv(b) /\ b.dom["labels"] = 0 /\ b.dom["targets"] = w.dom["targets"]
      /\ v \in TopologyViews => b.current = w.current /\ Complete(b) /\ Counted(b)
      /\ v \notin TopologyViews => b.current = NoSession /\ Complete(b) /\ Counted(b)
      /\ v = "common-prefix" => \A s \in Surfaces \ {"targets", "common"} : b.dom[s] = 0
  BY <1>1, LeaveHolds
<1>3. b.current.gen = 0 /\ Complete(b) /\ Counted(b)
  <2>1. v \in TopologyViews => w.current.gen = 0
    BY DEF Inv, ViewInv
  <2> QED BY <1>2, <2>1 DEF NoSession
<1>4. CASE v = "diagnostics" /\ diagnostics # 0 /\ MayPresent(b, diagnostics)
  <2>1. b \in Workspace
    BY <1>2 DEF DocInv
  <2>2. PICK d \in [Surfaces -> Nat] :
           /\ Presented(b, diagnostics) = [b EXCEPT !.dom = d] /\ Elements(d) <= Limit
           /\ \A s \in Surfaces \ {"diagnostics", "finding"} : d[s] = b.dom[s]
    BY <1>1, <1>4, <2>1, PresentedHolds
  <2>3. (\A r \in Roots : d[r] = b.dom[r]) /\ d["summary"] = b.dom["summary"]
        /\ d["labels"] = b.dom["labels"] /\ d["targets"] = b.dom["targets"]
    BY <2>2 DEF Roots, Surfaces
  <2>4. w' = [b EXCEPT !.dom = d]
    BY <1>4, <2>2
  <2>5. DocInv(w') /\ w'.dom = d /\ w'.current = b.current /\ Complete(w') /\ Counted(w')
    <3>1. DocInv(b) /\ Complete(b) /\ Counted(b)
      BY <1>2, <1>3
    <3>2. d \in [Surfaces -> Nat] /\ Elements(d) <= Limit /\ (\A r \in Roots : d[r] = b.dom[r])
          /\ d["summary"] = b.dom["summary"]
      BY <2>2, <2>3
    <3>y. PICK y : y = [b EXCEPT !.dom = d]
      OBVIOUS
    <3>3. DocInv(y) /\ y.dom = d /\ y.current = b.current /\ Complete(y) /\ Counted(y)
      BY <3>1, <3>2, <3>y, MountHolds
    <3> QED BY <2>4, <3>3, <3>y
  <2> QED BY <1>2, <1>3, <1>4, <2>3, <2>5
<1>5. CASE ~(v = "diagnostics" /\ diagnostics # 0 /\ MayPresent(b, diagnostics))
  BY <1>2, <1>3, <1>5
<1> QED BY <1>4, <1>5

LEMMA SwitchViewKeeps ==
    ASSUME Inv, NEW v \in Views, SwitchView(v)
    PROVE  Inv'
<1>b. PICK b : b = Leave(w, v)
  OBVIOUS
<1>1. /\ activeInstance /\ activeView' = v
      /\ UNCHANGED <<activeInstance, diagnostics, renderVars, labels, imports, importGeneration>>
  BY DEF SwitchView
<1>2. labels \in LabelMaps /\ TableInv(table, labels) /\ table \in TableType /\ filter \in Filters
      /\ DocInv(w) /\ Complete(w) /\ Counted(w)
  BY <1>1 DEF Inv, WorkInv, LabelInv, PageInv, TableInv
<1>3. CASE v \in TopologyViews /\ report # NoReport
  <2>1. StartActiveTopologyRender(v, report, renderSource, filter, labels, table)
    BY <1>3 DEF SwitchView
  <2>2. /\ DocInv(w') /\ Complete(w') /\ Counted(w')
        /\ w'.current.gen # 0 =>
             /\ w'.current.root = RootOf(v) /\ w'.current.source = report
             /\ w'.current.filter = filter /\ w'.current.labels = labels /\ renderSource # NoReport
        /\ w'.dom["labels"] = 0 /\ w'.dom["targets"] = w.dom["targets"]
        /\ TableInv(table', labels) /\ ~table'.owned /\ TableElements(table') = 0
    BY <1>1, <1>2, <1>3, <2>1, StartActiveHolds
  <2>3. WorkInv' /\ ViewInv'
    BY <1>1, <1>3, <2>2 DEF WorkInv, ViewInv, renderVars
  <2>4. LabelInv'
    BY <1>1, <2>2 DEF Inv, LabelInv
  <2>5. PageInv'
    BY <1>1, <1>3, <2>2 DEF Inv, PageInv, renderVars, TopologyViews
  <2> QED BY <2>3, <2>4, <2>5 DEF Inv
<1>4. CASE v = "ip-labels"
  <2>1. table' = RenderIPLabelTable(table, labels, b.dom, CancelWorks) /\ w' = WithTable(b, table')
    BY <1>4, <1>b DEF SwitchView, TopologyViews
  <2>2. /\ DocInv(b) /\ b.dom["labels"] = 0 /\ b.dom["targets"] = w.dom["targets"]
        /\ b.current = NoSession /\ Complete(b) /\ Counted(b)
    BY <1>2, <1>4, <1>b, LeaveHolds DEF TopologyViews
  <2>3. b.dom \in [Surfaces -> Nat] /\ Elements(b.dom) <= Limit /\ Elements(b.dom) \in Nat
    BY <2>2, ElementsAreCounted DEF DocInv, Workspace, Bounded
  <2>4. /\ TableInv(table', labels) /\ TableElements(table') \in Nat
        /\ Elements(Unmounted(b.dom, {"labels"})) + TableElements(table') <= Limit
    BY <1>2, <2>1, <2>3, RenderTableHolds
  <2>5. Elements(b.dom) - b.dom["labels"] + TableElements(table') <= Limit
    BY <2>3, <2>4, WithoutLabels
  <2>6. /\ DocInv(w') /\ w'.current = NoSession /\ w'.dom["labels"] = TableElements(table')
        /\ (\A s \in Surfaces \ {"labels"} : w'.dom[s] = b.dom[s])
        /\ Complete(w') /\ Counted(w')
    BY <2>1, <2>2, <2>4, <2>5, WithTableHolds
  <2>7. w'.dom["targets"] = w.dom["targets"]
    BY <2>2, <2>6 DEF Surfaces
  <2>8. WorkInv' /\ ViewInv'
    BY <2>6 DEF WorkInv, ViewInv, NoSession
  <2>9. LabelInv'
    BY <1>1, <1>4, <2>4, <2>6 DEF Inv, LabelInv
  <2>10. PageInv'
    BY <1>1, <1>4, <2>7 DEF Inv, PageInv, renderVars
  <2> QED BY <2>8, <2>9, <2>10 DEF Inv
<1>5. CASE v # "ip-labels" /\ ~(v \in TopologyViews /\ report # NoReport)
  <2>1. /\ table' = UnmountIPLabelTable(table, CancelWorks)
        /\ w' = IF v = "diagnostics" /\ diagnostics # 0 /\ MayPresent(b, diagnostics)
                THEN Presented(b, diagnostics) ELSE b
    BY <1>5, <1>b DEF SwitchView
  <2>2. TableInv(table', labels) /\ ~table'.owned /\ TableElements(table') = 0
    BY <1>2, <2>1, UnmountTableHolds
  <2>3. /\ DocInv(w') /\ Complete(w') /\ Counted(w') /\ w'.current.gen = 0
        /\ w'.dom["labels"] = 0 /\ w'.dom["targets"] = w.dom["targets"]
        /\ v = "common-prefix" => \A s \in Surfaces \ {"targets", "common"} : w'.dom[s] = 0
    BY <1>1, <1>5, <1>b, <2>1, BareViewHolds
  <2>4. WorkInv' /\ ViewInv'
    BY <2>3 DEF WorkInv, ViewInv
  <2>5. LabelInv'
    BY <1>1, <2>2, <2>3 DEF Inv, LabelInv
  <2>6. PageInv'
    BY <1>1, <2>3 DEF Inv, PageInv, renderVars
  <2> QED BY <2>4, <2>5, <2>6 DEF Inv
<1> QED BY <1>3, <1>4, <1>5

-----------------------------------------------------------------------------
(* The invariant. *)

LEMMA InitInv == Init => Inv
<1> SUFFICES ASSUME Init PROVE Inv
  OBVIOUS
<1>x. PICK x : x = CreateWorkspace(EmptyDocument)
  OBVIOUS
<1>1. /\ labels = InitialLabels /\ labels \in LabelMaps /\ activeView = InitialView
      /\ table = IF InitialView = "ip-labels"
                 THEN RenderIPLabelTable(CreateTable, labels, x.dom, CancelWorks)
                 ELSE CreateTable
      /\ w = WithTable(x, table)
  BY <1>x, ViewAssumption DEF Init, LabelMaps
<1>2. /\ EmptyDocument \in [Surfaces -> Nat]
      /\ \A s \in Surfaces : EmptyDocument[s] = IF s = "targets" THEN InitialTargets * RowCost ELSE 0
  BY ViewAssumption DEF EmptyDocument
<1>3. Elements(EmptyDocument) <= Limit
  <2>1. Elements(EmptyDocument) = Static + InitialTargets * RowCost
    BY <1>2, ViewAssumption, BudgetAssumption DEF Elements, Surfaces
  <2> QED BY <2>1, ViewAssumption
<1>4. /\ x \in Workspace /\ x.dom = EmptyDocument /\ x.current = NoSession /\ x.stale = {}
      /\ x.phase = "idle" /\ x.final = 0
  <2>1. [r \in Roots |-> 0] \in [Roots -> Nat] /\ [r \in Roots |-> {}] \in [Roots -> SUBSET Nat]
    OBVIOUS
  <2> QED BY <1>2, <1>x, <2>1, NoSessionIsSession DEF CreateWorkspace, Workspace, Phases
<1>5. \A r \in Roots : x.dom[r] = 0
  BY <1>2, <1>4 DEF Roots, Surfaces
<1>6. DocInv(x) /\ Complete(x) /\ Counted(x)
  BY <1>3, <1>4, <1>5, BlankHolds DEF Bounded, Complete, Counted
<1>7. /\ CreateTable \in TableType /\ ~CreateTable.owned /\ TableInv(CreateTable, labels)
      /\ TableElements(CreateTable) = 0
  <2>1. /\ CreateTable \in TableType /\ ~CreateTable.owned /\ CreateTable.rows = <<>>
        /\ CreateTable.state = "none" /\ CreateTable.pending = {}
    <3>1. <<>> \in Seq(Row)
      OBVIOUS
    <3> QED BY <3>1 DEF CreateTable, TableType
  <2>2. Len(PageOf(CreateTable, labels)) \in Nat
    BY <2>1, TablePage
  <2>3. TableInv(CreateTable, labels)
    BY <2>1, <2>2 DEF TableInv
  <2> QED BY <2>1, <2>3, UnownedTable
<1>8. x.dom["labels"] = 0 /\ x.dom \in [Surfaces -> Nat] /\ Elements(x.dom) \in Nat
      /\ Elements(x.dom) <= Limit
  BY <1>2, <1>3, <1>4, ElementsAreCounted DEF Surfaces
<1>9. /\ TableInv(table, labels) /\ TableElements(table) \in Nat
      /\ Elements(x.dom) + TableElements(table) <= Limit
      /\ InitialView # "ip-labels" => ~table.owned /\ TableElements(table) = 0
  <2>1. CASE InitialView = "ip-labels"
    <3>1. /\ TableInv(table, labels) /\ TableElements(table) \in Nat
          /\ Elements(Unmounted(x.dom, {"labels"})) + TableElements(table) <= Limit
      BY <1>1, <1>7, <1>8, <2>1, RenderTableHolds
    <3>2. Elements(Unmounted(x.dom, {"labels"})) = Elements(x.dom)
      BY <1>8, WithoutLabels
    <3> QED BY <2>1, <3>1, <3>2
  <2>2. CASE InitialView # "ip-labels"
    BY <1>1, <1>7, <1>8, <2>2
  <2> QED BY <2>1, <2>2
<1>10. Elements(x.dom) - x.dom["labels"] + TableElements(table) <= Limit
  BY <1>8, <1>9
<1>11. /\ DocInv(w) /\ Complete(w) /\ Counted(w) /\ w.current = NoSession
       /\ w.dom["labels"] = TableElements(table)
       /\ \A s \in Surfaces \ {"labels"} : w.dom[s] = x.dom[s]
  BY <1>1, <1>4, <1>6, <1>9, <1>10, WithTableHolds
<1>12. WorkInv /\ ViewInv
  BY <1>11 DEF WorkInv, ViewInv, NoSession
<1>13. LabelInv
  BY <1>1, <1>9, <1>11 DEF LabelInv, Init
<1>14. PageInv
  <2>1. w.dom["targets"] = InitialTargets * RowCost
    BY <1>2, <1>4, <1>11 DEF Surfaces
  <2>2. \E k \in 1 .. MaxTargets : w.dom.targets = k * RowCost
    BY <2>1, ViewAssumption
  <2>3. ASSUME activeView = "common-prefix", NEW s \in Surfaces \ {"targets", "common"}
        PROVE  w.dom[s] = 0
    BY <1>1, <1>2, <1>4, <1>9, <1>11, <2>3
  <2> QED BY <1>1, <2>2, <2>3, ViewAssumption DEF PageInv, Init
<1> QED BY <1>12, <1>13, <1>14 DEF Inv

LEMMA NextInv == Inv /\ [Next]_vars => Inv'
<1> SUFFICES ASSUME Inv, [Next]_vars PROVE Inv'
  OBVIOUS
<1>1. CASE UNCHANGED vars
  BY <1>1 DEF Inv, WorkInv, ViewInv, LabelInv, PageInv, vars, renderVars, labelVars
<1>2. CASE UserActs
  <2>1. CASE ClearDiagnostics \/ AddTarget \/ RemoveTarget \/ OpenFinding \/ CloseFinding
    BY <2>1, ClearDiagnosticsKeeps, AddTargetKeeps, RemoveTargetKeeps, OpenFindingKeeps,
       CloseFindingKeeps
  <2>2. CASE \E n \in ReportSizes : DiagnosticsAnswer(n)
    BY <2>2, DiagnosticsAnswerKeeps
  <2>3. CASE TopologyAnswer \/ ClearTopology \/ Resize
    BY <2>3, TopologyAnswerKeeps, ClearTopologyKeeps, ResizeKeeps
  <2>4. CASE \E f \in Filters : ChangeFilter(f)
    BY <2>4, ChangeFilterKeeps
  <2>5. CASE \E m \in {"2d", "3d"} : ChooseMode(m)
    BY <2>5, ChooseModeKeeps
  <2>6. CASE \E ip \in IPs : DeleteLabel(ip) \/ \E l \in Labels : SaveLabel(ip, l) \/ EditRow(ip, l)
    BY <2>6, DeleteLabelKeeps, SaveLabelKeeps, EditRowKeeps
  <2>7. CASE \E page \in 0 .. Cardinality(IPs) : TurnPage(page)
    BY <2>7, TurnPageKeeps
  <2>8. CASE \E ips \in ImportFiles, l \in Labels : StartImport(ips, l)
    BY <2>8, StartImportKeeps
  <2>9. CASE \E list \in CommonInputs : RenderCommonPrefix(list)
    BY <2>9, RenderCommonPrefixKeeps
  <2>10. CASE \E v \in Views : SwitchView(v)
    BY <2>10, SwitchViewKeeps
  <2>11. CASE BeforeUnload \/ Destroy
    BY <2>11, BeforeUnloadKeeps, DestroyKeeps
  <2> QED
    BY <1>2, <2>1, <2>2, <2>3, <2>4, <2>5, <2>6, <2>7, <2>8, <2>9, <2>10, <2>11 DEF UserActs
<1>3. CASE BrowserActs
  <2>1. CASE SessionFrame \/ StaleFrame \/ ResizeFrame
    BY <2>1, SessionFrameKeeps, StaleFrameKeeps, ResizeFrameKeeps
  <2>2. CASE \E r \in table.pending : TableFrame(r)
    BY <2>2, TableFrameKeeps
  <2>3. CASE \E i \in imports : ImportRead(i)
    BY <2>3, ImportReadKeeps
  <2> QED BY <1>3, <2>1, <2>2, <2>3 DEF BrowserActs
<1> QED BY <1>1, <1>2, <1>3 DEF Next

-----------------------------------------------------------------------------
(* Theorems. *)

(* In every reachable state of the client each part of the invariant       *)
(* holds: of the document and its sessions, of what the current session    *)
(* is of, of the table and its pending chunks, and of the page.            *)
THEOREM ViewInvariant == Spec => []Inv
<1> QED BY InitInv, NextInv, PTL DEF Spec

(* The document stays within MAX_DOCUMENT_ELEMENTS for every limit, cost   *)
(* and size a view may ask for: fitsDocumentBudget admits what is mounted, *)
(* and what is mounted without asking (a common-prefix result, the message *)
(* of an empty graph, the one line of the summary) has room.               *)
THEOREM DocumentIsBoundedHolds == Spec => []DocumentIsBounded
<1>1. Inv => DocumentIsBounded
  BY DEF Inv, WorkInv, DocInv, Bounded, DocumentIsBounded
<1> QED BY <1>1, ViewInvariant, PTL

(* What the roots show is of the current session, and that session is of   *)
(* the report, view, targets and labels of the page, whichever frames ran  *)
(* late, failed or could not be cancelled (TopologyRenderCoordinator).     *)
THEOREM SurfaceIsCurrentHolds == Spec => []SurfaceIsCurrent
<1>1. Inv => SurfaceIsCurrent
  <2> SUFFICES ASSUME Inv PROVE SurfaceIsCurrent
    OBVIOUS
  <2>1. /\ Owned(w) /\ w.dom \in [Surfaces -> Nat] /\ w.current.root \in Roots
        /\ activeInstance => Complete(w) /\ Counted(w)
    BY DEF Inv, WorkInv, DocInv, Workspace, Session
  <2>2. ASSUME NEW r \in Roots, w.dom[r] > 0
        PROVE  /\ r = RootOf(activeView) /\ activeView \in TopologyViews
               /\ w.content[r] = {w.current.gen}
               /\ w.current.source = report /\ w.current.filter = filter
               /\ r = "topology" => w.current.labels = labels
    <3>1. w.current.gen # 0 /\ r = w.current.root /\ w.content[r] = {w.current.gen}
      BY <2>1, <2>2 DEF Owned
    <3>2. ViewInv
      BY DEF Inv
    <3> QED BY <3>1, <3>2 DEF ViewInv, TopologyViews, RootOf
  <2>3. activeInstance /\ w.phase = "ready" =>
          /\ w.current.finished
          /\ w.dom[w.current.root] = w.current.committed
          /\ w.current.next = Len(w.current.chunks) + 1
    BY <2>1 DEF Complete
  <2>4. activeInstance /\ w.dom.summary > 0 /\ w.final # 0 =>
          w.final = w.current.gen /\ w.current.finished
    BY <2>1 DEF Counted
  <2> QED BY <2>2, <2>3, <2>4 DEF SurfaceIsCurrent
<1> QED BY <1>1, ViewInvariant, PTL

(* A complete table shows its page of the labels as they are, and a table  *)
(* that is still being appended to shows the beginning of it, whatever     *)
(* became of the labels between two chunks (renderIPLabelTable).           *)
THEOREM LabelTableIsCurrentHolds == Spec => []LabelTableIsCurrent
<1>1. Inv => LabelTableIsCurrent
  <2> SUFFICES ASSUME Inv PROVE LabelTableIsCurrent
    OBVIOUS
  <2>p. PICK page : page = PageOf(table, labels)
    OBVIOUS
  <2>s. PICK shown : shown = [i \in DOMAIN page |-> [ip |-> page[i], label |-> labels[page[i]]]]
    OBVIOUS
  <2>1. TableInv(table, labels) /\ labels \in LabelMaps /\ w.dom["labels"] = TableElements(table)
        /\ (activeView # "ip-labels" => ~table.owned)
    BY DEF Inv, LabelInv
  <2>3. page \in Seq(IPs) /\ Len(page) \in Nat
    BY <2>1, <2>p, TablePage DEF TableInv
  <2>4. \A i \in 1 .. Len(page) : [ip |-> page[i], label |-> labels[page[i]]] \in Row
    BY <2>1, <2>3 DEF Row, LabelMaps
  <2>5. shown \in Seq(Row) /\ Len(shown) = Len(page)
        /\ \A i \in 1 .. Len(page) : shown[i] = [ip |-> page[i], label |-> labels[page[i]]]
    BY <2>3, <2>4, <2>s
  <2>6. /\ table.rows \in Seq(Row) /\ Len(table.rows) <= Len(shown)
        /\ \A i \in 1 .. Len(table.rows) : table.rows[i] = shown[i]
    <3>1. /\ table \in TableType /\ Len(table.rows) <= Len(page)
          /\ \A i \in 1 .. Len(table.rows) :
                table.rows[i] = [ip |-> page[i], label |-> labels[page[i]]]
      BY <2>1, <2>p DEF TableInv
    <3>2. table.rows \in Seq(Row) /\ Len(table.rows) \in Nat
      BY <3>1 DEF TableType
    <3>3. \A i \in 1 .. Len(table.rows) : i \in 1 .. Len(page)
      BY <2>3, <3>1, <3>2
    <3> QED BY <2>5, <3>1, <3>2, <3>3
  <2>7. ASSUME table.state = "ready" PROVE table.rows = shown
    <3>1. Len(table.rows) = Len(shown)
      BY <2>1, <2>5, <2>7, <2>p DEF TableInv
    <3> QED BY <2>5, <2>6, <3>1
  <2>8. IsPrefix(table.rows, shown)
    <3>r. PICK rows : rows = table.rows
      OBVIOUS
    <3>1. rows \in Seq(Row) /\ Len(rows) \in Nat /\ Len(rows) <= Len(shown) /\ shown \in Seq(Row)
          /\ \A i \in 1 .. Len(rows) : rows[i] = shown[i]
      BY <2>5, <2>6, <3>r
    <3>2. SubSeq(rows, 1, Len(rows)) = SubSeq(shown, 1, Len(rows))
      BY <3>1
    <3> QED BY <3>1, <3>2, <3>r DEF IsPrefix
  <2>9. table.state = "empty" => Labelled(labels) = {}
    BY <2>1 DEF TableInv
  <2>10. activeView # "ip-labels" => w.dom.labels = 0
    BY <2>1, UnownedTable
  <2> QED BY <2>7, <2>8, <2>9, <2>10, <2>p, <2>s DEF LabelTableIsCurrent, PageOf
<1> QED BY <1>1, ViewInvariant, PTL
=============================================================================
