--------------------------- MODULE DocumentBudget ---------------------------
(***************************************************************************)
(* The element budget of the web client's document.  Every surface that    *)
(* grows at run time is counted in elements; what index.html holds is one  *)
(* number.  The counts of the two target filters are one surface, because  *)
(* only the filter of the shown view has controls.                         *)
(***************************************************************************)
EXTENDS Integers, FiniteSetsExt

CONSTANTS
    Limit,          \* MAX_DOCUMENT_ELEMENTS (1200 in the code)
    Static          \* the elements of index.html

ASSUME BudgetAssumption == Limit \in Nat /\ Static \in 0 .. Limit

Surfaces == {"targets", "diagnostics", "finding", "filter", "summary", "context",
             "topology", "geo", "labels", "common"}

Unmounted(dom, surfaces) == [s \in Surfaces |-> IF s \in surfaces THEN 0 ELSE dom[s]]

(* doc.querySelectorAll('*').length *)
Elements(dom) ==
    Static + dom.targets + dom.diagnostics + dom.finding + dom.filter + dom.summary
        + dom.context + dom.topology + dom.geo + dom.labels + dom.common

(* A candidate of n elements is admitted whole or not at all. *)
Fits(dom, n) == Elements(dom) + n <= Limit

(* Mutant: the candidate itself is not counted. *)
AdmitsUncounted(dom, surfaces, n) == Elements(Unmounted(dom, surfaces)) <= Limit

(* The candidate replaces what the surfaces hold. *)
FitsReplacing(dom, surfaces, n) == Fits(Unmounted(dom, surfaces), n)
=============================================================================
