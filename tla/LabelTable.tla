----------------------------- MODULE LabelTable -----------------------------
(***************************************************************************)
(* The IP labels of the web client (frontend/app.js): a bounded map from   *)
(* addresses to labels, and the paged table of it, whose rows are appended *)
(* in chunks, one per frame.  A render is the closure renderIPLabelTable   *)
(* makes; its frame may run after it was superseded.                       *)
(*                                                                         *)
(* Addresses are numbers in canonical order, a label is a value or         *)
(* NoLabel.  Notes, and the texts of import files, are left out: an import *)
(* is the set of addresses its valid rows name, all with one label.        *)
(***************************************************************************)
EXTENDS DocumentBudget, Sequences, SequencesExt

CONSTANTS
    IPs, Labels, NoLabel,
    LabelRecords,       \* labels kept (500 in the code)
    LabelPage,          \* rows of a page (100 in the code)
    LabelRow,           \* elements of a row
    LabelChunk          \* rows appended by a frame (10 in the code)

ASSUME LabelAssumption ==
    /\ IPs \subseteq Nat /\ IsFiniteSet(IPs) /\ NoLabel \notin Labels
    /\ {LabelRecords, LabelPage, LabelRow, LabelChunk} \subseteq Nat \ {0}

Labelled(labels) == {ip \in IPs : labels[ip] # NoLabel}

(* The labelled addresses in canonical order. *)
Rows(labels) ==
    CHOOSE rows \in [1 .. Cardinality(Labelled(labels)) -> Labelled(labels)] :
        \A i, j \in DOMAIN rows : i < j => rows[i] < rows[j]

(* upsertIPLabels: an address that is labelled is always updated; new ones *)
(* are admitted in order while there is room.                              *)
UpsertIPLabels(labels, ips, label) ==
    LET room == LabelRecords - Cardinality(Labelled(labels))
        new == ips \ Labelled(labels)
        admitted == {ip \in new : Cardinality({q \in new : q < ip}) < room}
    IN  [ip \in IPs |-> IF ip \in (ips \ new) \cup admitted THEN label ELSE labels[ip]]

-----------------------------------------------------------------------------
CreateTable ==
    [owned |-> FALSE,                       \* LABEL_ROOT_OWNERS
     page |-> 0, size |-> 1, rows |-> <<>>, state |-> "none",
     pending |-> {}]

(* cancelIPLabelRender: the generation moves on.  It is only compared with *)
(* the one a render captured, and is the flag "current" of the render.     *)
CancelIPLabelRender(t, works) ==
    [t EXCEPT !.pending = IF works THEN {} ELSE {[r EXCEPT !.current = FALSE] : r \in @}]

UnmountIPLabelTable(t, works) ==
    LET cancelled == CancelIPLabelRender(t, works)
    IN  IF t.owned THEN [cancelled EXCEPT !.owned = FALSE, !.rows = <<>>, !.state = "none"]
        ELSE cancelled

(* Mutant: a chunk checks the surface and not which render it belongs to. *)
OwnsAnyTable(t, r) == t.owned

OwnsTable(t, r) == t.owned /\ r.current

(* A table without labels has a row that says so. *)
TableElements(t) == IF t.state = "empty" THEN 2 ELSE LabelRow * Len(t.rows)

(* renderIPLabelTable in its own view; dom is the document without it. *)
RenderIPLabelTable(t, labels, dom, works) ==
    LET rows == Rows(labels)
        bare == Unmounted(dom, {"labels"})
        room == (Limit - Elements(bare)) \div LabelRow
        size == Max({1, Min({LabelPage, room})})
        pages == Max({1, (Len(rows) + size - 1) \div size})
        page == Min({t.page, pages - 1})
        visible == SubSeq(rows, page * size + 1, Min({(page + 1) * size, Len(rows)}))
        cancelled == CancelIPLabelRender(t, works)
        begun == [cancelled EXCEPT !.owned = TRUE, !.page = page, !.size = size,
                                   !.rows = <<>>, !.state = "rendering"]
    IN  IF visible = <<>>
        THEN [begun EXCEPT !.state = IF Fits(bare, 2) THEN "empty" ELSE "limited"]
        ELSE [begun EXCEPT !.pending = @ \cup {[current |-> TRUE, visible |-> visible, offset |-> 0]}]

(* appendChunk: the rows show the labels as they are when they are made. *)
AppendChunk(t, r, labels, dom) ==
    LET last == Min({r.offset + LabelChunk, Len(r.visible)})
        chunk == SubSeq(r.visible, r.offset + 1, last)
        ran == [t EXCEPT !.pending = @ \ {r}]
        grown == [ran EXCEPT !.rows = @ \o [i \in DOMAIN chunk |-> [ip |-> chunk[i], label |-> labels[chunk[i]]]]]
    IN  IF ~OwnsTable(t, r) THEN ran
        ELSE IF ~Fits(dom, LabelRow * Len(chunk)) THEN [ran EXCEPT !.rows = <<>>, !.state = "limited"]
        ELSE IF last < Len(r.visible) THEN [grown EXCEPT !.pending = @ \cup {[r EXCEPT !.offset = last]}]
        ELSE [grown EXCEPT !.state = "ready"]
=============================================================================
