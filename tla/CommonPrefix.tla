---------------------------- MODULE CommonPrefix ----------------------------
(***************************************************************************)
(* The common prefix of a list of addresses (frontend/common-prefix.js)    *)
(* and the elements its result has in the document (renderCommonPrefix in  *)
(* app.js).                                                                *)
(*                                                                         *)
(* An entry of the list is the text of an address as it is written: an     *)
(* IPv4 or IPv6 address, an IPv6 address that maps an IPv4 one, or a text  *)
(* that is no address.  Zones and the many spellings of one value are left *)
(* out, and so is the spelling of the result.                              *)
(***************************************************************************)
EXTENDS Integers, Sequences, FiniteSetsExt

CONSTANTS
    Width,                  \* bits of the families (32 and 128 in the code)
    Pow2,                   \* the powers of two, up to the larger width
    CommonMaxAddresses,     \* entries analysed (COMMON_MAX_ADDRESSES: 64)
    AloneCost, GroupCost    \* elements of a card (5 and 14, without its note and list)

Families == {"v4", "v6"}

ASSUME WidthAssumption == Width \in [Families -> Nat] /\ Width["v4"] <= Width["v6"]

ASSUME Pow2Assumption ==
    /\ Pow2 \in [0 .. Width["v6"] -> Nat \ {0}]
    /\ Pow2[0] = 1
    /\ \A k \in 1 .. Width["v6"] : Pow2[k] = 2 * Pow2[k - 1]

ASSUME CommonAssumption ==
    /\ CommonMaxAddresses \in Nat \ {0}
    /\ AloneCost \in Nat \ {0} /\ GroupCost \in Nat \ {0}

(* parseAddressBits: a mapped address is compared as the IPv4 address. *)
FamilyOf(text) == IF text.form = "mapped" THEN "v4" ELSE text.form

(* The members of a family, in the order of the list. *)
MembersOf(list, family) == SelectSeq(list, LAMBDA text : FamilyOf(text) = family)

(* The number of bits of min XOR max, counted by shifting it to zero: the  *)
(* low bits without which the two are the same.                            *)
FreeBits(min, max, width) == Min({k \in 0 .. width : min \div Pow2[k] = max \div Pow2[k]})

(* The low bits of the smallest member cleared, and set. *)
RangeFirst(min, free) == min - (min % Pow2[free])

RangeLast(min, free) == RangeFirst(min, free) + Pow2[free] - 1

(* computeGroup from the smallest and the largest member; 0 is the null of *)
(* a first different bit.                                                  *)
GroupOf(family, count, min, max, free) ==
    [family |-> family, count |-> count, alone |-> FALSE, sharedBits |-> Width[family] - free,
     rangeFirst |-> RangeFirst(min, free), rangeLast |-> RangeLast(min, free),
     firstDiffBit |-> IF free = 0 THEN 0 ELSE Width[family] - free + 1]

ComputeGroup(family, members) ==
    LET values == {members[i].value : i \in DOMAIN members}
        min == Min(values)
        max == Max(values)
    IN  GroupOf(family, Len(members), min, max, FreeBits(min, max, Width[family]))

(* A member without another to compare with; 0 is null. *)
AloneGroup(family, member) ==
    [family |-> family, count |-> 1, alone |-> TRUE, sharedBits |-> 0,
     rangeFirst |-> member.value, rangeLast |-> 0, firstDiffBit |-> 0]

(* commonPrefix: what lies beyond the limit is left out and reported. *)
CommonPrefixOf(list) ==
    LET working == SubSeq(list, 1, Min({Len(list), CommonMaxAddresses}))
        present == {f \in Families : MembersOf(working, f) # <<>>}
        group(f) == IF Len(MembersOf(working, f)) = 1 THEN AloneGroup(f, MembersOf(working, f)[1])
                    ELSE ComputeGroup(f, MembersOf(working, f))
    IN  [truncated |-> Len(list) > CommonMaxAddresses,
         skipped |-> Len(SelectSeq(working, LAMBDA text : FamilyOf(text) \notin Families)),
         groups |-> [f \in present |-> group(f)]]

(* A card: its metrics, the note on the first different bit, the list of   *)
(* its members.                                                            *)
CardElements(group) ==
    IF group.alone THEN AloneCost
    ELSE GroupCost + (IF group.firstDiffBit # 0 THEN 1 ELSE 0) + 1 + group.count

(* renderCommonPrefix.  Without an entry, or with too long an input, there *)
(* is no result; without an address there is one note.                     *)
CommonElements(list, analysis) ==
    IF list = <<>> THEN 0
    ELSE IF DOMAIN analysis.groups = {} THEN 1
    ELSE MapThenSumSet(LAMBDA f : CardElements(analysis.groups[f]), DOMAIN analysis.groups)
            + (IF analysis.skipped > 0 THEN 1 ELSE 0)
=============================================================================
