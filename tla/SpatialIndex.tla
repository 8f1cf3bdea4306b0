----------------------------- MODULE SpatialIndex -----------------------------
(***************************************************************************)
(* trees/spatial.py: a simplified R-tree.  An entry is inserted under the  *)
(* child whose box grows least, and a node that overflows is split in the  *)
(* order of its lower x; searches follow the boxes.                        *)
(***************************************************************************)
EXTENDS Integers, Sequences, FiniteSets

CONSTANTS Boxes,      \* boxes to insert: records of their corners
          Queries,    \* boxes to search for
          MaxEntries, \* of a node
          MaxInserts, \* bound
          NoBox       \* None: the box of a node that never had a child

Box == [min_x : Int, min_y : Int, max_x : Int, max_y : Int]

ASSUME SpatialAssumption ==
    /\ Boxes \subseteq Box /\ Queries \subseteq Box /\ NoBox \notin Box
    /\ MaxEntries \in Nat \ {0} /\ MaxInserts \in Nat

VARIABLES
    top,     \* a node: [leaf, kids, box]; the kids of a leaf are entries [box, data]
    entries  \* history: the entries inserted since the last clear, in order

spatialVars == <<top, entries>>

Lower(a, b) == IF a <= b THEN a ELSE b
Upper(a, b) == IF a >= b THEN a ELSE b

Area(b) == Upper(0, b.max_x - b.min_x) * Upper(0, b.max_y - b.min_y)

Intersects(a, b) == ~(\/ a.max_x < b.min_x \/ b.max_x < a.min_x
                      \/ a.max_y < b.min_y \/ b.max_y < a.min_y)

\* expand_to_include
Expanded(a, b) == [min_x |-> Lower(a.min_x, b.min_x), min_y |-> Lower(a.min_y, b.min_y),
                   max_x |-> Upper(a.max_x, b.max_x), max_y |-> Upper(a.max_y, b.max_y)]

ExpansionArea(a, b) == Area(Expanded(a, b)) - Area(a)

Lowest(S) == CHOOSE a \in S : \A b \in S : a <= b
Highest(S) == CHOOSE a \in S : \A b \in S : a >= b

\* _update_bbox: the children's boxes, each expanded to include the next
BoxOf(kids) ==
    IF kids = <<>> THEN NoBox
    ELSE [min_x |-> Lowest({kids[i].box.min_x : i \in DOMAIN kids}),
          min_y |-> Lowest({kids[i].box.min_y : i \in DOMAIN kids}),
          max_x |-> Highest({kids[i].box.max_x : i \in DOMAIN kids}),
          max_y |-> Highest({kids[i].box.max_y : i \in DOMAIN kids})]

\* Mutant of RNode: the box is that of the node's first child.
RNodeUnexpanded(leaf, kids) ==
    [leaf |-> leaf, kids |-> kids, box |-> IF kids = <<>> THEN NoBox ELSE kids[1].box]

RNode(leaf, kids) == [leaf |-> leaf, kids |-> kids, box |-> BoxOf(kids)]

\* A stable sort by the lower x.
Sorted(kids) ==
    LET rank(i) == Cardinality({j \in DOMAIN kids :
                        \/ kids[j].box.min_x < kids[i].box.min_x
                        \/ kids[j].box.min_x = kids[i].box.min_x /\ j <= i})
    IN  [r \in DOMAIN kids |-> kids[CHOOSE i \in DOMAIN kids : rank(i) = r]]

\* The node and, if it had too many kids, the new sibling that took the upper half.
Fitted(leaf, kids) ==
    IF Len(kids) <= MaxEntries THEN <<RNode(leaf, kids)>>
    ELSE LET s == Sorted(kids)  mid == Len(kids) \div 2
         IN  <<RNode(leaf, SubSeq(s, 1, mid)), RNode(leaf, SubSeq(s, mid + 1, Len(s)))>>

\* The child to descend into: the first of those that grow least.
BestChild(kids, box) ==
    LET grows(i) == ExpansionArea(kids[i].box, box)
    IN  CHOOSE i \in DOMAIN kids : \A j \in DOMAIN kids :
            grows(i) < grows(j) \/ (grows(i) = grows(j) /\ i <= j)

WithKids(y) == IF y.leaf THEN {y} ELSE {y} \cup {y.kids[i] : i \in DOMAIN y.kids}

\* The nodes of a tree, of no more levels under the first than there are entries.
Subnodes(x) ==
    LET upTo[n \in 0..Len(entries)] ==
            IF n = 0 THEN {x} ELSE UNION {WithKids(y) : y \in upTo[n - 1]}
    IN  upTo[Len(entries)]

\* _insert_recursive
Inserted(x, entry) ==
    LET inserted[y \in Subnodes(x)] ==
            IF y.leaf THEN Fitted(TRUE, Append(y.kids, entry))
            ELSE LET i == BestChild(y.kids, entry.box)
                     r == inserted[y.kids[i]]
                 IN  Fitted(FALSE, [y.kids EXCEPT ![i] = r[1]] \o Tail(r))
    IN  inserted[x]

EmptyIndex == RNode(TRUE, <<>>)

SpatialInit == top = EmptyIndex /\ entries = <<>>

InsertBox(box) ==
    /\ Len(entries) < MaxInserts
    /\ LET entry == [box |-> box, data |-> Len(entries)]
           r == Inserted(top, entry)
       IN  /\ top' = IF Len(r) = 1 THEN r[1] ELSE RNode(FALSE, r)
           /\ entries' = Append(entries, entry)

ClearIndex == top' = EmptyIndex /\ entries' = <<>>

SpatialNext == ClearIndex \/ \E box \in Boxes : InsertBox(box)

SpatialSpec == SpatialInit /\ [][SpatialNext]_spatialVars

-----------------------------------------------------------------------------

Joined(lists) ==
    LET upTo[i \in 0..Len(lists)] == IF i = 0 THEN <<>> ELSE upTo[i - 1] \o lists[i]
    IN  upTo[Len(lists)]

\* _search_recursive, in the order of its results
Search(x, query) ==
    LET found[y \in Subnodes(x)] ==
            IF y.box # NoBox /\ ~Intersects(y.box, query) THEN <<>>
            ELSE Joined([i \in DOMAIN y.kids |->
                            IF ~y.leaf THEN found[y.kids[i]]
                            ELSE IF Intersects(y.kids[i].box, query) THEN <<y.kids[i]>>
                            ELSE <<>>])
    IN  found[x]

Inserts == {entries[i] : i \in DOMAIN entries}

\* Every member of the set, each once.
Lists(s, S) == {s[i] : i \in DOMAIN s} = S /\ Len(s) = Cardinality(S)

\* Whatever was inserted, in whatever order, and however nodes were split: a
\* search returns every entry that intersects the query, and each once.
SearchIsExact ==
    \A q \in Queries : Lists(Search(top, q), {e \in Inserts : Intersects(e.box, q)})
=============================================================================
