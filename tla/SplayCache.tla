------------------------------ MODULE SplayCache ------------------------------
(***************************************************************************)
(* trees/splay.py: a cache in a splay tree, which every call restructures. *)
(* The clock is the system's: it may stand still between two calls or be   *)
(* set back.  The counters of stats() are left out.                        *)
(***************************************************************************)
EXTENDS Integers, Sequences

CONSTANTS Key,   \* keys, as numbers in the order of _cmp_key
          Value, Time, MaxSize,
          Nothing \* None: no value

ASSUME SplayAssumption ==
    /\ Key \subseteq Int /\ Nothing \notin Key
    /\ Time \subseteq Int /\ MaxSize \in Nat \ {0}

VARIABLES root,  \* a tree of nodes [key, val, at, left, right], or NoNode
          size, now,
          answer \* what the last call returned

splayVars == <<root, size, now, answer>>

NoNode == [key |-> Nothing]

WithChildren(y) == IF y = NoNode THEN {y} ELSE {y, y.left, y.right}

\* The nodes of a tree and the missing ones under them: no path is longer than
\* a cache that holds one more than MaxSize.
Subtrees(x) ==
    LET upTo[n \in 0..(MaxSize + 1)] ==
            IF n = 0 THEN {x} ELSE UNION {WithChildren(y) : y \in upTo[n - 1]}
    IN  upTo[MaxSize + 1]

RotateRight(x) == [x.left EXCEPT !.right = [x EXCEPT !.left = x.left.right]]
RotateLeft(x) == [x.right EXCEPT !.left = [x EXCEPT !.right = x.right.left]]

\* The rotation that ends a _splay, if there is something to lift.
LiftLeft(x) == IF x.left # NoNode THEN RotateRight(x) ELSE x
LiftRight(x) == IF x.right # NoNode THEN RotateLeft(x) ELSE x

\* The two halves of _splay, where f is what it makes of the grandchildren.
SplayLeft(x, k, f) ==
    LET l == x.left IN
    IF l = NoNode THEN x
    ELSE IF k < l.key
    THEN LiftLeft(RotateRight([x EXCEPT !.left = [l EXCEPT !.left = f[l.left]]]))
    ELSE IF k > l.key
    THEN LiftLeft([x EXCEPT !.left = LiftRight([l EXCEPT !.right = f[l.right]])])
    ELSE LiftLeft(x)

SplayRight(x, k, f) ==
    LET r == x.right IN
    IF r = NoNode THEN x
    ELSE IF k > r.key
    THEN LiftRight(RotateLeft([x EXCEPT !.right = [r EXCEPT !.right = f[r.right]]]))
    ELSE IF k < r.key
    THEN LiftRight([x EXCEPT !.right = LiftLeft([r EXCEPT !.left = f[r.left]])])
    ELSE LiftRight(x)

\* The key, or the last node on the way to it, comes to the root.
Splay(x, k) ==
    LET splayed[y \in Subtrees(x)] ==
            IF y = NoNode \/ y.key = k THEN y
            ELSE IF k < y.key THEN SplayLeft(y, k, splayed) ELSE SplayRight(y, k, splayed)
    IN  splayed[x]

\* Mutant of Unlinked: the left subtree is put under the right one as it is.
UnlinkedUnsplayed(x) ==
    IF x.left = NoNode THEN x.right ELSE [x.left EXCEPT !.right = x.right]

\* The tree without its root, whose key is above every key on the left.
Unlinked(x) ==
    IF x.left = NoNode THEN x.right ELSE [Splay(x.left, x.key) EXCEPT !.right = x.right]

\* The nodes in the order of the stack of _evict_coldest.
Nodes(x) ==
    LET nodes[y \in Subtrees(x)] ==
            IF y = NoNode THEN <<>> ELSE <<y>> \o nodes[y.right] \o nodes[y.left]
    IN  nodes[x]

\* The first node with the least time.
ColdestKey(x) ==
    LET all == Nodes(x)
        first == CHOOSE i \in DOMAIN all :
                    \A j \in DOMAIN all : all[i].at < all[j].at \/ (all[i].at = all[j].at /\ i <= j)
    IN  all[first].key

SplayInit == root = NoNode /\ size = 0 /\ now \in Time /\ answer = Nothing

Touched(x) == [x EXCEPT !.at = now]

Get(k) ==
    LET x == Splay(root, k)  hit == x # NoNode /\ x.key = k
    IN  /\ root' = IF hit THEN Touched(x) ELSE x
        /\ answer' = IF hit THEN x.val ELSE Nothing
        /\ UNCHANGED <<size, now>>

Node(k, v, l, r) == [key |-> k, val |-> v, at |-> now, left |-> l, right |-> r]

\* A new root splits the splayed tree.
Split(x, k, v) ==
    IF k < x.key THEN Node(k, v, x.left, [x EXCEPT !.left = NoNode])
                 ELSE Node(k, v, [x EXCEPT !.right = NoNode], x.right)

Put(k, v) ==
    /\ IF root = NoNode
       THEN root' = Node(k, v, NoNode, NoNode) /\ size' = 1
       ELSE LET x == Splay(root, k) IN
            IF x.key = k THEN root' = [Touched(x) EXCEPT !.val = v] /\ UNCHANGED size
            ELSE LET y == Split(x, k, v) IN
                 IF size + 1 > MaxSize
                 THEN root' = Unlinked(Splay(y, ColdestKey(y))) /\ UNCHANGED size
                 ELSE root' = y /\ size' = size + 1
    /\ answer' = Nothing
    /\ UNCHANGED now

Delete(k) ==
    LET x == Splay(root, k)  hit == x # NoNode /\ x.key = k
    IN  /\ root' = IF hit THEN Unlinked(x) ELSE x
        /\ size' = IF hit THEN size - 1 ELSE size
        /\ answer' = hit
        /\ UNCHANGED now

Holds(x, k) ==
    LET holds[y \in Subtrees(x)] ==
            /\ y # NoNode
            /\ y.key = k \/ holds[IF k < y.key THEN y.left ELSE y.right]
    IN  holds[x]

Contains(k) == answer' = Holds(root, k) /\ UNCHANGED <<root, size, now>>

ClearCache == root' = NoNode /\ size' = 0 /\ answer' = Nothing /\ UNCHANGED now

\* The system's clock is read by every call.
Tick == now' \in Time /\ UNCHANGED <<root, size, answer>>

SplayNext ==
    \/ \E k \in Key : Get(k) \/ Delete(k) \/ Contains(k) \/ \E v \in Value : Put(k, v)
    \/ ClearCache \/ Tick

SplaySpec == SplayInit /\ [][SplayNext]_splayVars

-----------------------------------------------------------------------------

\* The map that a tree stands for.
EntriesOf(x) ==
    LET nodes == Subtrees(x) \ {NoNode}
    IN  IF x = NoNode THEN [k \in {} |-> Nothing]
        ELSE [k \in {y.key : y \in nodes} |->
                 LET y == CHOOSE y \in nodes : y.key = k IN [val |-> y.val, at |-> y.at]]

Lru == INSTANCE LruCache WITH entries <- EntriesOf(root)

\* However the calls have turned the tree, it answers as a map of bounded size
\* does, and what it evicts was accessed no later than anything it keeps.
ImplementsLruCache == Lru!Spec
=============================================================================
