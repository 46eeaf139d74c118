-------------------------------- MODULE Tree --------------------------------
(* The two kinds of trees of lib/tree.h.                                       *)
(*                                                                             *)
(* The rank-balanced tree: a node is named by its key;                         *)
(* the two low bits of a node's up pointer, which say that the edge to its     *)
(* left or right child is long (red), are the set red[n] of directions.  As    *)
(* augmented data every node keeps the size of its subtree.                    *)
(*                                                                             *)
(* The splay tree: a node is named by its key; __node, the node on the stack   *)
(* that the top-down splay hangs the two halves on, is the node 0.             *)
EXTENDS Integers, FiniteSetsExt, SequencesExt

CONSTANTS Nodes, NIL    \* NIL: the null pointer

ASSUME RankTreeAssumption == Nodes \subseteq Nat \ {0} /\ NIL \notin Nodes

VARIABLES
    tree,     \* root, link[n] (left and right child), up[n], red[n], aug[n],
              \* wild: an unassigned child variable was followed, and
              \* stale: a node came in with the data that was computed for it
    keys,     \* history: the keys the calls have put in
    strict,   \* RB_STRICT_HST
    early     \* the program defines RB_AUGMENT_CHECK, which stops the update of
              \* augmented data where nothing changes, not RB_AUGMENT

rankVars == <<tree, keys, strict, early>>

LR == {"L", "R"}
Other(dir) == IF dir = "L" THEN "R" ELSE "L"
Xor(s, t) == (s \ t) \cup (t \ s)

(* What a node outside the tree holds is left over from earlier.  Its links are *)
(* never relied on, its data only if the program defines RB_AUGMENT_CHECK; it   *)
(* is the node taken out last that comes back with its data (a bound), and any  *)
(* other node is new.                                                           *)
Junk(t, n) ==
    LET last == {m \in Nodes \ {n} : t.link[m].L = m /\ t.aug[m] # 0}
        t1 == IF last = {} THEN t ELSE [t EXCEPT !.aug[Min(last)] = 0]
    IN [t1 EXCEPT !.link[n] = [L |-> n, R |-> n], !.up[n] = n, !.red[n] = LR,
                  !.aug[n] = IF early THEN @ ELSE 0]
-----------------------------------------------------------------------------
RB_SET_PARENT(t, dst, src) == [t EXCEPT !.up[dst] = src]

RB_SET(t, elm, parent) ==
    [t EXCEPT !.up[elm] = parent, !.red[elm] = {}, !.link[elm] = [L |-> NIL, R |-> NIL]]

Size(t, n) == IF n = NIL THEN 0 ELSE t.aug[n]

RB_AUGMENT(t, n) ==
    [t EXCEPT !.aug[n] = 1 + Size(t, t.link[n].L) + Size(t, t.link[n].R)]

(* Whether the walk up goes on after n. *)
RB_AUGMENT_CHECK(t, n) == early => RB_AUGMENT(t, n) # t

RB_SWAP_CHILD(t, par, out, in) ==
    IF par = NIL THEN [t EXCEPT !.root = in]
    ELSE IF t.link[par].L = out THEN [t EXCEPT !.link[par].L = in]
    ELSE [t EXCEPT !.link[par].R = in]

RB_ROTATE(t, elm, tmp, dir) ==
    LET moved == t.link[tmp][dir]
        t1 == [t EXCEPT !.link[elm][Other(dir)] = moved]
        t2 == IF moved = NIL THEN t1 ELSE RB_SET_PARENT(t1, moved, elm)
    IN RB_SET_PARENT([t2 EXCEPT !.link[tmp][dir] = elm], elm, tmp)

Flip(t, n, dirs) == [t EXCEPT !.red[n] = Xor(@, dirs)]
DirOf(t, parent, elm) == IF t.link[parent].R = elm THEN "R" ELSE "L"

(* -1 when the subtree is not rank-balanced or its data, where it is still      *)
(* followed, is not what it should be.                                          *)
RECURSIVE RB_RANK(_, _)
RB_RANK(t, n) ==
    IF n = NIL THEN 0
    ELSE LET rank(dir) == (IF dir \in t.red[n] THEN 2 ELSE 1) + RB_RANK(t, t.link[n][dir])
             leaf == t.link[n].L = NIL /\ t.link[n].R = NIL
         IN IF \/ rank("L") # rank("R") \/ (leaf /\ rank("L") = 2)
               \/ ~t.stale /\ RB_AUGMENT(t, n) # t
            THEN -1 ELSE rank("L")
-----------------------------------------------------------------------------
(* The pair of the tree and the node that was rotated up, or NIL.  child is  *)
(* 0, no node, until the loop assigns it.                                     *)
RECURSIVE RB_INSERT_COLOR(_, _, _, _)
RB_INSERT_COLOR(t, parent, elm, child) ==
    LET gpar == t.up[parent]
        bits == t.red[parent]
        elmdir == DirOf(t, parent, elm)
        sibdir == Other(elmdir)
        cleared == [t EXCEPT !.red[parent] = {}]
        inner == elmdir \in t.red[elm]
        turned == RB_ROTATE(cleared, elm, child, elmdir)
        cbits == turned.red[child]
        twice == Flip(IF sibdir \in cbits THEN Flip(turned, parent, {elmdir}) ELSE turned,
                      elm, IF elmdir \in cbits THEN LR ELSE {elmdir})
        top == IF inner THEN child ELSE elm
        low == IF inner /\ cbits = {} THEN child ELSE elm
        up1 == RB_ROTATE(IF inner THEN twice ELSE cleared, parent, top, sibdir)
        up2 == RB_SWAP_CHILD([up1 EXCEPT !.up[top] = gpar, !.red[top] = {}], gpar, parent, top)
        up3 == IF low # top THEN RB_AUGMENT(up2, low) ELSE up2
    IN IF elmdir \in bits THEN <<Flip(t, parent, {elmdir}), NIL>>
       ELSE IF bits = {}
       THEN IF gpar = NIL THEN <<Flip(t, parent, {sibdir}), NIL>>
            ELSE RB_INSERT_COLOR(Flip(t, parent, {sibdir}), gpar, parent, elm)
       ELSE IF inner /\ child = 0 THEN <<[t EXCEPT !.wild = TRUE], NIL>>
       ELSE <<RB_AUGMENT(up3, parent), top>>

(* The tree, and match unless the walk passed it. *)
RECURSIVE RB_AUGMENT_WALK(_, _, _)
RB_AUGMENT_WALK(t, elm, match) ==
    LET left == IF match = elm THEN NIL ELSE match
        t1 == RB_AUGMENT(t, elm)
    IN IF RB_AUGMENT_CHECK(t, elm) /\ t1.up[elm] # NIL
       THEN RB_AUGMENT_WALK(t1, t1.up[elm], left)
       ELSE <<t1, left>>

(* The update that follows an insertion: the walk, then the node rotated up if *)
(* the walk did not pass it.                                                   *)
AugmentMatch(walked) ==
    IF walked[2] = NIL THEN walked[1] ELSE RB_AUGMENT(walked[1], walked[2])

(* The walk stops at once if elm brings along the data it should get.          *)
AugmentInserted(coloured, elm) ==
    LET t == [coloured[1] EXCEPT !.stale = @ \/ ~RB_AUGMENT_CHECK(coloured[1], elm)]
    IN AugmentMatch(RB_AUGMENT_WALK(t, elm, coloured[2]))

(* Mutant: a node is hung into the tree and nothing is rebalanced. *)
RB_INSERT_HUNG(t, parent, dir, elm) ==
    LET set == RB_SET(t, elm, parent)
    IN IF parent = NIL THEN [set EXCEPT !.root = elm] ELSE [set EXCEPT !.link[parent][dir] = elm]

RB_INSERT_FINISH(t, parent, dir, elm) ==
    LET set == RB_SET(t, elm, parent)
        hung == IF parent = NIL THEN [set EXCEPT !.root = elm]
                ELSE [set EXCEPT !.link[parent][dir] = elm]
    IN AugmentInserted(IF parent = NIL THEN <<hung, NIL>>
                       ELSE RB_INSERT_COLOR(hung, parent, elm, 0), elm)

(* Where a search for key k ends: the node, or NIL below parent. *)
RECURSIVE Descend(_, _, _, _)
Descend(t, k, parent, n) ==
    IF n = NIL \/ n = k THEN <<n, parent>>
    ELSE Descend(t, k, n, IF k < n THEN t.link[n].L ELSE t.link[n].R)

RB_INSERT(t, k) ==
    LET end == Descend(t, k, NIL, t.root)
    IN IF end[1] # NIL THEN t
       ELSE RB_INSERT_FINISH(t, end[2], IF end[2] # NIL /\ k > end[2] THEN "R" ELSE "L", k)

RB_FIND(t, k) == Descend(t, k, NIL, t.root)[1]

RECURSIVE NfindFrom(_, _, _, _)
NfindFrom(t, k, n, res) ==
    IF n = NIL THEN res
    ELSE IF k < n THEN NfindFrom(t, k, t.link[n].L, n)
    ELSE IF k > n THEN NfindFrom(t, k, t.link[n].R, res)
    ELSE n

RB_NFIND(t, k) == NfindFrom(t, k, t.root, NIL)

RECURSIVE Farthest(_, _, _)
Farthest(t, n, dir) == IF t.link[n][dir] = NIL THEN n ELSE Farthest(t, t.link[n][dir], dir)

RECURSIVE Climb(_, _, _)
Climb(t, n, dir) ==
    IF t.up[n] # NIL /\ t.link[t.up[n]][dir] = n THEN Climb(t, t.up[n], dir) ELSE t.up[n]

RB_NEXT(t, n) == IF t.link[n].R # NIL THEN Farthest(t, t.link[n].R, "L") ELSE Climb(t, n, "R")

RB_PREV(t, n) == IF t.link[n].L # NIL THEN Farthest(t, t.link[n].L, "R") ELSE Climb(t, n, "L")

RB_MINMAX(t, dir) == IF t.root = NIL THEN NIL ELSE Farthest(t, t.root, dir)

(* next goes right after elm: into its empty right edge, or leftmost below it. *)
RB_INSERT_NEXT(t, elm, next) ==
    IF t.link[elm].R = NIL THEN RB_INSERT_FINISH(t, elm, "R", next)
    ELSE RB_INSERT_FINISH(t, Farthest(t, t.link[elm].R, "L"), "L", next)

RB_INSERT_PREV(t, elm, prev) ==
    IF t.link[elm].L = NIL THEN RB_INSERT_FINISH(t, elm, "L", prev)
    ELSE RB_INSERT_FINISH(t, Farthest(t, t.link[elm].L, "R"), "R", prev)
-----------------------------------------------------------------------------
(* The pair of the tree and the node that was rotated down, or NIL. *)
RECURSIVE RB_REMOVE_COLOR_LOOP(_, _, _)
RB_REMOVE_COLOR_LOOP(t, parent, elm) ==
    LET gpar == t.up[parent]
        elmdir == DirOf(t, parent, elm)
        sibdir == Other(elmdir)
        bits == Xor(t.red[parent], {elmdir})
        sib == t.link[parent][sibdir]
        sbits == Xor(t.red[sib], LR)
        Retry(t1) == IF gpar = NIL THEN <<t1, NIL>> ELSE RB_REMOVE_COLOR_LOOP(t1, gpar, parent)
        inner == sibdir \notin sbits
        star == t.link[sib][elmdir]
        turned == RB_ROTATE(t, sib, star, sibdir)
        stbits == turned.red[star]
        twice == [Flip(Flip(turned, parent, IF elmdir \in stbits THEN LR ELSE {elmdir}),
                       sib, IF sibdir \in stbits THEN LR ELSE {sibdir}) EXCEPT !.red[star] = LR]
        once == IF elmdir \in sbits THEN Flip(t, sib, {sibdir})
                ELSE IF strict /\ elm # NIL THEN Flip(Flip(t, parent, {sibdir}), sib, LR)
                ELSE Flip(Flip(t, parent, {elmdir}), sib, {sibdir})
        top == IF inner THEN star ELSE sib
        up1 == RB_SET_PARENT(RB_ROTATE(IF inner THEN twice ELSE once, parent, top, elmdir), top, gpar)
        up2 == RB_SWAP_CHILD(up1, gpar, parent, top)
    IN IF elmdir \in bits THEN <<[t EXCEPT !.red[parent] = bits], NIL>>
       ELSE IF bits # {} THEN Retry([t EXCEPT !.red[parent] = Xor(bits, LR)])
       ELSE IF sbits = {} THEN Retry([t EXCEPT !.red[sib] = {}])
       ELSE <<IF inner THEN RB_AUGMENT(up2, sib) ELSE up2, parent>>

(* A parent that became a leaf is demoted first. *)
RB_REMOVE_COLOR(t, parent, elm) ==
    IF t.link[parent] = [L |-> elm, R |-> elm]
    THEN LET t1 == [t EXCEPT !.red[parent] = {}]
         IN IF t.up[parent] = NIL THEN <<t1, NIL>>
            ELSE RB_REMOVE_COLOR_LOOP(t1, t.up[parent], parent)
    ELSE RB_REMOVE_COLOR_LOOP(t, parent, elm)

(* The new tree, with the node that takes the place of out, the child that   *)
(* moves up and its new parent.                                              *)
Unlinked(t, out) ==
    LET child == t.link[out].L
        right == t.link[out].R
        only == IF right = NIL THEN child ELSE right
        in == Farthest(t, right, "L")
        below == t.link[in].R
        t1 == [RB_SET_PARENT(t, child, in) EXCEPT !.link[in].L = child]
        t2 == IF right = in THEN t1
              ELSE [RB_SET_PARENT(t1, right, in) EXCEPT !.link[in].R = right,
                                                       !.link[t.up[in]].L = below]
        t3 == [t2 EXCEPT !.up[in] = t.up[out], !.red[in] = t.red[out]]
    IN IF right = NIL \/ child = NIL
       THEN [t |-> t, in |-> only, child |-> only, parent |-> t.up[out]]
       ELSE [t |-> t3, in |-> in, child |-> below, parent |-> IF right = in THEN in ELSE t.up[in]]

(* The update that follows a removal: the walk, then the node rotated down and *)
(* its parent if the walk did not pass them.                                   *)
AugmentParents(walked) ==
    IF walked[2] = NIL THEN walked[1]
    ELSE RB_AUGMENT(RB_AUGMENT(walked[1], walked[2]), walked[1].up[walked[2]])

AugmentRemoved(coloured, u) ==
    LET t == coloured[1]
        leaf == u.parent = u.in /\ t.link[u.parent].L = NIL
    IN AugmentParents(RB_AUGMENT_WALK(t, IF leaf THEN t.up[u.parent] ELSE u.parent,
                                      IF leaf THEN NIL ELSE coloured[2]))

RemoveUnlinked(t, out, u) ==
    LET t1 == RB_SWAP_CHILD(u.t, t.up[out], out, u.in)
        t2 == IF u.child = NIL THEN t1 ELSE [t1 EXCEPT !.up[u.child] = u.parent, !.red[u.child] = {}]
    IN Junk(IF u.parent = NIL THEN t2
            ELSE AugmentRemoved(RB_REMOVE_COLOR(t2, u.parent, u.child), u), out)

RB_REMOVE(t, out) == RemoveUnlinked(t, out, Unlinked(t, out))

(* A node is named by its key: the tree after n's key became k. *)
Renamed(t, n, k) ==
    LET name(m) == IF m = n THEN k ELSE m
        old(m) == IF m = k THEN n ELSE m
    IN Junk([root |-> name(t.root),
             link |-> [m \in Nodes |-> [d \in LR |-> name(t.link[old(m)][d])]],
             up |-> [m \in Nodes |-> name(t.up[old(m)])],
             red |-> [m \in Nodes |-> t.red[old(m)]],
             aug |-> [m \in Nodes |-> t.aug[old(m)]], wild |-> t.wild, stale |-> t.stale], n)

(* The key of a node in the tree has become k: the node moves only if it is out *)
(* of order, and drops out when another node has the key already.               *)
RB_REINSERT(t, n, k) ==
    IF \/ RB_PREV(t, n) # NIL /\ RB_PREV(t, n) >= k
       \/ RB_NEXT(t, n) # NIL /\ k >= RB_NEXT(t, n)
    THEN LET out == RB_REMOVE(t, n)
         IN IF RB_FIND(out, k) # NIL THEN out
            ELSE RB_INSERT([out EXCEPT !.aug[k] = out.aug[n]], k)
    ELSE Renamed(t, n, k)

(* What a loop visits from x on, and the tree it leaves, when its body removes *)
(* the nodes of kill as it comes to them; dir is the end the loop started at.  *)
RECURSIVE SweepFrom(_, _, _, _, _)
SweepFrom(t, x, kill, dir, seen) ==
    IF x = NIL THEN <<t, seen>>
    ELSE LET y == IF dir = "L" THEN RB_NEXT(t, x) ELSE RB_PREV(t, x)
         IN SweepFrom(IF x \in kill THEN RB_REMOVE(t, x) ELSE t, y, kill, dir, Append(seen, x))

RB_FOREACH_SAFE(t, kill) == SweepFrom(t, RB_MINMAX(t, "L"), kill, "L", <<>>)

RB_FOREACH_REVERSE_SAFE(t, kill) == SweepFrom(t, RB_MINMAX(t, "R"), kill, "R", <<>>)
-----------------------------------------------------------------------------
RankInit ==
    /\ tree = [root |-> NIL, link |-> [n \in Nodes |-> [L |-> n, R |-> n]],
               up |-> [n \in Nodes |-> n], red |-> [n \in Nodes |-> LR],
               aug |-> [n \in Nodes |-> 0], wild |-> FALSE, stale |-> FALSE]
    /\ keys = {} /\ strict \in BOOLEAN /\ early \in BOOLEAN

(* Data that has gone wrong is not followed further. *)
Followed(t) == IF t.stale THEN [t EXCEPT !.aug = [n \in Nodes |-> 0]] ELSE t

(* The node to insert is a new one, or one that was in the tree before. *)
Incoming(k) ==
    {tree} \cup IF k \in keys THEN {} ELSE {[tree EXCEPT !.aug[k] = 0]}

InsertKey(k) ==
    /\ \E t \in Incoming(k) : tree' = Followed(RB_INSERT(t, k))
    /\ keys' = keys \cup {k}

(* A program that knows the neighbour of the new key. *)
InsertNext(n, k) ==
    /\ n < k /\ \A m \in keys : m < k => m <= n
    /\ \E t \in Incoming(k) : tree' = Followed(RB_INSERT_NEXT(t, n, k))
    /\ keys' = keys \cup {k}

InsertPrev(n, k) ==
    /\ k < n /\ \A m \in keys : k < m => n <= m
    /\ \E t \in Incoming(k) : tree' = Followed(RB_INSERT_PREV(t, n, k))
    /\ keys' = keys \cup {k}

RemoveKey(n) == tree' = Followed(RB_REMOVE(tree, n)) /\ keys' = keys \ {n}

Reinsert(n, k) ==
    tree' = Followed(RB_REINSERT(tree, n, k)) /\ keys' = (keys \ {n}) \cup {k}

(* A loop that removes every node.  The trees that the other loops leave are  *)
(* those of RemoveKey; SweepsAreComplete runs them all.                       *)
Sweep(kill) ==
    /\ \E t \in {RB_FOREACH_SAFE(tree, kill)[1], RB_FOREACH_REVERSE_SAFE(tree, kill)[1]} :
         tree' = Followed(t)
    /\ keys' = keys \ kill

RankNext ==
    /\ \/ \E k \in Nodes : InsertKey(k)
       \/ \E n \in keys, k \in Nodes \ keys : InsertNext(n, k) \/ InsertPrev(n, k)
       \/ \E n \in keys : RemoveKey(n) \/ \E k \in Nodes \ {n} : Reinsert(n, k)
       \/ Sweep(keys)
    /\ UNCHANGED <<strict, early>>

RankSpec == RankInit /\ [][RankNext]_rankVars
-----------------------------------------------------------------------------
RECURSIVE Height(_, _)
Height(t, n) ==
    IF n = NIL THEN 0 ELSE 1 + Max({Height(t, t.link[n].L), Height(t, t.link[n].R)})

(* Every sequence of insertions and removals leaves a tree whose ranks add up   *)
(* (RB_RANK), whose height is within the documented 2 lg (n + 1), and on the    *)
(* way to it no insertion follows the child variable of RB_INSERT_COLOR before  *)
(* it is assigned.  RB_RANK also recomputes the augmented data: it is right     *)
(* always with RB_AUGMENT; with RB_AUGMENT_CHECK it is right until a node comes *)
(* in, by an insertion or by RB_REINSERT, that still holds from its last stay   *)
(* in the tree the very data the insertion computes for it, at which the walk   *)
(* of line 830 stops and leaves its new ancestors as they were (stale).         *)
StaysBalanced ==
    /\ RB_RANK(tree, tree.root) # -1
    /\ 2 ^ Height(tree, tree.root) <= (Cardinality(keys) + 1) ^ 2
    /\ ~tree.wild

Least(S) == IF S = {} THEN NIL ELSE Min(S)
Greatest(S) == IF S = {} THEN NIL ELSE Max(S)

(* The tree answers every question as the set of its keys would: membership,    *)
(* the next key at or above a given one, neighbours, minimum and maximum; the   *)
(* neighbours are found through the parent pointers.                            *)
AnswersAsASet ==
    /\ \A k \in Nodes :
        /\ RB_FIND(tree, k) = IF k \in keys THEN k ELSE NIL
        /\ RB_NFIND(tree, k) = Least({m \in keys : m >= k})
    /\ \A n \in keys :
        /\ RB_NEXT(tree, n) = Least({m \in keys : m > n})
        /\ RB_PREV(tree, n) = Greatest({m \in keys : m < n})
    /\ RB_MINMAX(tree, "L") = Least(keys) /\ RB_MINMAX(tree, "R") = Greatest(keys)

(* A loop whose body removes some of the nodes it comes to, with all the        *)
(* rebalancing this takes, still visits every node once and in order.  (No link *)
(* depends on the augmented data, so that trees of one way to compute it do.)   *)
SweepsAreComplete ==
    ~early => \A kill \in SUBSET keys :
        LET up == RB_FOREACH_SAFE(tree, kill)[2]
            down == RB_FOREACH_REVERSE_SAFE(tree, kill)[2]
        IN /\ Range(up) = keys /\ \A i \in 2..Len(up) : up[i - 1] < up[i]
           /\ down = Reverse(up)
-----------------------------------------------------------------------------
(* Splay trees. *)

CONSTANT SplayNodes

ASSUME SplayAssumption == SplayNodes \subseteq Nat \ {0} /\ NIL \notin SplayNodes

VARIABLES
    splay,   \* root, left[n], right[n]
    held,    \* history: the keys the calls have put in
    asked    \* history: the last key asked for and the answer

splayVars == <<splay, held, asked>>

(* tmp is the left (right) child of the root. *)
SPLAY_ROTATE_RIGHT(s, tmp) ==
    [s EXCEPT !.left[s.root] = s.right[tmp], !.right[tmp] = s.root, !.root = tmp]

SPLAY_ROTATE_LEFT(s, tmp) ==
    [s EXCEPT !.right[s.root] = s.left[tmp], !.left[tmp] = s.root, !.root = tmp]

(* The root joins the tree of larger (smaller) nodes; the caller's right (left) *)
(* becomes the old root.                                                        *)
SPLAY_LINKLEFT(s, tmp) == [s EXCEPT !.left[tmp] = s.root, !.root = s.left[s.root]]

SPLAY_LINKRIGHT(s, tmp) == [s EXCEPT !.right[tmp] = s.root, !.root = s.right[s.root]]

SPLAY_ASSEMBLE(s, left, right) ==
    LET s1 == [s EXCEPT !.right[left] = s.left[s.root]]
        s2 == [s1 EXCEPT !.left[right] = s1.right[s1.root]]
        s3 == [s2 EXCEPT !.left[s.root] = s2.right[0]]
    IN [s3 EXCEPT !.right[s.root] = s3.left[0]]

(* Toward(n) is negative when the search goes left of n, positive when it goes *)
(* right, 0 when it stops: the comparison with elm, or a constant.             *)
RECURSIVE SplayLoop(_, _, _, _)
SplayLoop(s, toward, left, right) ==
    LET comp == toward[s.root]
        tmp == IF comp < 0 THEN s.left[s.root] ELSE s.right[s.root]
        s1 == IF comp < 0 /\ toward[tmp] < 0 THEN SPLAY_ROTATE_RIGHT(s, tmp)
              ELSE IF comp > 0 /\ toward[tmp] > 0 THEN SPLAY_ROTATE_LEFT(s, tmp)
              ELSE s
    IN IF comp = 0 \/ tmp = NIL THEN SPLAY_ASSEMBLE(s, left, right)
       ELSE IF comp < 0
       THEN IF s1.left[s1.root] = NIL THEN SPLAY_ASSEMBLE(s1, left, right)
            ELSE SplayLoop(SPLAY_LINKLEFT(s1, right), toward, left, s1.root)
       ELSE IF s1.right[s1.root] = NIL THEN SPLAY_ASSEMBLE(s1, left, right)
            ELSE SplayLoop(SPLAY_LINKRIGHT(s1, left), toward, s1.root, right)

Fresh(s) == [s EXCEPT !.left[0] = NIL, !.right[0] = NIL]

SPLAY(s, k) ==
    SplayLoop(Fresh(s), [n \in SplayNodes |-> IF k < n THEN -1 ELSE IF k > n THEN 1 ELSE 0], 0, 0)

SPLAY_MINMAX(s, comp) == SplayLoop(Fresh(s), [n \in SplayNodes |-> comp], 0, 0)

(* The tree and the answer. *)
SPLAY_FIND(s, k) ==
    IF s.root = NIL THEN <<s, NIL>>
    ELSE LET s1 == SPLAY(s, k) IN <<s1, IF s1.root = k THEN k ELSE NIL>>

RECURSIVE Leftmost(_, _)
Leftmost(s, n) == IF s.left[n] = NIL THEN n ELSE Leftmost(s, s.left[n])

SPLAY_NEXT(s, n) ==
    LET s1 == SPLAY(s, n)
    IN <<s1, IF s1.right[n] = NIL THEN NIL ELSE Leftmost(s1, s1.right[n])>>

SPLAY_MIN_MAX(s, comp) ==
    IF s.root = NIL THEN <<s, NIL>>
    ELSE LET s1 == SPLAY_MINMAX(s, comp) IN <<s1, s1.root>>

SPLAY_INSERT(s, k) ==
    IF s.root = NIL THEN [s EXCEPT !.left[k] = NIL, !.right[k] = NIL, !.root = k]
    ELSE LET s1 == SPLAY(s, k)
             r == s1.root
         IN IF k < r
            THEN [s1 EXCEPT !.left[k] = s1.left[r], !.right[k] = r, !.left[r] = NIL, !.root = k]
            ELSE IF k > r
            THEN [s1 EXCEPT !.right[k] = s1.right[r], !.left[k] = r, !.right[r] = NIL, !.root = k]
            ELSE s1

(* Mutant: the left subtree is not splayed before the right one is hung below it. *)
SPLAY_REMOVE_UNSPLAYED(s, k) ==
    LET s1 == SPLAY(s, k)
    IN IF s.root = NIL THEN s
       ELSE IF s1.root # k THEN s1
       ELSE IF s1.left[k] = NIL THEN [s1 EXCEPT !.root = s1.right[k]]
       ELSE [s1 EXCEPT !.root = s1.left[k], !.right[s1.left[k]] = s1.right[k]]

SPLAY_REMOVE(s, k) ==
    IF s.root = NIL THEN s
    ELSE LET s1 == SPLAY(s, k)
             tmp == s1.right[k]
             s2 == SPLAY([s1 EXCEPT !.root = s1.left[k]], k)
         IN IF s1.root # k THEN s1
            ELSE IF s1.left[k] = NIL THEN [s1 EXCEPT !.root = tmp]
            ELSE [s2 EXCEPT !.right[s2.root] = tmp]
-----------------------------------------------------------------------------
SplayInit ==
    /\ splay = [root |-> NIL, left |-> [n \in SplayNodes \cup {0} |-> NIL],
                right |-> [n \in SplayNodes \cup {0} |-> NIL]]
    /\ held = {} /\ asked = <<"none", NIL, NIL>>

(* __node is gone when the call returns, a removed node is the caller's. *)
Settled(s, in) ==
    [s EXCEPT !.left = [n \in SplayNodes \cup {0} |-> IF n \in in THEN s.left[n] ELSE NIL],
              !.right = [n \in SplayNodes \cup {0} |-> IF n \in in THEN s.right[n] ELSE NIL]]

SplayNext ==
    \/ \E k \in SplayNodes :
        /\ held' = held \cup {k} /\ splay' = Settled(SPLAY_INSERT(splay, k), held')
        /\ asked' = <<"none", NIL, NIL>>
    \/ \E k \in SplayNodes :
        /\ held' = held \ {k} /\ splay' = Settled(SPLAY_REMOVE(splay, k), held')
        /\ asked' = <<"none", NIL, NIL>>
    \/ \E k \in SplayNodes :
        LET a == SPLAY_FIND(splay, k)
        IN splay' = Settled(a[1], held) /\ asked' = <<"find", k, a[2]>> /\ UNCHANGED held
    \/ \E n \in held :
        LET a == SPLAY_NEXT(splay, n)
        IN splay' = Settled(a[1], held) /\ asked' = <<"next", n, a[2]>> /\ UNCHANGED held
    \/ \E comp \in {-1, 1} :
        LET a == SPLAY_MIN_MAX(splay, comp)
        IN splay' = Settled(a[1], held) /\ asked' = <<"minmax", comp, a[2]>> /\ UNCHANGED held

SplaySpec == SplayInit /\ [][SplayNext]_splayVars
-----------------------------------------------------------------------------
RECURSIVE Under(_, _)
Under(s, n) == IF n = NIL THEN {} ELSE {n} \cup Under(s, s.left[n]) \cup Under(s, s.right[n])

(* Although every call, a lookup included, rebuilds the tree, it remains a      *)
(* search tree of exactly the keys put in, with no pointer left to the node on  *)
(* the stack of SPLAY.                                                          *)
SplayKeepsOrder ==
    /\ Under(splay, splay.root) = held
    /\ \A n \in held :
        /\ \A m \in Under(splay, splay.left[n]) : m < n
        /\ \A m \in Under(splay, splay.right[n]) : m > n

(* Lookups answer as the set of keys would, and bring what they found, or a     *)
(* neighbour of the key that is not there, to the root.                         *)
LookupsMoveToRoot ==
    LET k == asked[2]
    IN /\ asked[1] = "find" =>
            /\ asked[3] = (IF k \in held THEN k ELSE NIL)
            /\ held # {} => /\ splay.root <= k => \A m \in held : ~(splay.root < m /\ m <= k)
                            /\ splay.root >= k => \A m \in held : ~(k <= m /\ m < splay.root)
       /\ asked[1] = "next" => splay.root = k /\ asked[3] = Least({m \in held : m > k})
       /\ asked[1] = "minmax" =>
            /\ asked[3] = splay.root
            /\ held # {} => asked[3] = (IF k = -1 THEN Min(held) ELSE Max(held))
=============================================================================
