------------------------------- MODULE Queue -------------------------------
(* The list macros of lib/queue.h: singly-linked lists (SLIST), singly-linked  *)
(* tail queues (STAILQ), lists (LIST) and tail queues (TAILQ).  The kernel     *)
(* module keeps its filters and its securityfs entries in tail queues.         *)
(*                                                                             *)
(* A cell is a word that holds a pointer to an element: the first field of a   *)
(* head, or the next field of an element.  It is named after the head or the   *)
(* element it lies in, so that an address of a cell (stqh_last, le_prev,       *)
(* tqe_prev, tqh_last) is a head or an element.  The build is the one without  *)
(* QUEUE_MACRO_DEBUG: a removed element keeps its stale pointers.              *)
EXTENDS Integers, SequencesExt

CONSTANTS Heads, Elems, NULL

ASSUME QueueAssumption == Heads \cap Elems = {} /\ NULL \notin Heads \cup Elems

VARIABLES
    kind,   \* which family of macros the program uses for these lists
    next,   \* cell -> element it points to: *_first of a head, *_next of an element
    back,   \* head -> stqh_last or tqh_last, element -> le_prev or tqe_prev
    lists,  \* history: the sequence each head is meant to hold
    loop,   \* the loop of a macro that searches from the first element
    it      \* a FOREACH of the caller, with what it has visited

queueVars == <<kind, next, back, lists, loop, it>>

Cells == Heads \cup Elems
Kinds == {"SLIST", "STAILQ", "LIST", "TAILQ"}
HasLast == kind \in {"STAILQ", "TAILQ"}
HasPrev == kind \in {"LIST", "TAILQ"}

Listed(h) == Range(lists[h])
Unlisted == Elems \ UNION {Listed(h) : h \in Heads}

NoLoop == [op |-> "none", h |-> NULL, other |-> NULL, elm |-> NULL, cur |-> NULL]
NoIter == [form |-> "none", h |-> NULL, var |-> NULL, tvar |-> NULL,
           seen |-> <<>>, due |-> <<>>]

(* *p = v where p may be NULL: the write happens only behind the NULL test. *)
Put(f, p, v) == IF p = NULL THEN f ELSE [f EXCEPT ![p] = v]

SetLast(h, c) == [back EXCEPT ![h] = c]
-----------------------------------------------------------------------------
(* Singly-linked lists: only the next pointers. *)

SLIST_INSERT_AFTER(at, e) ==
    next' = [next EXCEPT ![e] = next[at], ![at] = e] /\ UNCHANGED back

SLIST_INSERT_HEAD(h, e) ==
    next' = [next EXCEPT ![e] = next[h], ![h] = e] /\ UNCHANGED back

SLIST_REMOVE_AFTER(at) ==
    next' = [next EXCEPT ![at] = next[next[at]]] /\ UNCHANGED back

SLIST_REMOVE_HEAD(h) ==
    next' = [next EXCEPT ![h] = next[next[h]]] /\ UNCHANGED back

(* varp of SLIST_FOREACH_PREVPTR: the address of the cell that holds elm. *)
SLIST_REMOVE_PREVPTR(prevp, e) ==
    next' = [next EXCEPT ![prevp] = next[e]] /\ UNCHANGED back

SLIST_SWAP(h1, h2) ==
    next' = [next EXCEPT ![h1] = next[h2], ![h2] = next[h1]] /\ UNCHANGED back

(* cur is NULL when head1 was empty, otherwise where the loop stopped. *)
SLIST_CONCAT(h1, h2, cur) ==
    /\ next' = IF cur = NULL
               THEN [next EXCEPT ![h1] = next[h2], ![h2] = NULL]
               ELSE IF next[h2] # NULL
               THEN [next EXCEPT ![cur] = next[h2], ![h2] = NULL]
               ELSE next
    /\ UNCHANGED back
-----------------------------------------------------------------------------
(* Singly-linked tail queues: back[h] is stqh_last, the last next cell. *)

STAILQ_CONCAT(h1, h2) ==
    IF next[h2] = NULL THEN UNCHANGED <<next, back>>
    ELSE /\ next' = [next EXCEPT ![back[h1]] = next[h2], ![h2] = NULL]
         /\ back' = [back EXCEPT ![h1] = back[h2], ![h2] = h2]

STAILQ_INSERT_AFTER(h, at, e) ==
    /\ next' = [next EXCEPT ![e] = next[at], ![at] = e]
    /\ back' = IF next[at] = NULL THEN SetLast(h, e) ELSE back

STAILQ_INSERT_HEAD(h, e) ==
    /\ next' = [next EXCEPT ![e] = next[h], ![h] = e]
    /\ back' = IF next[h] = NULL THEN SetLast(h, e) ELSE back

STAILQ_INSERT_TAIL(h, e) ==
    /\ next' = [next EXCEPT ![e] = NULL, ![back[h]] = e]
    /\ back' = SetLast(h, e)

STAILQ_LAST(h) == IF next[h] = NULL THEN NULL ELSE back[h]

STAILQ_REMOVE_AFTER(h, at) ==
    /\ next' = [next EXCEPT ![at] = next[next[at]]]
    /\ back' = IF next[next[at]] = NULL THEN SetLast(h, at) ELSE back

STAILQ_REMOVE_HEAD(h) ==
    /\ next' = [next EXCEPT ![h] = next[next[h]]]
    /\ back' = IF next[next[h]] = NULL THEN SetLast(h, h) ELSE back

STAILQ_SWAP(h1, h2) ==
    /\ next' = [next EXCEPT ![h1] = next[h2], ![h2] = next[h1]]
    /\ back' = [back EXCEPT ![h1] = IF next[h2] = NULL THEN h1 ELSE back[h2],
                            ![h2] = IF next[h1] = NULL THEN h2 ELSE back[h1]]
-----------------------------------------------------------------------------
(* Lists: back[e] is le_prev, the cell that points to e. *)

LIST_CONCAT(h1, h2, cur) ==
    IF next[h2] = NULL THEN UNCHANGED <<next, back>>
    ELSE LET at == IF cur = NULL THEN h1 ELSE cur
         IN /\ next' = [next EXCEPT ![at] = next[h2], ![h2] = NULL]
            /\ back' = [back EXCEPT ![next[h2]] = at]

LIST_INSERT_AFTER(at, e) ==
    /\ next' = [next EXCEPT ![e] = next[at], ![at] = e]
    /\ back' = [Put(back, next[at], e) EXCEPT ![e] = at]

LIST_INSERT_BEFORE(at, e) ==
    /\ next' = [next EXCEPT ![e] = at, ![back[at]] = e]
    /\ back' = [back EXCEPT ![e] = back[at], ![at] = e]

LIST_INSERT_HEAD(h, e) ==
    /\ next' = [next EXCEPT ![e] = next[h], ![h] = e]
    /\ back' = [Put(back, next[h], e) EXCEPT ![e] = h]

LIST_PREV(e, h) == IF back[e] = h THEN NULL ELSE back[e]

LIST_REMOVE(e) ==
    /\ next' = [next EXCEPT ![back[e]] = next[e]]
    /\ back' = Put(back, next[e], back[e])

LIST_SWAP(h1, h2) ==
    /\ next' = [next EXCEPT ![h1] = next[h2], ![h2] = next[h1]]
    /\ back' = Put(Put(back, next[h2], h1), next[h1], h2)
-----------------------------------------------------------------------------
(* Tail queues: both kinds of back pointers. *)

TAILQ_CONCAT(h1, h2) ==
    IF next[h2] = NULL THEN UNCHANGED <<next, back>>
    ELSE /\ next' = [next EXCEPT ![back[h1]] = next[h2], ![h2] = NULL]
         /\ back' = [back EXCEPT ![next[h2]] = back[h1], ![h1] = back[h2], ![h2] = h2]

TAILQ_INSERT_AFTER(h, at, e) ==
    /\ next' = [next EXCEPT ![e] = next[at], ![at] = e]
    /\ back' = [back EXCEPT ![IF next[at] # NULL THEN next[at] ELSE h] = e, ![e] = at]

TAILQ_INSERT_BEFORE(at, e) ==
    /\ next' = [next EXCEPT ![e] = at, ![back[at]] = e]
    /\ back' = [back EXCEPT ![e] = back[at], ![at] = e]

TAILQ_INSERT_HEAD(h, e) ==
    /\ next' = [next EXCEPT ![e] = next[h], ![h] = e]
    /\ back' = [back EXCEPT ![IF next[h] # NULL THEN next[h] ELSE h] = e, ![e] = h]

TAILQ_INSERT_TAIL(h, e) ==
    /\ next' = [next EXCEPT ![e] = NULL, ![back[h]] = e]
    /\ back' = [back EXCEPT ![e] = back[h], ![h] = e]

(* Both read the last cell of the previous cell through a cast that takes an *)
(* element's pair of pointers for a head.                                    *)
TAILQ_LAST(h) == next[back[back[h]]]

TAILQ_LAST_FAST(h) == IF next[h] = NULL THEN NULL ELSE back[h]

TAILQ_PREV(e) == next[back[back[e]]]

TAILQ_PREV_FAST(e, h) == IF back[e] = h THEN NULL ELSE back[e]

(* Mutant: tqh_last stays with an element that is removed last. *)
TAILQ_REMOVE_KEEPING_LAST(h, e) ==
    /\ next' = [next EXCEPT ![back[e]] = next[e]]
    /\ back' = Put(back, next[e], back[e])

TAILQ_REMOVE(h, e) ==
    /\ next' = [next EXCEPT ![back[e]] = next[e]]
    /\ back' = [back EXCEPT ![IF next[e] # NULL THEN next[e] ELSE h] = back[e]]

TAILQ_SWAP(h1, h2) ==
    /\ next' = [next EXCEPT ![h1] = next[h2], ![h2] = next[h1]]
    /\ back' = [c \in Cells |->
                  CASE c = h1 -> IF next[h2] = NULL THEN h1 ELSE back[h2]
                    [] c = h2 -> IF next[h1] = NULL THEN h2 ELSE back[h1]
                    [] c = next[h2] -> h1
                    [] c = next[h1] -> h2
                    [] OTHER -> back[c]]
-----------------------------------------------------------------------------
(* The calls a program makes.  h and at are in use, e is on no list. *)

INIT(h) == next[h] = NULL /\ back[h] = h

QueueInit ==
    /\ kind \in Kinds
    /\ next = [c \in Cells |-> NULL] /\ back = [c \in Cells |-> IF c \in Heads THEN c ELSE NULL]
    /\ \A h \in Heads : INIT(h)
    /\ lists = [h \in Heads |-> <<>>] /\ loop = NoLoop /\ it = NoIter

Inserted(h, i, e) == lists' = [lists EXCEPT ![h] = InsertAt(@, i, e)]
Removed(h, i) == lists' = [lists EXCEPT ![h] = RemoveAt(@, i)]

InsertHead(h, e) ==
    /\ \/ kind = "SLIST" /\ SLIST_INSERT_HEAD(h, e)
       \/ kind = "STAILQ" /\ STAILQ_INSERT_HEAD(h, e)
       \/ kind = "LIST" /\ LIST_INSERT_HEAD(h, e)
       \/ kind = "TAILQ" /\ TAILQ_INSERT_HEAD(h, e)
    /\ Inserted(h, 1, e) /\ UNCHANGED <<kind, loop>>

InsertTail(h, e) ==
    /\ \/ kind = "STAILQ" /\ STAILQ_INSERT_TAIL(h, e)
       \/ kind = "TAILQ" /\ TAILQ_INSERT_TAIL(h, e)
    /\ Inserted(h, Len(lists[h]) + 1, e) /\ UNCHANGED <<kind, loop>>

InsertAfter(h, i, e) ==
    LET at == lists[h][i]
    IN /\ \/ kind = "SLIST" /\ SLIST_INSERT_AFTER(at, e)
          \/ kind = "STAILQ" /\ STAILQ_INSERT_AFTER(h, at, e)
          \/ kind = "LIST" /\ LIST_INSERT_AFTER(at, e)
          \/ kind = "TAILQ" /\ TAILQ_INSERT_AFTER(h, at, e)
       /\ Inserted(h, i + 1, e) /\ UNCHANGED <<kind, loop>>

InsertBefore(h, i, e) ==
    /\ \/ kind = "LIST" /\ LIST_INSERT_BEFORE(lists[h][i], e)
       \/ kind = "TAILQ" /\ TAILQ_INSERT_BEFORE(lists[h][i], e)
    /\ Inserted(h, i, e) /\ UNCHANGED <<kind, loop>>

RemoveHead(h) ==
    /\ \/ kind = "SLIST" /\ SLIST_REMOVE_HEAD(h)
       \/ kind = "STAILQ" /\ STAILQ_REMOVE_HEAD(h)
    /\ Removed(h, 1) /\ UNCHANGED <<kind, loop>>

RemoveAfter(h, i) ==
    /\ \/ kind = "SLIST" /\ SLIST_REMOVE_AFTER(lists[h][i])
       \/ kind = "STAILQ" /\ STAILQ_REMOVE_AFTER(h, lists[h][i])
    /\ Removed(h, i + 1) /\ UNCHANGED <<kind, loop>>

(* SLIST_FOREACH_PREVPTR up to the element at i, and out of the loop with it. *)
RemovePrevptr(h, i) ==
    /\ kind = "SLIST"
    /\ SLIST_REMOVE_PREVPTR(IF i = 1 THEN h ELSE lists[h][i - 1], lists[h][i])
    /\ Removed(h, i) /\ UNCHANGED <<kind, loop>>

(* SLIST_REMOVE and STAILQ_REMOVE search for the element before elm. *)
RemoveSearching(h, e) ==
    IF next[h] = e THEN RemoveHead(h)
    ELSE /\ kind \in {"SLIST", "STAILQ"}
         /\ loop' = [op |-> "remove", h |-> h, other |-> NULL, elm |-> e, cur |-> next[h]]
         /\ UNCHANGED <<kind, next, back, lists>>

RemoveDirect(h, i) ==
    /\ \/ kind = "LIST" /\ LIST_REMOVE(lists[h][i])
       \/ kind = "TAILQ" /\ TAILQ_REMOVE(h, lists[h][i])
    /\ Removed(h, i) /\ UNCHANGED <<kind, loop>>

Joined(h1, h2) == lists' = [lists EXCEPT ![h1] = @ \o lists[h2], ![h2] = <<>>]

(* SLIST_CONCAT and LIST_CONCAT search for the end of head1, unless one of *)
(* the lists is empty.                                                     *)
Concat(h1, h2) ==
    IF kind \in {"SLIST", "LIST"} /\ next[h1] # NULL /\ next[h2] # NULL
    THEN /\ loop' = [op |-> "concat", h |-> h1, other |-> h2, elm |-> NULL, cur |-> next[h1]]
         /\ UNCHANGED <<kind, next, back, lists>>
    ELSE /\ \/ kind = "SLIST" /\ SLIST_CONCAT(h1, h2, next[h1])
            \/ kind = "LIST" /\ LIST_CONCAT(h1, h2, next[h1])
            \/ kind = "STAILQ" /\ STAILQ_CONCAT(h1, h2)
            \/ kind = "TAILQ" /\ TAILQ_CONCAT(h1, h2)
         /\ Joined(h1, h2) /\ UNCHANGED <<kind, loop>>

Swap(h1, h2) ==
    /\ \/ kind = "SLIST" /\ SLIST_SWAP(h1, h2)
       \/ kind = "STAILQ" /\ STAILQ_SWAP(h1, h2)
       \/ kind = "LIST" /\ LIST_SWAP(h1, h2)
       \/ kind = "TAILQ" /\ TAILQ_SWAP(h1, h2)
    /\ lists' = [lists EXCEPT ![h1] = lists[h2], ![h2] = lists[h1]]
    /\ UNCHANGED <<kind, loop>>

(* One turn of a search: it ends on the element whose next is the one sought. *)
SearchStep ==
    IF next[loop.cur] # loop.elm
    THEN /\ loop' = [loop EXCEPT !.cur = next[loop.cur]]
         /\ UNCHANGED <<kind, next, back, lists>>
    ELSE /\ \/ /\ loop.op = "remove" /\ kind = "SLIST" /\ SLIST_REMOVE_AFTER(loop.cur)
            \/ /\ loop.op = "remove" /\ kind = "STAILQ" /\ STAILQ_REMOVE_AFTER(loop.h, loop.cur)
            \/ /\ loop.op = "concat" /\ kind = "SLIST" /\ SLIST_CONCAT(loop.h, loop.other, loop.cur)
            \/ /\ loop.op = "concat" /\ kind = "LIST" /\ LIST_CONCAT(loop.h, loop.other, loop.cur)
         /\ IF loop.op = "concat" THEN Joined(loop.h, loop.other)
            ELSE \E i \in 1..Len(lists[loop.h]) : lists[loop.h][i] = loop.elm /\ Removed(loop.h, i)
         /\ loop' = NoLoop /\ UNCHANGED kind

Calls ==
    \/ \E h \in Heads, e \in Unlisted :
        \/ InsertHead(h, e)
        \/ InsertTail(h, e)
        \/ \E i \in 1..Len(lists[h]) : InsertAfter(h, i, e) \/ InsertBefore(h, i, e)
    \/ \E h \in Heads : \E i \in 1..Len(lists[h]) :
        \/ i = 1 /\ RemoveHead(h)
        \/ i < Len(lists[h]) /\ RemoveAfter(h, i)
        \/ RemovePrevptr(h, i)
        \/ RemoveSearching(h, lists[h][i])
        \/ RemoveDirect(h, i)
    \/ \E h1, h2 \in Heads : h1 # h2 /\ (Concat(h1, h2) \/ Swap(h1, h2))
-----------------------------------------------------------------------------
(* Traversals.  form is "forward", "safe", "reverse" or "reverse_safe".  Only  *)
(* in the safe forms may the body take the element it stands on off the list.  *)

Safe(form) == form \in {"safe", "reverse_safe"}
Backwards(form) == form \in {"reverse", "reverse_safe"}

Following(form, e) == IF Backwards(form) THEN TAILQ_PREV(e) ELSE next[e]

(* The condition of the for: the safe forms read the successor ahead of the body. *)
Arrive(form, h, var, seen, due) ==
    it' = IF var = NULL THEN NoIter
          ELSE [form |-> form, h |-> h, var |-> var,
                tvar |-> IF Safe(form) THEN Following(form, var) ELSE NULL,
                seen |-> Append(seen, var), due |-> due]

(* TAILQ_FOREACH, TAILQ_FOREACH_SAFE and their _FROM forms, which start at the *)
(* element i unless var is NULL (i = 0).                                       *)
FOREACH(form, h, i) ==
    /\ form \in {"forward", "safe"}
    /\ Arrive(form, h, IF i = 0 THEN next[h] ELSE lists[h][i], <<>>,
              SubSeq(lists[h], IF i = 0 THEN 1 ELSE i, Len(lists[h])))

FOREACH_REVERSE(form, h, i) ==
    /\ form \in {"reverse", "reverse_safe"} /\ kind = "TAILQ"
    /\ Arrive(form, h, IF i = 0 THEN TAILQ_LAST(h) ELSE lists[h][i], <<>>,
              Reverse(SubSeq(lists[h], 1, IF i = 0 THEN Len(lists[h]) ELSE i)))

Start ==
    \E form \in {"forward", "safe", "reverse", "reverse_safe"}, h \in Heads :
        \E i \in 0..Len(lists[h]) :
            /\ FOREACH(form, h, i) \/ FOREACH_REVERSE(form, h, i)
            /\ UNCHANGED <<kind, next, back, lists, loop>>

(* Mutant: every loop reads the successor after its body. *)
AdvanceLate ==
    /\ Arrive(it.form, it.h, Following(it.form, it.var), it.seen, it.due)
    /\ UNCHANGED <<kind, next, back, lists, loop>>

Advance ==
    /\ Arrive(it.form, it.h, IF Safe(it.form) THEN it.tvar ELSE Following(it.form, it.var),
              it.seen, it.due)
    /\ UNCHANGED <<kind, next, back, lists, loop>>

(* The body of a safe loop drops the element, and may put it on another list; *)
(* the body of a plain loop may add one after the element it stands on.       *)
BodyRemoves ==
    /\ Safe(it.form) /\ it.var \in Listed(it.h)
    /\ \E i \in 1..Len(lists[it.h]) :
        lists[it.h][i] = it.var /\ (RemoveSearching(it.h, it.var) \/ RemoveDirect(it.h, i))
    /\ UNCHANGED it

BodyMoves ==
    /\ Safe(it.form) /\ it.var \in Unlisted
    /\ \E h \in Heads \ {it.h} : InsertHead(h, it.var)
    /\ UNCHANGED it

BodyInserts ==
    /\ it.form = "forward"
    /\ \E i \in 1..Len(lists[it.h]), e \in Unlisted :
        /\ lists[it.h][i] = it.var /\ InsertAfter(it.h, i, e)
        /\ it' = [it EXCEPT !.due = InsertAt(@, Len(it.seen) + 1, e)]

Traversal == it # NoIter /\ (Advance \/ BodyRemoves \/ BodyMoves \/ BodyInserts)

QueueNext ==
    \/ loop # NoLoop /\ SearchStep /\ UNCHANGED it
    \/ loop = NoLoop /\ it = NoIter /\ Calls /\ UNCHANGED it
    \/ loop = NoLoop /\ it = NoIter /\ Start
    \/ loop = NoLoop /\ Traversal

QueueSpec == QueueInit /\ [][QueueNext]_queueVars
-----------------------------------------------------------------------------
(* The checks of a build with INVARIANTS; each is FALSE where the macro panics. *)

QMD_SLIST_CHECK_PREVPTR(prevp, e) == next[prevp] = e

QMD_LIST_CHECK_HEAD(h) == next[h] # NULL => back[next[h]] = h

QMD_LIST_CHECK_NEXT(e) == next[e] # NULL => back[next[e]] = e

QMD_LIST_CHECK_PREV(e) == next[back[e]] = e

QMD_TAILQ_CHECK_HEAD(h) == next[h] # NULL => back[next[h]] = h

QMD_TAILQ_CHECK_TAIL(h) == next[back[h]] = NULL

QMD_TAILQ_CHECK_NEXT(e) == next[e] # NULL => back[next[e]] = e

QMD_TAILQ_CHECK_PREV(e) == next[back[e]] = e

Cell(h, i) == IF i = 0 THEN h ELSE lists[h][i]

QueueTypeOK ==
    /\ kind \in Kinds
    /\ next \in [Cells -> Elems \cup {NULL}]
    /\ back \in [Cells -> Cells \cup {NULL}]
    /\ lists \in [Heads -> Seq(Elems)]

(* After any calls of any of the four families the pointers spell exactly the   *)
(* sequences the calls describe: each list runs through its elements in order   *)
(* and ends, no element is on it twice or on two lists, stqh_last and tqh_last  *)
(* address the last next cell, and le_prev and tqe_prev the cell that points    *)
(* to the element.  A removed element's stale pointers are harmless.     *)
ListsAreSequences ==
    /\ \A h \in Heads : \A i \in 0..Len(lists[h]) :
          next[Cell(h, i)] = IF i < Len(lists[h]) THEN lists[h][i + 1] ELSE NULL
    /\ \A g, h \in Heads : \A i \in 1..Len(lists[g]), j \in 1..Len(lists[h]) :
          lists[g][i] = lists[h][j] => g = h /\ i = j
    /\ HasLast => \A h \in Heads : back[h] = Cell(h, Len(lists[h]))
    /\ HasPrev => \A h \in Heads : \A i \in 1..Len(lists[h]) : back[lists[h][i]] = Cell(h, i - 1)

(* Where the element before i is, or NULL, and NULL after the last. *)
Before(h, i) == IF i = 1 THEN NULL ELSE lists[h][i - 1]
LastOf(h) == IF lists[h] = <<>> THEN NULL ELSE lists[h][Len(lists[h])]

(* None of the consistency checks of queue.h would panic on an element that is  *)
(* on a list, and the macros that look backwards, by the cast to a head or by   *)
(* address arithmetic, find the neighbour and the last element.                 *)
LookupsAgree ==
    \A h \in Heads :
        /\ kind = "STAILQ" => STAILQ_LAST(h) = LastOf(h)
        /\ kind = "LIST" => QMD_LIST_CHECK_HEAD(h)
        /\ kind = "TAILQ" => /\ QMD_TAILQ_CHECK_HEAD(h) /\ QMD_TAILQ_CHECK_TAIL(h)
                             /\ TAILQ_LAST(h) = LastOf(h) /\ TAILQ_LAST_FAST(h) = LastOf(h)
        /\ \A i \in 1..Len(lists[h]) :
            LET e == lists[h][i]
            IN /\ kind = "SLIST" => QMD_SLIST_CHECK_PREVPTR(Cell(h, i - 1), e)
               /\ kind = "LIST" => /\ QMD_LIST_CHECK_NEXT(e) /\ QMD_LIST_CHECK_PREV(e)
                                   /\ LIST_PREV(e, h) = Before(h, i)
               /\ kind = "TAILQ" => /\ QMD_TAILQ_CHECK_NEXT(e) /\ QMD_TAILQ_CHECK_PREV(e)
                                    /\ TAILQ_PREV(e) = Before(h, i)
                                    /\ TAILQ_PREV_FAST(e, h) = Before(h, i)

(* A traversal that ends has visited, once each and in the order of its list,   *)
(* the elements that were ahead of it when it started and those its body added  *)
(* behind the element it stood on, whichever elements a _SAFE body removed or   *)
(* moved to another list on the way.                                            *)
TraversalIsComplete == [][it # NoIter /\ it' = NoIter => it.seen = it.due]_queueVars
=============================================================================
