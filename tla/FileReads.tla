----------------------------- MODULE FileReads ------------------------------
(* The readers of daemon/lua_xattr.c (get and list) and daemon/lua_fs.c       *)
(* (readfile), while other processes change the file: each asks the kernel     *)
(* more than once.  A value or a list is as large as it has elements.          *)
EXTENDS Integers, FiniteSets, Sequences

CONSTANTS
    AttrNames,   \* names of extended attributes
    Margin,      \* the 256 bytes that list allocates beyond the size it was told
    Versions,    \* what the file may contain
    Chunk        \* LUAL_BUFFERSIZE

Bytes == UNION {{v[i] : i \in DOMAIN v} : v \in Versions}

ASSUME ReadsAssumption == Versions \subseteq Seq(Bytes) /\ Chunk \in Nat \ {0}

Retries == 3
NoCall == [op |-> "none", pc |-> "none", size |-> 0, retries |-> 0, text |-> <<>>, open |-> <<>>]

VARIABLES
    attrs,      \* the attributes of the file
    content,    \* what it contains
    call,       \* the call that runs; open: the contents of the file it has opened
    buffers,    \* buffers allocated and not freed
    seen,       \* history: the attributes and the contents there were during the call
    result,     \* what the last call returned: ok, error (nil and a message) or raised
    inplace,    \* history: a file was changed other than by replacing it
    cut         \* history: a read failed

readVars == <<attrs, content, call, buffers, seen, result, inplace, cut>>

NoResult == [op |-> "none", how |-> "none", attrs |-> {}, text |-> <<>>]

ReadInit ==
    /\ attrs \in SUBSET AttrNames /\ content \in Versions
    /\ call = NoCall /\ buffers = 0 /\ result = NoResult
    /\ seen = [attrs |-> {}, content |-> {}] /\ inplace = FALSE /\ cut = FALSE

-----------------------------------------------------------------------------
(* Others: setxattr and removexattr, a rename over the path, a write in place, *)
(* which an open file shows as well; only what a call can see is followed.     *)
attrs_change ==
    /\ call.op \in {"get", "list"}
    /\ attrs' \in SUBSET AttrNames \ {attrs}
    /\ seen' = [seen EXCEPT !.attrs = @ \cup {attrs'}]
    /\ UNCHANGED <<content, call, buffers, result, inplace, cut>>

file_replaced ==
    /\ call.op = "readfile"
    /\ content' \in Versions \ {content}
    /\ seen' = [seen EXCEPT !.content = @ \cup {content'}]
    /\ UNCHANGED <<attrs, call, buffers, result, inplace, cut>>

file_rewritten ==
    /\ call.op = "readfile" /\ call.open = content
    /\ content' \in Versions \ {content}
    /\ seen' = [seen EXCEPT !.content = @ \cup {content'}] /\ inplace' = TRUE
    /\ call' = [call EXCEPT !.open = content']
    /\ UNCHANGED <<attrs, buffers, result, cut>>

-----------------------------------------------------------------------------
Begin(op) ==
    /\ call = NoCall
    /\ call' = [NoCall EXCEPT !.op = op, !.pc = "size", !.retries = Retries]
    /\ seen' = IF op = "readfile" THEN [attrs |-> {}, content |-> {content}]
               ELSE [attrs |-> {attrs}, content |-> {}]
    /\ result' = NoResult /\ inplace' = FALSE /\ cut' = FALSE
    /\ UNCHANGED <<attrs, content, buffers>>

At(op, pc) == call.op = op /\ call.pc = pc

Returns(how, a, t) ==
    /\ call' = NoCall
    /\ result' = [op |-> call.op, how |-> how, attrs |-> a, text |-> t]
    /\ UNCHANGED <<attrs, content, seen, inplace, cut>>

Goes(c) == call' = c /\ UNCHANGED <<attrs, content, seen, result, inplace, cut>>

(* get: the value is as long as the size it was told or shorter; an attribute *)
(* that grew is an error.  One attribute stands for the value here: the       *)
(* elements of attrs.                                                         *)
file_get_size ==
    /\ At("get", "size") /\ UNCHANGED buffers
    /\ \/ Returns("error", {}, <<>>)
       \/ attrs = {} /\ Returns("ok", {}, <<>>)
       \/ attrs # {} /\ Goes([call EXCEPT !.pc = "read", !.size = Cardinality(attrs)])

file_get ==
    /\ At("get", "read") /\ UNCHANGED buffers
    /\ \/ Returns("error", {}, <<>>)
       \/ Cardinality(attrs) <= call.size /\ Returns("ok", attrs, <<>>)

(* list: the size, then the names into a buffer with a margin. *)
file_list_size ==
    /\ At("list", "size") /\ UNCHANGED buffers
    /\ \/ Returns("error", {}, <<>>)
       \/ attrs = {} /\ Returns("ok", {}, <<>>)
       \/ attrs # {} /\ Goes([call EXCEPT !.pc = "read", !.size = Cardinality(attrs)])

file_list_alloc ==
    /\ At("list", "read") /\ buffers = 0
    /\ buffers' = 1 /\ UNCHANGED <<attrs, content, call, seen, result, inplace, cut>>

(* Mutant: a list that does not fit is cut short. *)
file_list_short ==
    /\ At("list", "read") /\ buffers = 1
    /\ buffers' = 0
    /\ Returns("ok", CHOOSE a \in SUBSET attrs : Cardinality(a) <= call.size + Margin
                        /\ (Cardinality(attrs) <= call.size + Margin => a = attrs), <<>>)

(* ERANGE: the buffer is freed and the size asked for again; the third time is *)
(* the last.                                                                   *)
file_list ==
    /\ At("list", "read") /\ buffers = 1
    /\ buffers' = 0
    /\ \/ Returns("error", {}, <<>>)
       \/ Cardinality(attrs) <= call.size + Margin /\ Returns("ok", attrs, <<>>)
       \/ Cardinality(attrs) > call.size + Margin /\ Goes([call EXCEPT !.pc = "again"])

file_list_again ==
    /\ At("list", "again") /\ UNCHANGED buffers
    /\ \/ Returns("error", {}, <<>>)
       \/ call.retries = 1 /\ Returns("raised", {}, <<>>)
       \/ call.retries > 1 /\ Goes([call EXCEPT !.pc = "read", !.size = Cardinality(attrs),
                                               !.retries = @ - 1])

-----------------------------------------------------------------------------
readfile_open ==
    /\ At("readfile", "size") /\ UNCHANGED buffers
    /\ \/ Returns("error", {}, <<>>)
       \/ Goes([call EXCEPT !.pc = "read", !.open = content])

Least(a, b) == IF a < b THEN a ELSE b

(* Mutant: the file is opened again for each chunk. *)
readfile_reopens ==
    LET at == Len(call.text)
        n == Least(Chunk, Len(content) - at)
    IN /\ At("readfile", "read") /\ UNCHANGED buffers
       /\ IF n <= 0 THEN Returns("ok", {}, call.text)
          ELSE Goes([call EXCEPT !.text = @ \o SubSeq(content, at + 1, at + n)])

(* fread gives 0 at the end of the file and where it fails. *)
L_readfile ==
    LET at == Len(call.text)
        n == Least(Chunk, Len(call.open) - at)
    IN /\ At("readfile", "read") /\ UNCHANGED buffers
       /\ \/ /\ n <= 0 /\ Returns("ok", {}, call.text)
          \/ /\ n > 0 /\ Goes([call EXCEPT !.text = @ \o SubSeq(call.open, at + 1, at + n)])
          \/ /\ cut' = TRUE /\ call' = NoCall
             /\ result' = [op |-> call.op, how |-> "ok", attrs |-> {}, text |-> call.text]
             /\ UNCHANGED <<attrs, content, seen, inplace>>

ReadStep ==
    \/ file_get_size \/ file_get
    \/ file_list_size \/ file_list_alloc \/ file_list \/ file_list_again
    \/ readfile_open \/ L_readfile

ReadNext ==
    \/ ReadStep
    \/ \E op \in {"get", "list", "readfile"} : Begin(op)
    \/ attrs_change \/ file_replaced \/ file_rewritten

ReadSpec == ReadInit /\ [][ReadNext]_readVars

-----------------------------------------------------------------------------
(* A call that succeeds returns what the file had at some moment of the call,   *)
(* though it asks the kernel several times and others change the file between:  *)
(* a list of attributes is never cut to the size of the first answer, and a     *)
(* file that is only ever replaced by a rename is read in one version, unless a *)
(* read fails, which readfile takes for the end of the file; and no buffer is   *)
(* left behind.                                                                 *)
ReadsAreSnapshots ==
    /\ result.how = "ok" =>
           CASE result.op \in {"get", "list"} -> result.attrs \in seen.attrs
             [] result.op = "readfile" ->
                    \/ result.text \in seen.content \/ inplace
                    \/ cut /\ \E c \in seen.content :
                           Len(result.text) <= Len(c) /\ result.text = SubSeq(c, 1, Len(result.text))
    /\ call = NoCall => buffers = 0
=============================================================================
