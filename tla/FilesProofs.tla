----------------------------- MODULE FilesProofs -----------------------------
(* Proofs about files, for any number of processes, failures and versions: the  *)
(* readers of a file that changes (FileReads), and the replacement of a file    *)
(* (AtomicWrite).                                                               *)
EXTENDS AtomicWrite, FileReads, TLAPS

(* Readers of files and attributes. *)
Calls == [op : {"none", "get", "list", "readfile"}, pc : {"none", "size", "read", "again"},
          size : {0} \cup {Cardinality(a) : a \in SUBSET AttrNames}, retries : 0..Retries,
          text : Seq(Bytes), open : Seq(Bytes)]

(* What the text read so far is, if nobody wrote into the open file. *)
ReadFrom(text, c) == Len(text) <= Len(c) /\ text = SubSeq(c, 1, Len(text))

(* What a call knows of the file, and what is left of it when it has returned. *)
CallInv ==
    /\ call \in Calls /\ attrs \in SUBSET AttrNames /\ content \in Versions
    /\ buffers \in {0, 1} /\ (buffers = 1 => At("list", "read"))
    /\ call.op = "none" => call = NoCall
    /\ call.op \in {"get", "list"} => attrs \in seen.attrs
    /\ call.op = "readfile" => content \in seen.content
    /\ At("readfile", "size") => call.text = <<>>
    /\ call.op = "readfile" /\ call.pc # "size" =>
         inplace \/ (call.open \in seen.content /\ ReadFrom(call.text, call.open))
SeenInv == seen \in [attrs : SUBSET SUBSET AttrNames, content : SUBSET Versions]
ResultInv ==
    result.how = "ok" =>
      /\ call.op = "none" /\ result.op \in {"get", "list", "readfile"}
      /\ result.op \in {"get", "list"} => result.attrs \in seen.attrs
      /\ result.op = "readfile" =>
           \/ result.text \in seen.content \/ inplace
           \/ cut /\ \E c \in seen.content : ReadFrom(result.text, c)
ReadInv == CallInv /\ SeenInv /\ ResultInv

(* Two sequences put together. *)
LEMMA Concatenation ==
    ASSUME NEW S, NEW s \in Seq(S), NEW t \in Seq(S)
    PROVE  /\ s \o t \in Seq(S) /\ Len(s \o t) = Len(s) + Len(t)
           /\ \A i \in 1..Len(s) : (s \o t)[i] = s[i]
           /\ \A i \in 1..Len(t) : (s \o t)[Len(s) + i] = t[i]
  OBVIOUS

(* A part of a sequence: what one call of fread has added. *)
LEMMA Part ==
    ASSUME NEW S, NEW s \in Seq(S), NEW k \in Nat, NEW n \in Nat, k + n <= Len(s)
    PROVE  /\ SubSeq(s, k + 1, k + n) \in Seq(S) /\ Len(SubSeq(s, k + 1, k + n)) = n
           /\ \A i \in 1..n : SubSeq(s, k + 1, k + n)[i] = s[k + i]
  OBVIOUS

(* Sequences are equal if their lengths and elements are. *)
LEMMA SameSequence ==
    ASSUME NEW S, NEW s \in Seq(S), NEW t \in Seq(S), Len(s) = Len(t),
           \A i \in 1..Len(s) : s[i] = t[i]
    PROVE  s = t
  OBVIOUS

(* A chunk more of the same file is again its beginning. *)
LEMMA ChunkAppended ==
    ASSUME NEW S, NEW c \in Seq(S), NEW text \in Seq(S), ReadFrom(text, c),
           NEW n \in Nat, n <= Len(c) - Len(text)
    PROVE  ReadFrom(text \o SubSeq(c, Len(text) + 1, Len(text) + n), c)
  <1> DEFINE k == Len(text)
             u == SubSeq(c, k + 1, k + n)
             w == SubSeq(c, 0 + 1, 0 + (k + n))
  <1>1. k \in Nat /\ Len(c) \in Nat /\ k + n <= Len(c) /\ k + n \in Nat
    BY DEF ReadFrom
  <1>2. u \in Seq(S) /\ Len(u) = n /\ \A i \in 1..n : u[i] = c[k + i]
    <2> HIDE DEF k
    <2> QED BY <1>1, Part
  <1>3. w \in Seq(S) /\ Len(w) = k + n /\ \A i \in 1..(k + n) : w[i] = c[0 + i]
    <2>1. 0 \in Nat /\ 0 + (k + n) <= Len(c)
      BY <1>1
    <2> HIDE DEF k
    <2> QED BY <1>1, <2>1, Part
  <1>4. \A i \in 1..k : text[i] = c[i]
    BY <1>1 DEF ReadFrom
  <1>5. /\ text \o u \in Seq(S) /\ Len(text \o u) = k + n
        /\ \A i \in 1..k : (text \o u)[i] = text[i]
        /\ \A i \in 1..n : (text \o u)[k + i] = u[i]
    <2>1. /\ text \o u \in Seq(S) /\ Len(text \o u) = k + Len(u)
          /\ \A i \in 1..k : (text \o u)[i] = text[i]
          /\ \A i \in 1..Len(u) : (text \o u)[k + i] = u[i]
      <3>1. u \in Seq(S)
        BY <1>2
      <3> HIDE DEF u, w
      <3> QED BY <3>1, Concatenation
    <2> HIDE DEF u, k
    <2> QED BY <1>2, <2>1
  <1> HIDE DEF k, u, w
  <1>6. ASSUME NEW i \in 1..(k + n) PROVE (text \o u)[i] = w[i]
    <2>1. CASE i <= k
      <3>1. i \in 1..k /\ 0 + i = i
        BY <1>1, <2>1
      <3> QED BY <1>3, <1>4, <1>5, <3>1
    <2>2. CASE ~(i <= k)
      <3>1. i - k \in 1..n /\ k + (i - k) = 0 + i
        BY <1>1, <2>2
      <3>2. (text \o u)[k + (i - k)] = c[k + (i - k)]
        BY <1>2, <1>5, <3>1
      <3>3. w[i] = c[0 + i] /\ 0 + i = i
        BY <1>1, <1>3
      <3> QED BY <3>1, <3>2, <3>3
    <2> QED BY <2>1, <2>2
  <1>7. text \o u = w
    BY <1>3, <1>5, <1>6, SameSequence
  <1>8. w = SubSeq(c, 1, k + n)
    BY <1>1 DEF w
  <1>9. ReadFrom(text \o u, c)
    BY <1>1, <1>5, <1>7, <1>8 DEF ReadFrom
  <1> QED BY <1>9 DEF k, u

(* Before the first call. *)
LEMMA ReadInitial == ReadInit => ReadInv
  BY DEF ReadInit, ReadInv, CallInv, SeenInv, ResultInv, Calls, NoCall, NoResult, At, Retries

(* Others change the file during a call. *)
LEMMA OthersStep ==
    ASSUME ReadInv, attrs_change \/ file_replaced \/ file_rewritten
    PROVE  ReadInv'
  <1>1. CASE attrs_change
    BY <1>1 DEF attrs_change, ReadInv, CallInv, SeenInv, ResultInv, At
  <1>2. CASE file_replaced
    BY <1>2 DEF file_replaced, ReadInv, CallInv, SeenInv, ResultInv, At
  <1>3. CASE file_rewritten
    <2>1. content' \in Seq(Bytes)
      BY <1>3, ReadsAssumption DEF file_rewritten
    <2> QED BY <1>3, <2>1 DEF file_rewritten, ReadInv, CallInv, SeenInv, ResultInv, At, Calls
  <1> QED BY <1>1, <1>2, <1>3

(* A call begins. *)
LEMMA BeginStep ==
    ASSUME ReadInv, NEW op \in {"get", "list", "readfile"}, Begin(op)
    PROVE  ReadInv'
  <1>1. /\ call = NoCall /\ UNCHANGED <<attrs, content, buffers>> /\ result' = NoResult
        /\ call' = [NoCall EXCEPT !.op = op, !.pc = "size", !.retries = Retries]
    BY DEF Begin
  <1>2. /\ call'.op = op /\ call'.pc = "size" /\ call'.text = <<>> /\ call' \in Calls
    <2>1. call' = [op |-> op, pc |-> "size", size |-> 0, retries |-> 3, text |-> <<>>, open |-> <<>>]
      BY <1>1 DEF NoCall, Retries
    <2>2. <<>> \in Seq(Bytes) /\ 3 \in 0..Retries
      BY DEF Retries
    <2> QED BY <2>1, <2>2 DEF Calls
  <1>3. buffers = 0
    BY <1>1 DEF ReadInv, CallInv, At, NoCall
  <1>4. SeenInv'
    BY DEF Begin, SeenInv, ReadInv, CallInv
  <1>5. ResultInv'
    BY <1>1 DEF ResultInv, NoResult
  <1>6. /\ op \in {"get", "list"} => attrs \in seen'.attrs
        /\ op = "readfile" => content \in seen'.content
    BY DEF Begin
  <1>7. CallInv'
    BY <1>1, <1>2, <1>3, <1>6 DEF ReadInv, CallInv, At
  <1> QED BY <1>4, <1>5, <1>7 DEF ReadInv

(* A call returns with nothing, or with the attributes there are. *)
LEMMA ReturnStep ==
    ASSUME ReadInv, NEW how, NEW a, call.op # "none", Returns(how, a, <<>>),
           how = "ok" => call.op \in {"get", "list"} /\ a = attrs,
           buffers' = 0
    PROVE  ReadInv'
  <1>1. /\ call' = NoCall /\ UNCHANGED <<attrs, content, seen, inplace, cut>>
        /\ result' = [op |-> call.op, how |-> how, attrs |-> a, text |-> <<>>]
    BY DEF Returns
  <1>2. NoCall \in Calls /\ NoCall.op = "none" /\ NoCall.pc = "none"
    BY DEF NoCall, Calls, Retries
  <1>3. CallInv'
    BY <1>1, <1>2 DEF ReadInv, CallInv, At
  <1>4. ResultInv'
    BY <1>1, <1>2 DEF ReadInv, CallInv, ResultInv
  <1>5. SeenInv'
    BY <1>1 DEF ReadInv, SeenInv
  <1> QED BY <1>3, <1>4, <1>5 DEF ReadInv

(* get and list keep to the attributes. *)
LEMMA AttrStep ==
    ASSUME ReadInv,
           file_get_size \/ file_get \/ file_list_size \/ file_list_alloc \/ file_list
             \/ file_list_again
    PROVE  ReadInv'
  <1>1. call.op \in {"get", "list"} /\ call \in Calls /\ attrs \in SUBSET AttrNames
    BY DEF file_get_size, file_get, file_list_size, file_list_alloc, file_list, file_list_again,
           At, ReadInv, CallInv
  <1>2. ASSUME NEW c, Goes(c), c \in Calls, c.op = call.op, buffers' = 0
        PROVE  ReadInv'
    <2>1. call' = c /\ UNCHANGED <<attrs, content, seen, result, inplace, cut>>
      BY <1>2 DEF Goes
    <2>2. CallInv'
      BY <1>1, <1>2, <2>1 DEF ReadInv, CallInv, At
    <2>3. ResultInv' /\ SeenInv'
      BY <1>1, <1>2, <2>1 DEF ReadInv, ResultInv, SeenInv
    <2> QED BY <2>2, <2>3 DEF ReadInv
  <1>3. /\ [call EXCEPT !.pc = "read", !.size = Cardinality(attrs)] \in Calls
        /\ [call EXCEPT !.pc = "again"] \in Calls
        /\ call.retries > 1 => [call EXCEPT !.pc = "read", !.size = Cardinality(attrs),
                                            !.retries = @ - 1] \in Calls
    <2>1. Cardinality(attrs) \in {0} \cup {Cardinality(a) : a \in SUBSET AttrNames}
      BY <1>1
    <2>2. call.retries \in 0..Retries /\ (call.retries > 1 => call.retries - 1 \in 0..Retries)
      BY <1>1 DEF Calls, Retries
    <2> QED BY <1>1, <2>1, <2>2 DEF Calls
  <1>4. /\ [call EXCEPT !.pc = "read", !.size = Cardinality(attrs)].op = call.op
        /\ [call EXCEPT !.pc = "again"].op = call.op
        /\ [call EXCEPT !.pc = "read", !.size = Cardinality(attrs), !.retries = @ - 1].op = call.op
    BY <1>1 DEF Calls
  <1>5. buffers = 0 \/ At("list", "read")
    BY DEF ReadInv, CallInv
  <1>6. CASE file_get_size \/ file_list_size
    BY <1>1, <1>2, <1>3, <1>4, <1>5, <1>6, ReturnStep DEF file_get_size, file_list_size, At
  <1>7. CASE file_get
    BY <1>1, <1>5, <1>7, ReturnStep DEF file_get, At
  <1>8. CASE file_list_alloc
    BY <1>8 DEF file_list_alloc, ReadInv, CallInv, SeenInv, ResultInv, At
  <1>9. CASE file_list
    BY <1>1, <1>2, <1>3, <1>4, <1>9, ReturnStep DEF file_list
  <1>10. CASE file_list_again
    BY <1>1, <1>2, <1>3, <1>4, <1>5, <1>10, ReturnStep DEF file_list_again, At
  <1> QED BY <1>6, <1>7, <1>8, <1>9, <1>10

(* readfile opens the file and takes it chunk by chunk. *)
LEMMA FileStep ==
    ASSUME ReadInv, readfile_open \/ L_readfile
    PROVE  ReadInv'
  <1>1. call.op = "readfile" /\ call \in Calls /\ buffers = 0 /\ buffers' = 0
    BY DEF readfile_open, L_readfile, At, ReadInv, CallInv
  <1>2. NoCall \in Calls /\ NoCall.op = "none" /\ NoCall.pc = "none"
    BY DEF NoCall, Calls, Retries
  <1>3. ASSUME NEW c, Goes(c), c \in Calls, c.op = "readfile", c.pc = "read",
               inplace \/ (c.open \in seen.content /\ ReadFrom(c.text, c.open))
        PROVE  ReadInv'
    <2>1. call' = c /\ UNCHANGED <<attrs, content, seen, result, inplace, cut>>
      BY <1>3 DEF Goes
    <2>2. CallInv'
      BY <1>1, <1>3, <2>1 DEF ReadInv, CallInv, At
    <2>3. ResultInv' /\ SeenInv'
      BY <1>1, <1>3, <2>1 DEF ReadInv, ResultInv, SeenInv
    <2> QED BY <2>2, <2>3 DEF ReadInv
  <1>4. CASE readfile_open
    <2> DEFINE c == [call EXCEPT !.pc = "read", !.open = content]
    <2>1. content \in Seq(Bytes)
      BY ReadsAssumption DEF ReadInv, CallInv
    <2>2. c \in Calls /\ c.op = "readfile" /\ c.pc = "read" /\ c.open = content /\ c.text = <<>>
      BY <1>1, <1>4, <2>1 DEF Calls, readfile_open, ReadInv, CallInv
    <2>3. c.open \in seen.content /\ ReadFrom(c.text, c.open)
      <3>1. ReadFrom(<<>>, content)
        BY <2>1 DEF ReadFrom
      <3>2. content \in seen.content
        BY <1>1 DEF ReadInv, CallInv
      <3> HIDE DEF c
      <3> QED BY <2>2, <3>1, <3>2
    <2>4. CASE Goes(c)
      <3> HIDE DEF c
      <3> QED BY <1>3, <2>2, <2>3, <2>4
    <2>5. CASE Returns("error", {}, <<>>)
      BY <1>1, <2>5, ReturnStep
    <2> QED BY <1>4, <2>4, <2>5 DEF readfile_open
  <1>5. CASE L_readfile
    <2> DEFINE at == Len(call.text)
               n == Least(Chunk, Len(call.open) - at)
               c == [call EXCEPT !.text = @ \o SubSeq(call.open, at + 1, at + n)]
    <2>1. /\ call.text \in Seq(Bytes) /\ call.open \in Seq(Bytes) /\ call.pc = "read"
          /\ inplace \/ (call.open \in seen.content /\ ReadFrom(call.text, call.open))
      BY <1>1, <1>5 DEF L_readfile, At, ReadInv, CallInv, Calls
    <2>2. at \in Nat /\ n \in Int /\ n <= Len(call.open) - at /\ (n <= 0 => Len(call.open) <= at)
      <3>1. at \in Nat /\ Len(call.open) \in Nat /\ Chunk \in Nat /\ Chunk > 0
        BY <2>1, ReadsAssumption
      <3> HIDE DEF at
      <3> QED BY <3>1 DEF Least
    <2>3. CASE n <= 0 /\ Returns("ok", {}, call.text)
      <3>1. /\ call' = NoCall /\ UNCHANGED <<attrs, content, seen, inplace, cut>>
            /\ result' = [op |-> call.op, how |-> "ok", attrs |-> {}, text |-> call.text]
        BY <2>3 DEF Returns
      <3>2. inplace \/ call.text \in seen.content
        <4>1. ReadFrom(call.text, call.open) => call.text = call.open
          <5>1. Len(call.open) <= Len(call.text)
            BY <2>2, <2>3
          <5> QED BY <2>1, <5>1 DEF ReadFrom
        <4> QED BY <2>1, <4>1
      <3>3. CallInv' /\ SeenInv'
        BY <1>1, <1>2, <3>1 DEF ReadInv, CallInv, SeenInv, At
      <3>4. ResultInv'
        BY <1>1, <1>2, <3>1, <3>2 DEF ResultInv
      <3> QED BY <3>3, <3>4 DEF ReadInv
    <2>4. CASE n > 0 /\ Goes(c)
      <3>0. n \in Nat /\ at + n <= Len(call.open)
        <4>1. Len(call.open) \in Nat
          BY <2>1
        <4> HIDE DEF n, at
        <4> QED BY <2>2, <2>4, <4>1
      <3>1. call.text \o SubSeq(call.open, at + 1, at + n) \in Seq(Bytes)
        <4>1. SubSeq(call.open, at + 1, at + n) \in Seq(Bytes)
          <5> HIDE DEF n, at
          <5> QED BY <2>1, <2>2, <3>0, Part, Zenon
        <4> HIDE DEF n, at
        <4> QED BY <2>1, <4>1
      <3>2. ReadFrom(call.text, call.open) =>
              ReadFrom(call.text \o SubSeq(call.open, at + 1, at + n), call.open)
        <4> HIDE DEF n
        <4> QED BY <2>1, <2>2, <3>0, ChunkAppended, Zenon
      <3>3. /\ c \in Calls /\ c.op = "readfile" /\ c.pc = "read" /\ c.open = call.open
            /\ c.text = call.text \o SubSeq(call.open, at + 1, at + n)
        BY <1>1, <2>1, <3>1 DEF Calls
      <3> HIDE DEF c, n, at
      <3> QED BY <1>3, <2>1, <2>4, <3>2, <3>3
    <2>5. CASE /\ cut' = TRUE /\ call' = NoCall
               /\ result' = [op |-> call.op, how |-> "ok", attrs |-> {}, text |-> call.text]
               /\ UNCHANGED <<attrs, content, seen, inplace>>
      <3>1. CallInv' /\ SeenInv'
        BY <1>1, <1>2, <2>5 DEF ReadInv, CallInv, SeenInv, At
      <3>2. ResultInv'
        BY <1>1, <1>2, <2>1, <2>5 DEF ResultInv
      <3> QED BY <3>1, <3>2 DEF ReadInv
    <2> QED BY <1>5, <2>3, <2>4, <2>5 DEF L_readfile
  <1> QED BY <1>4, <1>5

(* For any versions of the file and any attributes, whoever changes them in     *)
(* between: a call that succeeds returns what the file had at one moment of it. *)
THEOREM ReadsCorrect == ReadSpec => []ReadsAreSnapshots
  <1>1. ReadInv /\ [ReadNext]_readVars => ReadInv'
    <2>1. ReadInv /\ ReadNext => ReadInv'
      BY OthersStep, BeginStep, AttrStep, FileStep DEF ReadNext, ReadStep
    <2>2. ReadInv /\ UNCHANGED readVars => ReadInv'
      BY DEF readVars, ReadInv, CallInv, SeenInv, ResultInv, At
    <2> QED BY <2>1, <2>2
  <1>2. ReadInv => ReadsAreSnapshots
    <2>1. ReadInv /\ call = NoCall => buffers = 0
      BY DEF ReadInv, CallInv, At, NoCall
    <2> QED BY <2>1 DEF ReadInv, ResultInv, ReadFrom, ReadsAreSnapshots
  <1> QED BY <1>1, <1>2, ReadInitial, PTL DEF ReadSpec


-----------------------------------------------------------------------------
INSTANCE FiniteSetTheorems

(* Proofs about the replacement of a file by enforcers/fsutil.lua, for any     *)
(* number of processes, failing calls, kills, reruns and links.                *)

Steps == {"read", "stat", "open", "write", "close", "check", "rename", "chown", "chmod", "done"}
Attributes == {"orig", "default"}

WriteTypeOK ==
    /\ target \in [kind : {"file", "link"}, lines : SUBSET (Procs \cup {"base"}), whole : BOOLEAN,
                   owner : Attributes, mode : Attributes]
    /\ pc \in [Procs -> Steps]
    /\ buf \in [Procs -> SUBSET (Procs \cup {"base"})]
    /\ stat \in [Procs -> BOOLEAN]
    /\ tmp \in [Procs -> {"none", "partial", "complete"}]
    /\ ret \in [Procs -> {"none", "ok", "err"}]
    /\ window \subseteq Procs /\ overwrote \subseteq Procs
    /\ silent \in Nat

(* The temporary file is complete from its close to its rename, and gone when *)
(* the enforcer returns.                                                      *)
TmpInv ==
    /\ target.whole = TRUE
    /\ \A p \in Procs :
        /\ pc[p] \in {"check", "rename"} => tmp[p] = "complete"
        /\ pc[p] \in {"read", "stat", "open", "chown", "chmod", "done"} => tmp[p] = "none"
        /\ ret[p] # "none" => pc[p] = "done"

(* As long as no failure went unnoticed, a process carries what it read and   *)
(* its own line to the rename; afterwards they are in the file, unless another *)
(* process has replaced it.                                                    *)
LinesInv ==
    silent = 0 =>
        /\ "base" \in target.lines
        /\ \A p \in Procs :
            /\ pc[p] \in {"stat", "open", "write", "close", "check", "rename"} =>
                  {"base", p} \subseteq buf[p]
            /\ pc[p] \in {"chown", "chmod"} \/ ret[p] = "ok" =>
                  p \in target.lines \/ overwrote \ {p} # {}

(* A link is in the place of the file only for processes in the window. *)
LinkInv ==
    target.kind = "link" => \A p \in Procs : pc[p] = "rename" => p \in window

(* Owner and mode, as long as at most one process has replaced the file. *)
AttributesInv ==
    /\ IsFiniteSet(overwrote)
    /\ overwrote = {} => target.owner = "orig" /\ target.mode = "orig"
    /\ \A p \in Procs :
        /\ pc[p] = "read" => ~stat[p]
        /\ pc[p] \in {"chown", "chmod"} => p \in overwrote
        /\ overwrote = {p} /\ pc[p] = "chmod" => target.owner = "orig"
        /\ overwrote = {p} /\ stat[p] /\ ret[p] = "ok" =>
              target.owner = "orig" /\ target.mode = "orig"

WriteInv == WriteTypeOK /\ TmpInv /\ LinesInv /\ LinkInv /\ AttributesInv

ProcStep(p) == WriteStep(p) \/ Crash(p) \/ Rerun(p)

(* Every step keeps the types. *)
LEMMA TypesKept ==
    ASSUME WriteTypeOK, NEW p \in Procs, ProcStep(p) PROVE WriteTypeOK'
<1> USE DEF WriteTypeOK, Steps, Attributes, Goto, Return, SetTmp, IsSymlink, Works, Scene
<1>1. CASE ReadLines(p)
  BY <1>1 DEF ReadLines
<1>2. CASE StatTarget(p)
  BY <1>2 DEF StatTarget
<1>3. CASE OpenTmp(p)
  BY <1>3 DEF OpenTmp
<1>4. CASE WriteLines(p)
  BY <1>4 DEF WriteLines
<1>5. CASE CloseTmp(p)
  BY <1>5 DEF CloseTmp
<1>6. CASE CheckAgain(p)
  BY <1>6 DEF CheckAgain
<1>7. CASE RenameTmp(p)
  <2>1. (tmp[p] = "complete") \in BOOLEAN
    OBVIOUS
  <2>2. buf[p] \in SUBSET (Procs \cup {"base"})
    OBVIOUS
  <2>3. Replacement(p) \in [kind : {"file", "link"}, lines : SUBSET (Procs \cup {"base"}),
                           whole : BOOLEAN, owner : Attributes, mode : Attributes]
    BY <2>1, <2>2, Zenon DEF Replacement
  <2> HIDE DEF Replacement
  <2>4. target' \in [kind : {"file", "link"}, lines : SUBSET (Procs \cup {"base"}),
                    whole : BOOLEAN, owner : Attributes, mode : Attributes]
    BY <1>7, <2>3 DEF RenameTmp
  <2>5. pc' \in [Procs -> Steps] /\ ret' \in [Procs -> {"none", "ok", "err"}]
    BY <1>7 DEF RenameTmp
  <2>6. tmp' \in [Procs -> {"none", "partial", "complete"}] /\ overwrote' \subseteq Procs
    BY <1>7 DEF RenameTmp
  <2> QED
    BY <1>7, <2>4, <2>5, <2>6 DEF RenameTmp
<1>8. CASE RestoreOwner(p)
  BY <1>8 DEF RestoreOwner
<1>9. CASE RestoreMode(p)
  BY <1>9 DEF RestoreMode
<1>10. CASE Crash(p)
  BY <1>10 DEF Crash
<1>11. CASE Rerun(p)
  BY <1>11 DEF Rerun
<1> QED
  BY <1>1, <1>2, <1>3, <1>4, <1>5, <1>6, <1>7, <1>8, <1>9, <1>10, <1>11 DEF ProcStep, WriteStep

(* A process renames its temporary file only when it has written and closed it. *)
LEMMA TmpKept ==
    ASSUME WriteTypeOK, TmpInv, NEW p \in Procs, ProcStep(p) PROVE TmpInv'
<1> USE DEF TmpInv, WriteTypeOK, Steps, Goto, Return, SetTmp, IsSymlink, Works, Scene
<1>1. CASE ReadLines(p)
  BY <1>1 DEF ReadLines
<1>2. CASE StatTarget(p)
  BY <1>2 DEF StatTarget
<1>3. CASE OpenTmp(p)
  BY <1>3 DEF OpenTmp
<1>4. CASE WriteLines(p)
  BY <1>4 DEF WriteLines
<1>5. CASE CloseTmp(p)
  BY <1>5 DEF CloseTmp
<1>6. CASE CheckAgain(p)
  BY <1>6 DEF CheckAgain
<1>7. CASE RenameTmp(p)
  BY <1>7 DEF RenameTmp, Replacement
<1>8. CASE RestoreOwner(p)
  BY <1>8 DEF RestoreOwner
<1>9. CASE RestoreMode(p)
  BY <1>9 DEF RestoreMode
<1>10. CASE Crash(p)
  BY <1>10 DEF Crash
<1>11. CASE Rerun(p)
  BY <1>11 DEF Rerun
<1> QED
  BY <1>1, <1>2, <1>3, <1>4, <1>5, <1>6, <1>7, <1>8, <1>9, <1>10, <1>11 DEF ProcStep, WriteStep

(* A failure that goes unnoticed is counted; the others end the replacement. *)
LEMMA LinesKept ==
    ASSUME WriteTypeOK, LinesInv, NEW p \in Procs, ProcStep(p) PROVE LinesInv'
<1> USE DEF LinesInv, WriteTypeOK, Steps, Goto, Return, SetTmp, IsSymlink, Works, Scene
<1>1. CASE ReadLines(p)
  BY <1>1 DEF ReadLines
<1>2. CASE StatTarget(p)
  BY <1>2 DEF StatTarget
<1>3. CASE OpenTmp(p)
  BY <1>3 DEF OpenTmp
<1>4. CASE WriteLines(p)
  BY <1>4 DEF WriteLines
<1>5. CASE CloseTmp(p)
  BY <1>5 DEF CloseTmp
<1>6. CASE CheckAgain(p)
  BY <1>6 DEF CheckAgain
<1>7. CASE RenameTmp(p)
  BY <1>7 DEF RenameTmp, Replacement
<1>8. CASE RestoreOwner(p)
  BY <1>8 DEF RestoreOwner
<1>9. CASE RestoreMode(p)
  BY <1>9 DEF RestoreMode
<1>10. CASE Crash(p)
  BY <1>10 DEF Crash
<1>11. CASE Rerun(p)
  BY <1>11 DEF Rerun
<1> QED
  BY <1>1, <1>2, <1>3, <1>4, <1>5, <1>6, <1>7, <1>8, <1>9, <1>10, <1>11 DEF ProcStep, WriteStep

(* A process enters the window only when there is no link. *)
LEMMA LinkKept ==
    ASSUME WriteTypeOK, LinkInv, NEW p \in Procs, ProcStep(p) PROVE LinkInv'
<1> USE DEF LinkInv, WriteTypeOK, Steps, Goto, Return, SetTmp, IsSymlink, Works, Scene
<1>1. CASE ReadLines(p)
  BY <1>1 DEF ReadLines
<1>2. CASE StatTarget(p)
  BY <1>2 DEF StatTarget
<1>3. CASE OpenTmp(p)
  BY <1>3 DEF OpenTmp
<1>4. CASE WriteLines(p)
  BY <1>4 DEF WriteLines
<1>5. CASE CloseTmp(p)
  BY <1>5 DEF CloseTmp
<1>6. CASE CheckAgain(p)
  BY <1>6 DEF CheckAgain
<1>7. CASE RenameTmp(p)
  BY <1>7 DEF RenameTmp, Replacement
<1>8. CASE RestoreOwner(p)
  BY <1>8 DEF RestoreOwner
<1>9. CASE RestoreMode(p)
  BY <1>9 DEF RestoreMode
<1>10. CASE Crash(p)
  BY <1>10 DEF Crash
<1>11. CASE Rerun(p)
  BY <1>11 DEF Rerun
<1> QED
  BY <1>1, <1>2, <1>3, <1>4, <1>5, <1>6, <1>7, <1>8, <1>9, <1>10, <1>11 DEF ProcStep, WriteStep

(* The processes that have replaced the file stay finitely many. *)
LEMMA FinitelyMany ==
    ASSUME NEW p, IsFiniteSet(overwrote), RenameTmp(p) PROVE IsFiniteSet(overwrote')
<1>1. IsFiniteSet(overwrote \cup {p})
  BY FS_AddElement
<1>2. overwrote' = overwrote \/ overwrote' = overwrote \cup {p}
  BY DEF RenameTmp
<1> QED
  BY <1>1, <1>2

(* The process that replaced the file is the one that restores its attributes. *)
LEMMA AttributesKeptByStep ==
    ASSUME WriteTypeOK, TmpInv, AttributesInv, NEW p \in Procs, ProcStep(p) PROVE AttributesInv'
<1> USE DEF TmpInv, AttributesInv, Attributes, WriteTypeOK, Steps, Goto, Return, SetTmp, IsSymlink, Works, Scene
<1>1. CASE ReadLines(p)
  BY <1>1 DEF ReadLines
<1>2. CASE StatTarget(p)
  BY <1>2 DEF StatTarget
<1>3. CASE OpenTmp(p)
  BY <1>3 DEF OpenTmp
<1>4. CASE WriteLines(p)
  BY <1>4 DEF WriteLines
<1>5. CASE CloseTmp(p)
  BY <1>5 DEF CloseTmp
<1>6. CASE CheckAgain(p)
  BY <1>6 DEF CheckAgain
<1>7. CASE RenameTmp(p)
  <2>1. IsFiniteSet(overwrote')
    BY <1>7, FinitelyMany
  <2>2. CASE target' = Replacement(p) /\ overwrote' = overwrote \cup {p}
    <3>1. p \in overwrote' /\ overwrote' # {}
      BY <2>2
    <3>2. pc'[p] \in {"chown", "done"} /\ (ret'[p] = "ok" => ~stat'[p]) /\ stat' = stat
      BY <1>7, <2>2 DEF RenameTmp
    <3>3. \A q \in Procs \ {p} : pc'[q] = pc[q] /\ ret'[q] = ret[q] /\ overwrote' # {q}
      BY <1>7, <2>2 DEF RenameTmp
    <3>4. \A q \in Procs : pc'[q] = "read" => ~stat'[q]
      BY <3>2, <3>3
    <3>5. \A q \in Procs : pc'[q] \in {"chown", "chmod"} => q \in overwrote'
      BY <2>2, <3>1, <3>3
    <3> QED
      BY <2>1, <3>1, <3>2, <3>3, <3>4, <3>5
  <2>3. CASE UNCHANGED <<target, overwrote>>
    BY <1>7, <2>1, <2>3 DEF RenameTmp
  <2> QED
    BY <1>7, <2>2, <2>3 DEF RenameTmp
<1>8. CASE RestoreOwner(p)
  BY <1>8 DEF RestoreOwner
<1>9. CASE RestoreMode(p)
  BY <1>9 DEF RestoreMode
<1>10. CASE Crash(p)
  BY <1>10 DEF Crash
<1>11. CASE Rerun(p)
  BY <1>11 DEF Rerun
<1> QED
  BY <1>1, <1>2, <1>3, <1>4, <1>5, <1>6, <1>7, <1>8, <1>9, <1>10, <1>11 DEF ProcStep, WriteStep

(* A link that appears finds in the window who is about to rename. *)
LEMMA PutLinkKept == WriteInv /\ PutLink => WriteInv'
<1> SUFFICES ASSUME WriteInv, PutLink PROVE WriteInv'
  OBVIOUS
<1> USE DEF WriteInv, WriteTypeOK, PutLink, IsSymlink
<1>1. WriteTypeOK'
  OBVIOUS
<1>2. TmpInv' /\ LinesInv'
  BY DEF TmpInv, LinesInv
<1>3. LinkInv' /\ AttributesInv'
  BY DEF LinkInv, AttributesInv
<1> QED
  BY <1>1, <1>2, <1>3

(* Every step keeps the invariant. *)
LEMMA WriteInvStep == WriteInv /\ [WriteNext]_writeVars => WriteInv'
<1> SUFFICES ASSUME WriteInv, [WriteNext]_writeVars PROVE WriteInv'
  OBVIOUS
<1>1. ASSUME NEW p \in Procs, ProcStep(p) PROVE WriteInv'
  BY <1>1, TypesKept, TmpKept, LinesKept, LinkKept, AttributesKeptByStep DEF WriteInv
<1>2. CASE UNCHANGED writeVars
  BY <1>2 DEF writeVars, WriteInv, WriteTypeOK, TmpInv, LinesInv, LinkInv, AttributesInv
<1> QED
  BY <1>1, <1>2, PutLinkKept DEF WriteNext, ProcStep

(* The invariant holds throughout, for any number of processes and faults. *)
THEOREM WriteInvariant == WriteSpec => []WriteInv
<1>1. WriteInit => WriteInv
  BY FS_EmptySet DEF WriteInit, Original, WriteInv, WriteTypeOK, Steps, Attributes, TmpInv,
     LinesInv, LinkInv, AttributesInv
<1> QED
  BY <1>1, WriteInvStep, PTL DEF WriteSpec

(* When at most one process has replaced the file, AttributesInv says whose     *)
(* owner and mode it has.                                                       *)
LEMMA AttributesFollow == WriteInv => AttributesKept
<1> SUFFICES ASSUME WriteInv, \A p \in overwrote : stat[p] /\ ret[p] = "ok",
                    Cardinality(overwrote) <= 1
             PROVE  target.owner = "orig" /\ target.mode = "orig"
  BY DEF AttributesKept
<1>1. CASE overwrote = {}
  BY <1>1 DEF WriteInv, AttributesInv
<1>2. ASSUME NEW p \in overwrote PROVE overwrote = {p}
  <2>1. IsFiniteSet(overwrote) /\ Cardinality(overwrote) \in Nat
    BY FS_CardinalityType DEF WriteInv, AttributesInv
  <2>2. IsFiniteSet(overwrote \ {p}) /\ Cardinality(overwrote \ {p}) = Cardinality(overwrote) - 1
    BY <2>1, FS_RemoveElement
  <2>3. Cardinality(overwrote \ {p}) = 0
    BY <2>1, <2>2, FS_CardinalityType
  <2>4. overwrote \ {p} = {}
    BY <2>2, <2>3, FS_EmptySet
  <2> QED
    BY <2>4
<1> QED
  BY <1>1, <1>2 DEF WriteInv, WriteTypeOK, AttributesInv

(* The target of write_lines_atomically is whole at every moment, a line is     *)
(* lost only to a failure that the code does not notice or to another process,  *)
(* and owner and mode are back when the preserving variant returned true and    *)
(* was alone.                                                                   *)
THEOREM WritesCorrect == WriteSpec => []WritesLoseNothing
<1>1. WriteInv => TargetIsWhole /\ NoLineLost
  BY DEF WriteInv, TmpInv, LinesInv, TargetIsWhole, NoLineLost
<1>2. WriteInv => WritesLoseNothing
  BY <1>1, AttributesFollow DEF WritesLoseNothing
<1> QED
  BY <1>2, WriteInvariant, PTL

(* The rename of write_lines_atomically takes the place of a link only in the   *)
(* window after the second check.                                               *)
THEOREM ReplacementCorrect == WriteSpec => LinkReplacedOnlyInWindow
<1>1. WriteInv /\ [WriteNext]_writeVars =>
        [target.kind = "link" /\ target'.kind = "file"
          => \E p \in window : pc[p] = "rename" /\ pc'[p] # "rename"]_writeVars
  <2> SUFFICES ASSUME WriteInv, WriteNext, target.kind = "link", target'.kind = "file"
               PROVE  \E p \in window : pc[p] = "rename" /\ pc'[p] # "rename"
    OBVIOUS
  <2> USE DEF WriteInv, WriteTypeOK, Steps, LinkInv, Goto, Return
  <2>1. PICK p \in Procs : RenameTmp(p)
    BY DEF WriteNext, WriteStep, PutLink, IsSymlink, ReadLines, StatTarget, OpenTmp, WriteLines,
       CloseTmp, CheckAgain, RestoreOwner, RestoreMode, Crash, Rerun
  <2> QED
    BY <2>1 DEF RenameTmp
<1> QED
  BY <1>1, WriteInvariant, PTL DEF WriteSpec, LinkReplacedOnlyInWindow
=============================================================================
