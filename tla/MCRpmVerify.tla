---- MODULE MCRpmVerify ----
(* Two files, two coroutines that fetch, and documents that spell, repeat and  *)
(* omit entries.                                                               *)
EXTENDS RpmVerify

CONSTANTS v, other, f1, f2, d1, d2

Entry(prefix, f, sha) == [name |-> <<prefix, f>>, sha |-> sha]
Spdx(es) == [kind |-> "spdx", entries |-> es]

SmallDocuments ==
    {[kind |-> "invalid", entries |-> <<>>], [kind |-> "odd", entries |-> <<>>],
     Spdx(<<Entry("./", f1, d1), Entry("bare", f2, d2)>>),
     Spdx(<<Entry("/", f1, d1), Entry("./", f1, d2), Entry("././", f2, d1)>>),
     Spdx(<<[name |-> None, sha |-> d1], Entry("/", f1, None), Entry("/", f2, d1)>>)}
====
