----------------------------- MODULE ConfigFile -----------------------------
(***************************************************************************)
(* The line-editing enforcers of seharden (enforcers/file.lua) on one      *)
(* configuration file, and how the probes read the file back               *)
(* (shared/key_value_file.lua).  A line is abstracted to what the patterns *)
(* of the two sides tell apart.  Each enforcer is one step: it reads the   *)
(* file, computes the new lines and replaces the file (see AtomicWrite).   *)
(***************************************************************************)
EXTENDS Integers, FiniteSets, SequencesExt

CONSTANTS
    Lines,      \* the lines a file may hold
    Ops,        \* the enforcer steps that may run on it
    MaxInitial  \* bound on the length of the initial file

ASSUME LinesAssumption ==
    \A l \in Lines : /\ l.kind \in {"assign", "section", "comment", "hash"}
                     /\ l.sep \in {"=", " = ", " ", "tab", ""}
                     /\ l.form \in {"plain", "quoted", "noted"}

VARIABLES
    lines,      \* the content of the file
    last,       \* the step that ran last
    wrote       \* whether it replaced the file

editVars == <<lines, last, wrote>>

Assign(k, v, s) == [kind |-> "assign", key |-> k, val |-> v, sep |-> s, form |-> "plain"]
Section(s) == [kind |-> "section", key |-> s, val |-> "", sep |-> "", form |-> "plain"]

-----------------------------------------------------------------------------
(* Reading.  A header line with a trailing comment is still a header to the   *)
(* parser; quotes and trailing comments are not part of a value.              *)
IsHeader(l, bare) == l.kind = "section" /\ (bare => l.form = "plain")

Owner(ls, i, bare) ==
    LET above == {j \in 1..(i - 1) : IsHeader(ls[j], bare)}
    IN IF above = {} THEN "" ELSE ls[Max(above)].key

(* parse_entries: the active assignments, of one section or (section = "") of all. *)
ParseEntries(ls, section) ==
    {i \in DOMAIN ls : /\ ls[i].kind = "assign"
                       /\ section = "" \/ Owner(ls, i, FALSE) = section}

Entries(ls, section, k) == {i \in ParseEntries(ls, section) : ls[i].key = k}

(* parse_handle and get_effective_key_value: the last entry wins. *)
Effective(ls, section, k) ==
    IF Entries(ls, section, k) = {} THEN "" ELSE ls[Max(Entries(ls, section, k))].val

-----------------------------------------------------------------------------
(* set_key_value: with a blank as separator the pattern wants a blank after   *)
(* the key, so that "k = v" matches (with value "= v") and "k<tab>v" does not.*)
KeyMatches(op, l) ==
    /\ l.kind = "assign" /\ l.key = op.key
    /\ l.sep \in IF op.sep = "=" THEN {"=", " = "} ELSE {" ", " = "}

ValueMatches(op, l) ==
    l.val = op.val /\ l.form = "plain" /\ (op.sep = "=" \/ l.sep = " ")
(* Mutant: the new line goes to the end, and the old ones stay. *)
SetKeyValueAppending(op, ls) == Append(ls, Assign(op.key, op.val, op.sep))

SetKeyValue(op, ls) ==
    LET hits == {i \in DOMAIN ls : KeyMatches(op, ls[i])}
        first == Min(hits)
        new == Assign(op.key, op.val, op.sep)
    IN IF hits = {} THEN Append(ls, new)
       ELSE IF hits = {first} /\ ValueMatches(op, ls[first]) THEN ls
       ELSE SubSeq(ls, 1, first - 1) \o <<new>>
            \o SelectSeq(SubSeq(ls, first + 1, Len(ls)), LAMBDA l : ~KeyMatches(op, l))

(* set_ini_key_value: only a bare "[section]" is a header here; the first     *)
(* match in the section is replaced, else the key goes to the end of the      *)
(* section's last block, else the section is added.                           *)
(* Mutant: a key the section lacks goes to the end of the file. *)
SetIniKeyValueAtEnd(op, ls) ==
    LET new == Assign(op.key, op.val, "=")
    IN IF Section(op.section) \in Range(ls)
       THEN IF Entries(ls, op.section, op.key) = {} THEN Append(ls, new)
            ELSE ReplaceAt(ls, Min(Entries(ls, op.section, op.key)), new)
       ELSE ls \o <<Section(op.section), new>>

SetIniKeyValue(op, ls) ==
    LET inside(i) == Owner(ls, i, TRUE) = op.section
        hits == {i \in DOMAIN ls : /\ ls[i].kind = "assign" /\ ls[i].key = op.key
                                   /\ ls[i].sep \in {"=", " = "} /\ inside(i)}
        ends == {i \in DOMAIN ls : IsHeader(ls[i], TRUE) /\ inside(i)}
                \cup (IF inside(Len(ls) + 1) THEN {Len(ls) + 1} ELSE {})
        new == Assign(op.key, op.val, "=")
    IN IF hits # {}
       THEN IF ls[Min(hits)].val = op.val /\ ls[Min(hits)].form = "plain"
            THEN ls ELSE ReplaceAt(ls, Min(hits), new)
       ELSE IF ends # {} THEN InsertAt(ls, Max(ends), new)
       ELSE ls \o <<Section(op.section), new>>

AppendLine(op, ls) == IF op.line \in Range(ls) THEN ls ELSE Append(ls, op.line)
(* Mutant: the pattern matches every assignment. *)
RemoveLineMatchingAny(op, ls) == SelectSeq(ls, LAMBDA l : l.kind # "assign")

(* remove_line_matching with a pattern for the active assignments of a key. *)
RemoveLineMatching(op, ls) ==
    SelectSeq(ls, LAMBDA l : ~(l.kind = "assign" /\ l.key = op.key))
(* comment_line_matching: the pattern also finds the key in comments; only    *)
(* lines that start with the prefix "# " are left alone.                      *)
CommentLineMatching(op, ls) ==
    [i \in DOMAIN ls |->
        IF ls[i].kind \in {"assign", "hash"} /\ ls[i].key = op.key
        THEN [ls[i] EXCEPT !.kind = "comment"] ELSE ls[i]]

WriteContent(op, ls) == op.lines

Result(op, ls) ==
    CASE op.action = "set_key_value"         -> SetKeyValue(op, ls)
      [] op.action = "set_ini_key_value"     -> SetIniKeyValue(op, ls)
      [] op.action = "append_line"           -> AppendLine(op, ls)
      [] op.action = "remove_line_matching"  -> RemoveLineMatching(op, ls)
      [] op.action = "comment_line_matching" -> CommentLineMatching(op, ls)
      [] op.action = "write_content"         -> WriteContent(op, ls)

NoOp == [action |-> "none"]

EditInit ==
    /\ lines \in UNION {[1..n -> Lines] : n \in 0..MaxInitial}
    /\ last = NoOp
    /\ wrote = FALSE

Enforce(op) ==
    /\ lines' = Result(op, lines)
    /\ wrote' = (lines' # lines)
    /\ last' = op

(* A file is edited while it is shorter than this. *)
MaxLines == MaxInitial + 3

EditNext == \E op \in Ops : Len(lines) < MaxLines /\ Enforce(op)

EditSpec == EditInit /\ [][EditNext]_editVars

-----------------------------------------------------------------------------
(* Running an enforcer again right after it ran does not touch the file. *)
Idempotent == [][last # NoOp /\ last' = last => ~wrote']_editVars

(* What an enforcer set is what the probe reads.  set_key_value with "="      *)
(* leaves one active line of the key, if no line gave the key with a blank or *)
(* a tab; set_ini_key_value does for the section, if it had at most one line  *)
(* for the key, given with "=", and no header carries a comment.              *)
SettingTakesEffect ==
    [][ \A op \in Ops : last' = op =>
          /\ (/\ op.action = "set_key_value" /\ op.sep = "="
              /\ \A i \in Entries(lines, "", op.key) : lines[i].sep \in {"=", " = "})
             => /\ Effective(lines', "", op.key) = op.val
                /\ Cardinality(Entries(lines', "", op.key)) = 1
          /\ (/\ op.action = "set_ini_key_value"
              /\ \A i \in DOMAIN lines : IsHeader(lines[i], FALSE) => IsHeader(lines[i], TRUE)
              /\ Cardinality(Entries(lines, op.section, op.key)) <= 1
              /\ \A i \in Entries(lines, op.section, op.key) : lines[i].sep \in {"=", " = "})
             => Effective(lines', op.section, op.key) = op.val ]_editVars

(* A setting another rule enforced stays effective: a step for one key leaves *)
(* what the probes read for every other key and section alone.                *)
OtherKeysKeepTheirValues ==
    [][ \A op \in Ops :
          last' = op /\ op.action # "write_content" =>
             \A l \in Lines, s \in {""} \cup {m.key : m \in {x \in Lines : IsHeader(x, FALSE)}} :
                l.kind = "assign" /\ l.key # op.key
                   => Effective(lines', s, l.key) = Effective(lines, s, l.key) ]_editVars

(* docs/design/seharden-enforcer-guidelines.md, "Enforcers Must Be            *)
(* Idempotent": "avoid duplicate config entries".                             *)
NoDuplicateEntries ==
    [][ \A op \in Ops :
          last' = op /\ op.action = "set_key_value"
          => Cardinality(Entries(lines', "", op.key)) <= 1 ]_editVars
=============================================================================
