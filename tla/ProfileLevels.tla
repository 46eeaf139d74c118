---------------------------- MODULE ProfileLevels ---------------------------
(***************************************************************************)
(* seharden/profile.lua: a profile is validated, the target level is       *)
(* resolved, the levels it inherits from are collected with a work list,   *)
(* and the rules and manual review items of those levels are selected.     *)
(* The inheritance of levels may have cycles: validation allows them.      *)
(***************************************************************************)
EXTENDS Integers, Sequences, Functions

CONSTANTS
    LevelIds,   \* names of levels, defined or not
    Nil,        \* "not given"
    Profiles    \* [levels, default, rules, reviews]: see ProfileShape

Level == [id : LevelIds, inherits_from : Seq(LevelIds)]
Scope == [given : BOOLEAN, levels : SUBSET LevelIds]
Rule == [id : Nat, level : Scope, comparators_ok : BOOLEAN]
Review == [level : Scope]
Profile == [levels : Seq(Level), default_level : LevelIds \cup {Nil},
            rules : Seq(Rule), reviews : Seq(Review)]

ASSUME ProfileShape == Profiles \subseteq Profile
ASSUME NilAssumption == Nil \notin LevelIds

VARIABLES
    profile, requested,     \* the input
    pc,
    target,                 \* the level to run, Nil for all levels
    active, stack,          \* active_levels and levels_to_process
    index,                  \* the next rule to look at
    selected, reviews       \* indices of the rules to run and items to review

vars == <<profile, requested, pc, target, active, stack, index, selected, reviews>>

-----------------------------------------------------------------------------
DefinedIds(p) == {p.levels[i].id : i \in DOMAIN p.levels}

(* levels_by_id *)
InheritsFrom(p, l) == (CHOOSE d \in Range(p.levels) : d.id = l).inherits_from

Known(p, level) == level.given => level.levels \subseteq DefinedIds(p)

(* validate: unique level and rule ids, and no reference to an unknown level. *)
Validate(p) ==
    /\ \A i, j \in DOMAIN p.levels : p.levels[i].id = p.levels[j].id => i = j
    /\ \A i \in DOMAIN p.levels : Range(p.levels[i].inherits_from) \subseteq DefinedIds(p)
    /\ p.default_level \in DefinedIds(p) \cup {Nil}
    /\ \A i \in DOMAIN p.reviews : Known(p, p.reviews[i].level)
    /\ \A i, j \in DOMAIN p.rules : p.rules[i].id = p.rules[j].id => i = j
    /\ \A i \in DOMAIN p.rules : Known(p, p.rules[i].level)

Init ==
    /\ profile \in Profiles
    /\ requested \in LevelIds \cup {Nil}
    /\ pc = "load"
    /\ target = Nil /\ active = {} /\ stack = <<>>
    /\ index = 1 /\ selected = <<>> /\ reviews = {}

(* load, then resolve_target_level. *)
Load ==
    /\ pc = "load"
    /\ IF Validate(profile)
       THEN /\ target' = IF requested # Nil THEN requested ELSE profile.default_level
            /\ pc' = "levels"
       ELSE pc' = "rejected" /\ UNCHANGED target
    /\ UNCHANGED <<profile, requested, active, stack, index, selected, reviews>>
(* build_active_levels up to its loop: no target means every level. *)
BeginLevels ==
    /\ pc = "levels"
    /\ \/ /\ target = Nil
          /\ active' = DefinedIds(profile)
          /\ pc' = "rules" /\ UNCHANGED stack
       \/ /\ target # Nil /\ target \notin DefinedIds(profile)
          /\ pc' = "rejected" /\ UNCHANGED <<active, stack>>
       \/ /\ target \in DefinedIds(profile)
          /\ stack' = <<target>>
          /\ pc' = "walk" /\ UNCHANGED active
    /\ UNCHANGED <<profile, requested, target, index, selected, reviews>>
(* Mutant: only the first level a level inherits from is followed. *)
VisitFirstParent ==
    /\ pc = "walk" /\ stack # <<>>
    /\ LET current == stack[Len(stack)]
           parents == InheritsFrom(profile, current)
       IN /\ active' = active \cup {current}
          /\ stack' = IF parents = <<>> \/ current \in active THEN <<>> ELSE <<parents[1]>>
    /\ UNCHANGED <<profile, requested, pc, target, index, selected, reviews>>

(* Mutant: a level that was visited is expanded again. *)
VisitAgain ==
    /\ pc = "walk" /\ stack # <<>>
    /\ LET current == stack[Len(stack)]
       IN /\ active' = active \cup {current}
          /\ stack' = InheritsFrom(profile, current)
    /\ UNCHANGED <<profile, requested, pc, target, index, selected, reviews>>

(* One round of the loop: take the last level of the list, and put the levels *)
(* it inherits from on the list if it is new.                                 *)
Visit ==
    /\ pc = "walk" /\ stack # <<>>
    /\ LET current == stack[Len(stack)]
           rest == SubSeq(stack, 1, Len(stack) - 1)
       IN IF current \in active
          THEN stack' = rest /\ UNCHANGED active
          ELSE /\ active' = active \cup {current}
               /\ stack' = rest \o InheritsFrom(profile, current)
    /\ UNCHANGED <<profile, requested, pc, target, index, selected, reviews>>

EndWalk ==
    /\ pc = "walk" /\ stack = <<>>
    /\ pc' = "rules"
    /\ UNCHANGED <<profile, requested, target, active, stack, index, selected, reviews>>

Applies(level) == level.given => (level.levels \cap active) # {}
(* Mutant: a rule that names no level is left out. *)
SelectRuleWithLevel ==
    /\ pc = "rules" /\ index <= Len(profile.rules)
    /\ selected' = IF profile.rules[index].level.given /\ Applies(profile.rules[index].level)
                   THEN Append(selected, index) ELSE selected
    /\ index' = index + 1
    /\ UNCHANGED <<profile, requested, pc, target, active, stack, reviews>>

(* get_rules_for_level: one rule; a bad comparator in a rule that applies     *)
(* refuses the whole selection.                                               *)
SelectRule ==
    /\ pc = "rules" /\ index <= Len(profile.rules)
    /\ LET rule == profile.rules[index]
       IN \/ /\ Applies(rule.level) /\ rule.comparators_ok
             /\ selected' = Append(selected, index) /\ index' = index + 1
             /\ UNCHANGED pc
          \/ /\ Applies(rule.level) /\ ~rule.comparators_ok
             /\ pc' = "rejected" /\ UNCHANGED <<selected, index>>
          \/ /\ ~Applies(rule.level)
             /\ index' = index + 1 /\ UNCHANGED <<selected, pc>>
    /\ UNCHANGED <<profile, requested, target, active, stack, reviews>>

(* get_manual_review_items_for_level walks the same levels. *)
SelectReviews ==
    /\ pc = "rules" /\ index = Len(profile.rules) + 1
    /\ reviews' = {i \in DOMAIN profile.reviews : Applies(profile.reviews[i].level)}
    /\ pc' = "done"
    /\ UNCHANGED <<profile, requested, target, active, stack, index, selected>>

Next == Load \/ BeginLevels \/ Visit \/ EndWalk \/ SelectRule \/ SelectReviews

Spec == Init /\ [][Next]_vars

-----------------------------------------------------------------------------
TypeOK ==
    /\ profile \in Profiles /\ requested \in LevelIds \cup {Nil}
    /\ pc \in {"load", "levels", "walk", "rules", "rejected", "done"}
    /\ pc \notin {"load", "rejected"} => Validate(profile)
    /\ target \in LevelIds \cup {Nil}
    /\ pc = "walk" => target \in DefinedIds(profile)
    /\ active \subseteq DefinedIds(profile)
    /\ stack \in Seq(DefinedIds(profile))
    /\ index \in 1..(Len(profile.rules) + 1)

Closed(S) == \A l \in S : Range(InheritsFrom(profile, l)) \subseteq S

(* build_active_levels computes the least set of levels that contains the     *)
(* target and everything its members inherit from, whatever the order of the  *)
(* work list and whatever cycles the inheritance has.                         *)
ActiveIsInheritanceClosure ==
    pc \in {"rules", "done"} /\ target # Nil =>
        /\ target \in active /\ Closed(active)
        /\ \A S \in SUBSET DefinedIds(profile) : target \in S /\ Closed(S) => active \subseteq S

(* While the list is worked off, what a level inherits from is active or      *)
(* still on the list, and nothing on the list lies outside the closure.       *)
WalkInv ==
    pc = "walk" =>
        /\ target \in active \cup Range(stack)
        /\ \A l \in active : Range(InheritsFrom(profile, l)) \subseteq active \cup Range(stack)
        /\ \A S \in SUBSET DefinedIds(profile) :
              target \in S /\ Closed(S) => active \cup Range(stack) \subseteq S

(* The rules to run are exactly those without a level and those with a level  *)
(* that the target inherits from, in the order of the profile.                *)
RunsTheRulesOfTheLevel ==
    pc = "done" =>
        /\ \A i, j \in DOMAIN selected : i < j => selected[i] < selected[j]
        /\ Range(selected) = {i \in DOMAIN profile.rules : Applies(profile.rules[i].level)}

(* Once a profile is loaded the selection ends: a level is expanded once, also *)
(* when levels inherit from each other.                                       *)
SelectionEnds == (pc = "levels") ~> (pc \in {"done", "rejected"})
=============================================================================
