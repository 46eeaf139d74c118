-------------------------- MODULE MCSehardenEngine --------------------------
(* A small profile for the model checker. *)
EXTENDS SehardenEngine

probe(src, setting) == [src |-> src, setting |-> setting, want |-> "on"]
step(setting) == [setting |-> setting, value |-> "on"]

(* Two rules that share settings, one of them guarded and with both kinds of *)
(* probe, then a rule without enforcers.                                     *)
SmallProfile == <<
    [auto |-> TRUE, guards |-> 0,
     probes |-> <<probe("ssh", "a")>>, steps |-> <<step("a"), step("b")>>],
    [auto |-> TRUE, guards |-> 2,
     probes |-> <<probe("ssh", "b"), probe("direct", "a")>>, steps |-> <<step("b")>>],
    [auto |-> FALSE, guards |-> 0,
     probes |-> <<probe("ssh", "a")>>, steps |-> <<>>] >>
=============================================================================
