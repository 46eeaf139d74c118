------------------------------- MODULE LuaJit -------------------------------
(* The stand-alone interpreter, daemon/luajit.c: its command line is read in   *)
(* two passes (collectargs, runargs), every chunk of the user runs in docall   *)
(* with a SIGINT handler that sets a debug hook, and the outcome becomes the   *)
(* exit status.  An argument is an option letter and whether text follows it.  *)
(* Chunks are the calls into Lua; each may succeed, fail or be interrupted.    *)
EXTENDS Integers, Sequences

CONSTANTS
    MaxEvents,  \* bound on the number of arguments and SIGINTs together
    MaxLines    \* bound on the lines typed at the prompt

VARIABLES
    argv,    \* the arguments after the program's name
    luainit, \* LUA_INIT is set
    tty,     \* stdin is a terminal
    jpc,     \* where pmain is
    args,    \* what collectargs returned: argn (-1: invalid) and the flags
    pos,     \* the index of runargs
    chunk,   \* the call into Lua in progress: what runs, where it is, its outcome
    disp,    \* the disposition of SIGINT
    hook,    \* lstop is set as the hook
    sigints, \* SIGINTs so far
    lines,   \* lines read at the prompt
    ran,     \* history: the calls into Lua that have ended, with their outcome
    status,  \* smain.status
    jexit    \* how the process ended: no, killed, success or failure

jitVars == <<argv, luainit, tty, jpc, args, pos, chunk, disp, hook, sigints, lines, ran, status, jexit>>

(* "" is a lone dash, "file" an argument that is no option, "z" an unknown one. *)
Plain == {"e", "l", "j", "O", "b", "i", "v", "E", "-", "", "file", "z"}
Tailed == {"e", "l", "j", "O", "i", "-"}
Args == [opt : Plain, tail : {FALSE}] \cup [opt : Tailed, tail : {TRUE}]

Invalid == [argn |-> -1, flags |-> {}]
NoChunk == [what |-> "none", at |-> "none", ok |-> TRUE, cut |-> FALSE]

(* argn is the index, from 1, of the script in argv. *)
RECURSIVE CollectFrom(_, _)
CollectFrom(i, flags) ==
    IF i > Len(argv) THEN [argn |-> i, flags |-> flags]
    ELSE LET a == argv[i]
         IN CASE a.opt \in {"file", ""} -> [argn |-> i, flags |-> flags]
              [] a.opt = "-" -> IF a.tail THEN Invalid ELSE [argn |-> i + 1, flags |-> flags]
              [] a.opt = "i" -> IF a.tail THEN Invalid
                                ELSE CollectFrom(i + 1, flags \cup {"interactive", "version"})
              [] a.opt = "v" -> IF a.tail THEN Invalid ELSE CollectFrom(i + 1, flags \cup {"version"})
              [] a.opt \in {"e", "j", "l"} ->
                    LET set == flags \cup {"option"} \cup (IF a.opt = "e" THEN {"exec"} ELSE {})
                    IN IF a.tail THEN CollectFrom(i + 1, set)
                       ELSE IF i + 1 > Len(argv) THEN Invalid ELSE CollectFrom(i + 2, set)
              [] a.opt = "O" -> CollectFrom(i + 1, flags)
              [] a.opt = "b" -> IF flags # {} THEN Invalid
                                ELSE [argn |-> i + 1, flags |-> {"exec"}]
              [] a.opt = "E" -> CollectFrom(i + 1, flags \cup {"noenv"})
              [] OTHER -> Invalid

collectargs == CollectFrom(1, {})
-----------------------------------------------------------------------------
JitInit ==
    /\ argv \in UNION {[1..n -> Args] : n \in 0..MaxEvents}
    /\ luainit \in BOOLEAN /\ tty \in BOOLEAN
    /\ jpc = "main" /\ args = Invalid /\ pos = 1 /\ chunk = NoChunk
    /\ disp = "default" /\ hook = FALSE /\ sigints = 0 /\ lines = 0
    /\ ran = <<>> /\ status = 0 /\ jexit = "no"

Idle == chunk = NoChunk /\ jexit = "no"
Quiet == UNCHANGED <<argv, luainit, tty, disp, hook, sigints>>

(* A chunk in docall, or a call outside it ("plain": no handler is set). *)
Begin(what, at) ==
    chunk' = [what |-> what, at |-> at, ok |-> TRUE, cut |-> FALSE] /\ Quiet

(* lua_open fails, or lua_cpcall runs pmain, which reads the arguments. *)
main ==
    /\ Idle /\ jpc = "main"
    /\ \/ jexit' = "failure" /\ UNCHANGED <<jpc, args, status>>
       \/ /\ args' = collectargs
          /\ IF collectargs.argn < 0 THEN status' = 1 /\ jpc' = "close"
             ELSE status' = 0 /\ jpc' = "luainit"
          /\ UNCHANGED jexit
    /\ Quiet /\ UNCHANGED <<pos, chunk, lines, ran>>

handle_luainit ==
    /\ Idle /\ jpc = "luainit"
    /\ IF luainit /\ "noenv" \notin args.flags
       THEN Begin("init", "load") /\ UNCHANGED jpc
       ELSE jpc' = "runargs" /\ Quiet /\ UNCHANGED chunk
    /\ UNCHANGED <<args, pos, lines, ran, status, jexit>>

(* The values of -e, -l and -j are attached or the next argument. *)
runargs ==
    /\ Idle /\ jpc = "runargs"
    /\ IF pos >= args.argn
       THEN jpc' = "script" /\ Quiet /\ UNCHANGED <<pos, chunk>>
       ELSE LET opt == argv[pos].opt
            IN /\ pos' = IF opt \in {"e", "l", "j"} /\ ~argv[pos].tail THEN pos + 2 ELSE pos + 1
               /\ CASE opt = "e" -> Begin("e", "load")
                    [] opt = "l" -> Begin("l", "call")
                    [] opt \in {"j", "O", "b"} -> Begin(opt, "plain")
                    [] OTHER -> Quiet /\ UNCHANGED chunk
               /\ UNCHANGED jpc
    /\ UNCHANGED <<args, lines, ran, status, jexit>>

handle_script ==
    /\ Idle /\ jpc = "script"
    /\ jpc' = "after"
    /\ IF Len(argv) >= args.argn THEN Begin("script", "load") ELSE Quiet /\ UNCHANGED chunk
    /\ UNCHANGED <<args, pos, lines, ran, status, jexit>>

(* Prompt, stdin as a file, or nothing more; print_jit_status calls Lua. *)
pmain_end ==
    /\ Idle /\ jpc = "after"
    /\ LET stdin == Len(argv) < args.argn /\ args.flags \cap {"exec", "version"} = {}
       IN IF "interactive" \in args.flags \/ (stdin /\ tty)
          THEN jpc' = "prompt" /\ Begin("status", "plain")
          ELSE IF stdin THEN jpc' = "close" /\ Begin("stdin", "load")
          ELSE jpc' = "close" /\ Quiet /\ UNCHANGED chunk
    /\ UNCHANGED <<args, pos, lines, ran, status, jexit>>

(* End of input, also in the middle of a chunk, or lines that make up one, which *)
(* may be no valid Lua.                                                          *)
dotty ==
    /\ Idle /\ jpc = "prompt"
    /\ \/ jpc' = "close" /\ Quiet /\ UNCHANGED <<chunk, lines>>
       \/ lines < MaxLines /\ lines' = lines + 1 /\ Begin("line", "load") /\ UNCHANGED jpc
    /\ UNCHANGED <<args, pos, ran, status, jexit>>

(* Mutant: the status -1 of -b counts as a failure. *)
close_on_nonzero ==
    /\ Idle /\ jpc = "close"
    /\ jexit' = IF status # 0 THEN "failure" ELSE "success"
    /\ Quiet /\ UNCHANGED <<jpc, args, pos, chunk, lines, ran, status>>

close ==
    /\ Idle /\ jpc = "close"
    /\ jexit' = IF status > 0 THEN "failure" ELSE "success"
    /\ Quiet /\ UNCHANGED <<jpc, args, pos, chunk, lines, ran, status>>
-----------------------------------------------------------------------------
(* A call into Lua has ended: report prints the message, and the caller decides *)
(* what the failure means.  For -b it means that there is no module bcsave: an   *)
(* error in it is only printed.  Results of a line are printed by a call.        *)
Ended(ok, cut) ==
    LET what == chunk.what
    IN /\ chunk' \in {NoChunk} \cup (IF what = "line" /\ ok
                                    THEN {[NoChunk EXCEPT !.what = "print", !.at = "plain"]} ELSE {})
       /\ ran' = Append(ran, [what |-> what, ok |-> ok, cut |-> cut])
       /\ CASE ok /\ what = "b" -> status' = -1 /\ jpc' = "close"
            [] ~ok /\ what \in {"init", "e", "l", "j", "O", "b", "script", "status"} ->
                   status' = 1 /\ jpc' = "close"
            [] ok /\ what = "init" -> jpc' = "runargs" /\ UNCHANGED status
            [] OTHER -> UNCHANGED <<jpc, status>>

(* luaL_loadfile or luaL_loadbuffer *)
load ==
    /\ chunk.at = "load" /\ jexit = "no"
    /\ \/ Ended(FALSE, FALSE)
       \/ chunk' = [chunk EXCEPT !.at = "call"] /\ UNCHANGED <<jpc, ran, status>>
    /\ Quiet /\ UNCHANGED <<args, pos, lines, jexit>>

(* docall: the handler is set, the chunk runs until it ends or the hook stops  *)
(* it, and the handler is reset.                                               *)
docall_enter ==
    /\ chunk.at = "call" /\ jexit = "no"
    /\ disp' = "laction" /\ chunk' = [chunk EXCEPT !.at = "running"]
    /\ UNCHANGED <<argv, luainit, tty, hook, sigints, jpc, args, pos, lines, ran, status, jexit>>

(* Mutant: the hook is not taken away. *)
lstop_stays ==
    /\ chunk.at = "running" /\ jexit = "no" /\ hook
    /\ chunk' = [chunk EXCEPT !.at = "returned", !.ok = FALSE, !.cut = TRUE]
    /\ UNCHANGED <<argv, luainit, tty, disp, hook, sigints, jpc, args, pos, lines, ran, status, jexit>>

lstop ==
    /\ chunk.at \in {"running", "plain"} /\ jexit = "no" /\ hook
    /\ hook' = FALSE
    /\ IF chunk.at = "plain" THEN \E ok \in BOOLEAN : (ok => chunk.what = "b") /\ Ended(ok, TRUE)
       ELSE /\ chunk' = [chunk EXCEPT !.at = "returned", !.ok = FALSE, !.cut = TRUE]
            /\ UNCHANGED <<jpc, ran, status>>
    /\ UNCHANGED <<argv, luainit, tty, disp, sigints, args, pos, lines, jexit>>

pcall_returns ==
    /\ chunk.at = "running" /\ jexit = "no" /\ ~hook
    /\ \E ok \in BOOLEAN : chunk' = [chunk EXCEPT !.at = "returned", !.ok = ok]
    /\ Quiet /\ UNCHANGED <<jpc, args, pos, lines, ran, status, jexit>>

docall_leave ==
    /\ chunk.at = "returned" /\ jexit = "no"
    /\ disp' = "default" /\ Ended(chunk.ok, chunk.cut)
    /\ UNCHANGED <<argv, luainit, tty, hook, sigints, args, pos, lines, jexit>>

(* lua_pcall or lua_call of the interpreter itself, too short to be stopped for *)
(* certain: dojitcmd, dojitopt, dobytecode, print_jit_status.                   *)
plain_call ==
    /\ chunk.at = "plain" /\ jexit = "no"
    /\ \E ok \in BOOLEAN : Ended(ok, FALSE)
    /\ Quiet /\ UNCHANGED <<args, pos, lines, jexit>>

laction ==
    /\ Len(argv) + sigints < MaxEvents /\ jexit = "no"
    /\ sigints' = sigints + 1
    /\ IF disp = "default" THEN jexit' = "killed" /\ UNCHANGED <<disp, hook>>
       ELSE disp' = "default" /\ hook' = TRUE /\ UNCHANGED jexit
    /\ UNCHANGED <<argv, luainit, tty, jpc, args, pos, chunk, lines, ran, status>>

JitStep ==
    \/ main \/ handle_luainit \/ runargs \/ handle_script \/ pmain_end \/ dotty \/ close
    \/ load \/ docall_enter \/ lstop \/ pcall_returns \/ docall_leave \/ plain_call

JitNext == JitStep \/ laction
-----------------------------------------------------------------------------
(* What the command line asks for, read off in one pass. *)
RECURSIVE Asks(_)
Asks(s) ==
    IF s = <<>> THEN <<>>
    ELSE LET a == Head(s)
         IN CASE a.opt \in {"file", ""} -> <<"script">>
              [] a.opt = "-" -> IF Len(s) > 1 THEN <<"script">> ELSE <<>>
              [] a.opt = "b" -> <<"b">>
              [] a.opt \in {"e", "l", "j"} /\ ~a.tail -> <<a.opt>> \o Asks(SubSeq(s, 3, Len(s)))
              [] a.opt \in {"e", "l", "j", "O"} -> <<a.opt>> \o Asks(Tail(s))
              [] OTHER -> Asks(Tail(s))

Asked == (IF luainit /\ "noenv" \notin args.flags THEN <<"init">> ELSE <<>>) \o Asks(argv)

Done == SelectSeq(ran, LAMBDA r : r.what \in {"init", "e", "l", "j", "O", "b", "script"})
DoneWhat == [i \in DOMAIN Done |-> Done[i].what]

(* The two passes over the arguments agree, as the assertions in runargs claim: *)
(* what runargs looks at is an option, and its value is there.  What ran so far *)
(* is what the command line asks for, in its order and without a gap.           *)
ArgumentsReadAlike ==
    /\ jpc = "runargs" /\ pos < args.argn =>
        /\ pos <= Len(argv) /\ argv[pos].opt \notin {"file", ""}
        /\ argv[pos].opt \in {"e", "l", "j"} /\ ~argv[pos].tail => pos < Len(argv)
    /\ Len(Done) <= Len(Asked) /\ DoneWhat = SubSeq(Asked, 1, Len(Done))

(* Success means that everything the command line asks for ran and did not      *)
(* fail (for -b: its module was there); failure that the arguments are wrong,   *)
(* that there is no memory, that the last call failed or that a late interrupt  *)
(* hit the call before the prompt.  Errors at the prompt and in a program on    *)
(* stdin do not count.                                                          *)
JitExitIsTrue ==
    /\ jexit = "success" => DoneWhat = Asked /\ \A i \in DOMAIN Done : Done[i].ok
    /\ jexit = "failure" /\ jpc # "main" =>
        \/ args.argn < 0
        \/ ran # <<>> /\ ~ran[Len(ran)].ok /\ ran[Len(ran)].what \notin {"stdin", "line", "print"}

(* No SIGINT is lost and none is answered twice: it ends the process, stops a   *)
(* call into Lua, or its hook is still there for the next one.  Two of them     *)
(* count as one only if the second comes before the first has been answered.    *)
InterruptsAreAnswered ==
    LET cuts == Len(SelectSeq(ran, LAMBDA r : r.cut)) + (IF chunk.cut THEN 1 ELSE 0)
        answers == cuts + (IF hook THEN 1 ELSE 0) + (IF jexit = "killed" THEN 1 ELSE 0)
    IN answers <= sigints /\ (sigints > 0 => answers > 0)

(* If chunks end and so does the input, the interpreter does.                   *)
JitEnds == <>(jexit # "no")
=============================================================================
