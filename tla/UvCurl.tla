------------------------------- MODULE UvCurl -------------------------------
(* net/uvcurl.lua: a coroutine calls fetch, yields, and is resumed from a     *)
(* libuv callback when libcurl reports its transfer.  One uv timer and one    *)
(* poll handle per socket are what keeps uv.run() going.                      *)
(*                                                                            *)
(* libcurl is external: a socket action moves some transfers, each of which   *)
(* asks for a poll of its socket or finishes, and may or may not set the      *)
(* timer.  Steps bounds how often one transfer asks before it finishes.       *)
EXTENDS Naturals, FiniteSets

CONSTANTS Fetchers, Steps, None

ASSUME StepsAssumption == Steps \in Nat \ {0}
ASSUME NoneAssumption == None \notin Fetchers

VARIABLES
    co,         \* co[f]: where the coroutine that fetches is
    got,        \* got[f]: what the fetch returned to it
    requests,   \* the fetchers whose request is in the table
    transfer,   \* libcurl: the transfer of f
    steps,      \* libcurl: how often it may still ask for a poll
    timer,      \* the uv timer is active
    poll,       \* poll[f]: the poll handle of f's socket
    loop,       \* uv.run
    current     \* the coroutine that check_multi_info has resumed

loopVars == <<co, got, requests, transfer, steps, timer, poll, loop, current>>

Outcomes == {"ok", "error"}
Finished == {f \in Fetchers : transfer[f] \in Outcomes}
Running == {f \in Fetchers : transfer[f] = "running"}

LoopInit ==
    /\ co = [f \in Fetchers |-> "ready"]
    /\ got = [f \in Fetchers |-> None]
    /\ requests = {}
    /\ transfer = [f \in Fetchers |-> "none"]
    /\ steps = [f \in Fetchers |-> Steps]
    /\ timer = FALSE
    /\ poll = [f \in Fetchers |-> "none"]
    /\ loop = "off"
    /\ current = None

-----------------------------------------------------------------------------
(* fetch: the request is made and the coroutine yields whatever became of it. *)
(* Without an easy handle there is no request; add_handle's failure is not    *)
(* looked at; its success makes libcurl set the timer.                        *)
Fetch(f) ==
    /\ co[f] = "ready" /\ loop = "off"
    /\ co' = [co EXCEPT ![f] = "waiting"]
    /\ \/ UNCHANGED <<requests, transfer, timer>>
       \/ requests' = requests \cup {f} /\ UNCHANGED <<transfer, timer>>
       \/ /\ requests' = requests \cup {f}
          /\ transfer' = [transfer EXCEPT ![f] = "running"]
          /\ timer' = TRUE
    /\ UNCHANGED <<got, steps, poll, loop, current>>

RunLoop ==
    /\ loop = "off" /\ \A f \in Fetchers : co[f] # "ready"
    /\ loop' = "waiting"
    /\ UNCHANGED <<co, got, requests, transfer, steps, timer, poll, current>>

-----------------------------------------------------------------------------
(* Mutant: the removal of a socket leaves its poll handle started. *)
HandleSocketKeeping(p, action) ==
    IF action = "in" THEN "r" ELSE IF action = "out" THEN "w" ELSE p

(* handle_socket: a request for both directions starts nothing. *)
HandleSocket(p, action) ==
    CASE action = "in" -> "r"
      [] action = "out" -> "w"
      [] action = "remove" -> "none"
      [] OTHER -> IF p = "none" THEN "idle" ELSE p

(* m:socket_action: libcurl moves the transfers in moved, the new ones among *)
(* them.                                                                      *)
SocketAction(moved) ==
    /\ \A f \in Running : poll[f] = "none" => f \in moved
    /\ \E over \in SUBSET moved :
        /\ \A f \in moved \ over : steps[f] > 0
        /\ \E ends \in [over -> Outcomes] :
             transfer' = [f \in Fetchers |-> IF f \in over THEN ends[f] ELSE transfer[f]]
        /\ \E asks \in [moved \ over -> {"in", "out", "inout"}] :
             poll' = [f \in Fetchers |->
                        IF f \in over THEN HandleSocket(poll[f], "remove")
                        ELSE IF f \in moved THEN HandleSocket(poll[f], asks[f])
                        ELSE poll[f]]
        /\ steps' = [f \in Fetchers |-> IF f \in moved \ over THEN steps[f] - 1 ELSE steps[f]]
        /\ timer' \in BOOLEAN

(* The callback of start_timer; the timer does not repeat. *)
TimerFires ==
    /\ loop = "waiting" /\ timer
    /\ \E moved \in SUBSET Running :
         /\ SocketAction(moved)
         /\ moved = {} => ~timer'
    /\ loop' = "callback"
    /\ UNCHANGED <<co, got, requests, current>>

(* curl_perform: the timer is stopped before libcurl is told of the event. *)
SocketReady(f) ==
    /\ loop = "waiting" /\ poll[f] \in {"r", "w"}
    /\ \E moved \in SUBSET Running : f \in moved /\ SocketAction(moved)
    /\ loop' = "callback"
    /\ UNCHANGED <<co, got, requests, current>>

-----------------------------------------------------------------------------
(* Mutant: every coroutine that waits is resumed. *)
InfoReadAll(f) ==
    /\ loop = "callback" /\ current = None /\ f \in Finished
    /\ current' = f
    /\ co' = [g \in Fetchers |-> IF co[g] = "waiting" THEN "resumed" ELSE co[g]]
    /\ got' = [g \in Fetchers |-> IF co[g] = "waiting" THEN transfer[f] ELSE got[g]]
    /\ UNCHANGED <<requests, transfer, steps, timer, poll, loop>>

(* check_multi_info: the next message resumes its coroutine, through the      *)
(* delegate of its request, inside the callback ...                           *)
InfoRead(f) ==
    /\ loop = "callback" /\ current = None /\ f \in Finished
    /\ current' = f
    /\ co' = [co EXCEPT ![f] = "resumed"]
    /\ got' = [got EXCEPT ![f] = transfer[f]]
    /\ UNCHANGED <<requests, transfer, steps, timer, poll, loop>>

(* ... and once it returns, the request is dropped and the handle closed. *)
CoroutineReturns(f) ==
    /\ current = f
    /\ current' = None
    /\ co' = [co EXCEPT ![f] = "returned"]
    /\ requests' = requests \ {f}
    /\ transfer' = [transfer EXCEPT ![f] = "closed"]
    /\ UNCHANGED <<got, steps, timer, poll, loop>>

InfoEmpty ==
    /\ loop = "callback" /\ current = None /\ Finished = {}
    /\ loop' = "waiting"
    /\ UNCHANGED <<co, got, requests, transfer, steps, timer, poll, current>>

(* uv.run returns once no handle is active. *)
LoopEnds ==
    /\ loop = "waiting" /\ ~timer /\ \A f \in Fetchers : poll[f] \in {"none", "idle"}
    /\ loop' = "returned"
    /\ UNCHANGED <<co, got, requests, transfer, steps, timer, poll, current>>

-----------------------------------------------------------------------------
(* A coroutine that fetch resumed was resumed by its own transfer's message,  *)
(* with that outcome, while its request was still in the table: requests[easy]*)
(* is never nil in check_multi_info.                                          *)
ResumedByItsTransfer ==
    /\ \A f \in Finished : f \in requests /\ co[f] \in {"waiting", "resumed"}
    /\ \A f \in Fetchers : co[f] \in {"resumed", "returned"} =>
         /\ transfer[f] \in {got[f], "closed"}
         /\ co[f] = "resumed" <=> current = f

(* uv.run returns on a coroutine that still waits only if libcurl has no      *)
(* transfer for it, or wanted both directions of its socket polled and no     *)
(* timer; no poll handle outlives its transfer.                               *)
AbandonedOnlyUnpolled ==
    /\ \A f \in Fetchers : poll[f] # "none" => f \in Running
    /\ loop = "returned" => \A f \in Fetchers :
         co[f] = "waiting" => transfer[f] = "none" \/ poll[f] = "idle"

(* fetch resumes a coroutine with the outcome of its own transfer, and uv.run   *)
(* abandons one only if libcurl left it without a timer and a poll handle.      *)
TransfersAreResumed == ResumedByItsTransfer /\ AbandonedOnlyUnpolled
=============================================================================
