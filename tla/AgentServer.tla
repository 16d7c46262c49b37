---- MODULE AgentServer ----
(***************************************************************************)
(* The HTTP server inside a sandbox container (sandbox/agent_server.py).   *)
(* A stage posts one request and reads a stream of events until "final".   *)
(* The handler warms the container up, once for all requests of the        *)
(* container; then it starts the chat as a task of its own and forwards    *)
(* what the chat puts into a queue.  Client, handler and chat can end in   *)
(* any order.                                                              *)
(***************************************************************************)
EXTENDS Integers, FiniteSets

CONSTANTS
    Boxes,      \* sandboxes (containers or virtual machines)
    Stages,     \* the stages that send requests; one request each at a time
    None        \* no box, no task, no role

VARIABLES
    warm,       \* box -> the warm-ups that succeeded in it
    req         \* stage -> its request

serverVars == <<warm, req>>

Preflight == "preflight"
Prewarm == "prewarm"
WarmUps == {Preflight, Prewarm}

NoRequest == [box |-> None, at |-> "none", in |-> Preflight, chat |-> "none", final |-> FALSE,
              client |-> "none", early |-> FALSE]

\* at: where the handler is; in: the warm-up that check, wait and run are about;
\* early: the client went away before the response stream was open.
Requests == [box : Boxes \cup {None},
             at : {"none", "check", "wait", "run", "prepare", "stream", "end"},
             in : WarmUps, chat : {"none", "run", "over"},
             final : BOOLEAN, client : {"none", "waiting", "answered", "gone"},
             early : BOOLEAN]

ServerTypeOK ==
    /\ warm \in [Boxes -> SUBSET WarmUps]
    /\ req \in [Stages -> Requests]

ServerInit ==
    /\ warm = [b \in Boxes |-> {}]
    /\ req = [s \in Stages |-> NoRequest]

In(s, k, pc) == req[s].at = pc /\ req[s].in = k

LockFree(b, k) == \A s \in Stages : ~(req[s].box = b /\ In(s, k, "run"))

Moves(s, next) == req' = [req EXCEPT ![s].at = next]

WarmUpPassed(s, k) ==
    req' = [req EXCEPT ![s].at = IF k = Preflight THEN "check" ELSE "prepare",
                       ![s].in = Prewarm]

\* The stage opens the stream; the body is parsed before anything is awaited.
Post(s, b) ==
    [req EXCEPT ![s] = [NoRequest EXCEPT !.box = b, !.at = "check", !.client = "waiting"]]

\* First look, outside the lock.  The prewarm is also passed over when it is
\* switched off or the workspace has no gradlew.
Skip(s, k) ==
    /\ In(s, k, "check")
    /\ k \in warm[req[s].box] \/ k = Prewarm
    /\ WarmUpPassed(s, k)
    /\ UNCHANGED warm

Enter(s, k) ==
    /\ In(s, k, "check")
    /\ k \notin warm[req[s].box]
    /\ Moves(s, IF LockFree(req[s].box, k) THEN "run" ELSE "wait")
    /\ UNCHANGED warm

\* The lock is free at last: look again, now inside it.
Wake(s, k) ==
    /\ In(s, k, "wait")
    /\ LockFree(req[s].box, k)
    /\ IF k \in warm[req[s].box] THEN WarmUpPassed(s, k) ELSE Moves(s, "run")
    /\ UNCHANGED warm

\* The preflight always counts as done; a prewarm that fails is left to the
\* next request, and neither stops this one.
Warm(s, k) ==
    /\ In(s, k, "run")
    /\ \E done \in {{k}} \cup (IF k = Prewarm THEN {{}} ELSE {}) :
          warm' = [warm EXCEPT ![req[s].box] = @ \cup done]
    /\ WarmUpPassed(s, k)

Answered(s) == IF req[s].client = "waiting" THEN "answered" ELSE req[s].client

\* _create_runner raises: status 500, no chat.
NoRunner(s) ==
    /\ req[s].at = "prepare" /\ req[s].chat = "none"
    /\ req' = [req EXCEPT ![s].at = "end", ![s].client = Answered(s)]
    /\ UNCHANGED warm

StartChat(s) ==
    /\ req[s].at = "prepare" /\ req[s].chat = "none"
    /\ req' = [req EXCEPT ![s].chat = "run"]
    /\ UNCHANGED warm

\* response.prepare, outside the try block: when the client has gone it
\* raises, and the handler is over without a word to the chat.
Prepare(s) ==
    /\ req[s].at = "prepare" /\ req[s].chat # "none"
    /\ Moves(s, IF req[s].client = "waiting" THEN "stream" ELSE "end")
    /\ UNCHANGED warm

\* The chat answers, times out or raises: the final event is its last.
ChatEnds(s) ==
    /\ req[s].chat = "run"
    /\ req' = [req EXCEPT ![s].chat = "over", ![s].final = TRUE]
    /\ UNCHANGED warm

Deliver(s) ==
    /\ req[s].at = "stream" /\ req[s].final /\ req[s].client = "waiting"
    /\ req' = [req EXCEPT ![s].at = "end", ![s].client = "answered"]
    /\ UNCHANGED warm

\* Mutant: the handler returns without cancelling the chat.
HangUpQuietly(s) ==
    /\ req[s].at = "stream" /\ req[s].client # "waiting"
    /\ req' = [req EXCEPT ![s].at = "end"]
    /\ UNCHANGED warm

\* An event or a heartbeat finds the client gone: the chat is cancelled.
HangUp(s) ==
    /\ req[s].at = "stream" /\ req[s].client # "waiting"
    /\ req' = [req EXCEPT ![s].at = "end", ![s].chat = "over"]
    /\ UNCHANGED warm

\* The stage stops reading: its timeout, or the run was cancelled.
Left(r) ==
    IF r.client = "waiting" THEN [r EXCEPT !.client = "gone", !.early = r.at # "stream"] ELSE r

\* Nothing is left of a request.
Forget(s) ==
    /\ req[s].at = "end" /\ req[s].chat # "run" /\ req[s].client # "waiting"
    /\ req' = [req EXCEPT ![s] = NoRequest]
    /\ UNCHANGED warm

\* The end of the boxes in B ends the requests inside.
Cut(r, B) == IF r.box \in B THEN NoRequest ELSE r

ServerStep ==
    \E s \in Stages :
        \/ \E k \in WarmUps : Skip(s, k) \/ Enter(s, k) \/ Wake(s, k) \/ Warm(s, k)
        \/ NoRunner(s)
        \/ StartChat(s)
        \/ Prepare(s)
        \/ ChatEnds(s)
        \/ Deliver(s)
        \/ HangUp(s)
        \/ Forget(s)

\* A chat that nobody reads goes on only when its client left before the
\* response stream was open (handle_execute_stream awaits prepare outside the
\* block that cancels the chat); in every other order of client, handler and
\* chat the container is not kept busy by an answer nobody will get.
ChatHasReader ==
    \A s \in Stages : req[s].at = "end" /\ req[s].chat = "run" => req[s].early
====
