---------------------------- MODULE StageLedger ----------------------------
(***************************************************************************)
(* What an execution of a stage promises to the rest of the platform, with *)
(* its chats, attempts, restarts and log rows hidden: it marks the stage   *)
(* running, whatever was recorded of it, ends by completing or failing it, *)
(* and books the tokens of a completed stage once, before the stage can be *)
(* worked on again; an interruption loses the work and the booking but     *)
(* changes nothing that is recorded.  StageExecutor is shown to implement  *)
(* this.                                                                   *)
(***************************************************************************)
EXTENDS Naturals

CONSTANT Stages

VARIABLES status,  \* what is recorded of a stage
          doing,   \* "work" on a stage, "booking" of its tokens, or "nothing"
          booked   \* completed executions whose tokens are booked

ledgerVars == <<status, doing, booked>>

Init == /\ status = [s \in Stages |-> "pending"]
        /\ doing = [s \in Stages |-> "nothing"]
        /\ booked = 0

\* From one activity to another, and what is recorded with it.
Turn(s, from, to) == doing[s] = from /\ doing' = [doing EXCEPT ![s] = to]
Mark(s, st) == status' = [status EXCEPT ![s] = st]

Begin(s) == /\ Turn(s, "nothing", "work") /\ Mark(s, "running")
            /\ UNCHANGED booked

Complete(s) == /\ status[s] = "running"
               /\ Turn(s, "work", "booking") /\ Mark(s, "completed")
               /\ UNCHANGED booked

Fail(s) == /\ status[s] = "running"
           /\ Turn(s, "work", "nothing") /\ Mark(s, "failed")
           /\ UNCHANGED booked

Book(s) == /\ Turn(s, "booking", "nothing")
           /\ booked' = booked + 1
           /\ UNCHANGED status

\* A cancellation or a crash takes stages away from whoever is busy with them.
Interrupt(S) == /\ doing' = [s \in Stages |-> IF s \in S THEN "nothing" ELSE doing[s]]
                /\ UNCHANGED <<status, booked>>

Next == \/ \E s \in Stages : Begin(s) \/ Complete(s) \/ Fail(s) \/ Book(s)
        \/ \E S \in SUBSET Stages : Interrupt(S)

Spec == Init /\ [][Next]_ledgerVars
=============================================================================
