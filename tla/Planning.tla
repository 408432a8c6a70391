------------------------------- MODULE Planning -------------------------------
(***************************************************************************)
(* The foundry command line around the round table (cmd/foundry/main.go):   *)
(* `plan` and `resume` with the session file of internal/session, and       *)
(* `scope approve` and `submit` over the table of tickets.                  *)
(*                                                                         *)
(* There is one session file per working directory, which every terminal    *)
(* in it shares.  A process may be killed at any time; killed while it      *)
(* writes the file, it leaves it torn, as a write that fails does.          *)
(*                                                                         *)
(* Bound: no approval starts before the last conversation has ended; they   *)
(* share the scope file only, which an approval reads once, when it starts. *)
(***************************************************************************)
EXTENDS RoundTable

VARIABLES
    session,    \* state in .partir/session.json
    command,    \* what runs in each terminal
    unfinished, \* ghost: plans that saved a session and did not return, or returned an error
    overlapped  \* ghost: a plan has started while another plan ran

sessionVars == <<session, command, unfinished, overlapped>>
vars == <<approvalVars, tableVars, sessionVars>>

\* "torn" is a file that does not parse.
SessionStates == {"none", "torn", "active", "paused", "completed"}
Commands      == {"none", "plan", "resume"}

Init ==
    /\ ApprovalInit
    /\ TableInit
    /\ session = "none"
    /\ command = [t \in Terminals |-> "none"]
    /\ unfinished = {}
    /\ overlapped = FALSE

Planners == {t \in Terminals : command[t] = "plan"}

\* Session.Save: the file is truncated and written; it may stay as it was, or be left torn.
Save(s) == session' \in {s, session, "torn"}

\* A saved session takes the place of those of plans that no longer run.
Left(s) == IF session' = s THEN unfinished \cap Planners ELSE unfinished

-------------------------------------------------------------------------------

\* The session is saved before the conversation starts; a failure is only a warning.
StartPlan(t) ==
    /\ \A a \in Approvals : loaded[a] = <<>>
    /\ Open(t)
    /\ Save("active")
    /\ command' = [command EXCEPT ![t] = "plan"]
    /\ unfinished' = IF session' = "active" THEN Left("active") \union {t} ELSE unfinished
    /\ overlapped' = (overlapped \/ Planners # {})
    /\ UNCHANGED approvalVars

\* A plan whose Start has returned saves the session with its final state.
SaveAtEnd(t, s) ==
    /\ Save(s)
    /\ unfinished' = IF stage[t] = "ok" THEN Left(s) \ {t} ELSE Left(s) \union ({t} \cap unfinished)
    /\ Close(t)
    /\ command' = [command EXCEPT ![t] = "none"]
    /\ UNCHANGED <<approvalVars, overlapped>>

\* Mutant: the session counts as completed however Start has returned.
EndPlanCompletes(t) ==
    /\ command[t] = "plan" /\ stage[t] \in {"ok", "error"}
    /\ SaveAtEnd(t, "completed")

\* Whether this save succeeds is not looked at.
EndPlan(t) ==
    /\ command[t] = "plan" /\ stage[t] \in {"ok", "error"}
    /\ SaveAtEnd(t, IF stage[t] = "ok" THEN "completed" ELSE "paused")

\* Only the state of the saved session is looked at: the conversation starts anew, with
\* the project "default" and no rulebooks.
StartResume(t) ==
    /\ \A a \in Approvals : loaded[a] = <<>>
    /\ session \in {"active", "paused"}
    /\ Open(t)
    /\ command' = [command EXCEPT ![t] = "resume"]
    /\ UNCHANGED <<approvalVars, session, unfinished, overlapped>>

\* The session is not saved again.
EndResume(t) ==
    /\ command[t] = "resume" /\ stage[t] \in {"ok", "error"}
    /\ Close(t)
    /\ command' = [command EXCEPT ![t] = "none"]
    /\ UNCHANGED <<approvalVars, session, unfinished, overlapped>>

\* The process is killed.
Kill(t) ==
    /\ command[t] # "none"
    /\ Close(t)
    /\ command' = [command EXCEPT ![t] = "none"]
    /\ UNCHANGED <<approvalVars, session, unfinished, overlapped>>

Talk(t) ==
    /\ command[t] # "none"
    /\ Converse(t)
    /\ UNCHANGED <<approvalVars, sessionVars>>

\* The user keeps the scope he sees, or writes one himself.
KeepScope ==
    /\ \/ \E t \in Terminals : stage[t] = "decide" /\ Keep(scope[t])
       \/ \E written \in Edits : Talking = {} /\ Keep(written)
    /\ UNCHANGED <<tableVars, sessionVars>>

ApproveScope(a) ==
    /\ Talking = {}
    /\ Approve(a) \/ SubmitNext(a) \/ SubmitFails(a)
    /\ UNCHANGED <<tableVars, sessionVars>>

Submit(id) ==
    /\ Talking = {}
    /\ SubmitOne(id)
    /\ UNCHANGED <<tableVars, sessionVars>>

-------------------------------------------------------------------------------

Next ==
    \/ \E t \in Terminals : \/ StartPlan(t) \/ EndPlan(t) \/ StartResume(t) \/ EndResume(t)
                            \/ Kill(t) \/ Talk(t)
    \/ KeepScope
    \/ \E a \in Approvals : ApproveScope(a)
    \/ \E id \in Names : Submit(id)

Spec == Init /\ [][Next]_vars
===============================================================================
