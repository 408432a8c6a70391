---------------------------- MODULE Collaboration ----------------------------
(***************************************************************************)
(* The routers of internal/collaboration/router.go and the repo adapter of  *)
(* repo.go.  A router keeps nothing: it listens to three NATS topics, sends *)
(* every halt of the Foundry on as a fix-it or as an alert, and writes what  *)
(* it saw and did to the factory ledger.                                   *)
(*                                                                         *)
(* NATS keeps nothing either: a message goes to those who have subscribed,  *)
(* in order, once, and each subscription of a router is served by a thread  *)
(* of its own.  A router handles a signal once, so the fresh id of a fix-it  *)
(* or an alert is the router and the signal.  The ledger is a set of events. *)
(***************************************************************************)
EXTENDS Naturals, Sequences

CONSTANTS
    Routers,
    Signals,        \* runs the Foundry halts
    DefectLists,    \* lists of defect classes a signal may carry
    Artifacts,      \* artifacts the repo adapter confirms
    Tickets         \* submitted through the Control Surface

Topics == <<"andon", "confirm", "submit">>

SpecClasses    == {"schema_violation", "spec_invalid", "constraint_impossible"}
RuntimeClasses == {"runtime_error", "timeout", "crash"}

Violations == {"beta_output", "foundry_runtime", "alpha_spec", "unknown"}

VARIABLES
    listens,    \* how many of the topics each router has subscribed to
    draining,   \* routers that were stopped
    inbox,      \* messages of each topic a router still has to handle
    handling,   \* where handleAndon of each router is
    defects,    \* of the signals raised so far
    adapter,    \* where Confirm of each artifact is
    sent,       \* fix-its and alerts published
    ledger,     \* events of the factory ledger
    dropped     \* ghost: signals a router received but did not send on, for want of NATS or by a crash

routerVars == <<listens, draining, inbox, handling, defects, adapter, sent, ledger, dropped>>

Silent == [t \in 1..Len(Topics) |-> <<>>]

RouterInit ==
    /\ listens = [r \in Routers |-> 0]
    /\ draining = {}
    /\ inbox = [r \in Routers |-> Silent]
    /\ handling = [r \in Routers |-> "idle"]
    /\ defects = <<>>
    /\ adapter = [a \in Artifacts |-> "idle"]
    /\ sent = {}
    /\ ledger = {}
    /\ dropped = {}

\* Publish on the t-th topic; a message that cannot be published is only logged.
Deliver(t, m) ==
    inbox' = [r \in Routers |->
                IF listens[r] >= t /\ r \notin draining
                THEN [inbox[r] EXCEPT ![t] = Append(@, m)] ELSE inbox[r]]

\* Append, whose error is dropped; there may be no ledger at all.
Log(event) == ledger' \in {ledger, ledger \union {event}}

Event(type, r, about) == [type |-> type, router |-> r, about |-> about]

-------------------------------------------------------------------------------
(* Triage *)

\* The first defect whose class is known decides.
ClassifyViolation(list) ==
    LET known == {i \in 1..Len(list) : list[i] \in SpecClasses \union RuntimeClasses}
    IN  IF known # {}
        THEN IF list[CHOOSE i \in known : \A j \in known : i <= j] \in SpecClasses
             THEN "alpha_spec" ELSE "foundry_runtime"
        ELSE IF list = <<>> THEN "unknown" ELSE "beta_output"

Violation(r) == ClassifyViolation(defects[Head(inbox[r][1])])

Fixable(violation) == violation \in {"beta_output", "foundry_runtime"}

Answer(r, s, violation) ==
    [kind |-> IF Fixable(violation) THEN "fix" ELSE "alert",
     violation |-> violation,
     target |-> CASE violation = "foundry_runtime" -> "foundry"
                  [] violation = "beta_output"     -> "beta"
                  [] OTHER                         -> "human",
     signal |-> s, router |-> r]

Current(r) == Head(inbox[r][1])

\* The message of the t-th topic is done with.
Taken(r, t) == inbox' = [inbox EXCEPT ![r][t] = Tail(@)]

\* handleAndon writes the halt to the ledger before it looks at it.
HandleAndon(r) ==
    /\ handling[r] = "idle" /\ inbox[r][1] # <<>>
    /\ handling' = [handling EXCEPT ![r] = "publish"]
    /\ Log(Event("andon_cord", r, Current(r)))
    /\ UNCHANGED <<listens, draining, inbox, defects, adapter, sent, dropped>>

\* Mutant: a halt that cannot be classified is left alone.
RouteKnown(r) ==
    /\ handling[r] = "publish"
    /\ IF Violation(r) = "unknown"
       THEN handling' = [handling EXCEPT ![r] = "idle"] /\ Taken(r, 1) /\ UNCHANGED sent
       ELSE /\ handling' = [handling EXCEPT ![r] = "record"]
            /\ sent' = sent \union {Answer(r, Current(r), Violation(r))}
            /\ UNCHANGED inbox
    /\ UNCHANGED <<listens, draining, defects, adapter, ledger, dropped>>

\* routeFixIt and alertHuman.  Without a defect there is no violation, and a human is alerted.
Route(r) ==
    /\ handling[r] = "publish"
    /\ handling' = [handling EXCEPT ![r] = "record"]
    /\ sent' = sent \union {Answer(r, Current(r), Violation(r))}
    /\ UNCHANGED <<listens, draining, inbox, defects, adapter, ledger, dropped>>

\* Mutant: what could not be published is written to the ledger all the same.
RecordUnsent(r) ==
    /\ handling[r] = "publish"
    /\ handling' = [handling EXCEPT ![r] = "record"]
    /\ UNCHANGED <<listens, draining, inbox, defects, adapter, sent, ledger, dropped>>

RouteFails(r) ==
    /\ handling[r] = "publish"
    /\ handling' = [handling EXCEPT ![r] = "idle"]
    /\ Taken(r, 1)
    /\ dropped' = dropped \union {<<r, Current(r)>>}
    /\ UNCHANGED <<listens, draining, defects, adapter, sent, ledger>>

RecordAnswer(r) ==
    /\ handling[r] = "record"
    /\ handling' = [handling EXCEPT ![r] = "idle"]
    /\ Log(Event(IF Fixable(Violation(r)) THEN "fix_routed" ELSE "human_alert", r, Current(r)))
    /\ Taken(r, 1)
    /\ UNCHANGED <<listens, draining, defects, adapter, sent, dropped>>

\* handleConfirm and handleSubmit only write to the ledger.
HandleConfirm(r) ==
    /\ inbox[r][2] # <<>>
    /\ Log(Event("repo_confirm", r, Head(inbox[r][2])))
    /\ Taken(r, 2)
    /\ UNCHANGED <<listens, draining, handling, defects, adapter, sent, dropped>>

HandleSubmit(r) ==
    /\ inbox[r][3] # <<>>
    /\ Log(Event("ticket_submitted", r, Head(inbox[r][3])))
    /\ Taken(r, 3)
    /\ UNCHANGED <<listens, draining, handling, defects, adapter, sent, dropped>>

-------------------------------------------------------------------------------
(* Start and Stop of a router, and the others on NATS *)

\* Start subscribes to one topic after the other; when one fails the earlier ones stay.
Subscribe(r) ==
    /\ listens[r] < Len(Topics) /\ r \notin draining
    /\ listens' = [listens EXCEPT ![r] = @ + 1]
    /\ UNCHANGED <<draining, inbox, handling, defects, adapter, sent, ledger, dropped>>

\* Mutant: Stop unsubscribes; only what is being handled is handled.
StopUnsubscribes(r) ==
    /\ listens[r] > 0 /\ r \notin draining
    /\ draining' = draining \union {r}
    /\ inbox' = [inbox EXCEPT ![r] =
                   [Silent EXCEPT ![1] = IF handling[r] = "idle" THEN <<>> ELSE <<Current(r)>>]]
    /\ UNCHANGED <<listens, handling, defects, adapter, sent, ledger, dropped>>

\* Stop drains: nothing new is delivered, and what was is still handled.
StopRouter(r) ==
    /\ listens[r] > 0 /\ r \notin draining
    /\ draining' = draining \union {r}
    /\ UNCHANGED <<listens, inbox, handling, defects, adapter, sent, ledger, dropped>>

\* The process ends, also while it drains: Stop does not wait.
CrashRouter(r) ==
    /\ listens[r] > 0
    /\ listens' = [listens EXCEPT ![r] = 0]
    /\ draining' = draining \ {r}
    /\ inbox' = [inbox EXCEPT ![r] = Silent]
    /\ handling' = [handling EXCEPT ![r] = "idle"]
    /\ dropped' = dropped \union {<<r, inbox[r][1][i]>> : i \in 1..Len(inbox[r][1])}
    /\ UNCHANGED <<defects, adapter, sent, ledger>>

\* pullAndonCord of the dispatcher, once for a run.
Raise(s) ==
    \E list \in DefectLists :
        /\ s \notin DOMAIN defects
        /\ defects' = [x \in DOMAIN defects \union {s} |-> IF x = s THEN list ELSE defects[x]]
        /\ Deliver(1, s)
        /\ UNCHANGED <<listens, draining, handling, adapter, sent, ledger, dropped>>

\* RepoAdapter.Confirm publishes, then writes to the ledger; without NATS it returns an error.
Confirm(a) ==
    /\ adapter[a] = "idle"
    /\ \/ Deliver(2, a) /\ adapter' = [adapter EXCEPT ![a] = "published"]
       \/ UNCHANGED inbox /\ adapter' = [adapter EXCEPT ![a] = "failed"]
    /\ UNCHANGED <<listens, draining, handling, defects, sent, ledger, dropped>>

RecordCommit(a) ==
    /\ adapter[a] = "published"
    /\ adapter' = [adapter EXCEPT ![a] = "done"]
    /\ Log(Event("repo_commit", "adapter", a))
    /\ UNCHANGED <<listens, draining, inbox, handling, defects, sent, dropped>>

SubmitTicket(ticket) ==
    /\ \A r \in Routers : inbox[r][3] = <<>>
    /\ Deliver(3, ticket)
    /\ UNCHANGED <<listens, draining, handling, defects, adapter, sent, ledger, dropped>>

Lifecycle(r) == Subscribe(r) \/ StopRouter(r) \/ CrashRouter(r)

\* Every topic has a thread of its own in a router.
HandleHalt(r) == HandleAndon(r) \/ Route(r) \/ RouteFails(r) \/ RecordAnswer(r)

RouterStep(r) == HandleHalt(r) \/ HandleConfirm(r) \/ HandleSubmit(r) \/ Lifecycle(r)
===============================================================================
