---------------------------- MODULE ScopeApproval ----------------------------
(***************************************************************************)
(* A project scope from the model's answer to the table of tickets:         *)
(* GenerateScope of internal/foundry/planner.go, the saved scope and        *)
(* ApproveScope of internal/foundry/scope.go, and the two commands that     *)
(* submit, `foundry scope approve` and `foundry submit`.                    *)
(*                                                                         *)
(* Of a ticket only its ticket_id is kept.  Several approvals may run at    *)
(* once, each a process of its own.                                        *)
(***************************************************************************)
EXTENDS Naturals, Sequences

CONSTANTS
    Approvals,      \* invocations of `foundry scope approve`
    Names,          \* ticket ids the model or the user chose
    Missing,        \* the model left the id out
    Phases, Places, \* numbers of groups, and of tickets in a group
    Plans,          \* answers of the model: tickets, with their phase and place in its group
    Edits           \* scopes the user may write in an editor

Nobody == "nobody"
Hand   == "hand"

\* The id the planner makes up: ticket-<phase>-<place>.
TicketIDs == Names \union (Phases \X Places)
PlanItem  == [phase: Phases, place: Places, id: Names \union {Missing}]

ASSUME ScopeAssumption ==
    /\ Plans \subseteq Seq(PlanItem)
    /\ Edits \subseteq Seq(TicketIDs)
    /\ Missing \notin TicketIDs
    /\ {Nobody, Hand} \cap Approvals = {}

VARIABLES
    file,       \* the saved scope, <<>> while there is none
    by,         \* who inserted each row of tickets
    loaded,     \* the scope each approval has read
    next,       \* the ticket it has come to
    stopped     \* approvals that have returned

approvalVars == <<file, by, loaded, next, stopped>>

ApprovalInit ==
    /\ file = <<>>
    /\ by = [i \in TicketIDs |-> Nobody]
    /\ loaded = [a \in Approvals |-> <<>>]
    /\ next = [a \in Approvals |-> 1]
    /\ stopped = {}

-------------------------------------------------------------------------------

\* Ids are made up only where they are missing, so two groups with one phase number, or a
\* name the model repeats, give one id to two tickets.
GenerateScope(plan) ==
    [i \in DOMAIN plan |->
        IF plan[i].id = Missing THEN <<plan[i].phase, plan[i].place>> ELSE plan[i].id]

\* The user keeps a scope.  SaveScope has no caller: he copies it from the editor.
Keep(scope) ==
    /\ file' = scope
    /\ UNCHANGED <<by, loaded, next, stopped>>

Running(a) == loaded[a] # <<>> /\ a \notin stopped

Stop(a) == stopped' = stopped \union {a}

\* LoadScope: the file is read once.  An empty scope submits nothing.
Approve(a) ==
    /\ loaded[a] = <<>> /\ a \notin stopped
    /\ file # <<>>
    /\ loaded' = [loaded EXCEPT ![a] = file]
    /\ UNCHANGED <<file, by, next, stopped>>

\* Mutant: the insert is an upsert.
Upsert(id, who) == by' = [by EXCEPT ![id] = who]

\* Dispatcher.Submit inserts a row; ticket_id is unique.
Insert(id, who) ==
    /\ by[id] = Nobody
    /\ by' = [by EXCEPT ![id] = who]

SubmitNext(a) ==
    /\ Running(a)
    /\ Insert(loaded[a][next[a]], a)
    /\ IF next[a] = Len(loaded[a]) THEN Stop(a) ELSE UNCHANGED stopped
    /\ next' = [next EXCEPT ![a] = @ + 1]
    /\ UNCHANGED <<file, loaded>>

\* Mutant: a ticket that cannot be submitted is passed over.
SubmitSkips(a) ==
    /\ Running(a)
    /\ next[a] < Len(loaded[a])
    /\ next' = [next EXCEPT ![a] = @ + 1]
    /\ UNCHANGED <<file, by, loaded, stopped>>

\* The first error ends it: the row is there already, the database refuses, or its answer
\* is lost after the insert.
SubmitFails(a) ==
    /\ Running(a)
    /\ \/ UNCHANGED <<by, next>>
       \/ /\ Insert(loaded[a][next[a]], a)
          /\ next' = [next EXCEPT ![a] = @ + 1]
    /\ Stop(a)
    /\ UNCHANGED <<file, loaded>>

\* `foundry submit` of one ticket.json.
SubmitOne(id) ==
    /\ Insert(id, Hand)
    /\ UNCHANGED <<file, loaded, next, stopped>>
===============================================================================
