-------------------------------- MODULE Floor --------------------------------
(***************************************************************************)
(* What runs beside the dispatcher: the routers of the collaboration API    *)
(* and the maintenance API, which write to one factory ledger that nothing  *)
(* reads, and the plugin manager.                                          *)
(*                                                                         *)
(* Bound: in one behaviour only the members of one cast take part.         *)
(***************************************************************************)
EXTENDS Collaboration, Maintenance, PluginManager

CONSTANT Casts      \* sets of routers, signals, artifacts, tickets, callers, pairs, managers and plugins

VARIABLE cast

vars == <<routerVars, maintenanceVars, pluginVars, cast>>

Init == RouterInit /\ MaintenanceInit /\ PluginInit /\ cast \in Casts

RouterNext ==
    \/ \E r \in Routers \intersect cast : RouterStep(r)
    \/ \E s \in Signals \intersect cast : Raise(s)
    \/ \E a \in Artifacts \intersect cast : Confirm(a) \/ RecordCommit(a)
    \/ \E ticket \in Tickets \intersect cast : SubmitTicket(ticket)

MaintenanceNext ==
    \/ \E c \in Callers \intersect cast : CallStep(c)
    \/ \E p \in Pairs \intersect cast, to \in PairStates : Reassign(p, to)

PluginNext ==
    \/ \E p \in Slugs \intersect cast : Publish(p)
    \/ \E m \in Managers \intersect cast : ManagerStep(m)

Next ==
    \/ RouterNext /\ UNCHANGED <<maintenanceVars, pluginVars, cast>>
    \/ MaintenanceNext /\ UNCHANGED <<routerVars, pluginVars, cast>>
    \/ PluginNext /\ UNCHANGED <<routerVars, maintenanceVars, cast>>

\* The threads of a router that runs handle what has been delivered to them; nothing else has
\* to happen.
Spec ==
    /\ Init /\ [][Next]_vars
    /\ \A r \in Routers : WF_vars(HandleHalt(r) /\ UNCHANGED <<maintenanceVars, pluginVars, cast>>)

-------------------------------------------------------------------------------

\* What the ledger says was sent on has been sent, by the router and as the kind it says, and a
\* commit it shows has been confirmed on NATS: no failed publish, stop or crash leaves an entry
\* for something that never went out.
LedgerTellsTruth ==
    \A e \in ledger :
        /\ e.type = "fix_routed" =>
              \E m \in sent : m.kind = "fix" /\ m.router = e.router /\ m.signal = e.about
        /\ e.type = "human_alert" =>
              \E m \in sent : m.kind = "alert" /\ m.router = e.router /\ m.signal = e.about
        /\ e.type = "repo_commit" => adapter[e.about] = "done"

Answered(r, s) == \E m \in sent : m.router = r /\ m.signal = s

\* The halt s still waits at r, or is being handled.
Waits(r, s) == \E i \in 1..Len(inbox[r][1]) : inbox[r][1][i] = s

\* A router handles each halt it was given exactly once: a halt leaves it only answered, or
\* counted as dropped, and none is routed that this router has answered before.  No step of
\* handleAndon, of Stop or of the other topics' threads loses or repeats one, whatever waits
\* before or behind it.
HaltsHandledOnce ==
    [][\A r \in Routers :
          /\ Route(r) => ~Answered(r, Current(r))
          /\ \A s \in Signals :
                Waits(r, s) => Waits(r, s)' \/ Answered(r, s)' \/ <<r, s>> \in dropped']_vars

\* A signal that has reached a router becomes a fix-it or an alert of that router, whatever
\* defects it carries, if any, and although the router is stopped meanwhile; unless the router
\* crashes or NATS does not take the message.
EverySignalAnswered ==
    \A r \in Routers, s \in Signals :
        Waits(r, s) ~> (Answered(r, s) \/ <<r, s>> \in dropped)

\* "maintenance_phase is only set when state = 'maintenance'; NULL otherwise"
\* (0008_maintenance_substates.up.sql:4), however the checks and updates of several calls fall.
PhaseOnlyInMaintenance ==
    \A p \in Pairs : pairPhase[p] # NoPhase => pairState[p] = "maintenance" /\ pairPhase[p] \in ValidPhases

\* A plugin of which Update says that it is up to date has its binary whole, as its manifest has
\* it, however often installs and updates of it failed or were killed; unless two ran at once,
\* or the same version was installed again.
UpToDateIsWhole ==
    \A p \in Slugs \ (overlapped \union repeated) :
        Installed(p) /\ manifest[p].version = offered[p].version => file[p] = manifest[p].sum
===============================================================================
