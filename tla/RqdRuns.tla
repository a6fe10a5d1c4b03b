------------------------------ MODULE RqdRuns -------------------------------
(***************************************************************************)
(* The hosts' side of a run: what RQD does with a launch, a kill and a     *)
(* status request, what it reports when a render ends, and what the        *)
(* network and the machines do to all of it.                               *)
(*                                                                         *)
(* RQD answers by frame id.  FrameAttendantThread runs setup() before it   *)
(* puts the frame in the cache, and deletes the cache entry by frame id    *)
(* when it ends, so "in the cache" and "on the machine" are two things.    *)
(***************************************************************************)
EXTENDS RunTables

VARIABLES
    render,     \* frame attendants: what is really on the machines
    wire,       \* LaunchFrame requests whose caller has already given up
    report,     \* FrameCompleteReports RQD has still to deliver
    net,        \* is the host reachable: "up", "cut" or the machine is "dead"
    hw,         \* host_stat.str_state
    rebooted    \* bookings older than their host's last reported boot

rqdVars == <<render, wire, report, net, hw, rebooted>>

Launch == [proc : Procs, frame : Frames, host : Hosts]

Render ==
    [proc : Procs, frame : Frames, host : Hosts,
     stage : {"setup", "live", "dying"}, cached : BOOLEAN]

Report == [proc : Procs, frame : Frames, ok : BOOLEAN]

RqdTypeOK ==
    /\ render \subseteq Render
    /\ wire \subseteq Launch
    /\ report \subseteq Report
    /\ net \in [Hosts -> {"up", "cut", "dead"}]
    /\ hw \in [Hosts -> {"UP", "DOWN"}]
    /\ rebooted \subseteq Procs

RqdInit ==
    /\ render = {}
    /\ wire = {}
    /\ report = {}
    /\ net = [h \in Hosts |-> "up"]
    /\ hw = [h \in Hosts |-> "UP"]
    /\ rebooted = {}

-----------------------------------------------------------------------------
(* What an RPC finds. *)

Reach(h) == net[h] = "up"

\* frame_id in rqCore's cache.
InCache(h, f) ==
    \E r \in render : r.host = h /\ r.frame = f /\ r.cached

\* GetRunningFrameStatus: found, NOT_FOUND, or no answer at all.
PollRunning(h, f) == Reach(h) /\ InCache(h, f)
PollNotFound(h, f) == Reach(h) /\ ~InCache(h, f)

Attendant(p, f, h) ==
    [proc |-> p, frame |-> f, host |-> h, stage |-> "setup", cached |-> FALSE]

\* KillRunningFrame: whatever the cache holds for the frame is signalled;
\* a frame that is not in the cache is answered NOT_FOUND and left alone.
KilledRenders(h, f) ==
    {IF Reach(h) /\ r.host = h /\ r.frame = f /\ r.cached
       THEN [r EXCEPT !.stage = "dying"] ELSE r : r \in render}

\* deleteFrame(frameId): also drops an entry another attendant stored.
Uncached(h, f, S) ==
    {IF r.host = h /\ r.frame = f THEN [r EXCEPT !.cached = FALSE] ELSE r :
        r \in S}

\* postFrameAction: the cache entry goes, then the report is sent.
Ends(r, ok) ==
    /\ render' = Uncached(r.host, r.frame, render \ {r})
    /\ report' = report \cup {[proc |-> r.proc, frame |-> r.frame, ok |-> ok]}

-----------------------------------------------------------------------------
(* Steps RQD takes on its own. *)

\* setup() is over and storeFrame finds the frame id free.
StoreFrame(r) ==
    /\ r.stage = "setup"
    /\ ~InCache(r.host, r.frame)
    /\ render' = (render \ {r})
                   \cup {[r EXCEPT !.stage = "live", !.cached = TRUE]}
    /\ UNCHANGED <<wire, report, net, hw, rebooted>>

\* setup() or storeFrame raised: FAILED_LAUNCH, without having rendered.
LaunchFails(r) ==
    /\ r.stage = "setup"
    /\ Ends(r, FALSE)
    /\ UNCHANGED <<wire, net, hw, rebooted>>

\* The process ends by itself, with either result, or because it was killed.
RenderEnds(r, ok) ==
    /\ r.stage = "live" \/ (r.stage = "dying" /\ ~ok)
    /\ Ends(r, ok)
    /\ UNCHANGED <<wire, net, hw, rebooted>>

\* A request whose outcome was unknown to its sender arrives after all;
\* a frame already in the cache is refused.
LateLaunch(m) ==
    /\ wire' = wire \ {m}
    /\ render' = IF InCache(m.host, m.frame) THEN render
                   ELSE render \cup {Attendant(m.proc, m.frame, m.host)}
    /\ UNCHANGED <<report, net, hw, rebooted>>

-----------------------------------------------------------------------------
(* Network and machines. *)

Cut(h) ==
    /\ net[h] = "up"
    /\ net' = [net EXCEPT ![h] = "cut"]
    /\ UNCHANGED <<render, wire, report, hw, rebooted>>

Heal(h) ==
    /\ net[h] = "cut"
    /\ net' = [net EXCEPT ![h] = "up"]
    /\ UNCHANGED <<render, wire, report, hw, rebooted>>

\* Renders, unprocessed requests and undelivered reports go with the machine.
HostDies(h) ==
    /\ net[h] # "dead"
    /\ net' = [net EXCEPT ![h] = "dead"]
    /\ render' = {r \in render : r.host # h}
    /\ wire' = {m \in wire : m.host # h}
    /\ report' = {m \in report : proc[m.proc].host # h}
    /\ UNCHANGED <<hw, rebooted>>

\* setUpHostsToDown after 300 seconds without a host report.  That only a
\* dead machine stays silent this long is the assumption lostProc makes
\* ("a genuinely dead host leaves no live RQD").
MarkDown(h) ==
    /\ net[h] = "dead"
    /\ hw[h] = "UP"
    /\ hw' = [hw EXCEPT ![h] = "DOWN"]
    /\ UNCHANGED <<render, wire, report, net, rebooted>>

\* The machine comes back and its start-up report carries the boot time: of
\* the bookings P it proves that they were dispatched long before it
\* (IS_HOST_REBOOTED_SINCE_DISPATCH has a margin of 300 seconds).
HostBoots(h, P) ==
    /\ net[h] = "dead"
    /\ net' = [net EXCEPT ![h] = "up"]
    /\ hw' = [hw EXCEPT ![h] = "UP"]
    /\ rebooted' = rebooted \cup P
    /\ UNCHANGED <<render, wire, report>>

\* RQD gives up re-sending a report it could not deliver.
ReportLost(m) ==
    /\ ~Reach(proc[m.proc].host)
    /\ report' = report \ {m}
    /\ UNCHANGED <<render, wire, net, hw, rebooted>>
=============================================================================
