---------------------------- MODULE DnsListener ----------------------------
(***************************************************************************)
(* The local DNS listeners while they answer queries (src/src/local_dns.rs), *)
(* with the alerts of refused queries (domain_notify.rs) and their cooldown  *)
(* (approval_deduper.rs).                                                   *)
(*                                                                          *)
(* DomainPolicy replaces the table of listeners in one step.  In the code    *)
(* LocalDnsController::reconcile overwrites four RwLocks of a listener one   *)
(* after the other, spawns missing tasks and waits for stale ones, while UDP *)
(* queries are handled inside the listener's task and each TCP client in a   *)
(* task of its own, which may outlive the listener it came through.         *)
(*                                                                          *)
(* A listener id stands for the shared cells (the Arcs) of one ListenerHandle *)
(* and its task; an id is used again once nothing refers to its cells.  A    *)
(* query carries one name.  A DNS message, its response and the upstream     *)
(* servers are left out: a query is refused or forwarded, and forwarding     *)
(* succeeds or fails.                                                       *)
(***************************************************************************)
EXTENDS Naturals, FiniteSets

CONSTANTS
    Ports,        \* ports listeners are wanted on
    Listeners,    \* ids of listeners
    Queries,      \* slots of queries in flight (bound)
    Names,        \* domain names
    Suffixes,     \* the names domain_is_blocked looks up for a name
    Registrable,  \* registrable_domain
    Users,
    Policies,     \* policies a reconcile may ask for
    None,
    MaxFaults     \* bound on failures of sockets, upstreams and iptables commands

Modes    == {"blocklist_only", "approval_on_block"}
DnsPolicy == [blocked : SUBSET Names, allowed : SUBSET Names, mode : Modes, user : Users]

ASSUME NameAssumption ==
    /\ Suffixes \in [Names -> SUBSET Names]
    /\ \A n \in Names : n \in Suffixes[n]
    /\ Registrable \in [Names -> Names]
ASSUME DnsPolicyAssumption == Policies \subseteq DnsPolicy /\ None \notin DnsPolicy
ASSUME ListenerAssumption ==
    /\ None \notin Listeners
    /\ Cardinality(Listeners) >= Cardinality(Ports) + Cardinality(Queries)
ASSUME DnsFaultAssumption == MaxFaults \in Nat
ASSUME FiniteAssumption == IsFiniteSet(Ports) /\ IsFiniteSet(Queries)

VARIABLES
    table,      \* LocalDnsController.listeners, by port
    listeners,  \* the cells and the task behind each id
    query,      \* progress of each query
    job,        \* the policies reconcile is applying, None between calls
    todo,       \* ports its loop has not reached
    writing,    \* the port and the cell it is about to write, None if none
    stopping,   \* the stale listener whose task it waits for, None if none
    cooling,    \* names in their cooldown (ApprovalDeduper.last_emitted_at)
    applied,    \* policies of the last reconcile that returned (history)
    faults

vars == <<table, listeners, query, job, todo, writing, stopping, cooling, applied, faults>>

NoPolicies == [p \in Ports |-> None]

-----------------------------------------------------------------------------
(* domain_is_blocked and resolve_blocked_query *)

Matches(name, names) == Suffixes[name] \cap names # {}
Refuses(blocked, allowed, name) == Matches(name, blocked) /\ ~Matches(name, allowed)

TaskStates == {"none", "starting", "serving", "gone"}
NoListener == [port |-> None, policy |-> None, task |-> "none", stop |-> FALSE]

Steps   == {"free", "arrived", "listed", "mode", "user", "notify", "forward"}
NoQuery == [step |-> "free"]
ActiveQuery == [step : Steps \ {"free"}, via : {"udp", "tcp"}, at : Listeners,
                name : Names, list : (SUBSET Names) \cup {None},
                mode : Modes \cup {None}, user : Users \cup {None},
                owner : Users, calm : BOOLEAN, steady : BOOLEAN]

\* The cells of a listener in the order reconcile writes them.  The writer asks
\* for the lock of the block list before it gets it: the only lock a query holds
\* across an await.
Cells == {"blocked", "queued", "allowed", "mode", "user"}
CellAfter == [blocked |-> "queued", queued |-> "allowed", allowed |-> "mode", mode |-> "user"]

ASSUME DnsAbsentAssumption ==
    /\ None \notin [Ports -> DnsPolicy \cup {None}]
    /\ None \notin [port : Ports, cell : Cells]

TypeOK ==
    /\ table \in [Ports -> Listeners \cup {None}]
    /\ listeners \in [Listeners ->
          [port : Ports \cup {None}, policy : DnsPolicy \cup {None},
           task : TaskStates, stop : BOOLEAN]]
    /\ query \in [Queries -> ActiveQuery \cup {NoQuery}]
    /\ job \in [Ports -> DnsPolicy \cup {None}] \cup {None}
    /\ todo \subseteq Ports
    /\ writing \in [port : Ports, cell : Cells] \cup {None}
    /\ stopping \in Listeners \cup {None}
    /\ cooling \subseteq Names
    /\ applied \in [Ports -> DnsPolicy \cup {None}]
    /\ faults \in 0..MaxFaults

Init ==
    /\ table = [p \in Ports |-> None]
    /\ listeners = [l \in Listeners |-> NoListener]
    /\ query = [q \in Queries |-> NoQuery]
    /\ job = None /\ todo = {} /\ writing = None /\ stopping = None
    /\ cooling = {}
    /\ applied = NoPolicies
    /\ faults = 0

Active(q)     == query[q].step # "free"
Holds(q, l)   == Active(q) /\ query[q].at = l
Busy(l)       == \E q \in Queries : Holds(q, l) /\ query[q].via = "udp"
InTable(l)    == \E p \in Ports : table[p] = l
Alive(l)      == listeners[l].task \in {"starting", "serving"}
Died(l)       == [listeners EXCEPT ![l].task = "gone"]
Fault         == faults < MaxFaults /\ faults' = faults + 1

\* Seeded bug: the cells of a stopped listener are used again for the next one
\* although a TCP client still reads them.
FreeOnceStopped(l) == listeners[l].task \in {"none", "gone"} /\ ~InTable(l) /\ stopping # l

\* Nothing refers to the cells any more.
Free(l) == listeners[l].task = "none"

\* ls with the cells of ids released that only they held.
Dropped(ls, qs, ids) ==
    [l \in Listeners |->
        IF /\ l \in ids /\ ls[l].task = "gone"
           /\ ~InTable(l)
           /\ ~\E q \in Queries : qs[q].step # "free" /\ qs[q].at = l
        THEN NoListener ELSE ls[l]]

\* A query ends with the tasks and cells as in ls.
End(q, ls) ==
    LET rest == [query EXCEPT ![q] = NoQuery]
    IN  /\ query' = rest
        /\ listeners' = Dropped(ls, rest, {query[q].at} \ {stopping})

-----------------------------------------------------------------------------
(* LocalDnsController::reconcile *)

\* The policies give the port of a listener to another user.  The domain policy
\* asks for that only if an iptables command has failed (DomainPolicy!PortsStable),
\* and each time counts as one failure.
Reassigns(policies, l) ==
    \E p \in Ports :
        table[p] = l /\ policies[p] # None /\ policies[p].user # listeners[l].policy.user

Reconcile(next) ==
    /\ job = None
    /\ IF \E l \in Listeners : Reassigns(next, l) THEN Fault ELSE UNCHANGED faults
    /\ job' = next
    /\ todo' = {p \in Ports : next[p] # None}
    /\ query' = [q \in Queries |->
                    IF Active(q)
                    THEN [query[q] EXCEPT !.calm = FALSE,
                                          !.steady = @ /\ ~Reassigns(next, query[q].at)]
                    ELSE query[q]]
    /\ UNCHANGED <<table, listeners, writing, stopping, cooling, applied>>

InLoop == job # None /\ writing = None /\ stopping = None

Spawn(p) ==
    /\ InLoop /\ p \in todo /\ table[p] = None
    /\ \E l \in Listeners :
          /\ Free(l)
          /\ listeners' = [listeners EXCEPT
                ![l] = [port |-> p, policy |-> job[p], task |-> "starting", stop |-> FALSE]]
          /\ table' = [table EXCEPT ![p] = l]
    /\ todo' = todo \ {p}
    /\ UNCHANGED <<query, job, writing, stopping, cooling, applied, faults>>

Overwrite(p) ==
    /\ InLoop /\ p \in todo /\ table[p] # None
    /\ writing' = [port |-> p, cell |-> "blocked"]
    /\ todo' = todo \ {p}
    /\ UNCHANGED <<table, listeners, query, job, stopping, cooling, applied, faults>>

AskForList ==
    /\ writing # None /\ writing.cell = "blocked"
    /\ writing' = [writing EXCEPT !.cell = "queued"]
    /\ UNCHANGED <<table, listeners, query, job, todo, stopping, cooling, applied, faults>>

ReadersOfList(l) == {q \in Queries : Holds(q, l) /\ query[q].step = "listed"}

\* Seeded bug: queries look at a copy of the list and do not keep its lock.
WriteListAtOnce ==
    /\ writing # None /\ writing.cell = "queued"
    /\ listeners' = [listeners EXCEPT ![table[writing.port]].policy.blocked =
                        job[writing.port].blocked]
    /\ writing' = [writing EXCEPT !.cell = "allowed"]
    /\ UNCHANGED <<table, query, job, todo, stopping, cooling, applied, faults>>

WriteList ==
    /\ writing # None /\ writing.cell = "queued"
    /\ ReadersOfList(table[writing.port]) = {}
    /\ listeners' = [listeners EXCEPT ![table[writing.port]].policy.blocked =
                        job[writing.port].blocked]
    /\ writing' = [writing EXCEPT !.cell = CellAfter[@]]
    /\ UNCHANGED <<table, query, job, todo, stopping, cooling, applied, faults>>

\* Seeded bug: the grants of a listener that exists are not updated.
WriteRestKeepingGrants ==
    /\ writing # None /\ writing.cell \in {"allowed", "mode", "user"}
    /\ LET l == table[writing.port]
           p == job[writing.port]
       IN  \/ writing.cell = "allowed" /\ UNCHANGED listeners
           \/ writing.cell = "mode" /\ listeners' = [listeners EXCEPT ![l].policy.mode = p.mode]
           \/ writing.cell = "user" /\ listeners' = [listeners EXCEPT ![l].policy.user = p.user]
    /\ writing' = IF writing.cell = "user" THEN None ELSE [writing EXCEPT !.cell = CellAfter[@]]
    /\ UNCHANGED <<table, query, job, todo, stopping, cooling, applied, faults>>

WriteRest ==
    /\ writing # None /\ writing.cell \in {"allowed", "mode", "user"}
    /\ LET l == table[writing.port]
           p == job[writing.port]
       IN  \/ writing.cell = "allowed" /\ listeners' = [listeners EXCEPT ![l].policy.allowed = p.allowed]
           \/ writing.cell = "mode" /\ listeners' = [listeners EXCEPT ![l].policy.mode = p.mode]
           \/ writing.cell = "user" /\ listeners' = [listeners EXCEPT ![l].policy.user = p.user]
    /\ writing' = IF writing.cell = "user" THEN None ELSE [writing EXCEPT !.cell = CellAfter[@]]
    /\ UNCHANGED <<table, query, job, todo, stopping, cooling, applied, faults>>

Stale(p) == job[p] = None /\ table[p] # None

\* Seeded bug: the handle is dropped without the message on shutdown_tx.
StopStaleSilently(p) ==
    /\ InLoop /\ todo = {} /\ Stale(p)
    /\ table' = [table EXCEPT ![p] = None]
    /\ stopping' = table[p]
    /\ UNCHANGED <<listeners, query, job, todo, writing, cooling, applied, faults>>

StopStale(p) ==
    /\ InLoop /\ todo = {} /\ Stale(p)
    /\ table' = [table EXCEPT ![p] = None]
    /\ listeners' = [listeners EXCEPT ![table[p]].stop = TRUE]
    /\ stopping' = table[p]
    /\ UNCHANGED <<query, job, todo, writing, cooling, applied, faults>>

\* Seeded bug: the task of the stale listener is not awaited.
JoinStaleAtOnce ==
    /\ stopping # None
    /\ stopping' = None
    /\ UNCHANGED <<table, listeners, query, job, todo, writing, cooling, applied, faults>>

JoinStale ==
    /\ stopping # None /\ listeners[stopping].task = "gone"
    /\ stopping' = None
    /\ listeners' = Dropped(listeners, query, {stopping})
    /\ UNCHANGED <<table, query, job, todo, writing, cooling, applied, faults>>

\* reconcile returns.  A synchronisation whose firewall succeeds then ends the
\* cooldown of the names it grants (clear_domain_grant_dedupe).
Granted(policies) ==
    UNION {policies[p].allowed : p \in {x \in Ports : policies[x] # None}}

Return ==
    /\ InLoop /\ todo = {} /\ \A p \in Ports : ~Stale(p)
    /\ job' = None
    /\ applied' = job
    /\ cooling' \in {cooling, cooling \ Granted(job)}
    /\ UNCHANGED <<table, listeners, query, todo, writing, stopping, faults>>

-----------------------------------------------------------------------------
(* run_dns_listener *)

PortTaken(l) ==
    \E k \in Listeners \ {l} :
        listeners[k].task = "serving" /\ listeners[k].port = listeners[l].port

Bind(l) ==
    /\ listeners[l].task = "starting"
    /\ \/ /\ ~PortTaken(l)
          /\ listeners' = [listeners EXCEPT ![l].task = "serving"]
          /\ UNCHANGED faults
       \/ /\ Fault
          /\ listeners' = Died(l)
    /\ UNCHANGED <<table, query, job, todo, writing, stopping, cooling, applied>>

\* The select loop takes the shutdown branch; it is not polled while a UDP
\* query is being handled.
ShutDown(l) ==
    /\ listeners[l].task = "serving" /\ listeners[l].stop /\ ~Busy(l)
    /\ listeners' = Died(l)
    /\ UNCHANGED <<table, query, job, todo, writing, stopping, cooling, applied, faults>>

\* recv_from or accept fails: the task ends, its handle stays in the table.
SocketFails(l) ==
    /\ listeners[l].task = "serving" /\ ~Busy(l)
    /\ Fault
    /\ listeners' = Died(l)
    /\ UNCHANGED <<table, query, job, todo, writing, stopping, cooling, applied>>

Receive(q, l, via, name) ==
    /\ ~Active(q)
    /\ listeners[l].task = "serving" /\ ~Busy(l)
    /\ query' = [query EXCEPT ![q] =
          [step |-> "arrived", via |-> via, at |-> l, name |-> name, list |-> None,
           mode |-> None, user |-> None, owner |-> listeners[l].policy.user,
           calm |-> job = None, steady |-> job = None \/ ~Reassigns(job, l)]]
    /\ UNCHANGED <<table, listeners, job, todo, writing, stopping, cooling, applied, faults>>

-----------------------------------------------------------------------------
(* handle_udp_query and handle_tcp_client *)

\* A waiting writer keeps new readers out (tokio's RwLock is fair).
WriterQueued(l) == writing # None /\ writing.cell = "queued" /\ table[writing.port] = l

ReadList(q) ==
    /\ query[q].step = "arrived"
    /\ ~WriterQueued(query[q].at)
    /\ query' = [query EXCEPT ![q].step = "listed",
                              ![q].list = listeners[query[q].at].policy.blocked]
    /\ UNCHANGED <<table, listeners, job, todo, writing, stopping, cooling, applied, faults>>

\* The grants are read with the lock of the list still held; both are released
\* with the verdict.
Judge(q) ==
    /\ query[q].step = "listed"
    /\ LET refused == Refuses(query[q].list, listeners[query[q].at].policy.allowed, query[q].name)
       IN  query' = [query EXCEPT ![q].step = IF refused THEN "mode" ELSE "forward",
                                  ![q].list = None]
    /\ UNCHANGED <<table, listeners, job, todo, writing, stopping, cooling, applied, faults>>

\* Seeded bug: two cells of the same type are passed in the wrong order.
ReadModeSwapped(q) ==
    /\ query[q].step = "mode"
    /\ query' = [query EXCEPT ![q].step = "user", ![q].mode = listeners[query[q].at].policy.user]
    /\ UNCHANGED <<table, listeners, job, todo, writing, stopping, cooling, applied, faults>>

ReadMode(q) ==
    /\ query[q].step = "mode"
    /\ query' = [query EXCEPT ![q].step = "user", ![q].mode = listeners[query[q].at].policy.mode]
    /\ UNCHANGED <<table, listeners, job, todo, writing, stopping, cooling, applied, faults>>

ReadUser(q) ==
    /\ query[q].step = "user"
    /\ query' = [query EXCEPT ![q].step = "notify", ![q].user = listeners[query[q].at].policy.user]
    /\ UNCHANGED <<table, listeners, job, todo, writing, stopping, cooling, applied, faults>>

\* on_domain_blocked, then the NXDOMAIN answer: an alert for query[q].user goes
\* out unless the registrable name is in its cooldown, whoever asked last.
Notify(q) ==
    /\ query[q].step = "notify"
    /\ LET name == Registrable[query[q].name]
           emit == query[q].mode = "approval_on_block" /\ name \notin cooling
       IN  cooling' = IF emit THEN cooling \cup {name} ELSE cooling
    /\ End(q, listeners)
    /\ UNCHANGED <<table, job, todo, writing, stopping, applied, faults>>

Forward(q) ==
    /\ query[q].step = "forward"
    /\ End(q, listeners)
    /\ UNCHANGED <<table, job, todo, writing, stopping, cooling, applied, faults>>

\* The message does not arrive in time or does not parse, every upstream times
\* out, or a socket fails: a TCP client ends alone, a UDP query ends its
\* listener with it.
QueryFails(q) ==
    /\ \/ query[q].step \in {"listed", "forward"}
       \/ query[q].step = "arrived" /\ query[q].via = "tcp"
    /\ Fault
    /\ End(q, IF query[q].via = "udp" THEN Died(query[q].at) ELSE listeners)
    /\ UNCHANGED <<table, job, todo, writing, stopping, cooling, applied>>

\* COOLDOWN has passed since the last alert for the name.
CooldownEnds(name) ==
    /\ name \in cooling
    /\ cooling' = cooling \ {name}
    /\ UNCHANGED <<table, listeners, query, job, todo, writing, stopping, applied, faults>>

-----------------------------------------------------------------------------
Reconciling ==
    \/ \E p \in Ports : Spawn(p) \/ Overwrite(p) \/ StopStale(p)
    \/ AskForList \/ WriteList \/ WriteRest \/ JoinStale \/ Return

Answer(q) == ReadList(q) \/ Judge(q) \/ ReadMode(q) \/ ReadUser(q) \/ Notify(q) \/ Forward(q)

Next ==
    \/ \E next \in [Ports -> Policies \cup {None}] : Reconcile(next)
    \/ Reconciling
    \/ \E l \in Listeners :
          \/ Bind(l) \/ ShutDown(l) \/ SocketFails(l)
          \/ \E q \in Queries, via \in {"udp", "tcp"}, name \in Names : Receive(q, l, via, name)
    \/ \E q \in Queries : Answer(q) \/ QueryFails(q)
    \/ \E name \in Names : CooldownEnds(name)

\* Tasks are scheduled, every await of a query is under a timeout, and tokio's
\* select! picks among its ready branches at random, so that a pending shutdown
\* is seen although queries keep coming.
Fairness ==
    /\ WF_vars(Reconciling)
    /\ \A q \in Queries : WF_vars(Answer(q))
    /\ \A l \in Listeners : WF_vars(Bind(l)) /\ SF_vars(ShutDown(l))

Spec == Init /\ [][Next]_vars /\ Fairness

-----------------------------------------------------------------------------
(* The inductive invariant of the proofs (DnsListenerProofs).                *)

Held(p)   == listeners[table[p]].policy
Writes(p) == writing # None /\ writing.port = p

\* The cells that something refers to belong to a port and hold a policy.
CellsFilled ==
    \A l \in Listeners : listeners[l].task # "none" =>
        listeners[l].port \in Ports /\ listeners[l].policy # None

TableFits ==
    \A p \in Ports : table[p] # None =>
        listeners[table[p]].port = p /\ listeners[table[p]].task # "none"

\* A task that runs is the one in the table, or the one reconcile waits for.
AliveInTable ==
    \A l \in Listeners : Alive(l) => stopping = l \/ table[listeners[l].port] = l

StoppingLeftTable ==
    stopping # None =>
        /\ job # None /\ writing = None /\ todo = {}
        /\ listeners[stopping].task # "none"
        /\ table[listeners[stopping].port] = None

\* Between calls the table is that of the last reconcile.
TableAtRest ==
    job = None =>
        /\ todo = {} /\ writing = None
        /\ \A p \in Ports : IF applied[p] = None THEN table[p] = None
                             ELSE table[p] # None /\ Held(p) = applied[p]

\* During a call a port has its old policy until the loop reaches it, then the
\* new one, and in between the cells in the order they are written.
PortsInCall ==
    job # None =>
        \A p \in Ports :
           /\ p \in todo => job[p] # None
           /\ (p \in todo \/ job[p] = None) /\ table[p] # None =>
                  applied[p] # None /\ Held(p) = applied[p]
           /\ p \notin todo /\ job[p] # None /\ ~Writes(p) =>
                  table[p] # None /\ Held(p) = job[p]

CellsInCall ==
    writing # None =>
        LET p == writing.port
        IN  /\ job # None /\ p \notin todo /\ job[p] # None
            /\ applied[p] # None /\ table[p] # None
            /\ writing.cell \in {"allowed", "mode", "user"} => Held(p).blocked = job[p].blocked
            /\ writing.cell \in {"mode", "user"} => Held(p).allowed = job[p].allowed
            /\ writing.cell = "user" => Held(p).mode = job[p].mode

CellsOf(q) == listeners[query[q].at]

\* The cells a query reads are not given to another listener.  Their user does
\* not change under it unless its port is given away, nor the list while it holds
\* the lock.
QueriesKeepCells ==
    \A q \in Queries : Active(q) =>
        /\ CellsOf(q).task # "none"
        /\ query[q].steady =>
              /\ CellsOf(q).policy.user = query[q].owner
              /\ job # None => ~Reassigns(job, query[q].at)
        /\ query[q].step = "listed" => query[q].list = CellsOf(q).policy.blocked

CalmQueries ==
    \A q \in Queries : Active(q) /\ query[q].calm =>
        /\ job = None /\ query[q].steady
        /\ table[CellsOf(q).port] = query[q].at
        /\ query[q].step \in {"mode", "user", "notify"} =>
               Refuses(CellsOf(q).policy.blocked, CellsOf(q).policy.allowed, query[q].name)
        /\ query[q].step = "forward" =>
               ~Refuses(CellsOf(q).policy.blocked, CellsOf(q).policy.allowed, query[q].name)
        /\ query[q].step \in {"user", "notify"} => query[q].mode = CellsOf(q).policy.mode

\* No cells are kept that the table, reconcile and the queries have all let go.
CellsInUse ==
    \A l \in Listeners : listeners[l].task # "none" =>
        InTable(l) \/ stopping = l \/ \E q \in Queries : Holds(q, l)

StaleIsTold == stopping # None => listeners[stopping].stop

-----------------------------------------------------------------------------
(* Properties *)

PolicyAt(q) == applied[listeners[query[q].at].port]

\* A query during which no reconcile runs is judged by the lists and grants of
\* the last reconcile that returned, and reported under its mode and user: once
\* reconcile answers, no listener, task or cell of an earlier policy is left to
\* answer a new query.
AnswerFollowsPolicy ==
    \A q \in Queries :
        Active(q) /\ query[q].calm =>
            /\ PolicyAt(q) # None
            /\ query[q].step \in {"mode", "user", "notify", "forward"} =>
                  (query[q].step # "forward" <=>
                     Refuses(PolicyAt(q).blocked, PolicyAt(q).allowed, query[q].name))
            /\ query[q].step = "notify" =>
                  query[q].mode = PolicyAt(q).mode /\ query[q].user = PolicyAt(q).user

\* A refused query is reported under the user whose listener received it, also
\* when a TCP client outlives the listener and its port has gone to another; unless
\* a reconcile meanwhile gives the very listener to another user.
AlertsNameTheirUser ==
    \A q \in Queries :
        Active(q) /\ query[q].step = "notify" /\ query[q].steady =>
            query[q].user = query[q].owner

\* The listener of an earlier policy has released its port before reconcile
\* returns, so the next one on that port never finds it taken by the agent.
OneListenerPerPort ==
    \A k, l \in Listeners :
        Alive(k) /\ Alive(l) /\ listeners[k].port = listeners[l].port => k = l

\* No verdict combines a block list that has been replaced with the grants that
\* came after it: the lock of the list is held until the grants are read.
VerdictFromListInForce ==
    [][\A q \in Queries :
          Active(q) /\ query[q].step = "listed" /\ query'[q].step \in {"mode", "forward"} =>
              query[q].list = listeners[query[q].at].policy.blocked]_vars

\* reconcile, which holds the Mutex of the domain policy, always returns: the
\* stale listener it waits for is never stuck in a query that waits for it.
ReconcileReturns == (job # None) ~> (job = None)

\* ... and nothing it waits for waits for it: the task of the stale listener has
\* been told to stop, can have its port if it has yet to bind it, and reads its
\* cells without the writer in its way; and a new listener finds cells that
\* nothing else refers to.
ReconcileNotStuck ==
    /\ stopping # None /\ Alive(stopping) =>
          /\ listeners[stopping].stop
          /\ ~PortTaken(stopping)
          /\ ~WriterQueued(stopping)
    /\ InLoop => \A p \in todo : table[p] = None => \E l \in Listeners : Free(l)

-----------------------------------------------------------------------------
(* The inductive invariant, its parts above *)

\* The table, its cells and the call fit together.
TableInv ==
    /\ CellsFilled
    /\ TableFits
    /\ AliveInTable
    /\ StoppingLeftTable
    /\ TableAtRest
    /\ PortsInCall
    /\ CellsInCall

\* ... and so does what the queries have read.
IInv == TypeOK /\ TableInv /\ QueriesKeepCells /\ CalmQueries /\ AlertsNameTheirUser

\* What reconcile waits for is in its reach.
WaitInv == CellsInUse /\ StaleIsTold
=============================================================================
