---------------------------- MODULE DomainPolicy ----------------------------
(***************************************************************************)
(* The per-user domain policy of the agent (src/src/domain_policy.rs), with *)
(* the parts of the host it drives: the table of local DNS listeners         *)
(* (local_dns.rs), the two iptables chains (firewall.rs) and the state file. *)
(*                                                                          *)
(* One tokio Mutex guards the runtime, so calls do not interleave with each *)
(* other; but a call that applies a state goes through several steps that   *)
(* the rest of the host sees (DNS queries run all the time, iptables and    *)
(* the file outlive the process), each of which can fail or be the last one *)
(* before a crash.  `phase' says how far the call that holds the Mutex is.   *)
(*                                                                          *)
(* Data kept abstract: a uid and a port are numbers, for their order only    *)
(* (the code hands out the lowest free port, to uids sorted by their text);  *)
(* a domain, a source id, a revision and a sync id are values; Terms stands  *)
(* for the part of a policy that is only copied (access mode and allowed     *)
(* domains); a user name is identified with its uid.  Blank ids are refused  *)
(* before anything changes and are left out of the inputs.  The commit also  *)
(* ends the alert cooldown of the granted domains: see DnsListener.          *)
(***************************************************************************)
EXTENDS Naturals

CONSTANTS
    Uids,       \* uids a manifest may name
    Ports,      \* POLICY_PORT_START..POLICY_PORT_END
    Sources,    \* blocklist source ids
    Domains,    \* domains a blocklist may hold
    Revisions,  \* revisions the server gives to a source's content
    Content,    \* what the server has under a revision
    SyncIds,    \* ids of staged synchronisations
    Terms,      \* access mode and allowed domains of a policy
    None,       \* absent entry of a map, Rust's None
    BadUid,     \* a manifest one of whose uids does not parse
    MaxFaults   \* bound on injected I/O faults

ASSUME OrderAssumption == Uids \subseteq Nat /\ Ports \subseteq Nat
ASSUME ContentAssumption == Content \in [Revisions -> SUBSET Domains]
ASSUME FaultAssumption == MaxFaults \in Nat

VARIABLES
    restored,   \* DomainPolicyRuntime.restored
    current,    \* DomainPolicyRuntime.current_state
    pending,    \* DomainPolicyRuntime.pending_sync
    listeners,  \* LocalDnsController.listeners
    nat,        \* chain TIMEKPR_UID_DNS of table nat
    filter,     \* chain TIMEKPR_UID_EGRESS of table filter
    disk,       \* domain-policy.json, None when there is no file
    job,        \* the state being applied and the call that applies it
    phase,      \* progress of the call that holds the Mutex
    reply,      \* how the last call ended
    faults      \* how often each kind of I/O has failed

runtimeVars == <<restored, current, pending, listeners>>
hostVars    == <<nat, filter, disk>>
callVars    == <<job, phase, reply, faults>>
vars        == <<runtimeVars, hostVars, callVars>>

-----------------------------------------------------------------------------
(* Data *)

\* A full synchronisation names a source's content by its SHA-256, which is
\* taken to be injective; a staged one carries the server's revision.
Digest(domains)  == <<"sha256", domains>>
Digests          == {Digest(d) : d \in SUBSET Domains}
AllRevisions     == Revisions \cup Digests
ContentOf(rev)   == IF rev \in Revisions THEN Content[rev] ELSE rev[2]

SourceState == [revision : AllRevisions, domains : SUBSET Domains]
Want        == [sources : SUBSET Sources, terms : Terms]
Policy      == [sources : SUBSET Sources, terms : Terms, port : Ports]
Manifest    == [Uids -> Want \cup {None}]
State       == [sources  : [Sources -> SourceState \cup {None}],
                policies : [Uids -> Policy \cup {None}]]
Pending     == [sync_id  : SyncIds,
                deleted  : SUBSET Sources,
                updates  : [Sources -> SourceState \cup {None}],
                policies : Manifest \cup {None, BadUid}]
Listener    == [user : Uids, blocked : SUBSET Domains, terms : Terms]

EmptyState == [sources  |-> [s \in Sources |-> None],
               policies |-> [u \in Uids |-> None]]

ASSUME AbsentAssumption ==
    /\ None \notin SourceState \cup Want \cup Policy \cup State
    /\ None \notin Pending \cup Listener \cup Manifest
    /\ BadUid \notin Manifest \cup {None}
    /\ None \notin [op : {"restore", "finalize", "sync"}, next : State]
    /\ Revisions \cap Digests = {}

Managed(st)   == {u \in Uids : st.policies[u] # None}
PortOf(st, u) == st.policies[u].port
UsedPorts(st) == {PortOf(st, u) : u \in Managed(st)}

\* resolve_uid_policies: the union of the lists of the sources that exist.
BlockedFor(st, u) ==
    UNION {st.sources[s].domains :
              s \in {x \in st.policies[u].sources : st.sources[x] # None}}

Assigned(st, u, p) == u \in Managed(st) /\ PortOf(st, u) = p

-----------------------------------------------------------------------------
(* resolve_next_policies *)

Wanted(manifest) == {u \in Uids : manifest[u] # None}
NewUids(st, manifest) == Wanted(manifest) \ Managed(st)

EarlierNew(st, manifest, u) == {v \in NewUids(st, manifest) : v < u}
LowestOutside(p, taken) == p \notin taken /\ \A q \in Ports : q < p => q \in taken

\* Seeded bug: used_ports does not grow with the ports just handed out.
AllocationsRepeating(st, manifest) ==
    {f \in [Wanted(manifest) -> Ports] :
        \A u \in Wanted(manifest) :
            IF u \in Managed(st) THEN f[u] = PortOf(st, u)
            ELSE LowestOutside(f[u], UsedPorts(st))}

\* Seeded bug: the ports of uids that leave count as free at once.
AllocationsReusing(st, manifest) ==
    {f \in [Wanted(manifest) -> Ports] :
        \A u \in Wanted(manifest) :
            LET kept == {PortOf(st, v) : v \in Managed(st) \cap Wanted(manifest)}
            IN  IF u \in Managed(st) THEN f[u] = PortOf(st, u)
                ELSE LowestOutside(f[u], kept \cup {f[v] : v \in EarlierNew(st, manifest, u)})}

\* Seeded bug: a uid that has a policy is given a new port.
AllocationsMoving(st, manifest) ==
    {f \in [Wanted(manifest) -> Ports] :
        \A u \in Wanted(manifest) :
            LowestOutside(f[u], UsedPorts(st) \cup {f[v] : v \in {w \in Wanted(manifest) : w < u}})}

\* The ports the loop over the sorted uids hands out: a uid with a policy
\* keeps its port; a new one gets the lowest port used neither by the current
\* state (leaving uids included) nor by the new uids before it.  No such
\* function exists when the loop runs out of ports.
Allocations(st, manifest) ==
    {f \in [Wanted(manifest) -> Ports] :
        \A u \in Wanted(manifest) :
            IF u \in Managed(st) THEN f[u] = PortOf(st, u)
            ELSE LowestOutside(f[u],
                     UsedPorts(st) \cup {f[v] : v \in EarlierNew(st, manifest, u)})}

PoliciesWith(manifest, ports) ==
    [u \in Uids |->
        IF manifest[u] = None THEN None
        ELSE [sources |-> manifest[u].sources,
              terms   |-> manifest[u].terms,
              port    |-> ports[u]]]

\* Every next state the call can build: one, or none when it is refused.
NextStates(st, sources, manifest) ==
    IF manifest \in {None, BadUid} THEN {}
    ELSE {[sources |-> sources, policies |-> PoliciesWith(manifest, f)] :
             f \in Allocations(st, manifest)}

\* build_next_state_from_pending: deletions first, updates on top.
MergedSources(st, sync) ==
    [s \in Sources |->
        IF sync.updates[s] # None THEN sync.updates[s]
        ELSE IF s \in sync.deleted THEN None ELSE st.sources[s]]

-----------------------------------------------------------------------------
(* firewall::reconcile appends these six rules for each policy, in order. *)

RuleIndex == 1..6
RuleKind  == <<"nat", "nat", "dot", "dot", "guard", "guard">>
RuleProto == <<"udp", "tcp", "udp", "tcp", "udp", "tcp">>

DotPort   == 853

\* nat redirects port 53 of the uid to its listener's port; guard rejects
\* everyone but the uid on that port; dot rejects DNS over TLS of the uid.
Rule(u, p, i) ==
    [kind  |-> RuleKind[i],
     uid   |-> u,
     port  |-> IF RuleKind[i] = "dot" THEN DotPort ELSE p,
     proto |-> RuleProto[i]]
Rules == [kind : {"nat", "dot", "guard"}, uid : Uids, port : Ports \cup {DotPort},
          proto : {"udp", "tcp"}]

RulesFor(st)    == {Rule(u, PortOf(st, u), i) : u \in Managed(st), i \in RuleIndex}
NatRules(rs)    == {r \in rs : r.kind = "nat"}
FilterRules(rs) == {r \in rs : r.kind # "nat"}

Appended(st, u, i)  == Rule(u, PortOf(st, u), i) \in nat \cup filter
AllAppended(st)     == \A u \in Managed(st), i \in RuleIndex : Appended(st, u, i)
IsNextRule(st, u, i) ==
    /\ ~Appended(st, u, i)
    /\ \A j \in RuleIndex : j < i => Appended(st, u, j)
    /\ \A v \in Managed(st), j \in RuleIndex : v < u => Appended(st, v, j)

-----------------------------------------------------------------------------
Phases     == {"idle", "dns", "flush_nat", "flush_filter", "append", "save"}
Replies    == {"none", "staged", "refused", "applied", "restored", "failed"}
FaultKinds == {"read", "firewall", "save"}

TypeOK ==
    /\ restored \in BOOLEAN
    /\ current \in State
    /\ pending \in Pending \cup {None}
    /\ listeners \in [Ports -> Listener \cup {None}]
    /\ nat \subseteq NatRules(Rules) /\ filter \subseteq FilterRules(Rules)
    /\ disk \in State \cup {None}
    /\ job \in [op : {"restore", "finalize", "sync"}, next : State] \cup {None}
    /\ phase \in Phases
    /\ (phase = "idle") <=> (job = None)
    /\ reply \in Replies
    /\ faults \in [FaultKinds -> Nat]

Init ==
    /\ restored = FALSE
    /\ current = EmptyState
    /\ pending = None
    /\ listeners = [p \in Ports |-> None]
    /\ nat = {} /\ filter = {}
    /\ disk = None
    /\ job = None
    /\ phase = "idle"
    /\ reply = "none"
    /\ faults = [k \in FaultKinds |-> 0]

Ready   == restored /\ phase = "idle"
Reply(r) == reply' = r /\ UNCHANGED <<job, phase, faults>>

Start(op, next) ==
    /\ job' = [op |-> op, next |-> next]
    /\ phase' = "dns"
    /\ reply' = "none"
    /\ UNCHANGED faults

Finish(r) ==
    /\ job' = None
    /\ phase' = "idle"
    /\ reply' = r

TotalFaults == faults["read"] + faults["firewall"] + faults["save"]
Fault(k) ==
    /\ TotalFaults < MaxFaults
    /\ faults' = [faults EXCEPT ![k] = @ + 1]

-----------------------------------------------------------------------------
(* ensure_restored: `restored' is set before the file is read, so a failed   *)
(* restore is not tried again.                                              *)

Restore ==
    /\ ~restored /\ phase = "idle"
    /\ restored' = TRUE
    /\ current' = IF disk = None THEN current ELSE disk
    /\ Start("restore", IF disk = None THEN EmptyState ELSE disk)
    /\ UNCHANGED <<pending, listeners, hostVars>>

RestoreUnreadable ==
    /\ ~restored /\ phase = "idle" /\ disk # None
    /\ Fault("read")
    /\ restored' = TRUE
    /\ reply' = "failed"
    /\ UNCHANGED <<current, pending, listeners, hostVars, job, phase>>

-----------------------------------------------------------------------------
(* The staged synchronisation *)

InSync(id) == pending # None /\ pending.sync_id = id

BeginSync(id) ==
    /\ Ready
    /\ pending' = [sync_id  |-> id,
                   deleted  |-> {},
                   updates  |-> [s \in Sources |-> None],
                   policies |-> None]
    /\ Reply("staged")
    /\ UNCHANGED <<restored, current, listeners, hostVars>>

\* pending_sync_mut fails: no synchronisation, or one under another id.
RefuseStaging(id) ==
    /\ Ready /\ ~InSync(id)
    /\ Reply("refused")
    /\ UNCHANGED <<runtimeVars, hostVars>>

\* Seeded bug: the update queued for a deleted source stays.
DeleteSourcesKeepingUpdates(id, ids) ==
    /\ Ready /\ InSync(id)
    /\ pending' = [pending EXCEPT !.deleted = @ \cup ids]
    /\ Reply("staged")
    /\ UNCHANGED <<restored, current, listeners, hostVars>>

DeleteSources(id, ids) ==
    /\ Ready /\ InSync(id)
    /\ pending' = [pending EXCEPT
                      !.deleted = @ \cup ids,
                      !.updates = [s \in Sources |-> IF s \in ids THEN None ELSE @[s]]]
    /\ Reply("staged")
    /\ UNCHANGED <<restored, current, listeners, hostVars>>

\* Seeded bug: a chunk of another revision is taken for the next one.
PushSourceChunkAnyRevision(id, s, rev, domains) ==
    LET held == IF pending.updates[s] = None THEN {} ELSE pending.updates[s].domains
    IN  /\ Ready /\ InSync(id)
        /\ pending' = [pending EXCEPT
                          !.deleted = @ \ {s},
                          !.updates[s] = [revision |-> rev, domains |-> held \cup domains]]
        /\ Reply("staged")
        /\ UNCHANGED <<restored, current, listeners, hostVars>>

\* A chunk of another revision replaces an update that holds no domain yet and
\* is refused otherwise; the deletion mark is dropped before that is known.
PushSourceChunk(id, s, rev, domains) ==
    LET old      == pending.updates[s]
        conflict == old # None /\ old.revision # rev /\ old.domains # {}
        held     == IF old = None THEN {} ELSE old.domains
        undeleted == pending.deleted \ {s}
    IN  /\ Ready /\ InSync(id)
        /\ \/ /\ conflict
              /\ pending' = [pending EXCEPT !.deleted = undeleted]
              /\ Reply("refused")
           \/ /\ ~conflict
              /\ pending' = [pending EXCEPT
                                !.deleted = undeleted,
                                !.updates[s] = [revision |-> rev,
                                                domains  |-> held \cup domains]]
              /\ Reply("staged")
        /\ UNCHANGED <<restored, current, listeners, hostVars>>

SetManifest(id, manifest) ==
    /\ Ready /\ InSync(id)
    /\ pending' = [pending EXCEPT !.policies = manifest]
    /\ Reply("staged")
    /\ UNCHANGED <<restored, current, listeners, hostVars>>

\* Without a pending synchronisation an abort succeeds and does nothing.
AbortSync(id) ==
    /\ Ready
    /\ pending' = IF InSync(id) THEN None ELSE pending
    /\ Reply(IF pending = None \/ InSync(id) THEN "staged" ELSE "refused")
    /\ UNCHANGED <<restored, current, listeners, hostVars>>

\* The pending synchronisation is consumed whether or not a state can be built.
FinalizeSync(id) ==
    /\ Ready /\ InSync(id)
    /\ pending' = None
    /\ LET nexts == NextStates(current, MergedSources(current, pending), pending.policies)
       IN  \/ \E next \in nexts : Start("finalize", next)
           \/ nexts = {} /\ Reply("failed")
    /\ UNCHANGED <<restored, current, listeners, hostVars>>

\* The one-call synchronisation: `lists' maps the sources it names to their
\* domains, every other source is dropped.
FullSources(lists) ==
    [s \in Sources |->
        IF lists[s] = None THEN None
        ELSE [revision |-> Digest(lists[s]), domains |-> lists[s]]]

\* Seeded bug: the state in memory changes before it is applied.
FullSyncMemoryFirst(lists, manifest) ==
    /\ Ready
    /\ \E next \in NextStates(current, FullSources(lists), manifest) :
          Start("sync", next) /\ current' = next
    /\ UNCHANGED <<restored, pending, listeners, hostVars>>

FullSync(lists, manifest) ==
    /\ Ready
    /\ LET nexts == NextStates(current, FullSources(lists), manifest)
       IN  \/ \E next \in nexts : Start("sync", next)
           \/ nexts = {} /\ Reply("failed")
    /\ UNCHANGED <<runtimeVars, hostVars>>

-----------------------------------------------------------------------------
(* apply_state, the commit and save_state *)

\* LocalDnsController::reconcile: overwrite or spawn the listener of every
\* policy, stop the others.
ApplyDns ==
    /\ phase = "dns"
    /\ listeners' =
         [p \in Ports |->
            IF \E u \in Uids : Assigned(job.next, u, p)
            THEN LET u == CHOOSE v \in Uids : Assigned(job.next, v, p)
                 IN  [user    |-> u,
                      blocked |-> BlockedFor(job.next, u),
                      terms   |-> job.next.policies[u].terms]
            ELSE None]
    /\ phase' = "flush_nat"
    /\ UNCHANGED <<restored, current, pending, hostVars, job, reply, faults>>

FlushNat ==
    /\ phase = "flush_nat"
    /\ nat' = {}
    /\ phase' = "flush_filter"
    /\ UNCHANGED <<runtimeVars, filter, disk, job, reply, faults>>

\* Seeded bug: the rules of the last reconcile stay in the filter table.
FlushFilterForgotten ==
    /\ phase = "flush_filter"
    /\ phase' = "append"
    /\ UNCHANGED <<runtimeVars, hostVars, job, reply, faults>>

FlushFilter ==
    /\ phase = "flush_filter"
    /\ filter' = {}
    /\ phase' = "append"
    /\ UNCHANGED <<runtimeVars, nat, disk, job, reply, faults>>

\* Seeded bug: every rule goes to the chain of the nat table.
AppendRuleOneTable(u, i) ==
    /\ phase = "append"
    /\ u \in Managed(job.next)
    /\ IsNextRule(job.next, u, i)
    /\ nat' = nat \cup {Rule(u, PortOf(job.next, u), i)}
    /\ UNCHANGED <<runtimeVars, filter, disk, callVars>>

AppendRule(u, i) ==
    /\ phase = "append"
    /\ u \in Managed(job.next)
    /\ IsNextRule(job.next, u, i)
    /\ LET rule == Rule(u, PortOf(job.next, u), i)
       IN  IF rule.kind = "nat"
           THEN nat' = nat \cup {rule} /\ UNCHANGED filter
           ELSE filter' = filter \cup {rule} /\ UNCHANGED nat
    /\ UNCHANGED <<runtimeVars, disk, callVars>>

\* An iptables command fails, one of those that look for or create the chains
\* and their jumps before the first flush included: the rest of the rules is
\* not appended, and the call returns with the listeners already changed and
\* nothing committed.
FirewallFails ==
    /\ \/ phase \in {"flush_nat", "flush_filter"}
       \/ phase = "append" /\ ~AllAppended(job.next)
    /\ Fault("firewall")
    /\ Finish("failed")
    /\ UNCHANGED <<runtimeVars, hostVars>>

\* Seeded bug: a full synchronisation leaves the pending one open.
CommitKeepingPending ==
    /\ phase = "append" /\ AllAppended(job.next)
    /\ IF job.op = "restore"
       THEN Finish("restored") /\ UNCHANGED current
       ELSE current' = job.next /\ phase' = "save" /\ UNCHANGED <<job, reply>>
    /\ UNCHANGED <<restored, pending, listeners, hostVars, faults>>

\* A restore ends with the firewall; a synchronisation takes over the state in
\* memory (a full one also drops the pending one) and goes on to save it.
Commit ==
    /\ phase = "append" /\ AllAppended(job.next)
    /\ \/ /\ job.op = "restore"
          /\ Finish("restored")
          /\ UNCHANGED <<current, pending>>
       \/ /\ job.op # "restore"
          /\ current' = job.next
          /\ pending' = IF job.op = "sync" THEN None ELSE pending
          /\ phase' = "save"
          /\ UNCHANGED <<job, reply>>
    /\ UNCHANGED <<restored, listeners, hostVars, faults>>

\* The file is replaced by a rename: it holds the old state or the new one.
Save ==
    /\ phase = "save"
    /\ disk' = job.next
    /\ Finish("applied")
    /\ UNCHANGED <<runtimeVars, nat, filter, faults>>

\* Seeded bug: a failed save is logged and the call answers Ok.
SaveFailureIgnored ==
    /\ phase = "save"
    /\ Fault("save")
    /\ Finish("applied")
    /\ UNCHANGED <<runtimeVars, hostVars>>

SaveFails ==
    /\ phase = "save"
    /\ Fault("save")
    /\ Finish("failed")
    /\ UNCHANGED <<runtimeVars, hostVars>>

\* The process dies and is started again: the listeners die with it, the file
\* stays, and so do the iptables chains unless the host went down as well.
ProcessLost ==
    /\ restored
    /\ restored' = FALSE
    /\ current' = EmptyState
    /\ pending' = None
    /\ listeners' = [p \in Ports |-> None]
    /\ Finish("none")
    /\ UNCHANGED <<disk, faults>>

Crash  == ProcessLost /\ UNCHANGED <<nat, filter>>
Reboot == ProcessLost /\ nat' = {} /\ filter' = {}

-----------------------------------------------------------------------------
Staging ==
    \E id \in SyncIds :
        \/ BeginSync(id) \/ RefuseStaging(id) \/ AbortSync(id) \/ FinalizeSync(id)
        \/ \E ids \in SUBSET Sources : DeleteSources(id, ids)
        \/ \E s \in Sources, rev \in Revisions :
              \E domains \in SUBSET Content[rev] : PushSourceChunk(id, s, rev, domains)
        \/ \E manifest \in Manifest \cup {BadUid} : SetManifest(id, manifest)

OneCall ==
    \E lists \in [Sources -> (SUBSET Domains) \cup {None}], manifest \in Manifest \cup {BadUid} :
        FullSync(lists, manifest)

Apply ==
    \/ ApplyDns \/ FlushNat \/ FlushFilter
    \/ \E u \in Uids, i \in RuleIndex : AppendRule(u, i)
    \/ FirewallFails \/ Commit \/ Save \/ SaveFails

Next == Restore \/ RestoreUnreadable \/ Staging \/ OneCall \/ Apply \/ Crash \/ Reboot

Spec == Init /\ [][Next]_vars

-----------------------------------------------------------------------------
(* Safety.  `Being applied' states count: what they promise is what the next  *)
(* commit makes true.                                                       *)

OnePortPerUid(st) ==
    \A u, v \in Managed(st) : PortOf(st, u) = PortOf(st, v) => u = v

\* No two uids are ever given one listen port: not in memory, not in the state
\* being applied, not in the file a restart restores (resolve_next_policies
\* never allocates a port the current state still uses).
PortsDistinct ==
    /\ OnePortPerUid(current)
    /\ disk # None => OnePortPerUid(disk)
    /\ job # None => OnePortPerUid(job.next)

\* The chains never hold a port guard that rejects traffic the same chains
\* redirect: whatever commands failed and whenever the process died, a uid's
\* redirected queries are not rejected by the guard of another uid (the
\* contradiction firewall.rs warns of).
GuardsAdmitRedirects ==
    \A n \in nat, f \in filter :
        f.kind = "guard" /\ f.port = n.port => f.uid = n.uid

\* While no I/O has failed, the queries redirected to a port are answered with
\* the lists of the user they come from, also between the update of the
\* listeners and that of the chains, and between a crash and the end of the
\* restore (why a leaving uid's port is not handed out in the synchronisation
\* that removes it).
NoForeignFilter ==
    TotalFaults = 0 =>
        \A n \in nat : listeners[n.port] # None => listeners[n.port].user = n.uid

Listening(st) ==
    \A p \in Ports :
        IF p \in UsedPorts(st)
        THEN /\ listeners[p] # None
             /\ Assigned(st, listeners[p].user, p)
             /\ listeners[p].blocked = BlockedFor(st, listeners[p].user)
             /\ listeners[p].terms = st.policies[listeners[p].user].terms
        ELSE listeners[p] = None

Enforced(st) ==
    /\ Listening(st)
    /\ nat = NatRules(RulesFor(st))
    /\ filter = FilterRules(RulesFor(st))

\* A synchronisation that answered Ok is enforced by the listeners and by both
\* chains, and is what the next start restores; a completed restore enforces
\* what it read.
AckIsEnforcedAndDurable ==
    /\ reply = "applied" /\ phase = "idle" => Enforced(current) /\ disk = current
    /\ reply = "restored" /\ phase = "idle" => Enforced(current)

\* While no iptables command and no restore has failed, a managed user's
\* queries are redirected on both protocols except while a call rebuilds the
\* chains: staging, refused calls and failed saves never lift the filter.
FilterLiftedOnlyByRebuild ==
    (/\ faults["firewall"] + faults["read"] = 0
     /\ restored
     /\ phase \notin {"flush_filter", "append"}
     /\ job = None \/ job.op # "restore") =>
        \A u \in Managed(current), i \in {1, 2} :
            Rule(u, PortOf(current, u), i) \in nat

Unmixed(sources) ==
    \A s \in Sources : sources[s] # None =>
        sources[s].domains \subseteq ContentOf(sources[s].revision)

\* The lists stored, staged or saved under a server revision hold nothing the
\* server does not have under that revision, whatever order, repetition or loss
\* of chunks, deletions, aborts and restarted synchronisations led there.
RevisionsUnmixed ==
    /\ Unmixed(current.sources)
    /\ disk # None => Unmixed(disk.sources)
    /\ job # None => Unmixed(job.next.sources)

\* A source is never both deleted and updated by one synchronisation, so the
\* order in which build_next_state_from_pending applies the two is no matter.
DeletionOrUpdate ==
    pending # None => \A s \in pending.deleted : pending.updates[s] = None

-----------------------------------------------------------------------------
(* The inductive invariant of the proofs (DomainPolicyProofs).               *)

\* A process that has not restored holds nothing.
FreshProcess == ~restored => current = EmptyState /\ pending = None /\ job = None

\* A call in progress has not answered yet.
Unanswered == phase # "idle" => reply = "none"

\* The state being applied keeps the port of everyone it keeps.
JobKeepsPorts ==
    job # None =>
        \A u \in Managed(current) :
            u \in Managed(job.next) => PortOf(job.next, u) = PortOf(current, u)

\* After the flushes the chains hold rules of the state being applied only.
ChainsOfJob ==
    /\ phase = "flush_filter" => nat = {}
    /\ phase = "append" => nat \cup filter \subseteq RulesFor(job.next)

StagedUnmixed == pending # None => Unmixed(pending.updates)

IInv ==
    /\ TypeOK
    /\ FreshProcess
    /\ Unanswered
    /\ PortsDistinct
    /\ JobKeepsPorts
    /\ ChainsOfJob
    /\ GuardsAdmitRedirects
    /\ RevisionsUnmixed
    /\ StagedUnmixed
    /\ DeletionOrUpdate

-----------------------------------------------------------------------------
(* What the enforcement properties need on top of it (inductive with IInv).  *)

\* A process that has not restored answers no query.
SilentStart == ~restored => \A p \in Ports : listeners[p] = None

\* The state being applied gives nobody a port of somebody else of the state in
\* memory, who may be leaving.
TakesNoPort(st, next) ==
    \A u \in Managed(st), v \in Managed(next) : PortOf(st, u) = PortOf(next, v) => u = v

JobTakesNoPort == job # None => TakesNoPort(current, job.next)

\* The listeners are updated before the chains are touched.
ListenersOfJob == phase \notin {"idle", "dns"} => Listening(job.next)

\* A restore applies the state in memory; a commit has applied all of it.
RestoreOfMemory == job # None /\ job.op = "restore" => job.next = current

CommittedJob ==
    phase = "save" => job.op # "restore" /\ job.next = current /\ Enforced(current)

\* Until an iptables command fails, the listeners between two updates are those
\* of the state in memory, or there are none yet because it is being restored.
ListenersAtRest ==
    faults["firewall"] = 0 /\ phase \in {"idle", "dns"} =>
        IF job # None /\ job.op = "restore"
        THEN \A p \in Ports : listeners[p] = None
        ELSE Listening(current)

\* Without faults the file holds the state in memory, except while a commit is
\* being saved ...
StateFromDisk == IF disk = None THEN EmptyState ELSE disk

MemoryIsSaved ==
    TotalFaults = 0 /\ restored /\ phase # "save" => current = StateFromDisk

\* ... and a state at rest is the one enforced.
RedirectsAtRest ==
    TotalFaults = 0 /\ restored /\ phase = "idle" => nat = NatRules(RulesFor(current))

\* Every redirect leads to a port listeners may have ...
RedirectsToListeners == \A n \in nat : n.port \in Ports

\* ... and without faults none of them, not even one left over from a crash, leads
\* to a port that the file or the state being applied gives to another uid.
RedirectsFit(st) == \A n \in nat, u \in Managed(st) : PortOf(st, u) = n.port => u = n.uid

RedirectsFitNext ==
    TotalFaults = 0 =>
        /\ RedirectsFit(StateFromDisk)
        /\ job # None => RedirectsFit(job.next)

EnforcementInv ==
    /\ SilentStart
    /\ JobTakesNoPort
    /\ ListenersOfJob
    /\ RestoreOfMemory
    /\ CommittedJob
    /\ ListenersAtRest
    /\ MemoryIsSaved
    /\ RedirectsAtRest
    /\ RedirectsToListeners
    /\ RedirectsFitNext
    /\ AckIsEnforcedAndDurable
    /\ FilterLiftedOnlyByRebuild
    /\ NoForeignFilter

-----------------------------------------------------------------------------
(* What a step may never do *)

\* A staging call that is refused leaves the staged work as it was: a chunk of
\* a conflicting revision in particular does not take back a deletion, although
\* push_source_chunk drops the mark before it looks at the revision.
RefusalKeepsStaging == [][reply' = "refused" => pending' = pending]_vars

\* While a uid stays managed it keeps its port.
UsersKeepPorts ==
    \A u \in Managed(current) :
        u \in Managed(current)' => PortOf(current, u)' = PortOf(current, u)

\* Until an iptables command fails, a listener that stays on its port stays the
\* same user's.  (Afterwards it need not: the listeners are then those of a state
\* that was never committed, and the ports of its new uids count as free.)
PortsKeepUsers ==
    faults["firewall"] = 0 =>
        \A p \in Ports :
            listeners[p] # None /\ listeners'[p] # None =>
                listeners'[p].user = listeners[p].user

\* Ports move in neither direction: a uid's redirect need not change while it
\* stays managed, and LocalDnsController::reconcile never turns the listener of
\* one user, whose queries may be in flight, into that of another (why
\* DnsListener counts it as a fault when it does).
PortsStable == [][UsersKeepPorts /\ PortsKeepUsers]_vars
=============================================================================
