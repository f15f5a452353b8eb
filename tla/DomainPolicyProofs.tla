------------------------- MODULE DomainPolicyProofs -------------------------
(***************************************************************************)
(* Proofs about DomainPolicy, for every set of uids, ports, sources, domains *)
(* and revisions and any number of faults.                                  *)
(***************************************************************************)
EXTENDS DomainPolicyRefinement, DomainPolicyAllocation, TLAPS,
        FiniteSetTheorems, FunctionTheorems, WellFoundedInduction

SourceMap == [Sources -> SourceState \cup {None}]

\* A state resolve_next_policies builds is well typed, has the sources it was
\* given, shares no port and moves no port.
LEMMA AllocatedStates ==
    ASSUME NEW st \in State, OnePortPerUid(st),
           NEW sources \in SourceMap,
           NEW manifest \in Manifest \cup {None, BadUid},
           NEW next \in NextStates(st, sources, manifest)
    PROVE  /\ next \in State
           /\ next.sources = sources
           /\ OnePortPerUid(next)
           /\ \A u \in Managed(st) :
                 u \in Managed(next) => PortOf(next, u) = PortOf(st, u)
           /\ TakesNoPort(st, next)
<1>1. manifest \in Manifest /\ manifest # None /\ manifest # BadUid
  BY DEF NextStates
<1>2. PICK f \in Allocations(st, manifest) :
         next = [sources |-> sources, policies |-> PoliciesWith(manifest, f)]
  BY <1>1 DEF NextStates
<1>3. /\ f \in [Wanted(manifest) -> Ports]
      /\ Wanted(manifest) \subseteq Uids
  BY <1>2 DEF Allocations, Wanted
<1>4. ASSUME NEW u \in Wanted(manifest)
      PROVE  manifest[u] \in Want /\ manifest[u] # None
  BY <1>1, <1>4 DEF Wanted, Manifest
<1>5. /\ next.sources = sources
      /\ next.policies = PoliciesWith(manifest, f)
  BY <1>2
<1>6. ASSUME NEW u \in Uids, manifest[u] # None
      PROVE  /\ next.policies[u] \in Policy
             /\ next.policies[u].port = f[u]
             /\ u \in Wanted(manifest)
  <2>1. u \in Wanted(manifest)
    BY <1>6 DEF Wanted
  <2>2. next.policies[u] = [sources |-> manifest[u].sources,
                            terms   |-> manifest[u].terms,
                            port    |-> f[u]]
    BY <1>5, <1>6 DEF PoliciesWith
  <2> QED BY <2>1, <2>2, <1>3, <1>4 DEF Want, Policy
<1>7. ASSUME NEW u \in Uids, manifest[u] = None
      PROVE  next.policies[u] = None
  BY <1>5, <1>7 DEF PoliciesWith
<1>8. next.policies \in [Uids -> Policy \cup {None}]
  BY <1>5, <1>6, <1>7 DEF PoliciesWith
<1>9. next \in State
  BY <1>2, <1>8, <1>5 DEF State, SourceMap
<1>10. Managed(next) = Wanted(manifest)
  BY <1>6, <1>7, AbsentAssumption DEF Managed, Wanted
<1>11. \A u \in Managed(next) : PortOf(next, u) = f[u]
  BY <1>10, <1>6 DEF PortOf, Wanted
<1>12. ASSUME NEW u \in Wanted(manifest), u \in Managed(st)
       PROVE  f[u] = PortOf(st, u)
  BY <1>2, <1>12 DEF Allocations
<1>13. ASSUME NEW u \in Wanted(manifest), u \notin Managed(st)
       PROVE  /\ f[u] \notin UsedPorts(st)
              /\ \A v \in NewUids(st, manifest) : v < u => f[v] # f[u]
  BY <1>2, <1>13 DEF Allocations, LowestOutside, EarlierNew
<1>14. OnePortPerUid(next)
  <2> SUFFICES ASSUME NEW u \in Wanted(manifest), NEW v \in Wanted(manifest), f[u] = f[v]
               PROVE  u = v
    BY <1>10, <1>11 DEF OnePortPerUid
  <2>1. CASE u \in Managed(st) /\ v \in Managed(st)
    BY <2>1, <1>12 DEF OnePortPerUid
  <2>2. CASE u \in Managed(st) /\ v \notin Managed(st)
    BY <2>2, <1>12, <1>13 DEF UsedPorts
  <2>3. CASE u \notin Managed(st) /\ v \in Managed(st)
    BY <2>3, <1>12, <1>13 DEF UsedPorts
  <2>4. CASE u \notin Managed(st) /\ v \notin Managed(st)
    <3>1. u \in NewUids(st, manifest) /\ v \in NewUids(st, manifest)
      BY <2>4 DEF NewUids
    <3>2. ~(u < v) /\ ~(v < u)
      BY <3>1, <2>4, <1>13
    <3>3. u \in Nat /\ v \in Nat
      BY <1>3, OrderAssumption
    <3> QED BY <3>2, <3>3
  <2> QED BY <2>1, <2>2, <2>3, <2>4
<1>15. TakesNoPort(st, next)
  <2> SUFFICES ASSUME NEW u \in Managed(st), NEW v \in Wanted(manifest), PortOf(st, u) = f[v]
               PROVE  u = v
    BY <1>10, <1>11 DEF TakesNoPort
  <2>1. CASE v \in Managed(st)
    BY <2>1, <1>12 DEF OnePortPerUid
  <2>2. CASE v \notin Managed(st)
    BY <2>2, <1>13 DEF UsedPorts
  <2> QED BY <2>1, <2>2
<1> QED BY <1>5, <1>9, <1>10, <1>11, <1>12, <1>14, <1>15

-----------------------------------------------------------------------------
(* Types *)

\* The default state is a state that manages nobody.
LEMMA EmptyStateType == EmptyState \in State /\ Managed(EmptyState) = {}
BY DEF EmptyState, State, Managed

\* Chunks, deletions, full lists and merges yield well-typed sources.
LEMMA SourceEdits ==
    /\ \A s \in Sources, rev \in Revisions, d \in SUBSET Domains :
          [revision |-> rev, domains |-> d] \in SourceState
    /\ \A lists \in [Sources -> (SUBSET Domains) \cup {None}] :
          FullSources(lists) \in SourceMap
    /\ \A st \in State, sync \in Pending : MergedSources(st, sync) \in SourceMap
<1>1. ASSUME NEW s \in Sources, NEW rev \in Revisions, NEW d \in SUBSET Domains
      PROVE  [revision |-> rev, domains |-> d] \in SourceState
  BY DEF SourceState, AllRevisions
<1>2. ASSUME NEW lists \in [Sources -> (SUBSET Domains) \cup {None}]
      PROVE  FullSources(lists) \in SourceMap
  <2>1. ASSUME NEW s \in Sources, lists[s] # None
        PROVE  [revision |-> Digest(lists[s]), domains |-> lists[s]] \in SourceState
    <3>1. lists[s] \in SUBSET Domains
      BY <1>2, <2>1
    <3>2. Digest(lists[s]) \in AllRevisions
      BY <3>1 DEF AllRevisions, Digests
    <3> QED BY <3>1, <3>2 DEF SourceState
  <2> QED BY <2>1 DEF FullSources, SourceMap
<1>3. ASSUME NEW st \in State, NEW sync \in Pending
      PROVE  MergedSources(st, sync) \in SourceMap
  BY DEF MergedSources, SourceMap, State, Pending
<1> QED BY <1>1, <1>2, <1>3

\* AllocatedStates for the state in memory of a reachable state.
LEMMA NextStateOfSync ==
    ASSUME IInv, NEW sources \in SourceMap,
           NEW manifest \in Manifest \cup {None, BadUid},
           NEW next \in NextStates(current, sources, manifest)
    PROVE  /\ next \in State
           /\ next.sources = sources
           /\ OnePortPerUid(next)
           /\ \A u \in Managed(current) :
                 u \in Managed(next) => PortOf(next, u) = PortOf(current, u)
           /\ TakesNoPort(current, next)
BY AllocatedStates DEF IInv, TypeOK, PortsDistinct

\* A rule of a managed uid is well typed and one of the rules of its state.
LEMMA RuleTypes ==
    ASSUME NEW st \in State, NEW u \in Managed(st), NEW i \in RuleIndex
    PROVE  /\ u \in Uids /\ PortOf(st, u) \in Ports
           /\ Rule(u, PortOf(st, u), i) \in Rules
           /\ Rule(u, PortOf(st, u), i) \in RulesFor(st)
<1>1. u \in Uids /\ st.policies[u] \in Policy
  BY DEF Managed, State
<1>2. PortOf(st, u) \in Ports
  BY <1>1 DEF PortOf, Policy
<1>3. RuleKind[i] \in {"nat", "dot", "guard"} /\ RuleProto[i] \in {"udp", "tcp"}
  BY DEF RuleIndex, RuleKind, RuleProto
<1>4. Rule(u, PortOf(st, u), i) \in Rules
  BY <1>1, <1>2, <1>3 DEF Rule, Rules
<1> QED BY <1>1, <1>2, <1>4 DEF RulesFor

\* What a listener is given for a managed uid is well typed.
LEMMA ListenerTypes ==
    ASSUME NEW st \in State, NEW u \in Managed(st)
    PROVE  [user    |-> u,
            blocked |-> BlockedFor(st, u),
            terms   |-> st.policies[u].terms] \in Listener
<1>1. u \in Uids /\ st.policies[u] \in Policy
  BY DEF Managed, State
<1>2. BlockedFor(st, u) \subseteq Domains
  <2>1. ASSUME NEW s \in st.policies[u].sources, st.sources[s] # None
        PROVE  st.sources[s].domains \subseteq Domains
    <3>1. s \in Sources
      BY <1>1 DEF Policy
    <3>2. st.sources[s] \in SourceState
      BY <3>1, <2>1 DEF State
    <3> QED BY <3>2 DEF SourceState
  <2> QED BY <2>1 DEF BlockedFor
<1> QED BY <1>1, <1>2 DEF Listener, Policy

\* The initial state is well typed.
LEMMA InitTypes == Init => TypeOK
<1> SUFFICES ASSUME Init PROVE TypeOK
  OBVIOUS
<1>1. current \in State
  BY EmptyStateType DEF Init
<1>2. listeners \in [Ports -> Listener \cup {None}]
  BY DEF Init
<1>3. faults \in [FaultKinds -> Nat]
  BY DEF Init
<1>4. nat \subseteq NatRules(Rules) /\ filter \subseteq FilterRules(Rules)
  BY DEF Init
<1> QED BY <1>1, <1>2, <1>3, <1>4 DEF Init, TypeOK, Phases, Replies

\* Every step keeps the types.
LEMMA TypeStep == IInv /\ [Next]_vars => TypeOK'
<1> SUFFICES ASSUME IInv, [Next]_vars PROVE TypeOK'
  OBVIOUS
<1> USE DEF Phases, Replies, runtimeVars, hostVars, callVars
<1>t. TypeOK
  BY DEF IInv
<1>f. ASSUME NEW k \in FaultKinds, Fault(k)
      PROVE  faults' \in [FaultKinds -> Nat]
  BY <1>t, <1>f DEF Fault, TypeOK
<1>1. CASE Restore
  BY <1>1, <1>t, EmptyStateType, AbsentAssumption DEF Restore, Start, TypeOK
<1>2. CASE RestoreUnreadable
  BY <1>2, <1>t, <1>f DEF RestoreUnreadable, TypeOK, FaultKinds
<1>3. ASSUME NEW id \in SyncIds, BeginSync(id) PROVE TypeOK'
  BY <1>3, <1>t DEF BeginSync, Reply, TypeOK, Pending
<1>4. ASSUME NEW id \in SyncIds, RefuseStaging(id) PROVE TypeOK'
  BY <1>4, <1>t DEF RefuseStaging, Reply, TypeOK
<1>5. ASSUME NEW id \in SyncIds, AbortSync(id) PROVE TypeOK'
  BY <1>5, <1>t DEF AbortSync, Reply, TypeOK
<1>6. ASSUME NEW id \in SyncIds, FinalizeSync(id) PROVE TypeOK'
  <2>1. pending \in Pending /\ current \in State
    BY <1>6, <1>t DEF FinalizeSync, InSync, TypeOK
  <2>2. /\ MergedSources(current, pending) \in SourceMap
        /\ pending.policies \in Manifest \cup {None, BadUid}
    BY <2>1, SourceEdits DEF Pending
  <2>3. \A next \in NextStates(current, MergedSources(current, pending), pending.policies) :
            next \in State
    BY <2>2, NextStateOfSync
  <2> QED BY <1>6, <1>t, <2>3, AbsentAssumption
             DEF FinalizeSync, Start, Reply, TypeOK, Ready
<1>7. ASSUME NEW id \in SyncIds, NEW ids \in SUBSET Sources, DeleteSources(id, ids)
      PROVE  TypeOK'
  BY <1>7, <1>t DEF DeleteSources, InSync, Reply, TypeOK, Pending
<1>8. ASSUME NEW id \in SyncIds, NEW s \in Sources, NEW rev \in Revisions,
             NEW d \in SUBSET Content[rev], PushSourceChunk(id, s, rev, d)
      PROVE  TypeOK'
  <2>1. pending \in Pending
    BY <1>8, <1>t DEF PushSourceChunk, InSync, TypeOK
  <2>2. d \subseteq Domains
    BY ContentAssumption
  <2>3. pending.updates[s] # None => pending.updates[s].domains \subseteq Domains
    BY <2>1 DEF Pending, SourceState
  <2>4. pending' \in Pending
    <3>1. pending.deleted \ {s} \in SUBSET Sources
      BY <2>1 DEF Pending
    <3>2. ASSUME NEW e \in SourceState
          PROVE  [pending EXCEPT !.deleted = pending.deleted \ {s}, !.updates[s] = e]
                    \in Pending
      BY <2>1, <3>1 DEF Pending
    <3>3. [pending EXCEPT !.deleted = pending.deleted \ {s}] \in Pending
      BY <2>1, <3>1 DEF Pending
    <3>4. \A h \in SUBSET Domains :
             [revision |-> rev, domains |-> h \cup d] \in SourceState
      BY <2>2, SourceEdits
    <3> DEFINE held == IF pending.updates[s] = None THEN {}
                       ELSE pending.updates[s].domains
    <3>5. held \in SUBSET Domains
      BY <2>3
    <3>6. \/ pending' = [pending EXCEPT !.deleted = pending.deleted \ {s}]
          \/ pending' = [pending EXCEPT !.deleted = pending.deleted \ {s},
                !.updates[s] = [revision |-> rev, domains |-> held \cup d]]
      BY <1>8 DEF PushSourceChunk
    <3> HIDE DEF held
    <3>7. [revision |-> rev, domains |-> held \cup d] \in SourceState
      BY <3>4, <3>5
    <3> QED BY <3>2, <3>3, <3>6, <3>7
  <2> QED BY <1>8, <2>4, <1>t DEF PushSourceChunk, Reply, TypeOK
<1>9. ASSUME NEW id \in SyncIds, NEW m \in Manifest \cup {BadUid}, SetManifest(id, m)
      PROVE  TypeOK'
  BY <1>9, <1>t DEF SetManifest, InSync, Reply, TypeOK, Pending
<1>10. ASSUME NEW lists \in [Sources -> (SUBSET Domains) \cup {None}],
              NEW m \in Manifest \cup {BadUid}, FullSync(lists, m)
       PROVE  TypeOK'
  <2>1. FullSources(lists) \in SourceMap
    BY SourceEdits
  <2>2. \A next \in NextStates(current, FullSources(lists), m) : next \in State
    BY <2>1, NextStateOfSync
  <2> QED BY <1>10, <1>t, <2>2, AbsentAssumption
             DEF FullSync, Start, Reply, TypeOK, Ready
<1>j. phase # "idle" => job.next \in State
  BY <1>t DEF TypeOK
<1>11. CASE ApplyDns
  <2>1. ASSUME NEW u \in Uids, NEW p \in Ports, Assigned(job.next, u, p)
        PROVE  [user    |-> u,
                blocked |-> BlockedFor(job.next, u),
                terms   |-> job.next.policies[u].terms] \in Listener
    BY <1>11, <1>j, <2>1, ListenerTypes DEF ApplyDns, Assigned
  <2>2. listeners' \in [Ports -> Listener \cup {None}]
    BY <1>11, <2>1 DEF ApplyDns
  <2> QED BY <1>11, <1>t, <2>2 DEF ApplyDns, TypeOK
<1>12. CASE FlushNat
  BY <1>12, <1>t DEF FlushNat, TypeOK
<1>13. CASE FlushFilter
  BY <1>13, <1>t DEF FlushFilter, TypeOK
<1>14. ASSUME NEW u \in Uids, NEW i \in RuleIndex, AppendRule(u, i) PROVE TypeOK'
  <2>1. Rule(u, PortOf(job.next, u), i) \in Rules
    BY <1>14, <1>j, RuleTypes DEF AppendRule
  <2>2. nat' \subseteq NatRules(Rules) /\ filter' \subseteq FilterRules(Rules)
    BY <1>14, <2>1, <1>t DEF AppendRule, TypeOK, NatRules, FilterRules
  <2> QED BY <1>14, <1>t, <2>2 DEF AppendRule, TypeOK
<1>15. CASE FirewallFails
  BY <1>15, <1>t, <1>f DEF FirewallFails, Finish, TypeOK, FaultKinds
<1>16. CASE Commit
  BY <1>16, <1>t, <1>j DEF Commit, Finish, TypeOK
<1>17. CASE Save
  BY <1>17, <1>t, <1>j DEF Save, Finish, TypeOK
<1>18. CASE SaveFails
  BY <1>18, <1>t, <1>f DEF SaveFails, Finish, TypeOK, FaultKinds
<1>19. CASE Crash \/ Reboot
  BY <1>19, <1>t, EmptyStateType DEF Crash, Reboot, ProcessLost, Finish, TypeOK
<1>20. CASE UNCHANGED vars
  BY <1>20, <1>t DEF vars, TypeOK
<1> QED BY <1>1, <1>2, <1>3, <1>4, <1>5, <1>6, <1>7, <1>8, <1>9, <1>10, <1>11, <1>12,
           <1>13, <1>14, <1>15, <1>16, <1>17, <1>18, <1>19, <1>20
        DEF Next, Staging, OneCall, Apply

-----------------------------------------------------------------------------
(* The steps that matter to everything but the pending synchronisation *)

KernelVars == <<restored, current, listeners, nat, filter, disk, job, phase>>

\* Next, with the staging calls that touch neither job nor state in one case.
LEMMA StepCases ==
    ASSUME [Next]_vars
    PROVE  \/ Restore
           \/ RestoreUnreadable
           \/ \E id \in SyncIds : FinalizeSync(id)
           \/ OneCall
           \/ Apply
           \/ Crash \/ Reboot
           \/ /\ UNCHANGED <<KernelVars, faults>>
              /\ restored \/ pending' = pending
              /\ reply' \in {reply, "staged", "refused"}
<1> USE DEF KernelVars, Reply, hostVars, runtimeVars, callVars
<1>1. ASSUME NEW id \in SyncIds,
             \/ BeginSync(id) \/ RefuseStaging(id) \/ AbortSync(id)
             \/ \E ids \in SUBSET Sources : DeleteSources(id, ids)
             \/ \E m \in Manifest \cup {BadUid} : SetManifest(id, m)
      PROVE  /\ UNCHANGED <<KernelVars, faults>> /\ restored
             /\ reply' \in {"staged", "refused"}
  BY <1>1 DEF Ready, BeginSync, RefuseStaging, AbortSync, DeleteSources, SetManifest
<1>2. ASSUME NEW id \in SyncIds, NEW s, NEW rev, NEW d, PushSourceChunk(id, s, rev, d)
      PROVE  /\ UNCHANGED <<KernelVars, faults>> /\ restored
             /\ reply' \in {"staged", "refused"}
  BY <1>2 DEF Ready, PushSourceChunk
<1>3. UNCHANGED vars => /\ UNCHANGED <<KernelVars, faults>>
                        /\ pending' = pending /\ reply' = reply
  BY DEF vars
<1> QED BY <1>1, <1>2, <1>3 DEF Next, Staging

\* finalize_sync starts to apply a state built by NextStates, or fails, and in
\* both cases consumes the pending synchronisation and nothing else.
LEMMA FinalizeStep ==
    ASSUME IInv, NEW id \in SyncIds, FinalizeSync(id)
    PROVE  /\ restored /\ job = None
           /\ pending # None /\ pending' = None
           /\ UNCHANGED <<restored, current, listeners, nat, filter, disk, faults>>
           /\ reply' \in {"none", "failed"}
           /\ \/ job' = None /\ phase' = phase
              \/ /\ phase' = "dns"
                 /\ job'.op = "finalize"
                 /\ job' # None
                 /\ job'.next \in State
                 /\ job'.next.sources = MergedSources(current, pending)
                 /\ OnePortPerUid(job'.next)
                 /\ \A u \in Managed(current) : u \in Managed(job'.next) =>
                        PortOf(job'.next, u) = PortOf(current, u)
                 /\ TakesNoPort(current, job'.next)
<1> DEFINE nexts == NextStates(current, MergedSources(current, pending), pending.policies)
<1>1. /\ restored /\ phase = "idle"
      /\ pending # None /\ pending' = None
      /\ UNCHANGED <<restored, current, listeners, nat, filter, disk, faults>>
      /\ reply' \in {"none", "failed"}
      /\ \/ \E next \in nexts : job' = [op |-> "finalize", next |-> next] /\ phase' = "dns"
         \/ job' = job /\ phase' = phase
  BY DEF FinalizeSync, Ready, InSync, Start, Reply, hostVars
<1>2. job = None
  BY <1>1 DEF IInv, TypeOK
<1>3. pending \in Pending /\ current \in State
  BY <1>1 DEF IInv, TypeOK
<1>4. /\ MergedSources(current, pending) \in SourceMap
      /\ pending.policies \in Manifest \cup {None, BadUid}
  BY <1>3, SourceEdits DEF Pending
<1>5. ASSUME NEW next \in nexts
      PROVE  /\ next \in State
             /\ next.sources = MergedSources(current, pending)
             /\ OnePortPerUid(next)
             /\ \A u \in Managed(current) :
                   u \in Managed(next) => PortOf(next, u) = PortOf(current, u)
             /\ TakesNoPort(current, next)
             /\ [op |-> "finalize", next |-> next] # None
  <2> HIDE DEF nexts
  <2>1. /\ next \in State
        /\ next.sources = MergedSources(current, pending)
        /\ OnePortPerUid(next)
        /\ \A u \in Managed(current) :
              u \in Managed(next) => PortOf(next, u) = PortOf(current, u)
        /\ TakesNoPort(current, next)
    BY <1>4, NextStateOfSync DEF nexts
  <2> QED BY <2>1, AbsentAssumption
<1> HIDE DEF nexts
<1>6. CASE \E next \in nexts : job' = [op |-> "finalize", next |-> next] /\ phase' = "dns"
  <2>1. PICK next \in nexts : job' = [op |-> "finalize", next |-> next] /\ phase' = "dns"
    BY <1>6
  <2>2. job'.next = next /\ job'.op = "finalize"
    BY <2>1
  <2> QED BY <1>1, <1>2, <1>5, <2>1, <2>2
<1> QED BY <1>1, <1>2, <1>6

\* The same of the one-call sync, which leaves the pending synchronisation.
LEMMA OneCallStep ==
    ASSUME IInv, OneCall
    PROVE  /\ restored /\ job = None
           /\ pending' = pending
           /\ UNCHANGED <<restored, current, listeners, nat, filter, disk, faults>>
           /\ reply' \in {"none", "failed"}
           /\ \/ job' = None /\ phase' = phase
              \/ /\ phase' = "dns"
                 /\ job'.op = "sync"
                 /\ job' # None
                 /\ job'.next \in State
                 /\ Unmixed(job'.next.sources)
                 /\ OnePortPerUid(job'.next)
                 /\ \A u \in Managed(current) : u \in Managed(job'.next) =>
                        PortOf(job'.next, u) = PortOf(current, u)
                 /\ TakesNoPort(current, job'.next)
<1>1. PICK lists \in [Sources -> (SUBSET Domains) \cup {None}],
           m \in Manifest \cup {BadUid} : FullSync(lists, m)
  BY DEF OneCall
<1> DEFINE nexts == NextStates(current, FullSources(lists), m)
<1>2. /\ restored /\ phase = "idle"
      /\ pending' = pending
      /\ UNCHANGED <<restored, current, listeners, nat, filter, disk, faults>>
      /\ reply' \in {"none", "failed"}
      /\ \/ \E next \in nexts : job' = [op |-> "sync", next |-> next] /\ phase' = "dns"
         \/ job' = job /\ phase' = phase
  BY <1>1 DEF FullSync, Ready, Start, Reply, hostVars, runtimeVars
<1>3. job = None
  BY <1>2 DEF IInv, TypeOK
<1>4. FullSources(lists) \in SourceMap
  BY SourceEdits
<1>5. Unmixed(FullSources(lists))
  <2>1. ASSUME NEW s \in Sources, FullSources(lists)[s] # None
        PROVE  FullSources(lists)[s].domains
                 \subseteq ContentOf(FullSources(lists)[s].revision)
    <3>1. FullSources(lists)[s] = [revision |-> Digest(lists[s]), domains |-> lists[s]]
      BY <2>1 DEF FullSources
    <3>2. Digest(lists[s]) \in Digests
      <4>1. lists[s] \in SUBSET Domains
        BY <2>1 DEF FullSources
      <4> QED BY <4>1 DEF Digests
    <3>3. ContentOf(Digest(lists[s])) = lists[s]
      BY <3>2, AbsentAssumption DEF ContentOf, Digest
    <3> QED BY <3>1, <3>3
  <2> QED BY <2>1 DEF Unmixed
<1>6. ASSUME NEW next \in nexts
      PROVE  /\ next \in State
             /\ next.sources = FullSources(lists)
             /\ OnePortPerUid(next)
             /\ \A u \in Managed(current) :
                   u \in Managed(next) => PortOf(next, u) = PortOf(current, u)
             /\ TakesNoPort(current, next)
             /\ [op |-> "sync", next |-> next] # None
  <2> HIDE DEF nexts
  <2>1. /\ next \in State
        /\ next.sources = FullSources(lists)
        /\ OnePortPerUid(next)
        /\ \A u \in Managed(current) :
              u \in Managed(next) => PortOf(next, u) = PortOf(current, u)
        /\ TakesNoPort(current, next)
    BY <1>4, NextStateOfSync DEF nexts
  <2> QED BY <2>1, AbsentAssumption
<1> HIDE DEF nexts
<1>7. CASE \E next \in nexts : job' = [op |-> "sync", next |-> next] /\ phase' = "dns"
  <2>1. PICK next \in nexts : job' = [op |-> "sync", next |-> next] /\ phase' = "dns"
    BY <1>7
  <2>2. job'.next = next /\ job'.op = "sync"
    BY <2>1
  <2> QED BY <1>2, <1>3, <1>5, <1>6, <2>1, <2>2
<1> QED BY <1>2, <1>3, <1>7

-----------------------------------------------------------------------------
(* Preservation of the invariant, part by part *)

\* Nothing but a restore gives a new process a state.
LEMMA FreshStep == IInv /\ [Next]_vars => FreshProcess'
<1> SUFFICES ASSUME IInv, [Next]_vars PROVE FreshProcess'
  OBVIOUS
<1>f. FreshProcess
  BY DEF IInv
<1>a. CASE restored'
  BY <1>a DEF FreshProcess
<1>b. CASE ~restored' /\ (Crash \/ Reboot)
  BY <1>b DEF Crash, Reboot, ProcessLost, Finish, FreshProcess
<1>c. CASE ~restored' /\ ~(Crash \/ Reboot)
  <2>1. ~restored /\ UNCHANGED <<current, pending, job>>
    <3>1. job = None <=> phase = "idle"
      BY DEF IInv, TypeOK
    <3>2. ~Restore /\ ~RestoreUnreadable
      BY <1>c DEF Restore, RestoreUnreadable
    <3>3. ~OneCall /\ \A id \in SyncIds : ~FinalizeSync(id)
      BY <1>c, OneCallStep, FinalizeStep
    <3>4. ~Apply
      <4>1. ASSUME Apply PROVE restored' = restored /\ phase # "idle"
        BY <4>1 DEF Apply, ApplyDns, FlushNat, FlushFilter, AppendRule, FirewallFails,
                    Commit, Save, SaveFails, runtimeVars
      <4> QED BY <4>1, <1>c, <1>f, <3>1 DEF FreshProcess
    <3> QED BY <1>c, <3>2, <3>3, <3>4, StepCases DEF KernelVars
  <2> QED BY <2>1, <1>f DEF FreshProcess
<1> QED BY <1>a, <1>b, <1>c

\* A call in progress has no reply.
LEMMA UnansweredStep == IInv /\ [Next]_vars => Unanswered'
<1> SUFFICES ASSUME IInv, [Next]_vars, phase' # "idle" PROVE reply' = "none"
  BY DEF Unanswered
<1>i. Unanswered
  BY DEF IInv
<1>1. CASE Restore \/ OneCall \/ \E id \in SyncIds : FinalizeSync(id)
  BY <1>1 DEF Restore, OneCall, FullSync, FinalizeSync, Start, Ready, Reply
<1>2. CASE Apply
  BY <1>2, <1>i DEF Unanswered, Apply, ApplyDns, FlushNat, FlushFilter, AppendRule,
       FirewallFails, Commit, Save, SaveFails, Finish, callVars
<1>3. CASE RestoreUnreadable \/ Crash \/ Reboot
  BY <1>3 DEF RestoreUnreadable, Crash, Reboot, ProcessLost, Finish
<1>4. ASSUME NEW id \in SyncIds,
             \/ BeginSync(id) \/ RefuseStaging(id) \/ AbortSync(id)
             \/ \E ids \in SUBSET Sources : DeleteSources(id, ids)
             \/ \E s \in Sources, rev \in Revisions :
                   \E d \in SUBSET Content[rev] : PushSourceChunk(id, s, rev, d)
             \/ \E m \in Manifest \cup {BadUid} : SetManifest(id, m)
      PROVE  phase' = "idle"
  BY <1>4 DEF Ready, Reply, BeginSync, RefuseStaging, AbortSync, DeleteSources,
              PushSourceChunk, SetManifest
<1>5. CASE UNCHANGED vars
  BY <1>5, <1>i DEF Unanswered, vars, callVars
<1> QED BY <1>1, <1>2, <1>3, <1>4, <1>5 DEF Next, Staging

\* Every step keeps ports unique and those of the managed uids stable.
LEMMA PortsStep == IInv /\ [Next]_vars => PortsDistinct' /\ JobKeepsPorts'
<1> SUFFICES ASSUME IInv, [Next]_vars PROVE PortsDistinct' /\ JobKeepsPorts'
  OBVIOUS
<1> USE DEF PortsDistinct, JobKeepsPorts
<1>i. PortsDistinct /\ JobKeepsPorts /\ FreshProcess /\ TypeOK
  BY DEF IInv
<1>e. OnePortPerUid(EmptyState) /\ Managed(EmptyState) = {}
  BY EmptyStateType DEF OnePortPerUid
<1>1. CASE Restore
  <2>1. /\ current = EmptyState
        /\ job'.next = current'
        /\ disk' = disk
        /\ current' \in {disk, EmptyState} /\ (disk = None => current' = EmptyState)
    BY <1>1, <1>i DEF Restore, Start, FreshProcess, hostVars
  <2>2. OnePortPerUid(current')
    BY <2>1, <1>i, <1>e
  <2> QED BY <2>1, <2>2, <1>i DEF OnePortPerUid, Managed, PortOf
<1>2. CASE RestoreUnreadable
  BY <1>2, <1>i DEF RestoreUnreadable, hostVars, OnePortPerUid, Managed, PortOf
<1>3. ASSUME NEW id \in SyncIds, FinalizeSync(id)
      PROVE  PortsDistinct' /\ JobKeepsPorts'
  BY <1>3, <1>i, FinalizeStep DEF OnePortPerUid, Managed, PortOf
<1>4. CASE OneCall
  BY <1>4, <1>i, OneCallStep DEF OnePortPerUid, Managed, PortOf
<1>5. CASE Apply
  <2>1. CASE \/ ApplyDns \/ FlushNat \/ FlushFilter
             \/ \E u \in Uids, i \in RuleIndex : AppendRule(u, i)
    <3>1. UNCHANGED <<current, disk, job>>
      BY <2>1 DEF ApplyDns, FlushNat, FlushFilter, AppendRule, runtimeVars, hostVars, callVars
    <3> QED BY <3>1, <1>i DEF OnePortPerUid, Managed, PortOf
  <2>2. CASE FirewallFails \/ SaveFails
    <3>1. UNCHANGED <<current, disk>> /\ job' = None
      BY <2>2 DEF FirewallFails, SaveFails, Finish, runtimeVars, hostVars
    <3> QED BY <3>1, <1>i DEF OnePortPerUid, Managed, PortOf
  <2>3. CASE Commit
    <3>1. /\ disk' = disk /\ job # None
          /\ \/ job' = None /\ current' = current
             \/ job' = job /\ current' = job.next
      BY <2>3, <1>i DEF Commit, Finish, hostVars, TypeOK
    <3> QED BY <3>1, <1>i DEF OnePortPerUid, Managed, PortOf
  <2>4. CASE Save
    <3>1. job # None /\ disk' = job.next /\ job' = None /\ current' = current
      BY <2>4, <1>i DEF Save, Finish, runtimeVars, TypeOK
    <3> QED BY <3>1, <1>i DEF OnePortPerUid, Managed, PortOf
  <2> QED BY <1>5, <2>1, <2>2, <2>3, <2>4 DEF Apply
<1>6. CASE Crash \/ Reboot
  <2>1. current' = EmptyState /\ disk' = disk /\ job' = None
    BY <1>6 DEF Crash, Reboot, ProcessLost, Finish
  <2> QED BY <2>1, <1>i, <1>e DEF OnePortPerUid, Managed, PortOf
<1>7. CASE UNCHANGED KernelVars
  BY <1>7, <1>i DEF KernelVars, OnePortPerUid, Managed, PortOf
<1> QED BY <1>1, <1>2, <1>3, <1>4, <1>5, <1>6, <1>7, StepCases

\* In the rules of one state, a guard stands on a redirect's port only for the
\* uid the redirect is of.
LEMMA OneStateAdmits ==
    ASSUME NEW st \in State, OnePortPerUid(st),
           NEW n \in RulesFor(st), NEW g \in RulesFor(st),
           n.kind = "nat", g.kind = "guard", g.port = n.port
    PROVE  g.uid = n.uid
<1>1. PICK u \in Managed(st), i \in RuleIndex : n = Rule(u, PortOf(st, u), i)
  BY DEF RulesFor
<1>2. PICK v \in Managed(st), j \in RuleIndex : g = Rule(v, PortOf(st, v), j)
  BY DEF RulesFor
<1>3. n.uid = u /\ n.port = PortOf(st, u)
  BY <1>1 DEF Rule
<1>4. g.uid = v /\ g.port = PortOf(st, v)
  BY <1>2 DEF Rule
<1> QED BY <1>3, <1>4 DEF OnePortPerUid

\* Every step keeps the chains free of contradictions: both are emptied before
\* a rule of another state is appended.
LEMMA ChainsStep == IInv /\ [Next]_vars => ChainsOfJob' /\ GuardsAdmitRedirects'
<1> SUFFICES ASSUME IInv, [Next]_vars PROVE ChainsOfJob' /\ GuardsAdmitRedirects'
  OBVIOUS
<1> USE DEF ChainsOfJob, GuardsAdmitRedirects
<1>i. ChainsOfJob /\ GuardsAdmitRedirects /\ PortsDistinct /\ TypeOK
  BY DEF IInv
<1>1. CASE Restore
  BY <1>1, <1>i DEF Restore, Start, hostVars
<1>2. CASE RestoreUnreadable
  BY <1>2, <1>i DEF RestoreUnreadable, hostVars
<1>3. ASSUME NEW id \in SyncIds, FinalizeSync(id)
      PROVE  ChainsOfJob' /\ GuardsAdmitRedirects'
  <2>1. phase' \notin {"flush_filter", "append"} /\ UNCHANGED <<nat, filter>>
    BY <1>3, <1>i DEF FinalizeSync, Ready, Start, Reply, hostVars
  <2> QED BY <2>1, <1>i
<1>4. CASE OneCall
  <2>1. phase' \notin {"flush_filter", "append"} /\ UNCHANGED <<nat, filter>>
    BY <1>4, <1>i DEF OneCall, FullSync, Ready, Start, Reply, hostVars
  <2> QED BY <2>1, <1>i
<1>5. CASE ApplyDns \/ FirewallFails \/ Commit \/ SaveFails
  <2>1. /\ UNCHANGED <<nat, filter>>
        /\ phase' \notin {"flush_filter", "append"}
    BY <1>5 DEF ApplyDns, FirewallFails, Commit, SaveFails, Finish, hostVars
  <2> QED BY <2>1, <1>i
<1>6. CASE Save
  BY <1>6, <1>i DEF Save, Finish
<1>7. CASE FlushNat
  BY <1>7, <1>i DEF FlushNat
<1>8. CASE FlushFilter
  BY <1>8, <1>i DEF FlushFilter
<1>9. ASSUME NEW u \in Uids, NEW i \in RuleIndex, AppendRule(u, i)
      PROVE  ChainsOfJob' /\ GuardsAdmitRedirects'
  <2>1. /\ phase = "append" /\ phase' = phase /\ job' = job
        /\ u \in Managed(job.next)
        /\ job.next \in State /\ OnePortPerUid(job.next)
        /\ nat \cup filter \subseteq RulesFor(job.next)
    BY <1>9, <1>i DEF AppendRule, callVars, TypeOK, PortsDistinct
  <2>2. Rule(u, PortOf(job.next, u), i) \in RulesFor(job.next)
    BY <2>1, RuleTypes
  <2>3. nat' \cup filter' \subseteq RulesFor(job.next)
    BY <1>9, <2>1, <2>2 DEF AppendRule
  <2>4. \A n \in nat' : n.kind = "nat"
    BY <1>9, <1>i DEF AppendRule, TypeOK, NatRules
  <2>5. RulesFor(job'.next) = RulesFor(job.next)
    BY <2>1
  <2>6. GuardsAdmitRedirects'
    BY <2>1, <2>3, <2>4, OneStateAdmits
  <2> QED BY <2>1, <2>3, <2>5, <2>6 DEF RulesFor, Managed, PortOf, Rule
<1>10. CASE Crash \/ Reboot
  BY <1>10, <1>i DEF Crash, Reboot, ProcessLost, Finish
<1>11. CASE UNCHANGED KernelVars
  BY <1>11, <1>i DEF KernelVars, RulesFor, Managed, PortOf, Rule
<1> QED BY <1>1, <1>2, <1>3, <1>4, <1>5, <1>6, <1>7, <1>8, <1>9, <1>10, <1>11, StepCases
        DEF Apply

-----------------------------------------------------------------------------
(* The staged work *)

\* Deletions and updates merged into unmixed sources are unmixed.
LEMMA MergeUnmixed ==
    ASSUME NEW st \in State, NEW sync \in Pending,
           Unmixed(st.sources), Unmixed(sync.updates)
    PROVE  Unmixed(MergedSources(st, sync))
BY DEF Unmixed, MergedSources

\* A chunk of a revision extends an update of that revision only.
LEMMA ChunkUnmixed ==
    ASSUME IInv, NEW id \in SyncIds, NEW s \in Sources, NEW rev \in Revisions,
           NEW d \in SUBSET Content[rev], PushSourceChunk(id, s, rev, d)
    PROVE  Unmixed(pending'.updates)
<1> DEFINE old == pending.updates[s]
           conflict == old # None /\ old.revision # rev /\ old.domains # {}
           held == IF old = None THEN {} ELSE old.domains
<1>1. pending # None /\ pending \in Pending /\ Unmixed(pending.updates)
  BY DEF PushSourceChunk, InSync, IInv, TypeOK, StagedUnmixed
<1>2. CASE conflict
  <2>1. pending'.updates = pending.updates
    BY <1>1, <1>2 DEF PushSourceChunk, Pending
  <2> QED BY <1>1, <2>1
<1>3. CASE ~conflict
  <2>1. pending' = [pending EXCEPT !.deleted = pending.deleted \ {s},
                        !.updates[s] = [revision |-> rev, domains |-> held \cup d]]
    BY <1>3 DEF PushSourceChunk
  <2>2. held \subseteq Content[rev]
    <3>1. CASE old = None \/ old.domains = {}
      BY <3>1
    <3>2. CASE old # None /\ old.revision = rev
      BY <1>1, <3>2 DEF Unmixed, ContentOf
    <3> QED BY <3>1, <3>2, <1>3
  <2>3. held \cup d \subseteq ContentOf(rev)
    BY <2>2 DEF ContentOf
  <2> HIDE DEF held, old, conflict
  <2>4. /\ pending'.updates \in [Sources -> SourceState \cup {None}
                                    \cup {[revision |-> rev, domains |-> held \cup d]}]
        /\ pending'.updates[s] = [revision |-> rev, domains |-> held \cup d]
        /\ \A x \in Sources : x # s => pending'.updates[x] = pending.updates[x]
    BY <1>1, <2>1 DEF Pending
  <2> QED BY <1>1, <2>3, <2>4 DEF Unmixed
<1> QED BY <1>2, <1>3

\* Every step keeps stored and staged lists within their revisions.
LEMMA UnmixedStep == IInv /\ [Next]_vars => RevisionsUnmixed' /\ StagedUnmixed'
<1> SUFFICES ASSUME IInv, [Next]_vars PROVE RevisionsUnmixed' /\ StagedUnmixed'
  OBVIOUS
<1>i. RevisionsUnmixed /\ StagedUnmixed /\ FreshProcess /\ TypeOK
  BY DEF IInv
<1>e. Unmixed(EmptyState.sources)
  BY DEF Unmixed, EmptyState
<1> USE DEF RevisionsUnmixed, StagedUnmixed
<1>1. CASE Restore
  <2>1. /\ pending = None /\ pending' = None
        /\ disk' = disk /\ job'.next = current'
        /\ current' = IF disk = None THEN EmptyState ELSE disk
    BY <1>1, <1>i DEF Restore, Start, FreshProcess, hostVars
  <2> QED BY <2>1, <1>i, <1>e DEF Unmixed
<1>2. CASE RestoreUnreadable
  BY <1>2, <1>i DEF RestoreUnreadable, hostVars, Unmixed
<1>3. ASSUME NEW id \in SyncIds, FinalizeSync(id)
      PROVE  RevisionsUnmixed' /\ StagedUnmixed'
  <2>1. Unmixed(MergedSources(current, pending))
    BY <1>3, <1>i, FinalizeStep, MergeUnmixed DEF TypeOK
  <2> QED BY <1>3, <2>1, <1>i, FinalizeStep DEF Unmixed
<1>4. CASE OneCall
  BY <1>4, <1>i, OneCallStep DEF Unmixed
<1>5. CASE \/ ApplyDns \/ FlushNat \/ FlushFilter
           \/ \E u \in Uids, i \in RuleIndex : AppendRule(u, i)
  <2>1. UNCHANGED <<current, disk, job, pending>>
    BY <1>5 DEF ApplyDns, FlushNat, FlushFilter, AppendRule, runtimeVars, hostVars, callVars
  <2> QED BY <2>1, <1>i DEF Unmixed
<1>6. CASE FirewallFails \/ SaveFails
  <2>1. UNCHANGED <<current, disk, pending>> /\ job' = None
    BY <1>6 DEF FirewallFails, SaveFails, Finish, runtimeVars, hostVars
  <2> QED BY <2>1, <1>i DEF Unmixed
<1>7. CASE Commit
  <2>1. /\ disk' = disk /\ job # None /\ pending' \in {pending, None}
        /\ \/ job' = None /\ current' = current
           \/ job' = job /\ current' = job.next
    BY <1>7, <1>i DEF Commit, Finish, hostVars, TypeOK
  <2> QED BY <2>1, <1>i DEF Unmixed
<1>8. CASE Save
  <2>1. /\ job # None /\ disk' = job.next /\ job' = None
        /\ current' = current /\ pending' = pending
    BY <1>8, <1>i DEF Save, Finish, runtimeVars, TypeOK
  <2> QED BY <2>1, <1>i DEF Unmixed
<1>9. CASE Crash \/ Reboot
  <2>1. current' = EmptyState /\ disk' = disk /\ job' = None /\ pending' = None
    BY <1>9 DEF Crash, Reboot, ProcessLost, Finish
  <2> QED BY <2>1, <1>i, <1>e DEF Unmixed
<1>10. ASSUME UNCHANGED <<current, disk, job>>
       PROVE  RevisionsUnmixed'
  BY <1>10, <1>i DEF Unmixed
<1>11. ASSUME NEW id \in SyncIds, BeginSync(id) PROVE RevisionsUnmixed' /\ StagedUnmixed'
  BY <1>11, <1>10 DEF BeginSync, Reply, hostVars, Unmixed
<1>12. ASSUME NEW id \in SyncIds, RefuseStaging(id) PROVE RevisionsUnmixed' /\ StagedUnmixed'
  BY <1>12, <1>10, <1>i DEF RefuseStaging, Reply, hostVars, runtimeVars, Unmixed
<1>13. ASSUME NEW id \in SyncIds, AbortSync(id) PROVE RevisionsUnmixed' /\ StagedUnmixed'
  BY <1>13, <1>10, <1>i DEF AbortSync, Reply, hostVars, Unmixed
<1>14. ASSUME NEW id \in SyncIds, NEW ids \in SUBSET Sources, DeleteSources(id, ids)
       PROVE  RevisionsUnmixed' /\ StagedUnmixed'
  <2>1. /\ UNCHANGED <<current, disk, job>> /\ pending # None
        /\ pending' = [pending EXCEPT
              !.deleted = pending.deleted \cup ids,
              !.updates = [s \in Sources |-> IF s \in ids THEN None
                                              ELSE pending.updates[s]]]
    BY <1>14 DEF DeleteSources, InSync, Reply, hostVars
  <2>2. pending \in Pending
    BY <2>1, <1>i DEF TypeOK
  <2>3. pending'.updates = [s \in Sources |-> IF s \in ids THEN None
                                              ELSE pending.updates[s]]
    BY <2>1, <2>2 DEF Pending
  <2> QED BY <2>1, <2>3, <1>10, <1>i DEF Unmixed
<1>15. ASSUME NEW id \in SyncIds, NEW s \in Sources, NEW rev \in Revisions,
              NEW d \in SUBSET Content[rev], PushSourceChunk(id, s, rev, d)
       PROVE  RevisionsUnmixed' /\ StagedUnmixed'
  <2>1. UNCHANGED <<current, disk, job>>
    BY <1>15 DEF PushSourceChunk, Reply, hostVars
  <2> QED BY <2>1, <1>15, <1>10, ChunkUnmixed DEF Unmixed
<1>16. ASSUME NEW id \in SyncIds, NEW m \in Manifest \cup {BadUid}, SetManifest(id, m)
       PROVE  RevisionsUnmixed' /\ StagedUnmixed'
  <2>1. /\ UNCHANGED <<current, disk, job>> /\ pending # None
        /\ pending' = [pending EXCEPT !.policies = m]
    BY <1>16 DEF SetManifest, InSync, Reply, hostVars
  <2>2. pending'.updates = pending.updates
    BY <2>1, <1>i DEF TypeOK, Pending
  <2> QED BY <2>1, <2>2, <1>10, <1>i DEF Unmixed
<1>17. CASE UNCHANGED vars
  BY <1>17, <1>i DEF vars, runtimeVars, hostVars, callVars, Unmixed
<1> QED BY <1>1, <1>2, <1>3, <1>4, <1>5, <1>6, <1>7, <1>8, <1>9, <1>11, <1>12, <1>13,
           <1>14, <1>15, <1>16, <1>17
        DEF Next, Staging, Apply

\* Every step keeps deletions and updates apart.
LEMMA DeletionStep == IInv /\ [Next]_vars => DeletionOrUpdate'
<1> SUFFICES ASSUME IInv, [Next]_vars, pending' # None PROVE DeletionOrUpdate'
  BY DEF DeletionOrUpdate
<1>i. DeletionOrUpdate /\ TypeOK
  BY DEF IInv
<1> USE DEF DeletionOrUpdate
<1>1. CASE pending' = pending
  BY <1>1, <1>i
<1>2. ASSUME NEW id \in SyncIds, BeginSync(id) PROVE DeletionOrUpdate'
  BY <1>2 DEF BeginSync
<1>3. ASSUME NEW id \in SyncIds, NEW ids \in SUBSET Sources, DeleteSources(id, ids)
      PROVE  DeletionOrUpdate'
  <2>1. /\ pending # None /\ pending \in Pending
        /\ pending' = [pending EXCEPT
              !.deleted = pending.deleted \cup ids,
              !.updates = [s \in Sources |-> IF s \in ids THEN None
                                              ELSE pending.updates[s]]]
    BY <1>3, <1>i DEF DeleteSources, InSync, TypeOK
  <2>2. /\ pending'.deleted = pending.deleted \cup ids
        /\ pending'.updates = [s \in Sources |-> IF s \in ids THEN None
                                                  ELSE pending.updates[s]]
        /\ pending.deleted \subseteq Sources
    BY <2>1 DEF Pending
  <2> QED BY <2>1, <2>2, <1>i
<1>4. ASSUME NEW id \in SyncIds, NEW s \in Sources, NEW rev \in Revisions,
             NEW d \in SUBSET Content[rev], PushSourceChunk(id, s, rev, d)
      PROVE  DeletionOrUpdate'
  <2>1. pending # None /\ pending \in Pending
    BY <1>4, <1>i DEF PushSourceChunk, InSync, TypeOK
  <2>2. /\ pending'.deleted = pending.deleted \ {s}
        /\ \A x \in Sources : x # s => pending'.updates[x] = pending.updates[x]
        /\ pending.deleted \subseteq Sources
    BY <1>4, <2>1 DEF PushSourceChunk, Pending
  <2> QED BY <2>1, <2>2, <1>i
<1>5. ASSUME NEW id \in SyncIds, NEW m \in Manifest \cup {BadUid}, SetManifest(id, m)
      PROVE  DeletionOrUpdate'
  <2>1. /\ pending # None /\ pending \in Pending
        /\ pending' = [pending EXCEPT !.policies = m]
    BY <1>5, <1>i DEF SetManifest, InSync, TypeOK
  <2>2. pending'.deleted = pending.deleted /\ pending'.updates = pending.updates
    BY <2>1 DEF Pending
  <2> QED BY <2>1, <2>2, <1>i
<1>6. \/ pending' = pending
      \/ \E id \in SyncIds :
           \/ BeginSync(id)
           \/ \E ids \in SUBSET Sources : DeleteSources(id, ids)
           \/ \E s \in Sources, rev \in Revisions :
                 \E d \in SUBSET Content[rev] : PushSourceChunk(id, s, rev, d)
           \/ \E m \in Manifest \cup {BadUid} : SetManifest(id, m)
  <2>1. ASSUME \/ Restore \/ RestoreUnreadable \/ OneCall \/ Apply \/ Crash \/ Reboot
               \/ UNCHANGED vars
        PROVE  pending' = pending
    BY <2>1 DEF Restore, RestoreUnreadable, OneCall, FullSync, Apply, ApplyDns, FlushNat,
                FlushFilter, AppendRule, FirewallFails, Commit, Save, SaveFails, Crash, Reboot,
                ProcessLost, vars, runtimeVars
  <2>2. ASSUME NEW id \in SyncIds, RefuseStaging(id) \/ AbortSync(id) \/ FinalizeSync(id)
        PROVE  pending' = pending
    BY <2>2 DEF RefuseStaging, AbortSync, FinalizeSync, runtimeVars
  <2> QED BY <2>1, <2>2 DEF Next, Staging
<1> QED BY <1>1, <1>2, <1>3, <1>4, <1>5, <1>6

-----------------------------------------------------------------------------
(* Enforcement: the listeners and the chains against the state they are of *)

\* A process that has not restored has started no listener.
LEMMA SilentStep == IInv /\ SilentStart /\ [Next]_vars => SilentStart'
<1> SUFFICES ASSUME IInv, SilentStart, [Next]_vars PROVE SilentStart'
  OBVIOUS
<1> USE DEF SilentStart
<1>1. CASE restored'
  BY <1>1
<1>2. CASE Crash \/ Reboot
  BY <1>2 DEF Crash, Reboot, ProcessLost
<1>3. CASE ~restored' /\ ~(Crash \/ Reboot)
  <2>1. ~Restore /\ ~RestoreUnreadable /\ ~OneCall /\ \A id \in SyncIds : ~FinalizeSync(id)
    BY <1>3, OneCallStep, FinalizeStep DEF Restore, RestoreUnreadable
  <2>2. Apply => restored' = restored /\ phase # "idle"
    BY DEF Apply, ApplyDns, FlushNat, FlushFilter, AppendRule, FirewallFails,
           Commit, Save, SaveFails, runtimeVars
  <2>3. ~restored => phase = "idle"
    BY DEF IInv, TypeOK, FreshProcess
  <2>4. ~Apply
    BY <1>3, <2>2, <2>3
  <2>5. UNCHANGED <<restored, listeners>>
    BY <1>3, <2>1, <2>4, StepCases DEF KernelVars
  <2> QED BY <2>5
<1> QED BY <1>1, <1>2, <1>3

\* The state being applied takes nobody's port, and a restore applies the state
\* in memory, for as long as it is being applied.
LEMMA JobStep ==
    IInv /\ JobTakesNoPort /\ RestoreOfMemory /\ CommittedJob /\ [Next]_vars
        => JobTakesNoPort' /\ RestoreOfMemory'
<1> SUFFICES ASSUME IInv, JobTakesNoPort, RestoreOfMemory, CommittedJob, [Next]_vars
             PROVE  JobTakesNoPort' /\ RestoreOfMemory'
  OBVIOUS
<1> USE DEF JobTakesNoPort, RestoreOfMemory
<1>i. PortsDistinct /\ FreshProcess /\ TypeOK
  BY DEF IInv
<1>1. CASE job' = None
  BY <1>1
<1>2. CASE job' = job /\ current' = current
  BY <1>2 DEF TakesNoPort, Managed, PortOf
<1>3. CASE Restore
  <2>1. /\ job'.next = current'
        /\ current' \in {disk, EmptyState} /\ (disk = None => current' = EmptyState)
    BY <1>3, <1>i DEF Restore, Start, FreshProcess
  <2>2. OnePortPerUid(current')
    BY <2>1, <1>i, EmptyStateType DEF PortsDistinct, OnePortPerUid
  <2>3. TakesNoPort(current, job.next)'
    BY <2>1, <2>2 DEF TakesNoPort, OnePortPerUid, Managed, PortOf
  <2> QED BY <2>1, <2>3
<1>4. CASE \/ \E id \in SyncIds : FinalizeSync(id)
           \/ OneCall
  <2>1. \/ job' = None
        \/ /\ current' = current /\ job'.op # "restore"
           /\ TakesNoPort(current, job'.next)
    BY <1>4, FinalizeStep, OneCallStep
  <2> QED BY <2>1 DEF TakesNoPort, Managed, PortOf
<1>5. CASE Commit /\ job' = job
  <2>1. job.op # "restore" /\ current' = job.next /\ job # None
    BY <1>5, <1>i DEF Commit, Finish, TypeOK
  <2>2. OnePortPerUid(job.next)
    BY <2>1, <1>i DEF PortsDistinct
  <2>3. TakesNoPort(current, job.next)'
    BY <1>5, <2>1, <2>2 DEF TakesNoPort, OnePortPerUid, Managed, PortOf
  <2> QED BY <1>5, <2>1, <2>3
<1>6. \/ job' = None
      \/ job' = job /\ current' = current
      \/ Restore
      \/ \E id \in SyncIds : FinalizeSync(id)
      \/ OneCall
      \/ Commit /\ job' = job
  <2>1. CASE Crash \/ Reboot
    BY <2>1 DEF Crash, Reboot, ProcessLost, Finish
  <2>2. CASE RestoreUnreadable
    BY <2>2 DEF RestoreUnreadable
  <2>3. CASE Apply
    <3>1. CASE \/ ApplyDns \/ FlushNat \/ FlushFilter
               \/ \E u \in Uids, i \in RuleIndex : AppendRule(u, i)
      BY <3>1 DEF ApplyDns, FlushNat, FlushFilter, AppendRule, runtimeVars, callVars
    <3>2. CASE FirewallFails \/ Save \/ SaveFails
      BY <3>2 DEF FirewallFails, Save, SaveFails, Finish
    <3>3. CASE Commit
      BY <3>3 DEF Commit, Finish
    <3> QED BY <2>3, <3>1, <3>2, <3>3 DEF Apply
  <2> QED BY <2>1, <2>2, <2>3, StepCases DEF KernelVars
<1> QED BY <1>1, <1>2, <1>3, <1>4, <1>5, <1>6

\* LocalDnsController::reconcile leaves the listeners of the state it is given.
LEMMA DnsListens ==
    ASSUME IInv, ApplyDns
    PROVE  Listening(job.next)' /\ job' = job /\ job # None
<1> DEFINE st == job.next
           For(u) == [user    |-> u,
                      blocked |-> BlockedFor(st, u),
                      terms   |-> st.policies[u].terms]
<1>1. /\ job' = job /\ job # None /\ st \in State
      /\ listeners' = [p \in Ports |->
            IF \E u \in Uids : Assigned(st, u, p)
            THEN For(CHOOSE v \in Uids : Assigned(st, v, p))
            ELSE None]
  BY DEF ApplyDns, IInv, TypeOK
<1>2. ASSUME NEW p \in Ports, p \in UsedPorts(st)
      PROVE  \E u \in Managed(st) : listeners'[p] = For(u) /\ PortOf(st, u) = p
  <2>1. \E u \in Uids : Assigned(st, u, p)
    BY <1>2 DEF UsedPorts, Assigned, Managed
  <2>2. PICK u \in Uids : Assigned(st, u, p) /\ u = CHOOSE v \in Uids : Assigned(st, v, p)
    BY <2>1
  <2>3. listeners'[p] = For(u)
    BY <1>1, <2>1, <2>2
  <2> QED BY <2>2, <2>3 DEF Assigned
<1>3. ASSUME NEW p \in Ports, p \notin UsedPorts(st)
      PROVE  listeners'[p] = None
  <2>1. ~ \E u \in Uids : Assigned(st, u, p)
    BY <1>3 DEF UsedPorts, Assigned
  <2> QED BY <1>1, <2>1
<1>4. ASSUME NEW p \in Ports, p \in UsedPorts(st)
      PROVE  /\ listeners'[p] # None
             /\ Assigned(st, listeners'[p].user, p)
             /\ listeners'[p].blocked = BlockedFor(st, listeners'[p].user)
             /\ listeners'[p].terms = st.policies[listeners'[p].user].terms
  <2>1. PICK u \in Managed(st) : listeners'[p] = For(u) /\ PortOf(st, u) = p
    BY <1>2, <1>4
  <2>2. For(u) # None
    BY <1>1, ListenerTypes, AbsentAssumption
  <2> QED BY <2>1, <2>2 DEF Assigned
<1>5. Listening(st)'
  <2>1. ASSUME NEW p \in Ports
        PROVE  IF p \in UsedPorts(job'.next)
               THEN /\ listeners'[p] # None
                    /\ Assigned(job'.next, listeners'[p].user, p)
                    /\ listeners'[p].blocked = BlockedFor(job'.next, listeners'[p].user)
                    /\ listeners'[p].terms = job'.next.policies[listeners'[p].user].terms
               ELSE listeners'[p] = None
    BY <1>1, <1>3, <1>4
  <2> QED BY <2>1 DEF Listening
<1> QED BY <1>1, <1>5

\* When every rule has been appended the chains are exactly those of the state.
LEMMA AllOfJob ==
    ASSUME IInv, phase = "append", AllAppended(job.next)
    PROVE  nat = NatRules(RulesFor(job.next)) /\ filter = FilterRules(RulesFor(job.next))
<1>1. /\ nat \cup filter \subseteq RulesFor(job.next)
      /\ \A r \in nat : r.kind = "nat"
      /\ \A r \in filter : r.kind # "nat"
  BY DEF IInv, ChainsOfJob, TypeOK, NatRules, FilterRules
<1>2. RulesFor(job.next) \subseteq nat \cup filter
  BY DEF AllAppended, Appended, RulesFor
<1> QED BY <1>1, <1>2 DEF NatRules, FilterRules

\* Outside a rebuild of the chains the listeners and the chains stay with the
\* state they were built for.
LEMMA ListenStep ==
    IInv /\ ListenersOfJob /\ CommittedJob /\ [Next]_vars => ListenersOfJob' /\ CommittedJob'
<1> SUFFICES ASSUME IInv, ListenersOfJob, CommittedJob, [Next]_vars
             PROVE  ListenersOfJob' /\ CommittedJob'
  OBVIOUS
<1> USE DEF ListenersOfJob, CommittedJob
<1>1. CASE phase' \in {"idle", "dns"}
  BY <1>1
<1>2. CASE ApplyDns
  BY <1>2, DnsListens DEF ApplyDns
<1>3. CASE \/ FlushNat \/ FlushFilter
           \/ \E u \in Uids, i \in RuleIndex : AppendRule(u, i)
  <2>1. /\ job' = job /\ listeners' = listeners
        /\ phase \notin {"idle", "dns"} /\ phase' # "save"
    BY <1>3 DEF FlushNat, FlushFilter, AppendRule, runtimeVars, callVars
  <2> QED BY <2>1 DEF Listening
<1>4. CASE Commit /\ phase' = "save"
  <2>1. /\ phase = "append" /\ AllAppended(job.next) /\ job.op # "restore"
        /\ current' = job.next /\ job' = job
        /\ UNCHANGED <<listeners, nat, filter>>
    BY <1>4 DEF Commit, Finish, hostVars
  <2>2. Listening(job.next)
    BY <2>1
  <2>3. nat = NatRules(RulesFor(job.next)) /\ filter = FilterRules(RulesFor(job.next))
    BY <2>1, AllOfJob
  <2>4. Listening(current)'
    BY <2>1, <2>2 DEF Listening
  <2>5. Enforced(current)'
    BY <2>1, <2>3, <2>4 DEF Enforced
  <2>6. Listening(job.next)'
    BY <2>1, <2>2 DEF Listening
  <2> QED BY <2>1, <2>5, <2>6
<1>5. CASE UNCHANGED KernelVars
  BY <1>5 DEF KernelVars, Listening, Enforced
<1>6. \/ phase' \in {"idle", "dns"}
      \/ ApplyDns \/ FlushNat \/ FlushFilter
      \/ \E u \in Uids, i \in RuleIndex : AppendRule(u, i)
      \/ Commit /\ phase' = "save"
      \/ UNCHANGED KernelVars
  <2>1. CASE Restore \/ RestoreUnreadable \/ Crash \/ Reboot
    BY <2>1 DEF Restore, Start, RestoreUnreadable, Crash, Reboot, ProcessLost, Finish
  <2>2. CASE OneCall \/ \E id \in SyncIds : FinalizeSync(id)
    BY <2>2 DEF OneCall, FullSync, FinalizeSync, Ready, Start, Reply
  <2>3. CASE FirewallFails \/ Commit \/ Save \/ SaveFails
    BY <2>3 DEF FirewallFails, Commit, Save, SaveFails, Finish
  <2> QED BY <2>1, <2>2, <2>3, StepCases DEF Apply
<1> QED BY <1>1, <1>2, <1>3, <1>4, <1>5, <1>6

\* A redirect of a state is that of the uid that has its port.
LEMMA RedirectOf ==
    ASSUME NEW st, NEW n \in RulesFor(st), n.kind = "nat"
    PROVE  n.uid \in Managed(st) /\ n.port = PortOf(st, n.uid)
<1>1. PICK u \in Managed(st), i \in RuleIndex : n = Rule(u, PortOf(st, u), i)
  BY DEF RulesFor
<1> QED BY <1>1 DEF Rule

\* The redirects of a state contain the two of every managed uid.
LEMMA RedirectsPresent ==
    ASSUME NEW st, NEW u \in Managed(st), NEW i \in {1, 2}
    PROVE  Rule(u, PortOf(st, u), i) \in NatRules(RulesFor(st))
<1>1. i \in RuleIndex /\ RuleKind[i] = "nat"
  BY DEF RuleIndex, RuleKind
<1> QED BY <1>1 DEF NatRules, RulesFor, Rule

\* The count of faults only grows, and by the failing steps only.
LEMMA FaultSteps ==
    ASSUME IInv, [Next]_vars
    PROVE  /\ TotalFaults' = 0 =>
                /\ TotalFaults = 0
                /\ ~RestoreUnreadable /\ ~FirewallFails /\ ~SaveFails
           /\ faults'["firewall"] + faults'["read"] = 0 =>
                /\ faults["firewall"] + faults["read"] = 0
                /\ ~RestoreUnreadable /\ ~FirewallFails
<1>t. faults \in [FaultKinds -> Nat]
  BY DEF IInv, TypeOK
<1>1. faults' = faults \/ RestoreUnreadable \/ FirewallFails \/ SaveFails
  <2>1. CASE Restore \/ Crash \/ Reboot
    BY <2>1 DEF Restore, Start, Crash, Reboot, ProcessLost
  <2>2. CASE Apply
    BY <2>2 DEF Apply, ApplyDns, FlushNat, FlushFilter, AppendRule, Commit, Save, callVars
  <2> QED BY <2>1, <2>2, StepCases, FinalizeStep, OneCallStep
<1>2. ASSUME RestoreUnreadable \/ FirewallFails \/ SaveFails
      PROVE  \E k \in FaultKinds :
                /\ RestoreUnreadable => k = "read"
                /\ FirewallFails => k = "firewall"
                /\ faults' = [faults EXCEPT ![k] = @ + 1]
  <2>1. CASE RestoreUnreadable
    <3>1. phase = "idle" /\ faults' = [faults EXCEPT !["read"] = @ + 1]
      BY <2>1 DEF RestoreUnreadable, Fault
    <3>2. ~FirewallFails
      BY <3>1 DEF FirewallFails
    <3> QED BY <3>1, <3>2 DEF FaultKinds
  <2>2. CASE FirewallFails
    <3>1. phase # "idle" /\ faults' = [faults EXCEPT !["firewall"] = @ + 1]
      BY <2>2 DEF FirewallFails, Fault
    <3>2. ~RestoreUnreadable
      BY <3>1 DEF RestoreUnreadable
    <3> QED BY <3>1, <3>2 DEF FaultKinds
  <2>3. CASE SaveFails
    <3>1. phase = "save" /\ faults' = [faults EXCEPT !["save"] = @ + 1]
      BY <2>3 DEF SaveFails, Fault
    <3>2. ~RestoreUnreadable /\ ~FirewallFails
      BY <3>1 DEF RestoreUnreadable, FirewallFails
    <3> QED BY <3>1, <3>2 DEF FaultKinds
  <2> QED BY <1>2, <2>1, <2>2, <2>3
<1>3. CASE RestoreUnreadable \/ FirewallFails \/ SaveFails
  <2>1. PICK k \in FaultKinds :
                /\ RestoreUnreadable => k = "read"
                /\ FirewallFails => k = "firewall"
                /\ faults' = [faults EXCEPT ![k] = @ + 1]
    BY <1>2, <1>3
  <2>2. /\ faults'[k] = faults[k] + 1
        /\ \A j \in FaultKinds : j # k => faults'[j] = faults[j]
    BY <2>1, <1>t
  <2>3. /\ faults["read"] \in Nat /\ faults["firewall"] \in Nat /\ faults["save"] \in Nat
    BY <1>t DEF FaultKinds
  <2>4. TotalFaults' # 0
    BY <2>2, <2>3 DEF TotalFaults, FaultKinds
  <2>5. faults'["firewall"] + faults'["read"] = 0 =>
           k = "save" /\ faults["firewall"] + faults["read"] = 0
    BY <2>2, <2>3 DEF FaultKinds
  <2> QED BY <2>1, <2>4, <2>5
<1>4. CASE faults' = faults /\ ~(RestoreUnreadable \/ FirewallFails \/ SaveFails)
  BY <1>4 DEF TotalFaults
<1> QED BY <1>1, <1>3, <1>4

\* Every step keeps the redirects, the file and the state in memory together:
\* the stale redirects of an interrupted call fit the state a restart restores.
LEMMA RedirectStep ==
    IInv /\ EnforcementInv /\ [Next]_vars
        => /\ MemoryIsSaved' /\ RedirectsAtRest' /\ RedirectsToListeners'
           /\ RedirectsFitNext' /\ NoForeignFilter'
<1> SUFFICES ASSUME IInv, EnforcementInv, [Next]_vars
             PROVE  /\ MemoryIsSaved' /\ RedirectsAtRest' /\ RedirectsToListeners'
                    /\ RedirectsFitNext' /\ NoForeignFilter'
  OBVIOUS
<1>i. TypeOK /\ FreshProcess /\ PortsDistinct /\ ChainsOfJob
  BY DEF IInv
<1>e. /\ SilentStart /\ JobTakesNoPort /\ ListenersOfJob /\ RestoreOfMemory /\ CommittedJob
      /\ RedirectsToListeners
  BY DEF EnforcementInv
<1>r. phase # "idle" => restored /\ job # None /\ job.next \in State
  BY <1>i DEF TypeOK, FreshProcess
<1>1. RedirectsToListeners'
  <2>1. ASSUME NEW u \in Uids, NEW i \in RuleIndex, AppendRule(u, i)
        PROVE  RedirectsToListeners'
    <3>1. u \in Managed(job.next) /\ job.next \in State
      BY <2>1, <1>r DEF AppendRule
    <3>2. PortOf(job.next, u) \in Ports
      BY <3>1, RuleTypes DEF RuleIndex
    <3>3. RuleKind[i] = "nat" => Rule(u, PortOf(job.next, u), i).port = PortOf(job.next, u)
      BY DEF Rule
    <3>4. Rule(u, PortOf(job.next, u), i).kind = RuleKind[i]
      BY DEF Rule
    <3>5. nat' \subseteq nat \cup {r \in {Rule(u, PortOf(job.next, u), i)} : r.kind = "nat"}
      BY <2>1 DEF AppendRule
    <3> QED BY <3>2, <3>3, <3>4, <3>5, <1>e DEF RedirectsToListeners
  <2>2. nat' \subseteq nat \/ \E u \in Uids, i \in RuleIndex : AppendRule(u, i)
    <3>1. CASE Restore \/ RestoreUnreadable \/ Crash \/ Reboot
      BY <3>1 DEF Restore, RestoreUnreadable, Crash, Reboot, hostVars
    <3>2. CASE Apply
      BY <3>2 DEF Apply, ApplyDns, FlushNat, FlushFilter, FirewallFails, Commit, Save,
                  SaveFails, hostVars
    <3> QED BY <3>1, <3>2, StepCases, FinalizeStep, OneCallStep DEF KernelVars
  <2> QED BY <2>1, <2>2, <1>e DEF RedirectsToListeners
<1> SUFFICES ASSUME TotalFaults' = 0
             PROVE  MemoryIsSaved' /\ RedirectsAtRest' /\ RedirectsFitNext' /\ NoForeignFilter'
  BY <1>1 DEF MemoryIsSaved, RedirectsAtRest, RedirectsFitNext, NoForeignFilter
<1> DEFINE Foreign(n) == listeners[n.port] # None /\ listeners[n.port].user # n.uid
<1>0. /\ ~RestoreUnreadable /\ ~FirewallFails /\ ~SaveFails
      /\ restored /\ phase # "save" => current = StateFromDisk
      /\ restored /\ phase = "idle" => nat = NatRules(RulesFor(current))
      /\ RedirectsFit(StateFromDisk)
      /\ job # None => RedirectsFit(job.next)
      /\ \A n \in nat : ~Foreign(n)
  BY FaultSteps DEF EnforcementInv, MemoryIsSaved, RedirectsAtRest, RedirectsFitNext, NoForeignFilter
<1> SUFFICES /\ restored' /\ phase' # "save" => current' = StateFromDisk'
             /\ restored' /\ phase' = "idle" => nat' = NatRules(RulesFor(current'))
             /\ RedirectsFit(StateFromDisk)'
             /\ job' # None => RedirectsFit(job.next)'
             /\ \A n \in nat' : ~Foreign(n)'
  BY DEF MemoryIsSaved, RedirectsAtRest, RedirectsFitNext, NoForeignFilter
<1> HIDE DEF Foreign
<1>2. disk' = disk => StateFromDisk' = StateFromDisk
  BY DEF StateFromDisk
<1>3. \A st : nat' \subseteq nat /\ RedirectsFit(st) => \A n \in nat', u \in Managed(st) :
                  PortOf(st, u) = n.port => u = n.uid
  BY DEF RedirectsFit
<1>4. \A st : RedirectsFit(st)' <=> \A n \in nat', u \in Managed(st) :
                  PortOf(st, u) = n.port => u = n.uid
  BY DEF RedirectsFit
<1>5. listeners' = listeners => \A n : Foreign(n)' = Foreign(n)
  BY DEF Foreign
<1>6. CASE Restore
  <2>1. /\ phase' = "dns" /\ nat' = nat /\ disk' = disk /\ listeners' = listeners
        /\ current' = StateFromDisk /\ job'.next = StateFromDisk
    BY <1>6, <1>i DEF Restore, Start, FreshProcess, StateFromDisk, hostVars
  <2> QED BY <2>1, <1>0, <1>2, <1>3, <1>4, <1>5 DEF RedirectsFit
<1>7. CASE OneCall \/ \E id \in SyncIds : FinalizeSync(id)
  <2>1. /\ phase = "idle" /\ restored
        /\ UNCHANGED <<restored, current, listeners, nat, disk>>
        /\ \/ job' = None /\ phase' = phase
           \/ phase' = "dns" /\ TakesNoPort(current, job'.next)
    BY <1>7, <1>i, FinalizeStep, OneCallStep DEF TypeOK
  <2>2. ASSUME TakesNoPort(current, job'.next)
        PROVE  RedirectsFit(job.next)'
    <3>1. nat' = NatRules(RulesFor(current))
      BY <2>1, <1>0
    <3>2. \A n \in nat' : n.uid \in Managed(current) /\ n.port = PortOf(current, n.uid)
      BY <3>1, RedirectOf DEF NatRules
    <3> QED BY <2>2, <3>2 DEF RedirectsFit, TakesNoPort
  <2> QED BY <2>1, <2>2, <1>0, <1>2, <1>5 DEF RedirectsFit
<1>8. CASE ApplyDns
  <2>1. /\ phase = "dns" /\ phase' = "flush_nat"
        /\ UNCHANGED <<restored, current, nat, disk, job>>
    BY <1>8 DEF ApplyDns, hostVars
  <2>2. ASSUME NEW n \in nat PROVE ~Foreign(n)'
    <3>1. n.port \in Ports
      BY <1>e DEF RedirectsToListeners
    <3>2. listeners'[n.port] # None => Assigned(job.next, listeners'[n.port].user, n.port)
      BY <3>1, <1>8, DnsListens DEF Listening
    <3>3. RedirectsFit(job.next)
      BY <1>0, <1>r, <2>1
    <3> QED BY <3>2, <3>3 DEF RedirectsFit, Assigned, Foreign
  <2> QED BY <2>1, <2>2, <1>0, <1>2 DEF RedirectsFit
<1>9. CASE FlushNat
  <2>1. /\ phase = "flush_nat" /\ phase' = "flush_filter" /\ nat' = {}
        /\ UNCHANGED <<restored, current, disk, job>>
    BY <1>9 DEF FlushNat, runtimeVars
  <2> QED BY <2>1, <1>0, <1>2, <1>4
<1>10. CASE FlushFilter
  <2>1. /\ phase = "flush_filter" /\ phase' = "append" /\ nat' = nat
        /\ UNCHANGED <<restored, current, disk, job, listeners>>
    BY <1>10 DEF FlushFilter, runtimeVars
  <2> QED BY <2>1, <1>0, <1>2, <1>5 DEF RedirectsFit
<1>11. ASSUME NEW u \in Uids, NEW i \in RuleIndex, AppendRule(u, i)
       PROVE  /\ restored' /\ phase' # "save" => current' = StateFromDisk'
              /\ restored' /\ phase' = "idle" => nat' = NatRules(RulesFor(current'))
              /\ RedirectsFit(StateFromDisk)'
              /\ job' # None => RedirectsFit(job.next)'
              /\ \A n \in nat' : ~Foreign(n)'
  <2>1. /\ phase = "append" /\ phase' = phase
        /\ UNCHANGED <<restored, current, disk, job, listeners>>
    BY <1>11 DEF AppendRule, runtimeVars, callVars
  <2>2. \A n \in nat' : n \in RulesFor(job.next) /\ n.kind = "nat"
    <3>1. nat' \subseteq nat \cup {Rule(u, PortOf(job.next, u), i)} /\ \A n \in nat' : n.kind = "nat"
      BY <1>11, <1>i DEF AppendRule, TypeOK, NatRules
    <3>2. Rule(u, PortOf(job.next, u), i) \in RulesFor(job.next)
      BY <1>11, <1>r, <2>1, RuleTypes DEF AppendRule
    <3> QED BY <3>1, <3>2, <2>1, <1>i DEF ChainsOfJob
  <2>3. \A n \in nat' : n.uid \in Managed(job.next) /\ n.port = PortOf(job.next, n.uid)
    BY <2>2, RedirectOf
  <2>4. RedirectsFit(job.next)'
    BY <2>1, <2>3, <1>r, <1>i DEF RedirectsFit, PortsDistinct, OnePortPerUid
  <2>5. TakesNoPort(StateFromDisk, job.next)
    BY <2>1, <1>0, <1>r, <1>e DEF JobTakesNoPort
  <2>6. RedirectsFit(StateFromDisk)'
    BY <2>1, <2>3, <2>5, <1>2 DEF RedirectsFit, TakesNoPort
  <2>7. ASSUME NEW n \in nat' PROVE ~Foreign(n)'
    <3>1. PortOf(job.next, n.uid) \in Ports
      BY <2>1, <2>3, <1>r, RuleTypes DEF RuleIndex
    <3>2. n.port \in Ports
      BY <2>3, <3>1
    <3>3. listeners[n.port] # None => Assigned(job.next, listeners[n.port].user, n.port)
      BY <3>2, <2>1, <1>e DEF ListenersOfJob, Listening
    <3> QED BY <3>3, <2>1, <2>3, <1>r, <1>i DEF Assigned, PortsDistinct, OnePortPerUid, Foreign
  <2> QED BY <2>1, <2>4, <2>6, <2>7, <1>0, <1>2
<1>12. CASE Commit
  <2>1. /\ phase = "append" /\ AllAppended(job.next)
        /\ UNCHANGED <<restored, nat, disk, listeners>>
        /\ \/ /\ job.op = "restore" /\ current' = current
              /\ job' = None /\ phase' = "idle"
           \/ phase' = "save" /\ job' = job
    BY <1>12 DEF Commit, Finish, hostVars
  <2>2. nat = NatRules(RulesFor(job.next))
    BY <2>1, AllOfJob
  <2>3. phase' = "idle" => nat' = NatRules(RulesFor(current'))
    BY <2>1, <2>2, <1>r, <1>e DEF RestoreOfMemory
  <2> QED BY <2>1, <2>3, <1>0, <1>2, <1>5 DEF RedirectsFit
<1>13. CASE Save
  <2>1. /\ phase = "save" /\ disk' = job.next /\ job' = None /\ phase' = "idle"
        /\ UNCHANGED <<restored, current, nat, listeners>>
    BY <1>13 DEF Save, Finish, runtimeVars
  <2>2. job.next = current /\ nat = NatRules(RulesFor(current))
    BY <2>1, <1>e DEF CommittedJob, Enforced
  <2>3. StateFromDisk' = job.next
    BY <2>1, <1>r, AbsentAssumption DEF StateFromDisk
  <2>4. RedirectsFit(job.next)
    BY <2>1, <1>0, <1>r
  <2> QED BY <2>1, <2>2, <2>3, <2>4, <1>0, <1>5 DEF RedirectsFit
<1>14. CASE Crash \/ Reboot
  <2>1. /\ restored' = FALSE /\ job' = None /\ disk' = disk /\ nat' \subseteq nat
        /\ listeners' = [p \in Ports |-> None]
    BY <1>14 DEF Crash, Reboot, ProcessLost, Finish
  <2>2. \A n \in nat' : ~Foreign(n)'
    BY <2>1, <1>e DEF RedirectsToListeners, Foreign
  <2>3. RedirectsFit(StateFromDisk)'
    BY <2>1, <1>0, <1>2, <1>3, <1>4
  <2> QED BY <2>1, <2>2, <2>3
<1>15. CASE UNCHANGED KernelVars
  BY <1>15, <1>0, <1>2, <1>5 DEF KernelVars, RedirectsFit
<1> QED BY <1>0, <1>6, <1>7, <1>8, <1>9, <1>10, <1>11, <1>12, <1>13, <1>14, <1>15, StepCases
        DEF Apply

\* Every step keeps the redirects of the managed users, but for a rebuild.
LEMMA LiftedStep ==
    IInv /\ EnforcementInv /\ [Next]_vars => FilterLiftedOnlyByRebuild'
<1> DEFINE Redirected == \A u \in Managed(current), i \in {1, 2} :
                            Rule(u, PortOf(current, u), i) \in nat
           Rebuilding == \/ ~restored \/ phase \in {"flush_filter", "append"}
                         \/ job # None /\ job.op = "restore"
<1> SUFFICES ASSUME IInv, EnforcementInv, [Next]_vars,
                    faults'["firewall"] + faults'["read"] = 0, ~Rebuilding'
             PROVE  Redirected'
  BY DEF FilterLiftedOnlyByRebuild
<1>1. /\ ~RestoreUnreadable /\ ~FirewallFails
      /\ ~Rebuilding => Redirected
  BY FaultSteps DEF EnforcementInv, FilterLiftedOnlyByRebuild
<1>2. RestoreOfMemory /\ CommittedJob
  BY DEF EnforcementInv
<1>3. nat = NatRules(RulesFor(current)) => Redirected
  BY RedirectsPresent
<1>4. UNCHANGED <<current, nat>> => (Redirected' <=> Redirected)
  OBVIOUS
<1>5. CASE UNCHANGED KernelVars
  BY <1>5, <1>1, <1>4 DEF KernelVars
<1>6. CASE OneCall \/ \E id \in SyncIds : FinalizeSync(id)
  <2>1. /\ restored /\ job = None /\ UNCHANGED <<current, nat>>
        /\ phase = "idle"
    BY <1>6, FinalizeStep, OneCallStep DEF IInv, TypeOK
  <2> QED BY <2>1, <1>1, <1>4
<1>7. CASE ApplyDns
  <2>1. phase = "dns" /\ UNCHANGED <<restored, current, nat, job>>
    BY <1>7 DEF ApplyDns, hostVars
  <2> QED BY <2>1, <1>1, <1>4
<1>8. CASE Commit
  <2>1. /\ phase = "append" /\ AllAppended(job.next) /\ nat' = nat
        /\ current' = job.next \/ (current' = current /\ job.op = "restore")
    BY <1>8 DEF Commit, hostVars
  <2>2. phase # "idle" => job # None
    BY DEF IInv, TypeOK
  <2>3. nat' = NatRules(RulesFor(current'))
    BY <2>1, <2>2, <1>2, AllOfJob DEF RestoreOfMemory
  <2> QED BY <2>3, RedirectsPresent
<1>9. CASE Save \/ SaveFails
  <2>1. phase = "save" /\ UNCHANGED <<current, nat>>
    BY <1>9 DEF Save, SaveFails, runtimeVars, hostVars
  <2>2. nat = NatRules(RulesFor(current))
    BY <2>1, <1>2 DEF CommittedJob, Enforced
  <2> QED BY <2>1, <2>2, <1>3, <1>4
<1>10. CASE \/ Restore \/ FlushNat \/ FlushFilter \/ Crash \/ Reboot
            \/ \E u \in Uids, i \in RuleIndex : AppendRule(u, i)
  <2>1. CASE Restore
    <3>1. job' = [op |-> "restore", next |-> StateFromDisk]
      BY <2>1 DEF Restore, Start, StateFromDisk
    <3>2. job' # None
      BY <2>1, TypeStep DEF Restore, Start, TypeOK
    <3> QED BY <3>1, <3>2
  <2>2. CASE \/ FlushNat \/ FlushFilter \/ Crash \/ Reboot
             \/ \E u \in Uids, i \in RuleIndex : AppendRule(u, i)
    BY <2>2 DEF FlushNat, FlushFilter, AppendRule, Crash, Reboot, ProcessLost, callVars
  <2> QED BY <1>10, <2>1, <2>2
<1> QED BY <1>1, <1>5, <1>6, <1>7, <1>8, <1>9, <1>10, StepCases DEF Apply

\* An acknowledgement stands until the next call.
LEMMA AckStep ==
    IInv /\ EnforcementInv /\ [Next]_vars => AckIsEnforcedAndDurable'
<1> SUFFICES ASSUME IInv, EnforcementInv, [Next]_vars,
                    reply' \in {"applied", "restored"}, phase' = "idle"
             PROVE  Enforced(current)' /\ (reply' = "applied" => disk' = current')
  BY DEF AckIsEnforcedAndDurable
<1>1. CASE UNCHANGED KernelVars /\ reply' = reply
  BY <1>1 DEF KernelVars, EnforcementInv, AckIsEnforcedAndDurable, Enforced, Listening
<1>2. CASE Commit
  <2>1. /\ phase = "append" /\ AllAppended(job.next) /\ job.op = "restore"
        /\ UNCHANGED <<current, listeners, nat, filter>> /\ reply' = "restored"
    BY <1>2 DEF Commit, Finish, hostVars
  <2>2. job.next = current
    BY <2>1 DEF IInv, TypeOK, EnforcementInv, RestoreOfMemory
  <2>3. Listening(current)
    BY <2>1, <2>2 DEF EnforcementInv, ListenersOfJob
  <2>4. nat = NatRules(RulesFor(current)) /\ filter = FilterRules(RulesFor(current))
    BY <2>1, <2>2, AllOfJob
  <2>5. Listening(current)'
    BY <2>1, <2>3 DEF Listening
  <2> QED BY <2>1, <2>4, <2>5 DEF Enforced
<1>3. CASE Save
  <2>1. /\ phase = "save" /\ disk' = job.next
        /\ UNCHANGED <<current, listeners, nat, filter>>
    BY <1>3 DEF Save, runtimeVars
  <2>2. job.next = current /\ Enforced(current)
    BY <2>1 DEF EnforcementInv, CommittedJob
  <2>3. Enforced(current)'
    BY <2>1, <2>2 DEF Enforced, Listening
  <2> QED BY <2>1, <2>2, <2>3
<1>4. \/ UNCHANGED KernelVars /\ reply' = reply
      \/ Commit
      \/ Save
  <2>1. CASE Restore \/ RestoreUnreadable \/ Crash \/ Reboot \/ FirewallFails \/ SaveFails
    BY <2>1 DEF Restore, Start, RestoreUnreadable, Crash, Reboot, ProcessLost, FirewallFails,
                SaveFails, Finish
  <2>2. CASE \/ ApplyDns \/ FlushNat \/ FlushFilter
             \/ \E u \in Uids, i \in RuleIndex : AppendRule(u, i)
    BY <2>2 DEF ApplyDns, FlushNat, FlushFilter, AppendRule, callVars
  <2> QED BY <2>1, <2>2, StepCases, FinalizeStep, OneCallStep DEF Apply
<1> QED BY <1>1, <1>2, <1>3, <1>4

\* A count of failed iptables commands that is zero has been, and no such command
\* fails in this step.
LEMMA FirewallFaults ==
    ASSUME IInv, [Next]_vars, faults'["firewall"] = 0
    PROVE  faults["firewall"] = 0 /\ ~FirewallFails
<1>t. faults \in [FaultKinds -> Nat] /\ "firewall" \in FaultKinds
  BY DEF IInv, TypeOK, FaultKinds
<1>1. CASE faults' = faults
  <2>1. ~FirewallFails
    <3>1. FirewallFails => faults' = [faults EXCEPT !["firewall"] = @ + 1]
      BY DEF FirewallFails, Fault
    <3>2. FirewallFails => faults'["firewall"] = faults["firewall"] + 1
      BY <3>1, <1>t
    <3>3. faults["firewall"] \in Nat
      BY <1>t
    <3> QED BY <1>1, <3>2, <3>3
  <2> QED BY <1>1, <2>1
<1>2. CASE \E k \in FaultKinds : faults' = [faults EXCEPT ![k] = @ + 1]
  <2>1. PICK k \in FaultKinds : faults' = [faults EXCEPT ![k] = @ + 1]
    BY <1>2
  <2>2. faults["firewall"] \in Nat /\ faults[k] \in Nat
    BY <1>t
  <2>3. k # "firewall" /\ faults'["firewall"] = faults["firewall"]
    BY <1>t, <2>1, <2>2
  <2>4. FirewallFails => faults'["firewall"] = faults["firewall"] + 1
    BY <1>t DEF FirewallFails, Fault
  <2> QED BY <2>2, <2>3, <2>4
<1>3. faults' = faults \/ \E k \in FaultKinds : faults' = [faults EXCEPT ![k] = @ + 1]
  <2>1. CASE Restore \/ Crash \/ Reboot
    BY <2>1 DEF Restore, Start, Crash, Reboot, ProcessLost
  <2>2. CASE RestoreUnreadable
    BY <2>2 DEF RestoreUnreadable, Fault, FaultKinds
  <2>3. CASE Apply
    BY <2>3 DEF Apply, ApplyDns, FlushNat, FlushFilter, AppendRule, Commit, Save, callVars,
                FirewallFails, SaveFails, Fault, FaultKinds
  <2> QED BY <2>1, <2>2, <2>3, StepCases, FinalizeStep, OneCallStep
<1> QED BY <1>1, <1>2, <1>3

\* Until an iptables command fails the listeners are those of the state in memory
\* whenever no call is past the update of the listeners.
LEMMA RestStep ==
    IInv /\ EnforcementInv /\ [Next]_vars => ListenersAtRest'
<1> DEFINE Silent == \A p \in Ports : listeners[p] = None
           AtRest   == IF job # None /\ job.op = "restore" THEN Silent ELSE Listening(current)
<1> SUFFICES ASSUME IInv, EnforcementInv, [Next]_vars,
                    faults'["firewall"] = 0, phase' \in {"idle", "dns"}
             PROVE  AtRest'
  BY DEF ListenersAtRest
<1>1. /\ ~FirewallFails
      /\ phase \in {"idle", "dns"} => AtRest
  BY FirewallFaults DEF EnforcementInv, ListenersAtRest
<1>2. /\ SilentStart /\ ListenersOfJob /\ RestoreOfMemory /\ CommittedJob
      /\ TypeOK /\ FreshProcess
  BY DEF EnforcementInv, IInv
<1>3. Silent /\ current = EmptyState => Listening(current)
  BY EmptyStateType DEF Listening, UsedPorts
<1>4. Silent' /\ current' = EmptyState => Listening(current)'
  BY EmptyStateType DEF Listening, UsedPorts
<1>5. UNCHANGED <<current, listeners>> => (Listening(current)' <=> Listening(current))
  BY DEF Listening
<1>6. CASE UNCHANGED KernelVars
  BY <1>1, <1>5, <1>6 DEF KernelVars
<1>7. CASE OneCall \/ \E id \in SyncIds : FinalizeSync(id)
  <2>1. /\ job = None /\ UNCHANGED <<current, listeners>> /\ phase = "idle"
        /\ job' = None \/ job'.op # "restore"
    BY <1>7, FinalizeStep, OneCallStep DEF IInv, TypeOK
  <2> QED BY <2>1, <1>1, <1>5
<1>8. CASE Restore
  <2>1. /\ ~restored /\ listeners' = listeners
        /\ job' = [op |-> "restore", next |-> StateFromDisk]
    BY <1>8 DEF Restore, Start, StateFromDisk
  <2>2. job' # None
    BY <1>8, TypeStep DEF Restore, Start, TypeOK
  <2>3. job'.op = "restore" /\ Silent'
    BY <2>1, <1>2 DEF SilentStart
  <2> QED BY <2>2, <2>3
<1>9. CASE RestoreUnreadable
  <2>1. ~restored /\ UNCHANGED <<current, listeners, job>>
    BY <1>9 DEF RestoreUnreadable
  <2>2. current = EmptyState /\ job = None /\ Silent
    BY <2>1, <1>2 DEF FreshProcess, SilentStart
  <2> QED BY <2>1, <2>2, <1>3, <1>5
<1>10. CASE Crash \/ Reboot
  <2>1. current' = EmptyState /\ job' = None /\ Silent'
    BY <1>10 DEF Crash, Reboot, ProcessLost, Finish
  <2> QED BY <2>1, <1>4
<1>11. CASE Commit \/ Save \/ SaveFails
  <2>1. /\ phase \in {"append", "save"} /\ job' = None
        /\ UNCHANGED <<current, listeners>>
        /\ job # None /\ (phase = "append" => job.op = "restore")
    BY <1>11, <1>2 DEF Commit, Save, SaveFails, Finish, runtimeVars, TypeOK
  <2>2. Listening(job.next) /\ job.next = current
    BY <2>1, <1>2 DEF ListenersOfJob, RestoreOfMemory, CommittedJob
  <2> QED BY <2>1, <2>2, <1>5
<1>12. ~ApplyDns /\ ~FlushNat /\ ~FlushFilter /\ \A u \in Uids, i \in RuleIndex : ~AppendRule(u, i)
  BY DEF ApplyDns, FlushNat, FlushFilter, AppendRule, callVars
<1> QED BY <1>1, <1>6, <1>7, <1>8, <1>9, <1>10, <1>11, <1>12, StepCases DEF Apply

\* reconcile goes from the listeners of the state in memory to those of the state
\* being applied, which takes nobody's port.
LEMMA SharedPortsOneUser ==
    ASSUME IInv, EnforcementInv, ApplyDns, faults["firewall"] = 0,
           NEW p \in Ports, listeners[p] # None, listeners'[p] # None
    PROVE  listeners'[p].user = listeners[p].user
<1>1. /\ phase = "dns" /\ job # None /\ job' = job
      /\ Listening(job.next)'
      /\ ListenersAtRest /\ JobTakesNoPort
  BY DnsListens DEF ApplyDns, EnforcementInv
<1>2. Assigned(current, listeners[p].user, p)
  <2>1. Listening(current)
    BY <1>1 DEF ListenersAtRest
  <2> QED BY <2>1 DEF Listening
<1>3. Assigned(job.next, listeners'[p].user, p)
  <2>1. Assigned(job'.next, listeners'[p].user, p)
    BY <1>1 DEF Listening
  <2> QED BY <1>1, <2>1
<1> QED BY <1>1, <1>2, <1>3 DEF JobTakesNoPort, TakesNoPort, Assigned

-----------------------------------------------------------------------------
(* Theorems *)

\* The inductive invariant holds initially.
LEMMA InitInvariant == Init => IInv
<1> SUFFICES ASSUME Init PROVE IInv
  OBVIOUS
<1>1. TypeOK
  BY InitTypes
<1>2. OnePortPerUid(current) /\ Unmixed(current.sources)
  BY EmptyStateType DEF Init, OnePortPerUid, Unmixed, EmptyState
<1> QED BY <1>1, <1>2
        DEF Init, IInv, FreshProcess, Unanswered, PortsDistinct, JobKeepsPorts, ChainsOfJob,
            GuardsAdmitRedirects, RevisionsUnmixed, StagedUnmixed, DeletionOrUpdate

\* The inductive invariant: every reachable state is typed, keeps ports
\* distinct, and keeps the staged work and the chains in the shape the other
\* theorems need.
THEOREM Invariant == Spec => []IInv
<1>1. IInv /\ [Next]_vars => IInv'
  BY TypeStep, FreshStep, UnansweredStep, PortsStep, ChainsStep, UnmixedStep, DeletionStep DEF IInv
<1> QED BY InitInvariant, <1>1, PTL DEF Spec

\* Type correctness of the runtime, the host state and the call in progress.
THEOREM TypeCorrect == Spec => []TypeOK
<1>1. IInv => TypeOK
  BY DEF IInv
<1> QED BY Invariant, <1>1, PTL

\* No two uids share a listen port, in memory, in the file or in the state being
\* applied (resolve_next_policies).
THEOREM PortsAreDistinct == Spec => []PortsDistinct
<1>1. IInv => PortsDistinct
  BY DEF IInv
<1> QED BY Invariant, <1>1, PTL

\* The chains never reject with one uid's port guard what they redirect for
\* another, whatever iptables command failed (firewall::reconcile).
THEOREM GuardsAdmit == Spec => []GuardsAdmitRedirects
<1>1. IInv => GuardsAdmitRedirects
  BY DEF IInv
<1> QED BY Invariant, <1>1, PTL

\* Lists are never mixed across revisions (push_source_chunk and
\* build_next_state_from_pending).
THEOREM RevisionsAreUnmixed == Spec => []RevisionsUnmixed
<1>1. IInv => RevisionsUnmixed
  BY DEF IInv
<1> QED BY Invariant, <1>1, PTL

\* The merge order of a synchronisation does not matter: no source is both
\* deleted and updated.
THEOREM DeletedOrUpdated == Spec => []DeletionOrUpdate
<1>1. IInv => DeletionOrUpdate
  BY DEF IInv
<1> QED BY Invariant, <1>1, PTL

\* A refused staging call changes no staged work.
THEOREM RefusalsKeepStaging == Spec => RefusalKeepsStaging
<1>1. IInv /\ [Next]_vars => [reply' = "refused" => pending' = pending]_vars
  <2> SUFFICES ASSUME IInv, Next, reply' = "refused" PROVE pending' = pending
    BY DEF vars
  <2>i. DeletionOrUpdate /\ TypeOK
    BY DEF IInv
  <2>1. ASSUME NEW id \in SyncIds, NEW s \in Sources, NEW rev \in Revisions,
               NEW d \in SUBSET Content[rev], PushSourceChunk(id, s, rev, d)
        PROVE  pending' = pending
    <3>1. /\ pending \in Pending /\ pending # None
          /\ pending.updates[s] # None
          /\ pending' = [pending EXCEPT !.deleted = pending.deleted \ {s}]
      BY <2>1, <2>i DEF PushSourceChunk, InSync, Reply, TypeOK
    <3>2. s \notin pending.deleted
      BY <3>1, <2>i DEF DeletionOrUpdate
    <3>3. pending.deleted \ {s} = pending.deleted
      BY <3>2
    <3> QED BY <3>1, <3>3 DEF Pending
  <2>2. ASSUME NEW id \in SyncIds,
               \/ BeginSync(id) \/ RefuseStaging(id) \/ AbortSync(id) \/ FinalizeSync(id)
               \/ \E ids \in SUBSET Sources : DeleteSources(id, ids)
               \/ \E m \in Manifest \cup {BadUid} : SetManifest(id, m)
        PROVE  pending' = pending
    BY <2>2 DEF BeginSync, RefuseStaging, AbortSync, FinalizeSync, DeleteSources, SetManifest,
                InSync, Reply, Start, runtimeVars
  <2>3. ASSUME Restore \/ RestoreUnreadable \/ OneCall \/ Apply \/ Crash \/ Reboot
        PROVE  pending' = pending
    <3>1. CASE Commit
      <4>1. reply # "refused"
        BY <3>1 DEF Commit, IInv, Unanswered
      <4> QED BY <3>1, <4>1 DEF Commit, Finish
    <3> QED
      BY <2>3, <3>1 DEF Restore, RestoreUnreadable, OneCall, FullSync, Apply, ApplyDns, FlushNat,
                FlushFilter, AppendRule, FirewallFails, Save, SaveFails, Crash, Reboot,
                ProcessLost, Finish, runtimeVars
  <2> QED BY <2>1, <2>2, <2>3 DEF Next, Staging
<1>2. [][reply' = "refused" => pending' = pending]_vars <=> RefusalKeepsStaging
  BY DEF RefusalKeepsStaging
<1> QED BY <1>1, <1>2, Invariant, PTL DEF Spec

\* The invariant of the enforcement: without faults the redirects, the file and
\* the state in memory stay together, and the listeners and chains are those of
\* the state last applied.
THEOREM Enforcement == Spec => []EnforcementInv
<1>1. Init => EnforcementInv
  <2> SUFFICES ASSUME Init PROVE EnforcementInv
    OBVIOUS
  <2>1. /\ nat = {} /\ disk = None /\ job = None /\ restored = FALSE /\ phase = "idle"
        /\ reply = "none"
        /\ \A p \in Ports : listeners[p] = None
    BY DEF Init
  <2>2. SilentStart /\ RedirectsToListeners /\ RedirectsFitNext /\ NoForeignFilter
    BY <2>1 DEF SilentStart, RedirectsToListeners, RedirectsFitNext, RedirectsFit, NoForeignFilter
  <2>a. ListenersAtRest
    <3>1. UsedPorts(current) = {}
      BY EmptyStateType DEF Init, UsedPorts
    <3> QED BY <2>1, <3>1 DEF ListenersAtRest, Listening
  <2>3. /\ JobTakesNoPort /\ ListenersOfJob /\ RestoreOfMemory /\ CommittedJob
        /\ MemoryIsSaved /\ RedirectsAtRest
        /\ AckIsEnforcedAndDurable /\ FilterLiftedOnlyByRebuild
    BY <2>1 DEF JobTakesNoPort, ListenersOfJob, RestoreOfMemory, CommittedJob, MemoryIsSaved,
                RedirectsAtRest, AckIsEnforcedAndDurable, FilterLiftedOnlyByRebuild
  <2> QED BY <2>2, <2>a, <2>3 DEF EnforcementInv
<1>2. IInv /\ EnforcementInv /\ [Next]_vars => EnforcementInv'
  BY SilentStep, JobStep, ListenStep, RedirectStep, LiftedStep, AckStep, RestStep
     DEF EnforcementInv
<1> QED BY <1>1, <1>2, Invariant, PTL DEF Spec

\* A synchronisation that answered Ok is enforced by listeners and chains and is
\* what a restart restores (finalize_sync, sync, ensure_restored).
THEOREM AcksAreEnforcedAndDurable == Spec => []AckIsEnforcedAndDurable
<1>1. EnforcementInv => AckIsEnforcedAndDurable
  BY DEF EnforcementInv
<1> QED BY Enforcement, <1>1, PTL

\* Without firewall or restore failures only a rebuild of the chains lifts a
\* managed user's redirects (firewall::reconcile).
THEOREM FilterStaysOn == Spec => []FilterLiftedOnlyByRebuild
<1>1. EnforcementInv => FilterLiftedOnlyByRebuild
  BY DEF EnforcementInv
<1> QED BY Enforcement, <1>1, PTL

\* Without faults no redirect reaches the listener of another user, crashes and
\* rebuilds included (resolve_next_policies, LocalDnsController::reconcile).
THEOREM RedirectsReachOwnFilter == Spec => []NoForeignFilter
<1>1. EnforcementInv => NoForeignFilter
  BY DEF EnforcementInv
<1> QED BY Enforcement, <1>1, PTL

\* Ports move in neither direction: a uid keeps its port for as long as it stays
\* managed, and until an iptables command fails reconcile hands no listener over
\* from one user to another (resolve_next_policies, LocalDnsController::reconcile).
THEOREM PortsAreStable == Spec => PortsStable
<1>1. IInv /\ [Next]_vars => [UsersKeepPorts]_vars
  <2> SUFFICES ASSUME IInv, [Next]_vars PROVE UsersKeepPorts
    OBVIOUS
  <2> USE DEF UsersKeepPorts
  <2>1. CASE current' = current
    BY <2>1 DEF Managed, PortOf
  <2>2. CASE current = EmptyState \/ current' = EmptyState
    BY <2>2, EmptyStateType DEF Managed, PortOf
  <2>3. CASE Commit /\ current' # current
    <3>1. current' = job.next /\ job # None
      BY <2>3 DEF Commit, IInv, TypeOK
    <3> QED BY <3>1 DEF IInv, JobKeepsPorts, Managed, PortOf
  <2>4. \/ current' = current
        \/ current = EmptyState \/ current' = EmptyState
        \/ Commit /\ current' # current
    <3>1. Restore => current = EmptyState
      BY DEF Restore, IInv, FreshProcess
    <3>2. RestoreUnreadable => current' = current
      BY DEF RestoreUnreadable
    <3>3. Crash \/ Reboot => current' = EmptyState
      BY DEF Crash, Reboot, ProcessLost
    <3>4. Apply => current' = current \/ Commit
      BY DEF Apply, ApplyDns, FlushNat, FlushFilter, AppendRule, FirewallFails, Save, SaveFails,
             runtimeVars
    <3> QED BY <3>1, <3>2, <3>3, <3>4, StepCases, FinalizeStep, OneCallStep DEF KernelVars
  <2> QED BY <2>1, <2>2, <2>3, <2>4
<1>2. IInv /\ EnforcementInv /\ [Next]_vars => [PortsKeepUsers]_vars
  <2> SUFFICES ASSUME IInv, EnforcementInv, [Next]_vars PROVE PortsKeepUsers
    OBVIOUS
  <2> USE DEF PortsKeepUsers
  <2>1. CASE listeners' = listeners
    BY <2>1
  <2>2. CASE ApplyDns
    BY <2>2, SharedPortsOneUser
  <2>3. CASE Crash \/ Reboot
    BY <2>3 DEF Crash, Reboot, ProcessLost
  <2>4. listeners' = listeners \/ ApplyDns \/ Crash \/ Reboot
    <3>1. Restore \/ RestoreUnreadable => listeners' = listeners
      BY DEF Restore, RestoreUnreadable
    <3>2. Apply => listeners' = listeners \/ ApplyDns
      BY DEF Apply, FlushNat, FlushFilter, AppendRule, FirewallFails, Commit, Save, SaveFails,
             runtimeVars
    <3> QED BY <3>1, <3>2, StepCases, FinalizeStep, OneCallStep DEF KernelVars
  <2> QED BY <2>1, <2>2, <2>3, <2>4
<1>3. [][UsersKeepPorts /\ PortsKeepUsers]_vars <=> PortsStable
  BY DEF PortsStable
<1> QED BY <1>1, <1>2, <1>3, Invariant, Enforcement, PTL DEF Spec

-----------------------------------------------------------------------------
(* Refinement: the runtime is a transactional store *)

\* finalize_sync consumes the staged work and nothing is staged until it ends.
LEMMA NothingStaged == Spec => []NothingStagedInFinalize
<1>1. Init => NothingStagedInFinalize
  BY DEF Init, NothingStagedInFinalize
<1>2. IInv /\ NothingStagedInFinalize /\ [Next]_vars => NothingStagedInFinalize'
  <2> SUFFICES ASSUME IInv, NothingStagedInFinalize, [Next]_vars,
                      job' # None, job'.op = "finalize"
               PROVE  pending' = None
    BY DEF NothingStagedInFinalize
  <2>1. CASE Restore
    BY <2>1 DEF Restore, Start
  <2>2. CASE OneCall \/ \E id \in SyncIds : FinalizeSync(id)
    BY <2>2, OneCallStep, FinalizeStep
  <2>3. CASE Apply
    <3>1. job' = job /\ pending' \in {pending, None}
      BY <2>3 DEF Apply, ApplyDns, FlushNat, FlushFilter, AppendRule, FirewallFails, Commit,
                  Save, SaveFails, Finish, runtimeVars, callVars
    <3> QED BY <3>1 DEF NothingStagedInFinalize
  <2>4. CASE RestoreUnreadable
    BY <2>4 DEF RestoreUnreadable, NothingStagedInFinalize
  <2>5. CASE Crash \/ Reboot
    BY <2>5 DEF Crash, Reboot, ProcessLost
  <2>6. ASSUME NEW id \in SyncIds,
               \/ BeginSync(id) \/ RefuseStaging(id) \/ AbortSync(id)
               \/ \E ids \in SUBSET Sources : DeleteSources(id, ids)
               \/ \E s \in Sources, rev \in Revisions :
                     \E d \in SUBSET Content[rev] : PushSourceChunk(id, s, rev, d)
               \/ \E m \in Manifest \cup {BadUid} : SetManifest(id, m)
        PROVE  job' = None
    <3>1. phase = "idle" /\ job' = job
      BY <2>6 DEF BeginSync, RefuseStaging, AbortSync, DeleteSources, PushSourceChunk, SetManifest,
                  Ready, Reply
    <3> QED BY <3>1 DEF IInv, TypeOK
  <2>7. CASE UNCHANGED vars
    BY <2>7 DEF vars, runtimeVars, callVars, NothingStagedInFinalize
  <2> QED BY <2>1, <2>2, <2>3, <2>4, <2>5, <2>6, <2>7 DEF Next, Staging
<1> QED BY <1>1, <1>2, Invariant, PTL DEF Spec

\* The copy of an open transaction, and what is not one.
LEMMA CopyOf ==
    ASSUME IInv
    PROVE  /\ pending = None => Copy = None
           /\ pending # None => /\ Copy # None
                                /\ Copy \in Copies
                                /\ pending \in Pending
                                /\ Copy = [id       |-> pending.sync_id,
                                           copy     |-> MergedSources(current, pending),
                                           written  |-> {s \in Sources : pending.updates[s] # None},
                                           manifest |-> pending.policies]
<1>1. pending # None => pending \in Pending /\ current \in State
  BY DEF IInv, TypeOK
<1>2. ASSUME pending # None PROVE Copy \in Copies
  <2>1. MergedSources(current, pending) \in SourceMap
    BY <1>1, <1>2, SourceEdits
  <2>2. pending.sync_id \in SyncIds /\ pending.policies \in Manifest \cup {None, BadUid}
    BY <1>1, <1>2 DEF Pending
  <2> QED BY <1>2, <2>1, <2>2 DEF Copy, Copies, SourceMap
<1> QED BY <1>1, <1>2, CopyAssumption DEF Copy

\* The policies that resolve_next_policies builds are admissible ones.
LEMMA BuiltAdmissible ==
    ASSUME IInv, NEW sources \in SourceMap,
           NEW manifest \in Manifest \cup {None, BadUid},
           NEW next \in NextStates(current, sources, manifest)
    PROVE  /\ manifest \in Manifest
           /\ manifest \notin {None, BadUid}
           /\ Transaction!Admissible(next.policies, manifest)
<1>1. manifest \in Manifest /\ manifest \notin {None, BadUid}
  BY DEF NextStates
<1>2. /\ next \in State /\ current \in State
      /\ OnePortPerUid(next)
      /\ \A u \in Managed(current) :
            u \in Managed(next) => PortOf(next, u) = PortOf(current, u)
      /\ TakesNoPort(current, next)
  BY NextStateOfSync DEF IInv, TypeOK
<1>3. PICK f \in Allocations(current, manifest) :
         next = [sources |-> sources, policies |-> PoliciesWith(manifest, f)]
  BY <1>1 DEF NextStates
<1>4. ASSUME NEW u \in Uids, manifest[u] = None
      PROVE  next.policies[u] = None
  BY <1>3, <1>4 DEF PoliciesWith
<1>5. ASSUME NEW u \in Uids, manifest[u] # None
      PROVE  /\ next.policies[u] # None
             /\ next.policies[u].sources = manifest[u].sources
             /\ next.policies[u].terms = manifest[u].terms
             /\ next.policies[u].port \in Ports
  <2>1. next.policies[u] = [sources |-> manifest[u].sources,
                            terms   |-> manifest[u].terms,
                            port    |-> f[u]]
    BY <1>3, <1>5 DEF PoliciesWith
  <2>2. manifest[u] \in Want
    BY <1>1, <1>5 DEF Manifest
  <2>3. f[u] \in Ports
    BY <1>3, <1>5 DEF Allocations, Wanted
  <2>4. next.policies[u] \in Policy
    BY <2>1, <2>2, <2>3 DEF Want, Policy
  <2> QED BY <2>1, <2>3, <2>4, AbsentAssumption
<1>6. ASSUME NEW u \in Uids, manifest[u] # None
      PROVE  IF current.policies[u] # None
             THEN next.policies[u].port = current.policies[u].port
             ELSE \A v \in Uids : current.policies[v] # None =>
                     next.policies[u].port # current.policies[v].port
  BY <1>2, <1>5, <1>6 DEF TakesNoPort, Managed, PortOf
<1>7. ASSUME NEW u \in Uids, NEW v \in Uids, next.policies[u] # None, next.policies[v] # None, u # v
      PROVE  next.policies[u].port # next.policies[v].port
  BY <1>2, <1>7 DEF OnePortPerUid, Managed, PortOf
<1> QED BY <1>1, <1>4, <1>5, <1>6, <1>7 DEF Transaction!Admissible

\* An edit of a copy and of what is written, as a record.
LEMMA EditedCopy ==
    ASSUME NEW txn \in Copies, NEW a, NEW b
    PROVE  [txn EXCEPT !.copy = a, !.written = b] =
           [id |-> txn.id, copy |-> a, written |-> b, manifest |-> txn.manifest]
<1>1. txn = [id |-> txn.id, copy |-> txn.copy, written |-> txn.written, manifest |-> txn.manifest]
  BY DEF Copies
<1>2. [txn EXCEPT !.copy = a] =
      [id |-> txn.id, copy |-> a, written |-> txn.written, manifest |-> txn.manifest]
  BY <1>1
<1>3. [[id |-> txn.id, copy |-> a, written |-> txn.written, manifest |-> txn.manifest]
           EXCEPT !.written = b] =
      [id |-> txn.id, copy |-> a, written |-> b, manifest |-> txn.manifest]
  OBVIOUS
<1> QED BY <1>2, <1>3, Zenon

\* Staged calls edit the copy as the transaction would.
LEMMA StagingSimulated ==
    ASSUME IInv, NEW id \in SyncIds,
           \/ BeginSync(id) \/ RefuseStaging(id) \/ AbortSync(id)
           \/ \E ids \in SUBSET Sources : DeleteSources(id, ids)
           \/ \E s \in Sources, rev \in Revisions :
                 \E d \in SUBSET Content[rev] : PushSourceChunk(id, s, rev, d)
           \/ \E m \in Manifest \cup {BadUid} : SetManifest(id, m)
    PROVE  Transaction!Next \/ UNCHANGED Transaction!vars
<1>1. /\ restored /\ job = None
      /\ UNCHANGED <<restored, current, disk, job, phase>>
  <2>1. phase = "idle" => job = None
    BY DEF IInv, TypeOK
  <2> QED BY <2>1 DEF BeginSync, RefuseStaging, AbortSync, DeleteSources, PushSourceChunk, SetManifest,
                      Ready, Reply, hostVars, runtimeVars
<1>2. Deciding = None /\ Deciding' = None
  BY <1>1 DEF Deciding
<1>3. pending' = pending => UNCHANGED Transaction!vars
  BY <1>1, <1>2 DEF Transaction!vars, Copy
<1>4. CASE BeginSync(id)
  <2>1. /\ pending' # None /\ pending'.sync_id = id /\ pending'.deleted = {}
        /\ pending'.updates = [s \in Sources |-> None] /\ pending'.policies = None
    <3>1. pending' = [sync_id |-> id, deleted |-> {}, updates |-> [s \in Sources |-> None],
                      policies |-> None]
      BY <1>4 DEF BeginSync
    <3>2. pending' # None
      BY <3>1, AbsentAssumption DEF Pending
    <3> QED BY <3>1, <3>2
  <2>2. MergedSources(current', pending') = current.sources
    BY <1>1, <2>1 DEF MergedSources, IInv, TypeOK, State
  <2>3. {s \in Sources : pending'.updates[s] # None} = {}
    BY <2>1
  <2>4. Copy' = [id |-> id, copy |-> current.sources, written |-> {}, manifest |-> None]
    BY <2>1, <2>2, <2>3 DEF Copy
  <2>5. Transaction!Begin(id)
    BY <1>1, <1>2, <2>4 DEF Transaction!Begin
  <2> QED BY <2>5 DEF Transaction!Next
<1>5. CASE RefuseStaging(id)
  BY <1>3, <1>5 DEF RefuseStaging, runtimeVars
<1>6. CASE AbortSync(id)
  <2>1. pending' = pending \/ (pending # None /\ pending' = None)
    <3>1. pending' = IF InSync(id) THEN None ELSE pending
      BY <1>6 DEF AbortSync
    <3> QED BY <3>1 DEF InSync
  <2>2. ASSUME pending # None, pending' = None PROVE Transaction!Drop
    <3>1. Copy # None /\ Copy' = None
      BY <2>2, CopyOf DEF Copy
    <3> QED BY <3>1, <1>1, <1>2 DEF Transaction!Drop, Transaction!InTxn
  <2> QED BY <1>3, <2>1, <2>2 DEF Transaction!Next
<1>7. ASSUME NEW ids \in SUBSET Sources, DeleteSources(id, ids)
      PROVE  Transaction!Delete(ids)
  <2>1. pending # None
    BY <1>7 DEF DeleteSources, InSync
  <2>2. /\ Copy # None /\ Copy \in Copies /\ pending \in Pending
        /\ Copy = [id       |-> pending.sync_id,
                   copy     |-> MergedSources(current, pending),
                   written  |-> {s \in Sources : pending.updates[s] # None},
                   manifest |-> pending.policies]
    BY <2>1, CopyOf
  <2>3. /\ pending' = [sync_id  |-> pending.sync_id,
                       deleted  |-> pending.deleted \cup ids,
                       updates  |-> [s \in Sources |-> IF s \in ids THEN None
                                                        ELSE pending.updates[s]],
                       policies |-> pending.policies]
    BY <1>7, <2>2 DEF DeleteSources, Pending
  <2>4. pending' # None
    <3>1. pending' \in Pending
      BY <2>2, <2>3 DEF Pending
    <3> QED BY <3>1, AbsentAssumption
  <2>5. MergedSources(current', pending') =
          [s \in Sources |-> IF s \in ids THEN None ELSE MergedSources(current, pending)[s]]
    BY <1>1, <2>3 DEF MergedSources
  <2>6. {s \in Sources : pending'.updates[s] # None} =
          {s \in Sources : pending.updates[s] # None} \ ids
    BY <2>3
  <2>7. Copy' = [id       |-> pending.sync_id,
                 copy     |-> [s \in Sources |-> IF s \in ids THEN None
                                                 ELSE MergedSources(current, pending)[s]],
                 written  |-> {s \in Sources : pending.updates[s] # None} \ ids,
                 manifest |-> pending.policies]
    BY <2>3, <2>4, <2>5, <2>6 DEF Copy
  <2>8. Copy' = [Copy EXCEPT !.copy = [s \in Sources |-> IF s \in ids THEN None ELSE Copy.copy[s]],
                             !.written = Copy.written \ ids]
    <3>1. Copy' = [id       |-> Copy.id,
                   copy     |-> [s \in Sources |-> IF s \in ids THEN None ELSE Copy.copy[s]],
                   written  |-> Copy.written \ ids,
                   manifest |-> Copy.manifest]
      BY <2>2, <2>7
    <3> DEFINE edited == [s \in Sources |-> IF s \in ids THEN None ELSE Copy.copy[s]]
               kept   == Copy.written \ ids
    <3>2. Copy \in Copies
      BY <2>2
    <3> HIDE DEF edited, kept
    <3>3. [Copy EXCEPT !.copy = edited, !.written = kept] =
             [id |-> Copy.id, copy |-> edited, written |-> kept, manifest |-> Copy.manifest]
      BY <3>2, EditedCopy
    <3> QED BY <3>1, <3>3, Zenon DEF edited, kept
  <2> QED BY <1>1, <1>2, <2>2, <2>8 DEF Transaction!Delete, Transaction!InTxn
<1>8. ASSUME NEW s \in Sources, NEW rev \in Revisions, NEW d \in SUBSET Content[rev],
             PushSourceChunk(id, s, rev, d)
      PROVE  Transaction!Write(s, rev, d) \/ pending' = pending
  <2> DEFINE old == pending.updates[s]
             conflict == old # None /\ old.revision # rev /\ old.domains # {}
             held == IF old = None THEN {} ELSE old.domains
             new == [revision |-> rev, domains |-> held \cup d]
  <2>1. pending # None
    BY <1>8 DEF PushSourceChunk, InSync
  <2>2. /\ Copy # None /\ Copy \in Copies /\ pending \in Pending
        /\ Copy = [id       |-> pending.sync_id,
                   copy     |-> MergedSources(current, pending),
                   written  |-> {x \in Sources : pending.updates[x] # None},
                   manifest |-> pending.policies]
    BY <2>1, CopyOf
  <2>3. CASE conflict
    <3>1. pending' = [pending EXCEPT !.deleted = pending.deleted \ {s}]
      BY <1>8, <2>3 DEF PushSourceChunk
    <3>2. pending.deleted \ {s} = pending.deleted
      BY <2>1, <2>3 DEF IInv, DeletionOrUpdate
    <3> QED BY <2>2, <3>1, <3>2 DEF Pending
  <2>4. CASE ~conflict
    <3>1. pending' = [pending EXCEPT !.deleted = pending.deleted \ {s}, !.updates[s] = new]
      BY <1>8, <2>4 DEF PushSourceChunk
    <3>2. new \in SourceState
      <4>1. d \in SUBSET Domains
        BY ContentAssumption
      <4>2. held \in SUBSET Domains
        BY <2>2 DEF Pending, SourceState
      <4>3. held \cup d \in SUBSET Domains
        BY <4>1, <4>2
      <4> HIDE DEF held
      <4> QED BY <4>3, SourceEdits
    <3> HIDE DEF new
    <3>3. /\ pending' \in Pending
          /\ pending'.sync_id = pending.sync_id /\ pending'.policies = pending.policies
          /\ pending'.deleted = pending.deleted \ {s}
          /\ pending'.updates = [pending.updates EXCEPT ![s] = new]
      BY <2>2, <3>1, <3>2 DEF Pending
    <3>4. pending' # None /\ new # None
      BY <3>2, <3>3, AbsentAssumption
    <3>5. pending.updates \in [Sources -> SourceState \cup {None}]
      BY <2>2 DEF Pending
    <3>6. MergedSources(current', pending') = [MergedSources(current, pending) EXCEPT ![s] = new]
      BY <1>1, <3>3, <3>4, <3>5 DEF MergedSources
    <3>7. {x \in Sources : pending'.updates[x] # None} =
            {x \in Sources : pending.updates[x] # None} \cup {s}
      BY <3>3, <3>4, <3>5
    <3>8. Copy' = [id       |-> pending.sync_id,
                   copy     |-> [MergedSources(current, pending) EXCEPT ![s] = new],
                   written  |-> {x \in Sources : pending.updates[x] # None} \cup {s},
                   manifest |-> pending.policies]
      BY <3>3, <3>4, <3>6, <3>7 DEF Copy
    <3>9. Copy' = [Copy EXCEPT !.copy = [Copy.copy EXCEPT ![s] = new],
                               !.written = Copy.written \cup {s}]
      <4>1. Copy' = [id       |-> Copy.id,
                     copy     |-> [Copy.copy EXCEPT ![s] = new],
                     written  |-> Copy.written \cup {s},
                     manifest |-> Copy.manifest]
        BY <2>2, <3>8
      <4> DEFINE edited == [Copy.copy EXCEPT ![s] = new]
                 added  == Copy.written \cup {s}
      <4>2. Copy \in Copies
        BY <2>2
      <4> HIDE DEF edited, added
      <4>3. [Copy EXCEPT !.copy = edited, !.written = added] =
               [id |-> Copy.id, copy |-> edited, written |-> added, manifest |-> Copy.manifest]
        BY <4>2, EditedCopy
      <4> QED BY <4>1, <4>3, Zenon DEF edited, added
    <3>10. /\ s \in Copy.written <=> old # None
           /\ old # None => Copy.copy[s] = old
      BY <2>2 DEF MergedSources
    <3>11. held = IF s \in Copy.written THEN Copy.copy[s].domains ELSE {}
      BY <3>10
    <3>12. held # {} => Copy.copy[s].revision = rev
      BY <3>10, <2>4
    <3> HIDE DEF held
    <3> QED BY <1>1, <1>2, <2>2, <3>9, <3>11, <3>12
            DEF Transaction!Write, Transaction!InTxn, new
  <2> QED BY <2>3, <2>4
<1>9. ASSUME NEW m \in Manifest \cup {BadUid}, SetManifest(id, m)
      PROVE  Transaction!Assign(m)
  <2>1. pending # None
    BY <1>9 DEF SetManifest, InSync
  <2>2. /\ Copy # None /\ Copy \in Copies /\ pending \in Pending
        /\ Copy = [id       |-> pending.sync_id,
                   copy     |-> MergedSources(current, pending),
                   written  |-> {s \in Sources : pending.updates[s] # None},
                   manifest |-> pending.policies]
    BY <2>1, CopyOf
  <2>3. pending' = [sync_id  |-> pending.sync_id, deleted |-> pending.deleted,
                    updates  |-> pending.updates, policies |-> m]
    BY <1>9, <2>2 DEF SetManifest, Pending
  <2>4. pending' # None
    <3>1. pending' \in Pending
      BY <2>2, <2>3 DEF Pending
    <3> QED BY <3>1, AbsentAssumption
  <2>5. MergedSources(current', pending') = MergedSources(current, pending)
    BY <1>1, <2>3 DEF MergedSources
  <2>6. Copy' = [Copy EXCEPT !.manifest = m]
    BY <2>2, <2>3, <2>4, <2>5 DEF Copy
  <2> QED BY <1>1, <1>2, <2>2, <2>6 DEF Transaction!Assign, Transaction!InTxn
<1>10. Manifest \cup {BadUid} \subseteq Transaction!Manifests \cup {BadUid}
  BY DEF Manifest, Transaction!Manifests, Want, Transaction!Wants
<1>11. \A rev \in Revisions : SUBSET Content[rev] \subseteq SUBSET Domains
  BY ContentAssumption
<1>12. ASSUME NEW ids \in SUBSET Sources, DeleteSources(id, ids) PROVE Transaction!Next
  BY <1>7, <1>12 DEF Transaction!Next
<1>13. ASSUME NEW s \in Sources, NEW rev \in Revisions, NEW d \in SUBSET Content[rev],
              PushSourceChunk(id, s, rev, d)
       PROVE  Transaction!Next \/ UNCHANGED Transaction!vars
  <2>1. d \in SUBSET Domains
    BY <1>11
  <2> QED BY <1>3, <1>8, <1>13, <2>1 DEF Transaction!Next
<1>14. ASSUME NEW m \in Manifest \cup {BadUid}, SetManifest(id, m) PROVE Transaction!Next
  <2>1. m \in Transaction!Manifests \cup {BadUid}
    BY <1>10
  <2> QED BY <1>9, <1>14, <2>1 DEF Transaction!Next
<1> QED BY <1>4, <1>5, <1>6, <1>12, <1>13, <1>14

\* finalize_sync ends the transaction: with a decision for its copy and its
\* manifest, or without one.
LEMMA FinalizeSimulated ==
    ASSUME IInv, NEW id \in SyncIds, FinalizeSync(id)
    PROVE  Transaction!Decide \/ Transaction!Drop
<1> DEFINE nexts == NextStates(current, MergedSources(current, pending), pending.policies)
<1>1. /\ restored /\ phase = "idle" /\ pending # None /\ pending' = None
      /\ UNCHANGED <<restored, current, disk>>
      /\ \/ \E next \in nexts : job' = [op |-> "finalize", next |-> next] /\ phase' = "dns"
         \/ job' = job /\ phase' = phase
  BY DEF FinalizeSync, Ready, InSync, Start, Reply, hostVars
<1>2. job = None
  BY <1>1 DEF IInv, TypeOK
<1>3. /\ Copy # None /\ Copy' = None /\ pending \in Pending
      /\ Copy.copy = MergedSources(current, pending)
      /\ Copy.manifest = pending.policies
  BY <1>1, CopyOf DEF Copy
<1>4. Deciding = None
  BY <1>2 DEF Deciding
<1>5. /\ MergedSources(current, pending) \in SourceMap
      /\ pending.policies \in Manifest \cup {None, BadUid}
  BY <1>3, SourceEdits DEF Pending, IInv, TypeOK
<1> HIDE DEF nexts
<1>6. CASE job' = job /\ phase' = phase
  <2>1. Deciding' = None
    BY <1>2, <1>6 DEF Deciding
  <2> QED BY <1>1, <1>3, <1>4, <2>1 DEF Transaction!Drop, Transaction!InTxn
<1>7. ASSUME NEW next \in nexts, job' = [op |-> "finalize", next |-> next], phase' = "dns"
      PROVE  Transaction!Decide
  <2>1. /\ next \in State /\ next.sources = MergedSources(current, pending)
        /\ pending.policies \notin {None, BadUid}
        /\ Transaction!Admissible(next.policies, pending.policies)
    BY <1>5, NextStateOfSync, BuiltAdmissible DEF nexts
  <2>2. next # None /\ job' # None
    BY <1>7, <2>1, AbsentAssumption
  <2>3. Deciding' = next
    BY <1>7, <2>2 DEF Deciding
  <2> QED BY <1>1, <1>3, <1>4, <2>1, <2>2, <2>3 DEF Transaction!Decide, Transaction!InTxn
<1> QED BY <1>1, <1>6, <1>7

\* The one-call sync replaces the store, or is refused and changes nothing.
LEMMA OneCallSimulated ==
    ASSUME IInv, OneCall
    PROVE  Transaction!Replace \/ UNCHANGED Transaction!vars
<1>1. PICK lists \in [Sources -> (SUBSET Domains) \cup {None}],
           m \in Manifest \cup {BadUid} : FullSync(lists, m)
  BY DEF OneCall
<1> DEFINE nexts == NextStates(current, FullSources(lists), m)
<1>2. /\ restored /\ phase = "idle"
      /\ UNCHANGED <<restored, current, disk, pending>>
      /\ \/ \E next \in nexts : job' = [op |-> "sync", next |-> next] /\ phase' = "dns"
         \/ job' = job /\ phase' = phase
  BY <1>1 DEF FullSync, Ready, Start, Reply, hostVars, runtimeVars
<1>3. job = None /\ Deciding = None
  BY <1>2 DEF IInv, TypeOK, Deciding
<1>4. Copy' = Copy
  BY <1>2 DEF Copy
<1>5. FullSources(lists) \in SourceMap
  BY SourceEdits
<1> HIDE DEF nexts
<1>6. CASE job' = job /\ phase' = phase
  <2>1. Deciding' = Deciding
    BY <1>6 DEF Deciding
  <2> QED BY <1>2, <1>4, <2>1 DEF Transaction!vars
<1>7. ASSUME NEW next \in nexts, job' = [op |-> "sync", next |-> next], phase' = "dns"
      PROVE  Transaction!Replace
  <2>1. /\ next \in State /\ m \in Manifest
        /\ Transaction!Admissible(next.policies, m)
    BY <1>5, NextStateOfSync, BuiltAdmissible DEF nexts
  <2>2. next # None /\ job' # None
    BY <1>7, <2>1, AbsentAssumption
  <2>3. Deciding' = next
    BY <1>7, <2>2 DEF Deciding
  <2>4. m \in Transaction!Manifests
    BY <2>1 DEF Manifest, Transaction!Manifests, Want, Transaction!Wants
  <2> QED BY <1>2, <1>3, <1>4, <2>1, <2>2, <2>3, <2>4 DEF Transaction!Replace
<1> QED BY <1>2, <1>6, <1>7

\* Applying a state decides nothing until the commit; the commit replaces the
\* store, a failure retracts the decision, the save makes the store durable.
LEMMA ApplySimulated ==
    ASSUME IInv, EnforcementInv, NothingStagedInFinalize, Apply
    PROVE  Transaction!Next \/ UNCHANGED Transaction!vars
<1>1. /\ restored /\ job # None /\ job.op \in {"restore", "finalize", "sync"}
      /\ job.next \in State /\ job.next # None
  <2>1. phase # "idle"
    BY DEF Apply, ApplyDns, FlushNat, FlushFilter, AppendRule, FirewallFails, Commit, Save, SaveFails
  <2>2. job # None /\ job \in [op : {"restore", "finalize", "sync"}, next : State]
    BY <2>1 DEF IInv, TypeOK
  <2> QED BY <2>2, AbsentAssumption DEF IInv, FreshProcess
<1>2. CASE \/ ApplyDns \/ FlushNat \/ FlushFilter
           \/ \E u \in Uids, i \in RuleIndex : AppendRule(u, i)
  <2>1. /\ UNCHANGED <<restored, current, disk, pending, job>>
        /\ phase # "save" /\ phase' # "save"
    BY <1>2 DEF ApplyDns, FlushNat, FlushFilter, AppendRule, runtimeVars, hostVars, callVars
  <2> QED BY <2>1 DEF Transaction!vars, Copy, Deciding
<1>3. CASE FirewallFails
  <2>1. /\ UNCHANGED <<restored, current, disk, pending>> /\ job' = None
    BY <1>3 DEF FirewallFails, Finish, runtimeVars, hostVars
  <2>2. Copy' = Copy /\ Deciding' = None
    BY <2>1 DEF Copy, Deciding
  <2>3. CASE Deciding = None
    BY <2>1, <2>2, <2>3 DEF Transaction!vars
  <2>4. CASE Deciding # None
    <3>1. Transaction!Retract
      BY <2>1, <2>2, <2>4 DEF Transaction!Retract
    <3> QED BY <3>1 DEF Transaction!Next
  <2> QED BY <2>3, <2>4
<1>4. CASE Commit
  <2>1. phase = "append" /\ UNCHANGED <<restored, disk>>
    BY <1>4 DEF Commit, hostVars
  <2>2. CASE job.op = "restore"
    <3>1. UNCHANGED <<current, pending>> /\ job' = None
      BY <1>4, <2>2 DEF Commit, Finish
    <3> QED BY <2>1, <2>2, <3>1 DEF Transaction!vars, Copy, Deciding
  <2>3. CASE job.op # "restore"
    <3>1. /\ current' = job.next /\ phase' = "save"
          /\ pending' = IF job.op = "sync" THEN None ELSE pending
      BY <1>4, <2>3 DEF Commit
    <3>2. pending' = None
      BY <1>1, <2>3, <3>1 DEF NothingStagedInFinalize
    <3>3. Deciding = job.next /\ Deciding' = None /\ Copy' = None
      BY <1>1, <2>1, <2>3, <3>1, <3>2 DEF Deciding, Copy
    <3>4. Transaction!Commit
      BY <1>1, <2>1, <3>1, <3>3 DEF Transaction!Commit
    <3> QED BY <3>4 DEF Transaction!Next
  <2> QED BY <2>2, <2>3
<1>5. CASE Save
  <2>1. /\ phase = "save" /\ UNCHANGED <<restored, current, pending>>
        /\ disk' = job.next /\ job' = None
    BY <1>5 DEF Save, Finish, runtimeVars
  <2>2. job.next = current
    BY <2>1 DEF EnforcementInv, CommittedJob
  <2>3. Copy' = Copy /\ Deciding = None /\ Deciding' = None
    BY <2>1 DEF Copy, Deciding
  <2>4. Transaction!Persist
    BY <1>1, <2>1, <2>2, <2>3 DEF Transaction!Persist
  <2> QED BY <2>4 DEF Transaction!Next
<1>6. CASE SaveFails
  <2>1. /\ phase = "save" /\ UNCHANGED <<restored, current, disk, pending>> /\ job' = None
    BY <1>6 DEF SaveFails, Finish, runtimeVars, hostVars
  <2> QED BY <2>1 DEF Transaction!vars, Copy, Deciding
<1> QED BY <1>2, <1>3, <1>4, <1>5, <1>6 DEF Apply

\* A start loads the durable store, or nothing; the end of the process loses
\* everything else.
LEMMA LifeSimulated ==
    ASSUME IInv, Restore \/ RestoreUnreadable \/ Crash \/ Reboot
    PROVE  Transaction!Next
<1>e. EmptyState # None /\ Transaction!Empty = EmptyState
  BY EmptyStateType, AbsentAssumption DEF Transaction!Empty, EmptyState
<1>1. CASE Restore \/ RestoreUnreadable
  <2>1. /\ ~restored /\ restored' = TRUE /\ UNCHANGED <<disk, pending>>
        /\ current' = EmptyState \/ (disk # None /\ current' = disk)
        /\ current = EmptyState /\ pending = None /\ job = None
        /\ job' = None \/ job'.op = "restore"
    BY <1>1 DEF Restore, RestoreUnreadable, Start, hostVars, IInv, FreshProcess
  <2>2. Copy = None /\ Copy' = None /\ Deciding = None /\ Deciding' = None
    BY <2>1 DEF Copy, Deciding
  <2>3. Transaction!Load
    BY <2>1, <2>2, <1>e DEF Transaction!Load
  <2> QED BY <2>3 DEF Transaction!Next
<1>2. CASE Crash \/ Reboot
  <2>1. /\ restored' = FALSE /\ current' = EmptyState /\ pending' = None /\ job' = None
        /\ disk' = disk
    BY <1>2 DEF Crash, Reboot, ProcessLost, Finish
  <2>2. Copy' = None /\ Deciding' = None
    BY <2>1 DEF Copy, Deciding
  <2>3. Transaction!Restart
    BY <2>1, <2>2, <1>e DEF Transaction!Restart
  <2> QED BY <2>3 DEF Transaction!Next
<1> QED BY <1>1, <1>2

\* The runtime implements the transactional store: isolated staging, commits
\* that are whole or not at all, restarts from a whole durable copy.
THEOREM RuntimeIsTransactional == Spec => ImplementsTransaction
<1>1. Init => Transaction!Init
  BY DEF Init, Transaction!Init, Copy, Deciding, EmptyState, Transaction!Empty
<1>2. IInv /\ EnforcementInv /\ NothingStagedInFinalize /\ [Next]_vars
         => [Transaction!Next]_Transaction!vars
  <2> SUFFICES ASSUME IInv, EnforcementInv, NothingStagedInFinalize, [Next]_vars
               PROVE  Transaction!Next \/ UNCHANGED Transaction!vars
    OBVIOUS
  <2>1. CASE Restore \/ RestoreUnreadable \/ Crash \/ Reboot
    BY <2>1, LifeSimulated
  <2>2. ASSUME NEW id \in SyncIds, FinalizeSync(id)
        PROVE  Transaction!Next
    BY <2>2, FinalizeSimulated DEF Transaction!Next
  <2>3. CASE OneCall
    BY <2>3, OneCallSimulated DEF Transaction!Next
  <2>4. CASE Apply
    BY <2>4, ApplySimulated
  <2>5. CASE UNCHANGED vars
    BY <2>5 DEF vars, runtimeVars, hostVars, callVars, Transaction!vars, Copy, Deciding
  <2> QED BY <2>1, <2>2, <2>3, <2>4, <2>5, StagingSimulated DEF Next, Staging
<1> QED BY <1>1, <1>2, Invariant, Enforcement, NothingStaged, PTL
        DEF Spec, ImplementsTransaction, Transaction!Spec

-----------------------------------------------------------------------------
(* Allocations is the loop of resolve_next_policies.  The library's induction *)
(* theorems take an operator, so induction over the turns of the loop is by    *)
(* the least number at which a statement fails.                               *)

\* A set of numbers that is not empty has a least element.
LEMMA LeastNumber ==
    ASSUME NEW T, T \subseteq Nat, T # {}
    PROVE  \E x \in T : \A y \in T : x <= y
<1> DEFINE Less == {pair \in Nat \X Nat : pair[1] < pair[2]}
<1>1. IsWellFoundedOn(Less, Nat)
  BY NatLessThanWellFounded, Zenon DEF OpToRel
<1> HIDE DEF Less
<1>2. PICK x \in T : \A y \in T : <<y, x>> \notin Less
  BY <1>1, WFMin
<1>3. ASSUME NEW y \in T PROVE x <= y
  <2>1. x \in Nat /\ y \in Nat
    OBVIOUS
  <2>2. <<y, x>> \in Nat \X Nat /\ <<y, x>>[1] = y /\ <<y, x>>[2] = x
    BY <2>1
  <2>3. ~(y < x)
    BY <1>2, <2>2 DEF Less
  <2> QED BY <2>1, <2>3
<1> QED BY <1>3

\* f is what a recursion over the numbers computes, from start by g.
Computes(f, S, start, g) ==
    /\ f \in [Nat -> S]
    /\ f[0] = start
    /\ \A n \in Nat : f[n + 1] = g[<<n, f[n]>>]

\* Every recursion over the numbers computes a function.
LEMMA Recursion ==
    ASSUME NEW S, NEW start \in S, NEW g \in [Nat \X S -> S]
    PROVE  \E f : Computes(f, S, start, g)
<1> DEFINE Prefix(h, n) == /\ h \in [0..n -> S]
                           /\ h[0] = start
                           /\ \A i \in 0..(n - 1) : h[i + 1] = g[<<i, h[i]>>]
           Long == {n \in Nat : \E h : Prefix(h, n)}
<1>1. Nat \subseteq Long
  <2> SUFFICES ASSUME Nat \ Long # {} PROVE FALSE
    OBVIOUS
  <2> DEFINE T == Nat \ Long
  <2>1. PICK n \in T : \A m \in T : n <= m
    BY LeastNumber
  <2>2. CASE n = 0
    <3>1. Prefix([i \in 0..0 |-> start], 0)
      OBVIOUS
    <3> QED BY <3>1, <2>1, <2>2
  <2>3. CASE n # 0
    <3>1. n - 1 \in Nat /\ n - 1 \in Long /\ n \in Nat
      <4> HIDE DEF Long
      <4> QED BY <2>1, <2>3
    <3>2. PICK h : Prefix(h, n - 1)
      BY <3>1
    <3> DEFINE k == [i \in 0..n |-> IF i = n THEN g[<<n - 1, h[n - 1]>>] ELSE h[i]]
    <3>3. h[n - 1] \in S
      BY <3>1, <3>2
    <3>4. k \in [0..n -> S]
      BY <3>1, <3>2, <3>3
    <3>5. k[0] = start
      BY <3>1, <3>2, <2>3
    <3>6. ASSUME NEW i \in 0..(n - 1) PROVE k[i + 1] = g[<<i, k[i]>>]
      <4>1. i \in Int /\ 0 <= i /\ i <= n - 1
        BY <3>1
      <4>2. CASE i = n - 1
        <5>1. i + 1 = n /\ i \in 0..n /\ i # n /\ n \in 0..n
          BY <4>1, <4>2, <3>1
        <5>2. k[n] = g[<<i, h[i]>>] /\ k[i] = h[i]
          BY <5>1, <4>2
        <5> QED BY <5>1, <5>2
      <4>3. CASE i # n - 1
        <5>1. i + 1 \in 0..n /\ i + 1 # n /\ i \in 0..n /\ i # n /\ i \in 0..(n - 2)
          BY <4>1, <4>3, <3>1
        <5>2. h[i + 1] = g[<<i, h[i]>>]
          BY <5>1, <3>2, <3>1
        <5> QED BY <5>1, <5>2
      <4> QED BY <4>2, <4>3
    <3>7. Prefix(k, n)
      BY <3>4, <3>5, <3>6
    <3> HIDE DEF k, Prefix
    <3> QED BY <3>7, <3>1, <2>1
  <2> QED BY <2>2, <2>3
<1>2. ASSUME NEW n \in Nat, NEW m \in Nat, NEW h, NEW k, Prefix(h, n), Prefix(k, m),
             NEW i \in Nat, i <= n, i <= m
      PROVE  h[i] = k[i]
  <2> DEFINE T == {j \in Nat : j <= n /\ j <= m /\ h[j] # k[j]}
  <2> SUFFICES ASSUME T # {} PROVE FALSE
    BY <1>2
  <2>1. PICK j \in T : \A l \in T : j <= l
    BY LeastNumber
  <2>2. j # 0 /\ j \in Nat /\ j <= n /\ j <= m
    BY <2>1, <1>2
  <2>3. h[j - 1] = k[j - 1] /\ j - 1 \in Nat
    BY <2>1, <2>2
  <2>4. j - 1 \in 0..(n - 1) /\ j - 1 \in 0..(m - 1) /\ (j - 1) + 1 = j
    BY <2>2
  <2>5. h[j] = g[<<j - 1, h[j - 1]>>] /\ k[j] = g[<<j - 1, k[j - 1]>>]
    BY <2>4, <1>2
  <2> QED BY <2>5, <2>3, <2>1
<1> DEFINE p == [n \in Nat |-> CHOOSE h : Prefix(h, n)]
           f == [n \in Nat |-> p[n][n]]
<1>3. ASSUME NEW n \in Nat PROVE Prefix(p[n], n)
  BY <1>1
<1> HIDE DEF p
<1>4. ASSUME NEW n \in Nat PROVE p[n][n] \in S
  BY <1>3
<1>5. p[0][0] = start
  BY <1>3
<1>6. ASSUME NEW n \in Nat PROVE p[n + 1][n + 1] = g[<<n, p[n][n]>>]
  <2>1. Prefix(p[n + 1], n + 1) /\ Prefix(p[n], n) /\ n + 1 \in Nat
    BY <1>3
  <2>2. p[n + 1][n] = p[n][n]
    BY <2>1, <1>2
  <2>3. n \in 0..((n + 1) - 1)
    OBVIOUS
  <2>4. p[n + 1][n + 1] = g[<<n, p[n + 1][n]>>]
    BY <2>1, <2>3
  <2> QED BY <2>2, <2>4
<1>7. f \in [Nat -> S]
  BY <1>4
<1>8. f[0] = start /\ \A n \in Nat : f[n + 1] = g[<<n, f[n]>>]
  BY <1>5, <1>6
<1> QED BY <1>7, <1>8 DEF Computes

\* allocate_policy_port finds the first port of those that are free.
LEMMA LeastIsLeast ==
    ASSUME NEW T, T \subseteq Nat, T # {}
    PROVE  Least(T) \in T /\ \A y \in T : Least(T) <= y
BY LeastNumber DEF Least

\* What the loop may hold between two turns.
LoopStates ==
    [failed : BOOLEAN,
     used   : SUBSET Ports,
     ports  : UNION {[W -> Ports] : W \in SUBSET Uids}]

\* The ports of a state are ports of the range.
LEMMA ManagedPorts ==
    ASSUME NEW st \in State
    PROVE  /\ Managed(st) \subseteq Uids
           /\ \A u \in Managed(st) : PortOf(st, u) \in Ports
           /\ UsedPorts(st) \subseteq Ports
<1>1. ASSUME NEW u \in Managed(st) PROVE PortOf(st, u) \in Ports
  <2>1. st.policies \in [Uids -> Policy \cup {None}] /\ u \in Uids /\ st.policies[u] # None
    BY DEF State, Managed
  <2> QED BY <2>1 DEF Policy, PortOf
<1> QED BY <1>1 DEF Managed, UsedPorts

\* An insertion into next_policies keeps the types.
LEMMA Inserted ==
    ASSUME NEW loop \in LoopStates, NEW W \in SUBSET Uids, loop.ports \in [W -> Ports],
           NEW u \in Uids, NEW port \in Ports
    PROVE  Insert(loop, u, port) \in LoopStates
<1> DEFINE ports == [v \in W \cup {u} |-> IF v = u THEN port ELSE loop.ports[v]]
<1>1. DOMAIN loop.ports = W
  OBVIOUS
<1>2. Insert(loop, u, port) = [failed |-> FALSE, used |-> loop.used \cup {port}, ports |-> ports]
  BY <1>1 DEF Insert
<1>3. ports \in [W \cup {u} -> Ports] /\ W \cup {u} \in SUBSET Uids
  OBVIOUS
<1>4. loop.used \in SUBSET Ports
  BY DEF LoopStates
<1> HIDE DEF ports
<1>5. ports \in UNION {[V -> Ports] : V \in SUBSET Uids}
  BY <1>3
<1> QED BY <1>2, <1>4, <1>5 DEF LoopStates

\* ... and so does a turn of the loop.
LEMMA TurnTypes ==
    ASSUME NEW st \in State, NEW loop \in LoopStates, NEW u \in Uids
    PROVE  Turn(st, loop, u) \in LoopStates
<1>1. PICK W \in SUBSET Uids : loop.ports \in [W -> Ports]
  BY DEF LoopStates
<1>2. CASE u \in Managed(st)
  BY <1>1, <1>2, Inserted, ManagedPorts DEF Turn
<1>3. CASE u \notin Managed(st) /\ Ports \subseteq loop.used
  <2>1. Turn(st, loop, u) = [loop EXCEPT !.failed = TRUE]
    BY <1>3 DEF Turn
  <2> QED BY <2>1 DEF LoopStates
<1>4. CASE u \notin Managed(st) /\ ~(Ports \subseteq loop.used)
  <2>1. Turn(st, loop, u) = Insert(loop, u, Least(Ports \ loop.used))
    BY <1>4 DEF Turn
  <2>2. Least(Ports \ loop.used) \in Ports
    BY <1>4, LeastIsLeast, OrderAssumption
  <2> DEFINE port == Least(Ports \ loop.used)
  <2> HIDE DEF port
  <2>3. port \in Ports
    BY <2>2 DEF port
  <2>4. Insert(loop, u, port) \in LoopStates
    BY <1>1, <2>3, Inserted
  <2> QED BY <2>1, <2>4 DEF port
<1> QED BY <1>2, <1>3, <1>4

\* The recursion that stands for the loop is one.
LEMMA LoopRuns ==
    ASSUME NEW st \in State, NEW manifest \in Manifest
    PROVE  /\ LoopBelow(st, manifest) \in [Nat -> LoopStates]
           /\ LoopBelow(st, manifest)[0] = LoopStart(st)
           /\ \A n \in Nat :
                 LoopBelow(st, manifest)[n + 1] =
                    IF LoopBelow(st, manifest)[n].failed \/ n \notin Wanted(manifest)
                    THEN LoopBelow(st, manifest)[n]
                    ELSE Turn(st, LoopBelow(st, manifest)[n], n)
<1> DEFINE After(n, loop) == IF loop.failed \/ n \notin Wanted(manifest) THEN loop
                             ELSE Turn(st, loop, n)
           g == [x \in Nat \X LoopStates |-> After(x[1], x[2])]
           Is(f) == f = [n \in Nat |-> IF n = 0 THEN LoopStart(st) ELSE After(n - 1, f[n - 1])]
<1>1. Wanted(manifest) \subseteq Uids
  BY DEF Wanted
<1>2. ASSUME NEW n \in Nat, NEW loop \in LoopStates PROVE After(n, loop) \in LoopStates
  BY <1>1, TurnTypes
<1>3. LoopStart(st) \in LoopStates
  <2>1. <<>> \in [{} -> Ports] /\ {} \in SUBSET Uids
    OBVIOUS
  <2>2. <<>> \in UNION {[W -> Ports] : W \in SUBSET Uids}
    BY <2>1
  <2> QED BY <2>2, ManagedPorts DEF LoopStart, LoopStates
<1> HIDE DEF After
<1>4. g \in [Nat \X LoopStates -> LoopStates]
  BY <1>2
<1>5. PICK f \in [Nat -> LoopStates] :
         f[0] = LoopStart(st) /\ \A n \in Nat : f[n + 1] = g[<<n, f[n]>>]
  <2> DEFINE S     == LoopStates
             start == LoopStart(st)
  <2> HIDE DEF g, S, start, Is
  <2>1. start \in S /\ g \in [Nat \X S -> S]
    BY <1>3, <1>4 DEF S, start
  <2>2. PICK f : Computes(f, S, start, g)
    BY <2>1, Recursion
  <2> QED BY <2>2 DEF S, start, Computes
<1>6. ASSUME NEW n \in Nat PROVE f[n + 1] = After(n, f[n])
  BY <1>5
<1>7. ASSUME NEW n \in Nat
      PROVE  f[n] = IF n = 0 THEN LoopStart(st) ELSE After(n - 1, f[n - 1])
  <2>1. CASE n = 0
    BY <2>1, <1>5
  <2>2. CASE n # 0
    <3>1. n - 1 \in Nat /\ (n - 1) + 1 = n
      BY <2>2
    <3> QED BY <3>1, <1>6, <2>2
  <2> QED BY <2>1, <2>2
<1>8. Is(f)
  BY <1>5, <1>7
<1>9. LoopBelow(st, manifest) = CHOOSE h : Is(h)
  BY DEF LoopBelow, After
<1>10. Is(LoopBelow(st, manifest))
  BY <1>8, <1>9
<1> DEFINE b == LoopBelow(st, manifest)
<1> HIDE DEF b
<1>11. b[0] = LoopStart(st) /\ \A n \in Nat : b[n + 1] = After(n, b[n])
  <2>1. Is(b)
    BY <1>10 DEF b
  <2>2. \A n \in Nat : n + 1 \in Nat /\ n + 1 # 0 /\ (n + 1) - 1 = n
    OBVIOUS
  <2> QED BY <2>1, <2>2
<1>12. b = [n \in Nat |-> b[n]]
  BY <1>10 DEF b
<1>13. ASSUME NEW n \in Nat PROVE b[n] = f[n]
  <2> DEFINE T == {m \in Nat : b[m] # f[m]}
  <2> SUFFICES ASSUME T # {} PROVE FALSE
    OBVIOUS
  <2>1. PICK m \in T : \A k \in T : m <= k
    <3> HIDE DEF T
    <3>1. T \subseteq Nat
      BY DEF T
    <3> QED BY <3>1, LeastNumber
  <2>2. m # 0 /\ m \in Nat /\ b[m] # f[m]
    BY <1>5, <1>11
  <2>3. m - 1 \in Nat /\ (m - 1) + 1 = m /\ ~(m <= m - 1)
    BY <2>2
  <2>4. b[m - 1] = f[m - 1]
    BY <2>1, <2>3
  <2> QED BY <2>2, <2>3, <2>4, <1>6, <1>11
<1>14. b \in [Nat -> LoopStates]
  BY <1>12, <1>13
<1> QED BY <1>11, <1>14 DEF b, After

\* The uids a loop has been through, and the ports it then holds for used.
Seen(manifest, n) == {u \in Wanted(manifest) : u < n}
Taken(st, manifest, n, ports) ==
    UsedPorts(st) \cup {ports[v] : v \in EarlierNew(st, manifest, n)}

RightPort(st, manifest, u, port, ports) ==
    IF u \in Managed(st) THEN port = PortOf(st, u)
    ELSE LowestOutside(port, Taken(st, manifest, u, ports))

\* The loop so far has given every uid it has seen the right port.
RightSoFar(st, manifest, n, loop) ==
    /\ loop.ports \in [Seen(manifest, n) -> Ports]
    /\ loop.used = Taken(st, manifest, n, loop.ports)
    /\ \A u \in Seen(manifest, n) : RightPort(st, manifest, u, loop.ports[u], loop.ports)

\* Ports given later to others do not change what an earlier uid found taken.
LEMMA TakenBefore ==
    ASSUME NEW st \in State, NEW manifest \in Manifest, NEW n \in Nat, NEW f, NEW g,
           \A v \in Seen(manifest, n) : f[v] = g[v]
    PROVE  /\ Taken(st, manifest, n, f) = Taken(st, manifest, n, g)
           /\ \A u \in Seen(manifest, n) :
                 Taken(st, manifest, u, f) = Taken(st, manifest, u, g)
<1>1. \A u \in Seen(manifest, n) : u \in Nat /\ u < n
  BY OrderAssumption DEF Seen, Wanted
<1>2. /\ EarlierNew(st, manifest, n) \subseteq Seen(manifest, n)
      /\ \A u \in Seen(manifest, n) : EarlierNew(st, manifest, u) \subseteq Seen(manifest, n)
  <2>1. NewUids(st, manifest) \subseteq Wanted(manifest)
    BY DEF NewUids
  <2>2. \A v \in Wanted(manifest) : v \in Nat
    BY OrderAssumption DEF Wanted
  <2>3. EarlierNew(st, manifest, n) \subseteq Seen(manifest, n)
    BY <2>1 DEF EarlierNew, Seen
  <2>4. ASSUME NEW u \in Seen(manifest, n), NEW v \in EarlierNew(st, manifest, u)
        PROVE  v \in Seen(manifest, n)
    <3>1. v \in Wanted(manifest) /\ v < u
      BY <2>1 DEF EarlierNew
    <3>2. v \in Nat /\ u \in Nat /\ u < n
      BY <1>1, <2>2, <3>1
    <3> QED BY <3>1, <3>2 DEF Seen
  <2> QED BY <2>3, <2>4
<1>3. ASSUME NEW E, E \subseteq Seen(manifest, n)
      PROVE  {f[v] : v \in E} = {g[v] : v \in E}
  BY <1>3
<1> QED BY <1>2, <1>3 DEF Taken

\* An insertion of the right port for n keeps the ports of the uids below n right.
LEMMA InsertKeepsRight ==
    ASSUME NEW st \in State, NEW manifest \in Manifest, NEW n \in Wanted(manifest),
           NEW loop \in LoopStates, RightSoFar(st, manifest, n, loop),
           NEW port \in Ports, RightPort(st, manifest, n, port, loop.ports)
    PROVE  RightSoFar(st, manifest, n + 1, Insert(loop, n, port))
<1>1. Wanted(manifest) \subseteq Uids /\ n \in Uids /\ n \in Nat
  BY OrderAssumption DEF Wanted
<1>b. /\ \A u \in Wanted(manifest) : u < n + 1 <=> u < n \/ u = n
      /\ ~(n < n)
  BY <1>1, OrderAssumption
<1>2. Seen(manifest, n + 1) = Seen(manifest, n) \cup {n} /\ n \notin Seen(manifest, n)
  BY <1>b DEF Seen
<1>3. Seen(manifest, n) \in SUBSET Uids /\ loop.ports \in [Seen(manifest, n) -> Ports]
  BY <1>1 DEF Seen, RightSoFar
<1> DEFINE after == Insert(loop, n, port)
           ports == [v \in Seen(manifest, n) \cup {n} |-> IF v = n THEN port ELSE loop.ports[v]]
<1>4. after.used = loop.used \cup {port} /\ after.ports = ports
  <2>1. DOMAIN loop.ports = Seen(manifest, n)
    BY <1>3
  <2>2. after = [failed |-> FALSE, used |-> loop.used \cup {port}, ports |-> ports]
    BY <2>1 DEF Insert
  <2> HIDE DEF after, ports
  <2> QED BY <2>2
<1> HIDE DEF after
<1>5. /\ ports \in [Seen(manifest, n + 1) -> Ports]
      /\ ports[n] = port
      /\ \A v \in Seen(manifest, n) : ports[v] = loop.ports[v]
  BY <1>2, <1>3
<1> HIDE DEF ports
<1>6. /\ Taken(st, manifest, n, ports) = Taken(st, manifest, n, loop.ports)
      /\ \A u \in Seen(manifest, n) :
            Taken(st, manifest, u, ports) = Taken(st, manifest, u, loop.ports)
  BY <1>1, <1>5, TakenBefore
<1>7. loop.used = Taken(st, manifest, n, ports)
  BY <1>6 DEF RightSoFar
<1>8. loop.used \cup {port} = Taken(st, manifest, n + 1, ports)
  <2>1. CASE n \in Managed(st)
    <3>1. port \in UsedPorts(st)
      BY <2>1 DEF RightPort, UsedPorts
    <3>2. EarlierNew(st, manifest, n + 1) = EarlierNew(st, manifest, n)
      BY <1>b, <2>1 DEF EarlierNew, NewUids
    <3> QED BY <1>7, <3>1, <3>2 DEF Taken
  <2>2. CASE n \notin Managed(st)
    <3>1. EarlierNew(st, manifest, n + 1) = EarlierNew(st, manifest, n) \cup {n}
      BY <1>b, <2>2 DEF EarlierNew, NewUids
    <3> QED BY <1>5, <1>7, <3>1 DEF Taken
  <2> QED BY <2>1, <2>2
<1>9. ASSUME NEW u \in Seen(manifest, n + 1)
      PROVE  RightPort(st, manifest, u, ports[u], ports)
  <2>1. CASE u = n
    BY <1>5, <1>6, <2>1 DEF RightPort
  <2>2. CASE u # n
    <3>1. u \in Seen(manifest, n)
      BY <1>2, <2>2
    <3>2. RightPort(st, manifest, u, loop.ports[u], loop.ports)
      BY <3>1 DEF RightSoFar
    <3> QED BY <1>5, <1>6, <3>1, <3>2 DEF RightPort
  <2> QED BY <2>1, <2>2
<1> QED BY <1>4, <1>5, <1>8, <1>9 DEF RightSoFar, after

\* What holds of the loop when it has gone through the uids below n: it has
\* failed only if more uids are new than ports are free, and otherwise has given
\* the right ports; and whatever solves the condition agrees with it.
LoopInv(st, manifest, n) ==
    LET loop == LoopBelow(st, manifest)[n]
    IN  /\ ~loop.failed => RightSoFar(st, manifest, n, loop)
        /\ loop.failed => Cardinality(NewUids(st, manifest))
                            > Cardinality(Ports \ UsedPorts(st))
        /\ \A f \in Allocations(st, manifest) :
              /\ ~loop.failed
              /\ \A u \in Seen(manifest, n) : f[u] = loop.ports[u]

\* Allocations, in terms of the right port of each uid.
LEMMA AllocationPorts ==
    ASSUME NEW st \in State, NEW manifest \in Manifest, NEW f
    PROVE  f \in Allocations(st, manifest) <=>
              /\ f \in [Wanted(manifest) -> Ports]
              /\ \A u \in Wanted(manifest) : RightPort(st, manifest, u, f[u], f)
BY DEF Allocations, RightPort, Taken

\* The new uids and the free ports can be counted.
LEMMA FiniteSides ==
    ASSUME NEW st \in State, NEW manifest \in Manifest
    PROVE  IsFiniteSet(NewUids(st, manifest)) /\ IsFiniteSet(Ports \ UsedPorts(st))
<1>1. /\ NewUids(st, manifest) \in SUBSET Nat
      /\ \A u \in NewUids(st, manifest) : u <= LastUid
      /\ LastUid \in Nat
  BY OrderAssumption, UidAssumption DEF NewUids, Wanted
<1>2. IsFiniteSet(NewUids(st, manifest))
  BY <1>1, FS_BoundedSetOfNaturals
<1>3. Ports \ UsedPorts(st) \in SUBSET Ports
  OBVIOUS
<1>4. IsFiniteSet(Ports \ UsedPorts(st))
  BY <1>3, PortAssumption, FS_Subset
<1> QED BY <1>2, <1>4

\* When every port is taken although a new uid is still to come, more uids are
\* new than ports were free.
LEMMA FullMeansTooMany ==
    ASSUME NEW st \in State, NEW manifest \in Manifest,
           NEW n \in NewUids(st, manifest), NEW ports,
           Ports \subseteq Taken(st, manifest, n, ports)
    PROVE  Cardinality(NewUids(st, manifest)) > Cardinality(Ports \ UsedPorts(st))
<1> DEFINE new  == NewUids(st, manifest)
           free == Ports \ UsedPorts(st)
           E    == {v \in EarlierNew(st, manifest, n) : ports[v] \in free}
           h    == [v \in E |-> ports[v]]
<1>1. IsFiniteSet(new) /\ IsFiniteSet(free)
  BY FiniteSides
<1>2. E \in SUBSET (new \ {n})
  <2>1. n \in Nat
    BY OrderAssumption DEF NewUids, Wanted
  <2> QED BY <2>1 DEF EarlierNew
<1>3. \A p \in free : \E v \in E : h[v] = p
  BY DEF Taken
<1>4. h \in Surjection(E, free)
  BY <1>3 DEF Surjection
<1> HIDE DEF h, E, free, new
<1>5. n \in new
  BY DEF new
<1>6. IsFiniteSet(new \ {n}) /\ Cardinality(new \ {n}) = Cardinality(new) - 1
  BY <1>1, <1>5, FS_RemoveElement
<1>7. IsFiniteSet(E) /\ Cardinality(E) <= Cardinality(new \ {n})
  BY <1>2, <1>6, FS_Subset
<1>8. Cardinality(free) <= Cardinality(E)
  BY <1>4, <1>7, FS_Surjection
<1>9. Cardinality(free) \in Nat /\ Cardinality(E) \in Nat /\ Cardinality(new) \in Nat
  BY <1>1, <1>7, FS_CardinalityType
<1>10. Cardinality(new) > Cardinality(free)
  BY <1>6, <1>7, <1>8, <1>9
<1> QED BY <1>10 DEF new, free

\* Ports for all new uids are as many free ports.
LEMMA SolutionFits ==
    ASSUME NEW st \in State, NEW manifest \in Manifest, NEW f \in Allocations(st, manifest)
    PROVE  ~(Cardinality(NewUids(st, manifest)) > Cardinality(Ports \ UsedPorts(st)))
<1> DEFINE new  == NewUids(st, manifest)
           free == Ports \ UsedPorts(st)
           h    == [u \in new |-> f[u]]
<1>1. /\ f \in [Wanted(manifest) -> Ports]
      /\ \A u \in Wanted(manifest) : RightPort(st, manifest, u, f[u], f)
  BY AllocationPorts
<1>2. ASSUME NEW u \in new
      PROVE  /\ u \in Wanted(manifest) /\ u \in Nat
             /\ f[u] \in free
             /\ \A v \in EarlierNew(st, manifest, u) : f[v] # f[u]
  <2>1. u \in Wanted(manifest) /\ u \notin Managed(st) /\ u \in Nat
    BY OrderAssumption DEF NewUids, Wanted
  <2>2. f[u] \in Ports /\ f[u] \notin Taken(st, manifest, u, f)
    BY <1>1, <2>1 DEF RightPort, LowestOutside
  <2> QED BY <2>1, <2>2 DEF Taken
<1>3. ASSUME NEW u \in new, NEW v \in new, f[u] = f[v] PROVE u = v
  <2>1. ~(u < v) /\ ~(v < u)
    BY <1>2, <1>3 DEF EarlierNew
  <2> QED BY <1>2, <2>1
<1>4. h \in Injection(new, free)
  BY <1>2, <1>3 DEF Injection, IsInjective
<1>5. IsFiniteSet(new) /\ IsFiniteSet(free)
  BY FiniteSides
<1> HIDE DEF h, new, free
<1>6. Cardinality(new) <= Cardinality(free)
  BY <1>4, <1>5, FS_Injection
<1>7. Cardinality(new) \in Nat /\ Cardinality(free) \in Nat
  BY <1>5, FS_CardinalityType
<1>8. ~(Cardinality(new) > Cardinality(free))
  BY <1>6, <1>7
<1> QED BY <1>8 DEF new, free

\* A turn of the loop gives the right port or fails because none is left.
LEMMA TurnKeepsInv ==
    ASSUME NEW st \in State, NEW manifest \in Manifest, NEW n \in Nat,
           LoopInv(st, manifest, n)
    PROVE  LoopInv(st, manifest, n + 1)
<1> DEFINE loop  == LoopBelow(st, manifest)[n]
           after == LoopBelow(st, manifest)[n + 1]
<1>1. /\ loop \in LoopStates
      /\ after = IF loop.failed \/ n \notin Wanted(manifest) THEN loop ELSE Turn(st, loop, n)
  BY LoopRuns
<1>2. /\ ~loop.failed => RightSoFar(st, manifest, n, loop)
      /\ loop.failed => Cardinality(NewUids(st, manifest)) > Cardinality(Ports \ UsedPorts(st))
      /\ \A f \in Allocations(st, manifest) :
            ~loop.failed /\ \A u \in Seen(manifest, n) : f[u] = loop.ports[u]
  BY DEF LoopInv
<1>g. SUFFICES
        /\ ~after.failed => RightSoFar(st, manifest, n + 1, after)
        /\ after.failed => Cardinality(NewUids(st, manifest)) > Cardinality(Ports \ UsedPorts(st))
        /\ \A f \in Allocations(st, manifest) :
              ~after.failed /\ \A u \in Seen(manifest, n + 1) : f[u] = after.ports[u]
  BY DEF LoopInv
<1> HIDE DEF loop, after
<1>3. \A u \in Wanted(manifest) : u \in Nat /\ (u < n + 1 <=> u < n \/ u = n)
  BY OrderAssumption DEF Wanted
<1>4. CASE loop.failed
  BY <1>1, <1>2, <1>4
<1>5. CASE ~loop.failed /\ n \notin Wanted(manifest)
  <2>1. after = loop
    BY <1>1, <1>5
  <2>2. Seen(manifest, n + 1) = Seen(manifest, n)
    BY <1>3, <1>5 DEF Seen
  <2>3. EarlierNew(st, manifest, n + 1) = EarlierNew(st, manifest, n)
    BY <1>3, <1>5 DEF EarlierNew, NewUids
  <2>4. RightSoFar(st, manifest, n + 1, loop)
    BY <1>2, <1>5, <2>2, <2>3 DEF RightSoFar, Taken
  <2> QED BY <1>2, <1>5, <2>1, <2>2, <2>4
<1>6. CASE ~loop.failed /\ n \in Wanted(manifest)
  <2>1. RightSoFar(st, manifest, n, loop) /\ after = Turn(st, loop, n) /\ n \in Uids
    BY <1>1, <1>2, <1>6 DEF Wanted
  <2>2. Seen(manifest, n + 1) = Seen(manifest, n) \cup {n} /\ n \notin Seen(manifest, n)
    <3>1. ~(n < n)
      OBVIOUS
    <3> QED BY <1>3, <1>6, <3>1 DEF Seen
  <2>3. /\ loop.ports \in [Seen(manifest, n) -> Ports]
        /\ loop.used = Taken(st, manifest, n, loop.ports)
    BY <2>1 DEF RightSoFar
  <2>4. ASSUME NEW f \in Allocations(st, manifest)
        PROVE  /\ f[n] \in Ports
               /\ RightPort(st, manifest, n, f[n], loop.ports)
               /\ \A u \in Seen(manifest, n) : f[u] = loop.ports[u]
    <3>1. \A u \in Seen(manifest, n) : f[u] = loop.ports[u]
      BY <1>2
    <3>2. f[n] \in Ports /\ RightPort(st, manifest, n, f[n], f)
      BY <1>6, AllocationPorts
    <3>3. Taken(st, manifest, n, f) = Taken(st, manifest, n, loop.ports)
      BY <3>1, TakenBefore
    <3> QED BY <3>1, <3>2, <3>3 DEF RightPort
  <2>5. ASSUME NEW port \in Ports, after = Insert(loop, n, port),
               RightPort(st, manifest, n, port, loop.ports),
               \A p \in Ports : RightPort(st, manifest, n, p, loop.ports) => p = port
        PROVE  /\ ~after.failed
               /\ RightSoFar(st, manifest, n + 1, after)
               /\ \A f \in Allocations(st, manifest) :
                     \A u \in Seen(manifest, n + 1) : f[u] = after.ports[u]
    <3>1. RightSoFar(st, manifest, n + 1, after)
      BY <1>1, <1>6, <2>1, <2>5, InsertKeepsRight
    <3>2. DOMAIN loop.ports = Seen(manifest, n)
      BY <2>3
    <3>3. /\ ~after.failed
          /\ after.ports = [v \in Seen(manifest, n) \cup {n} |->
                               IF v = n THEN port ELSE loop.ports[v]]
      BY <2>5, <3>2 DEF Insert
    <3>4. ASSUME NEW f \in Allocations(st, manifest), NEW u \in Seen(manifest, n + 1)
          PROVE  f[u] = after.ports[u]
      BY <2>2, <2>4, <2>5, <3>3
    <3> QED BY <3>1, <3>3, <3>4
  <2>6. CASE n \in Managed(st)
    <3>1. PortOf(st, n) \in Ports /\ after = Insert(loop, n, PortOf(st, n))
      BY <2>1, <2>6, ManagedPorts DEF Turn
    <3>2. \A p \in Ports : RightPort(st, manifest, n, p, loop.ports) <=> p = PortOf(st, n)
      BY <2>6 DEF RightPort
    <3> QED BY <2>5, <3>1, <3>2
  <2>7. CASE n \notin Managed(st) /\ Ports \subseteq loop.used
    <3>1. after = [loop EXCEPT !.failed = TRUE] /\ n \in NewUids(st, manifest)
      BY <1>6, <2>1, <2>7 DEF Turn, NewUids
    <3>2. after.failed
      BY <1>1, <3>1 DEF LoopStates
    <3>3. Cardinality(NewUids(st, manifest)) > Cardinality(Ports \ UsedPorts(st))
      BY <2>3, <2>7, <3>1, FullMeansTooMany
    <3>4. Allocations(st, manifest) = {}
      BY <2>3, <2>4, <2>7 DEF RightPort, LowestOutside
    <3> QED BY <3>2, <3>3, <3>4
  <2>8. CASE n \notin Managed(st) /\ ~(Ports \subseteq loop.used)
    <3> DEFINE port == Least(Ports \ loop.used)
    <3>1. after = Insert(loop, n, port)
      BY <2>1, <2>8 DEF Turn
    <3>2. port \in Ports \ loop.used /\ \A q \in Ports \ loop.used : port <= q
      BY <2>8, LeastIsLeast, OrderAssumption
    <3> HIDE DEF port
    <3>3. \A q \in Ports : q \in Nat
      BY OrderAssumption
    <3>4. \A p \in Ports : RightPort(st, manifest, n, p, loop.ports) <=> p = port
      <4>1. \A p \in Ports : RightPort(st, manifest, n, p, loop.ports)
                                <=> LowestOutside(p, loop.used)
        BY <2>3, <2>8 DEF RightPort
      <4>2. LowestOutside(port, loop.used)
        BY <3>2, <3>3 DEF LowestOutside
      <4>3. ASSUME NEW p \in Ports, LowestOutside(p, loop.used) PROVE p = port
        <5>1. ~(p < port) /\ ~(port < p)
          BY <3>2, <3>3, <4>3 DEF LowestOutside
        <5> QED BY <5>1, <3>2, <3>3
      <4> QED BY <4>1, <4>2, <4>3
    <3> QED BY <2>5, <3>1, <3>2, <3>4
  <2> QED BY <2>6, <2>7, <2>8
<1> QED BY <1>1, <1>4, <1>5, <1>6 DEF LoopStates

\* The invariant of the loop, by induction over the uids it goes through.
LEMMA LoopKeepsInv ==
    ASSUME NEW st \in State, NEW manifest \in Manifest
    PROVE  \A n \in Nat : LoopInv(st, manifest, n)
<1> DEFINE T == {n \in Nat : ~LoopInv(st, manifest, n)}
<1> SUFFICES ASSUME T # {} PROVE FALSE
  OBVIOUS
<1>1. PICK n \in T : \A m \in T : n <= m
  <2> HIDE DEF T
  <2>1. T \subseteq Nat
    BY DEF T
  <2> QED BY <2>1, LeastNumber
<1>2. n # 0
  <2>1. \A u \in Wanted(manifest) : ~(u < 0)
    BY OrderAssumption DEF Wanted
  <2>2. Seen(manifest, 0) = {} /\ EarlierNew(st, manifest, 0) = {}
    BY <2>1 DEF Seen, EarlierNew, NewUids
  <2>3. LoopBelow(st, manifest)[0] = [failed |-> FALSE, used |-> UsedPorts(st), ports |-> <<>>]
    BY LoopRuns DEF LoopStart
  <2>4. RightSoFar(st, manifest, 0, LoopBelow(st, manifest)[0])
    BY <2>2, <2>3 DEF RightSoFar, Taken
  <2>5. LoopInv(st, manifest, 0)
    BY <2>2, <2>3, <2>4 DEF LoopInv
  <2> QED BY <1>1, <2>5
<1>3. n - 1 \in Nat /\ (n - 1) + 1 = n /\ ~(n <= n - 1)
  BY <1>1, <1>2
<1>4. LoopInv(st, manifest, n - 1)
  BY <1>1, <1>3
<1>5. LoopInv(st, manifest, n)
  BY <1>3, <1>4, TurnKeepsInv
<1> QED BY <1>1, <1>5

\* The loop at its end.
LEMMA LoopSolves ==
    ASSUME NEW st \in State, NEW manifest \in Manifest
    PROVE  /\ Allocations(st, manifest) =
                 IF LoopEnd(st, manifest).failed THEN {} ELSE {LoopEnd(st, manifest).ports}
           /\ LoopEnd(st, manifest).failed <=>
                 Cardinality(NewUids(st, manifest)) > Cardinality(Ports \ UsedPorts(st))
<1> DEFINE n   == LastUid + 1
           end == LoopEnd(st, manifest)
<1>1. n \in Nat /\ end \in LoopStates
  BY UidAssumption, LoopRuns DEF LoopEnd
<1>2. Seen(manifest, n) = Wanted(manifest)
  <2>1. ASSUME NEW u \in Wanted(manifest) PROVE u < n
    <3>1. u \in Nat /\ u <= LastUid /\ LastUid \in Nat
      BY OrderAssumption, UidAssumption DEF Wanted
    <3> QED BY <3>1
  <2> QED BY <2>1 DEF Seen
<1>3. LoopInv(st, manifest, n)
  BY <1>1, LoopKeepsInv
<1>4. /\ ~end.failed => RightSoFar(st, manifest, n, end)
      /\ end.failed => Cardinality(NewUids(st, manifest)) > Cardinality(Ports \ UsedPorts(st))
      /\ \A f \in Allocations(st, manifest) :
            ~end.failed /\ \A u \in Wanted(manifest) : f[u] = end.ports[u]
  BY <1>2, <1>3 DEF LoopInv, LoopEnd
<1> HIDE DEF n, end
<1>5. CASE end.failed
  BY <1>4, <1>5 DEF end
<1>6. CASE ~end.failed
  <2>1. end.ports \in Allocations(st, manifest)
    BY <1>2, <1>4, <1>6, AllocationPorts DEF RightSoFar
  <2>2. ASSUME NEW f \in Allocations(st, manifest) PROVE f = end.ports
    <3>1. f \in [Wanted(manifest) -> Ports] /\ end.ports \in [Wanted(manifest) -> Ports]
      BY <2>1, AllocationPorts
    <3> QED BY <1>4, <3>1
  <2>3. Allocations(st, manifest) = {end.ports}
    BY <2>1, <2>2
  <2>4. ~(Cardinality(NewUids(st, manifest)) > Cardinality(Ports \ UsedPorts(st)))
    BY <2>1, SolutionFits
  <2> QED BY <1>6, <2>3, <2>4 DEF end
<1> QED BY <1>5, <1>6

\* In every reachable state and for every manifest the allocation of ports is
\* the result of the loop of resolve_next_policies, which fails exactly when more
\* uids are new than ports are free.
THEOREM AllocatesByLoop == Spec => []AllocationIsTheLoop
<1>1. TypeOK => AllocationIsTheLoop
  BY LoopSolves DEF TypeOK, AllocationIsTheLoop
<1> QED BY <1>1, TypeCorrect, PTL
=============================================================================
