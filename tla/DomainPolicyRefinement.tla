----------------------- MODULE DomainPolicyRefinement -----------------------
(***************************************************************************)
(* DomainPolicy implements PolicyTransaction.  The private copy of the open  *)
(* transaction is not kept by the code: it is what merging the staged work   *)
(* into the state in memory would give now, and the refinement says that this *)
(* is the copy taken at begin_sync with the edits made since.               *)
(***************************************************************************)
EXTENDS DomainPolicy

Copies == [id       : SyncIds,
           copy     : [Sources -> SourceState \cup {None}],
           written  : SUBSET Sources,
           manifest : Manifest \cup {None, BadUid}]

ASSUME CopyAssumption == None \notin Copies

Copy ==
    IF pending = None THEN None
    ELSE [id       |-> pending.sync_id,
          copy     |-> MergedSources(current, pending),
          written  |-> {s \in Sources : pending.updates[s] # None},
          manifest |-> pending.policies]

Deciding ==
    IF job = None \/ phase = "save" THEN None
    ELSE IF job.op = "restore" THEN None ELSE job.next

Transaction == INSTANCE PolicyTransaction WITH
    Revs     <- Revisions,
    Refused  <- BadUid,
    open     <- restored,
    store    <- current,
    durable  <- disk,
    txn      <- Copy,
    deciding <- Deciding

\* The staged calls, the one-call synchronisation, failures, crashes and
\* restores of the runtime are the steps of a transactional store: staged work
\* is isolated, commits whole or not at all, and survives a restart only whole.
ImplementsTransaction == Transaction!Spec

\* Needed for it: no work is staged while finalize_sync applies a state (the
\* Mutex is held), so the commit of that state ends no other transaction.
NothingStagedInFinalize == job # None /\ job.op = "finalize" => pending = None
=============================================================================
