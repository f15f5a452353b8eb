------------------------- MODULE PolicyTransaction -------------------------
(***************************************************************************)
(* What the domain policy runtime promises the server: a store of source    *)
(* lists and policies with at most one open transaction.  A transaction     *)
(* edits a private copy of the lists, taken when it begins; what it decides  *)
(* becomes the store as a whole or not at all; the durable copy is only ever *)
(* a whole store, and all that a new process starts from.                   *)
(* DomainPolicy implements this with a set of deletions and a map of updates *)
(* that are merged into the store at the end (DomainPolicyRefinement).      *)
(***************************************************************************)
EXTENDS Naturals

CONSTANTS Uids, Ports, Sources, Domains, Revs, SyncIds, Terms, None, Refused

VARIABLES
    open,       \* the process has loaded its store
    store,      \* the store in memory
    durable,    \* the stored copy, None before the first one
    txn,        \* the open transaction, None without one
    deciding    \* the store about to replace the one in memory

vars == <<open, store, durable, txn, deciding>>

Wants     == [sources : SUBSET Sources, terms : Terms]
Manifests == [Uids -> Wants \cup {None}]
Empty     == [sources  |-> [s \in Sources |-> None],
              policies |-> [u \in Uids |-> None]]

\* Who is managed, on which terms, follows the manifest; ports are stable for
\* who stays, unused before for who is new, and never shared.
Admissible(policies, manifest) ==
    /\ \A u \in Uids : (policies[u] = None) <=> (manifest[u] = None)
    /\ \A u \in Uids : manifest[u] # None =>
          /\ policies[u].sources = manifest[u].sources
          /\ policies[u].terms = manifest[u].terms
          /\ policies[u].port \in Ports
          /\ IF store.policies[u] # None
             THEN policies[u].port = store.policies[u].port
             ELSE \A v \in Uids : store.policies[v] # None =>
                      policies[u].port # store.policies[v].port
    /\ \A u, v \in Uids :
          (policies[u] # None /\ policies[v] # None /\ u # v) =>
              policies[u].port # policies[v].port

Init ==
    /\ open = FALSE
    /\ store = Empty
    /\ durable = None
    /\ txn = None
    /\ deciding = None

\* A new process loads the durable copy, or fails to and starts empty.
Load ==
    /\ ~open
    /\ open' = TRUE
    /\ store' \in {Empty, durable} \ {None}
    /\ UNCHANGED <<durable, txn, deciding>>

Begin(id) ==
    /\ open /\ deciding = None
    /\ txn' = [id |-> id, copy |-> store.sources, written |-> {}, manifest |-> None]
    /\ UNCHANGED <<open, store, durable, deciding>>

InTxn == open /\ deciding = None /\ txn # None

Delete(ids) ==
    /\ InTxn
    /\ txn' = [txn EXCEPT !.copy = [s \in Sources |-> IF s \in ids THEN None ELSE @[s]],
                          !.written = @ \ ids]
    /\ UNCHANGED <<open, store, durable, deciding>>

\* The first chunk of a source replaces its list, the next ones of the same
\* revision extend it; another revision only replaces chunks without domains.
Write(s, rev, domains) ==
    LET held == IF s \in txn.written THEN txn.copy[s].domains ELSE {}
    IN  /\ InTxn
        /\ held # {} => txn.copy[s].revision = rev
        /\ txn' = [txn EXCEPT
                      !.copy = [@ EXCEPT ![s] = [revision |-> rev, domains |-> held \cup domains]],
                      !.written = @ \cup {s}]
        /\ UNCHANGED <<open, store, durable, deciding>>

Assign(manifest) ==
    /\ InTxn
    /\ txn' = [txn EXCEPT !.manifest = manifest]
    /\ UNCHANGED <<open, store, durable, deciding>>

Drop ==
    /\ InTxn
    /\ txn' = None
    /\ UNCHANGED <<open, store, durable, deciding>>

\* The transaction ends with the decision for its copy and its manifest.
Decide ==
    /\ InTxn
    /\ txn.manifest \notin {None, Refused}
    /\ txn' = None
    /\ deciding' # None
    /\ deciding'.sources = txn.copy
    /\ Admissible(deciding'.policies, txn.manifest)
    /\ UNCHANGED <<open, store, durable>>

\* A one-call replacement; the open transaction ends only if it commits.
Replace ==
    /\ open /\ deciding = None
    /\ deciding' # None
    /\ \E manifest \in Manifests : Admissible(deciding'.policies, manifest)
    /\ UNCHANGED <<open, store, durable, txn>>

Commit ==
    /\ deciding # None
    /\ store' = deciding
    /\ deciding' = None
    /\ txn' = None
    /\ UNCHANGED <<open, durable>>

Retract ==
    /\ deciding # None
    /\ deciding' = None
    /\ UNCHANGED <<open, store, durable, txn>>

Persist ==
    /\ open /\ deciding = None
    /\ durable' = store
    /\ UNCHANGED <<open, store, txn, deciding>>

Restart ==
    /\ open' = FALSE
    /\ store' = Empty
    /\ txn' = None
    /\ deciding' = None
    /\ UNCHANGED durable

Next ==
    \/ Load \/ Drop \/ Decide \/ Replace \/ Commit \/ Retract \/ Persist \/ Restart
    \/ \E id \in SyncIds : Begin(id)
    \/ \E ids \in SUBSET Sources : Delete(ids)
    \/ \E s \in Sources, rev \in Revs, domains \in SUBSET Domains : Write(s, rev, domains)
    \/ \E manifest \in Manifests \cup {Refused} : Assign(manifest)

Spec == Init /\ [][Next]_vars
============================================================================
