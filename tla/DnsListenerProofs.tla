------------------------- MODULE DnsListenerProofs -------------------------
(***************************************************************************)
(* Proofs about DnsListener, for every set of ports, listeners, queries,     *)
(* names and policies and any number of faults.                             *)
(***************************************************************************)
EXTENDS DnsListener, TLAPS, FiniteSetTheorems

Cell == [port : Ports \cup {None}, policy : DnsPolicy \cup {None},
         task : TaskStates, stop : BOOLEAN]

-----------------------------------------------------------------------------
(* Types *)

\* A query in flight is one, and names the cells it reads.
LEMMA QueryTypes ==
    ASSUME TypeOK, NEW q \in Queries
    PROVE  Active(q) => query[q] \in ActiveQuery
BY DEF TypeOK, Active, NoQuery

\* The policy of a listener replaced.
LEMMA CellReplaced ==
    ASSUME NEW c \in Cell, NEW v
    PROVE  [c EXCEPT !.policy = v] =
              [port |-> c.port, task |-> c.task, stop |-> c.stop, policy |-> v]
BY DEF Cell

\* The cells the writer is at, and what it writes.
LEMMA WriterTypes ==
    ASSUME TypeOK, TableInv, writing # None
    PROVE  /\ writing \in [port : Ports, cell : Cells]
           /\ table[writing.port] \in Listeners
           /\ listeners[table[writing.port]].policy \in DnsPolicy
           /\ listeners[table[writing.port]] \in Cell
           /\ listeners[table[writing.port]].port = writing.port
           /\ job \in [Ports -> DnsPolicy \cup {None}]
           /\ job[writing.port] \in DnsPolicy
<1>1. writing \in [port : Ports, cell : Cells] /\ writing.port \in Ports
  BY DEF TypeOK
<1>2. job # None /\ job[writing.port] # None /\ table[writing.port] # None
  BY DEF TableInv, CellsInCall
<1>3. job \in [Ports -> DnsPolicy \cup {None}] /\ job[writing.port] \in DnsPolicy
  BY <1>1, <1>2 DEF TypeOK
<1>4. table[writing.port] \in Listeners
  BY <1>1, <1>2 DEF TypeOK
<1>5. /\ listeners[table[writing.port]].policy # None
      /\ listeners[table[writing.port]].port = writing.port
  BY <1>1, <1>2, <1>4 DEF TableInv, CellsFilled, TableFits
<1>6. listeners[table[writing.port]] \in Cell
  BY <1>4 DEF TypeOK, Cell
<1> QED BY <1>1, <1>3, <1>4, <1>5, <1>6 DEF Cell

LEMMA DroppedTypes ==
    ASSUME NEW ls \in [Listeners -> Cell], NEW qs, NEW ids
    PROVE  Dropped(ls, qs, ids) \in [Listeners -> Cell]
<1>1. NoListener \in Cell
  BY DEF NoListener, Cell, TaskStates
<1> QED BY <1>1 DEF Dropped

\* What a write does to the listeners.
Written(policy) ==
    [listeners EXCEPT ![table[writing.port]] =
        [port |-> writing.port, policy |-> policy,
         task |-> listeners[table[writing.port]].task,
         stop |-> listeners[table[writing.port]].stop]]

\* The policy in the cells once the one named cell is overwritten.
Updated(old, new, cell) ==
    [blocked |-> IF cell = "queued" THEN new.blocked ELSE old.blocked,
     allowed |-> IF cell = "allowed" THEN new.allowed ELSE old.allowed,
     mode    |-> IF cell = "mode" THEN new.mode ELSE old.mode,
     user    |-> IF cell = "user" THEN new.user ELSE old.user]

LEMMA Writing ==
    ASSUME TypeOK, TableInv, WriteList \/ WriteRest,
           NEW l, l = table[writing.port],
           NEW old, old = listeners[table[writing.port]].policy,
           NEW new, new = job[writing.port]
    PROVE  /\ Updated(old, new, writing.cell) \in DnsPolicy
           /\ listeners' = Written(Updated(old, new, writing.cell))
<1>1. writing # None
  BY DEF WriteList, WriteRest
<1>2. /\ l \in Listeners /\ listeners[l] \in Cell /\ listeners[l].port = writing.port
      /\ old \in DnsPolicy /\ new \in DnsPolicy
  BY <1>1, WriterTypes
<1>3. listeners \in [Listeners -> Cell]
  BY DEF TypeOK, Cell
<1>4. Updated(old, new, writing.cell) \in DnsPolicy
  BY <1>2 DEF Updated, DnsPolicy
<1>5. \A policy : Written(policy) =
         [listeners EXCEPT ![l] = [port |-> listeners[l].port, task |-> listeners[l].task,
                                   stop |-> listeners[l].stop, policy |-> policy]]
  BY <1>2 DEF Written
<1>6. l \in Listeners /\ listeners[l].policy \in DnsPolicy /\ listeners[l].policy = old
  BY <1>2
<1>7. \A v : [listeners[l] EXCEPT !.policy = v] =
          [port |-> listeners[l].port, task |-> listeners[l].task,
           stop |-> listeners[l].stop, policy |-> v]
  BY <1>3, <1>6, CellReplaced
<1>8. [listeners EXCEPT ![l].policy.blocked = new.blocked] = Written([blocked |-> new.blocked, allowed |-> old.allowed, mode |-> old.mode, user |-> old.user])
  <2>1. [listeners EXCEPT ![l].policy.blocked = new.blocked] =
            [listeners EXCEPT ![l] = [listeners[l] EXCEPT
                !.policy = [old EXCEPT !.blocked = new.blocked]]]
    BY <1>3, <1>6
  <2>2. [old EXCEPT !.blocked = new.blocked] =
            [blocked |-> new.blocked, allowed |-> old.allowed, mode |-> old.mode, user |-> old.user]
    BY <1>2 DEF DnsPolicy
  <2>3. [listeners[l] EXCEPT !.policy = [old EXCEPT !.blocked = new.blocked]] =
            [port |-> listeners[l].port, task |-> listeners[l].task, stop |-> listeners[l].stop,
             policy |-> [blocked |-> new.blocked, allowed |-> old.allowed, mode |-> old.mode, user |-> old.user]]
    BY <1>7, <2>2, Zenon
  <2> QED BY <1>5, <2>1, <2>3, Zenon
<1>9. [listeners EXCEPT ![l].policy.allowed = new.allowed] = Written([blocked |-> old.blocked, allowed |-> new.allowed, mode |-> old.mode, user |-> old.user])
  <2>1. [listeners EXCEPT ![l].policy.allowed = new.allowed] =
            [listeners EXCEPT ![l] = [listeners[l] EXCEPT
                !.policy = [old EXCEPT !.allowed = new.allowed]]]
    BY <1>3, <1>6
  <2>2. [old EXCEPT !.allowed = new.allowed] =
            [blocked |-> old.blocked, allowed |-> new.allowed, mode |-> old.mode, user |-> old.user]
    BY <1>2 DEF DnsPolicy
  <2>3. [listeners[l] EXCEPT !.policy = [old EXCEPT !.allowed = new.allowed]] =
            [port |-> listeners[l].port, task |-> listeners[l].task, stop |-> listeners[l].stop,
             policy |-> [blocked |-> old.blocked, allowed |-> new.allowed, mode |-> old.mode, user |-> old.user]]
    BY <1>7, <2>2, Zenon
  <2> QED BY <1>5, <2>1, <2>3, Zenon
<1>10. [listeners EXCEPT ![l].policy.mode = new.mode] = Written([blocked |-> old.blocked, allowed |-> old.allowed, mode |-> new.mode, user |-> old.user])
  <2>1. [listeners EXCEPT ![l].policy.mode = new.mode] =
            [listeners EXCEPT ![l] = [listeners[l] EXCEPT
                !.policy = [old EXCEPT !.mode = new.mode]]]
    BY <1>3, <1>6
  <2>2. [old EXCEPT !.mode = new.mode] =
            [blocked |-> old.blocked, allowed |-> old.allowed, mode |-> new.mode, user |-> old.user]
    BY <1>2 DEF DnsPolicy
  <2>3. [listeners[l] EXCEPT !.policy = [old EXCEPT !.mode = new.mode]] =
            [port |-> listeners[l].port, task |-> listeners[l].task, stop |-> listeners[l].stop,
             policy |-> [blocked |-> old.blocked, allowed |-> old.allowed, mode |-> new.mode, user |-> old.user]]
    BY <1>7, <2>2, Zenon
  <2> QED BY <1>5, <2>1, <2>3, Zenon
<1>11. [listeners EXCEPT ![l].policy.user = new.user] = Written([blocked |-> old.blocked, allowed |-> old.allowed, mode |-> old.mode, user |-> new.user])
  <2>1. [listeners EXCEPT ![l].policy.user = new.user] =
            [listeners EXCEPT ![l] = [listeners[l] EXCEPT
                !.policy = [old EXCEPT !.user = new.user]]]
    BY <1>3, <1>6
  <2>2. [old EXCEPT !.user = new.user] =
            [blocked |-> old.blocked, allowed |-> old.allowed, mode |-> old.mode, user |-> new.user]
    BY <1>2 DEF DnsPolicy
  <2>3. [listeners[l] EXCEPT !.policy = [old EXCEPT !.user = new.user]] =
            [port |-> listeners[l].port, task |-> listeners[l].task, stop |-> listeners[l].stop,
             policy |-> [blocked |-> old.blocked, allowed |-> old.allowed, mode |-> old.mode, user |-> new.user]]
    BY <1>7, <2>2, Zenon
  <2> QED BY <1>5, <2>1, <2>3, Zenon
<1>12. CASE WriteList
  <2>1. writing.cell = "queued" /\ listeners' = [listeners EXCEPT ![l].policy.blocked = new.blocked]
    BY <1>12 DEF WriteList
  <2> QED BY <2>1, <1>4, <1>8 DEF Updated
<1>13. CASE WriteRest
  <2>1. CASE writing.cell = "allowed"
    <3>1. listeners' = [listeners EXCEPT ![l].policy.allowed = new.allowed]
      BY <1>13, <2>1 DEF WriteRest
    <3> QED BY <2>1, <3>1, <1>4, <1>9 DEF Updated
  <2>2. CASE writing.cell = "mode"
    <3>1. listeners' = [listeners EXCEPT ![l].policy.mode = new.mode]
      BY <1>13, <2>2 DEF WriteRest
    <3> QED BY <2>2, <3>1, <1>4, <1>10 DEF Updated
  <2>3. CASE writing.cell = "user"
    <3>1. listeners' = [listeners EXCEPT ![l].policy.user = new.user]
      BY <1>13, <2>3 DEF WriteRest
    <3> QED BY <2>3, <3>1, <1>4, <1>11 DEF Updated
  <2> QED BY <1>13, <2>1, <2>2, <2>3 DEF WriteRest
<1> QED BY <1>12, <1>13

\* A query at another step, with what it has read.
Moved(q, step, list, mode, user) ==
    [query EXCEPT ![q] =
        [step |-> step, via |-> query[q].via, at |-> query[q].at, name |-> query[q].name,
         list |-> list, mode |-> mode, user |-> user,
         owner |-> query[q].owner, calm |-> query[q].calm, steady |-> query[q].steady]]

\* Two fields of a query written.
LEMMA QueryWritten ==
    ASSUME NEW r \in ActiveQuery, NEW s, NEW v
    PROVE  /\ [r EXCEPT !.step = s, !.list = v] =
                [step |-> s, via |-> r.via, at |-> r.at, name |-> r.name,
                 list |-> v, mode |-> r.mode, user |-> r.user, owner |-> r.owner, calm |-> r.calm, steady |-> r.steady]
           /\ [r EXCEPT !.step = s, !.mode = v] =
                [step |-> s, via |-> r.via, at |-> r.at, name |-> r.name,
                 list |-> r.list, mode |-> v, user |-> r.user, owner |-> r.owner, calm |-> r.calm, steady |-> r.steady]
           /\ [r EXCEPT !.step = s, !.user = v] =
                [step |-> s, via |-> r.via, at |-> r.at, name |-> r.name,
                 list |-> r.list, mode |-> r.mode, user |-> v, owner |-> r.owner, calm |-> r.calm, steady |-> r.steady]
<1>1. [r EXCEPT !.step = s] =
                [step |-> s, via |-> r.via, at |-> r.at, name |-> r.name,
                 list |-> r.list, mode |-> r.mode, user |-> r.user, owner |-> r.owner, calm |-> r.calm, steady |-> r.steady]
  BY DEF ActiveQuery
<1>2. [r EXCEPT !.step = s, !.list = v] =
                [step |-> s, via |-> r.via, at |-> r.at, name |-> r.name,
                 list |-> v, mode |-> r.mode, user |-> r.user, owner |-> r.owner, calm |-> r.calm, steady |-> r.steady]
  <2>1. [[step |-> s, via |-> r.via, at |-> r.at, name |-> r.name,
                 list |-> r.list, mode |-> r.mode, user |-> r.user, owner |-> r.owner, calm |-> r.calm, steady |-> r.steady] EXCEPT !.list = v] =
                [step |-> s, via |-> r.via, at |-> r.at, name |-> r.name,
                 list |-> v, mode |-> r.mode, user |-> r.user, owner |-> r.owner, calm |-> r.calm, steady |-> r.steady]
    OBVIOUS
  <2>2. [r EXCEPT !.step = s, !.list = v] = [[r EXCEPT !.step = s] EXCEPT !.list = v]
    BY Zenon
  <2> QED BY <1>1, <2>1, <2>2, Zenon
<1>3. [r EXCEPT !.step = s, !.mode = v] =
                [step |-> s, via |-> r.via, at |-> r.at, name |-> r.name,
                 list |-> r.list, mode |-> v, user |-> r.user, owner |-> r.owner, calm |-> r.calm, steady |-> r.steady]
  <2>1. [[step |-> s, via |-> r.via, at |-> r.at, name |-> r.name,
                 list |-> r.list, mode |-> r.mode, user |-> r.user, owner |-> r.owner, calm |-> r.calm, steady |-> r.steady] EXCEPT !.mode = v] =
                [step |-> s, via |-> r.via, at |-> r.at, name |-> r.name,
                 list |-> r.list, mode |-> v, user |-> r.user, owner |-> r.owner, calm |-> r.calm, steady |-> r.steady]
    OBVIOUS
  <2>2. [r EXCEPT !.step = s, !.mode = v] = [[r EXCEPT !.step = s] EXCEPT !.mode = v]
    BY Zenon
  <2> QED BY <1>1, <2>1, <2>2, Zenon
<1>4. [r EXCEPT !.step = s, !.user = v] =
                [step |-> s, via |-> r.via, at |-> r.at, name |-> r.name,
                 list |-> r.list, mode |-> r.mode, user |-> v, owner |-> r.owner, calm |-> r.calm, steady |-> r.steady]
  <2>1. [[step |-> s, via |-> r.via, at |-> r.at, name |-> r.name,
                 list |-> r.list, mode |-> r.mode, user |-> r.user, owner |-> r.owner, calm |-> r.calm, steady |-> r.steady] EXCEPT !.user = v] =
                [step |-> s, via |-> r.via, at |-> r.at, name |-> r.name,
                 list |-> r.list, mode |-> r.mode, user |-> v, owner |-> r.owner, calm |-> r.calm, steady |-> r.steady]
    OBVIOUS
  <2>2. [r EXCEPT !.step = s, !.user = v] = [[r EXCEPT !.step = s] EXCEPT !.user = v]
    BY Zenon
  <2> QED BY <1>1, <2>1, <2>2, Zenon
<1> QED BY <1>2, <1>3, <1>4, Zenon

LEMMA Reading ==
    ASSUME TypeOK, NEW q \in Queries
    PROVE  /\ ReadList(q) =>
                 query' = Moved(q, "listed", CellsOf(q).policy.blocked, query[q].mode, query[q].user)
           /\ Judge(q) =>
                 query' = Moved(q, IF Refuses(query[q].list, CellsOf(q).policy.allowed, query[q].name)
                                   THEN "mode" ELSE "forward",
                                None, query[q].mode, query[q].user)
           /\ ReadMode(q) =>
                 query' = Moved(q, "user", query[q].list, CellsOf(q).policy.mode, query[q].user)
           /\ ReadUser(q) =>
                 query' = Moved(q, "notify", query[q].list, query[q].mode, CellsOf(q).policy.user)
<1>1. query \in [Queries -> ActiveQuery \cup {NoQuery}]
  BY DEF TypeOK
<1>2. ASSUME query[q] \in ActiveQuery
      PROVE  \A s, v :
                /\ [query[q] EXCEPT !.step = s, !.list = v] =
                     [step |-> s, via |-> query[q].via, at |-> query[q].at, name |-> query[q].name,
                      list |-> v, mode |-> query[q].mode, user |-> query[q].user,
                      owner |-> query[q].owner, calm |-> query[q].calm, steady |-> query[q].steady]
                /\ [query[q] EXCEPT !.step = s, !.mode = v] =
                     [step |-> s, via |-> query[q].via, at |-> query[q].at, name |-> query[q].name,
                      list |-> query[q].list, mode |-> v, user |-> query[q].user,
                      owner |-> query[q].owner, calm |-> query[q].calm, steady |-> query[q].steady]
                /\ [query[q] EXCEPT !.step = s, !.user = v] =
                     [step |-> s, via |-> query[q].via, at |-> query[q].at, name |-> query[q].name,
                      list |-> query[q].list, mode |-> query[q].mode, user |-> v,
                      owner |-> query[q].owner, calm |-> query[q].calm, steady |-> query[q].steady]
  BY <1>2, QueryWritten, Zenon
<1>3. ASSUME query[q] \in ActiveQuery, NEW s, NEW v
      PROVE  /\ [query EXCEPT ![q].step = s, ![q].list = v] =
                    [query EXCEPT ![q] = [query[q] EXCEPT !.step = s, !.list = v]]
             /\ [query EXCEPT ![q].step = s, ![q].mode = v] =
                    [query EXCEPT ![q] = [query[q] EXCEPT !.step = s, !.mode = v]]
             /\ [query EXCEPT ![q].step = s, ![q].user = v] =
                    [query EXCEPT ![q] = [query[q] EXCEPT !.step = s, !.user = v]]
  BY <1>1, <1>3 DEF ActiveQuery, NoQuery
<1>4. Active(q) => query[q] \in ActiveQuery
  BY QueryTypes
<1>5. ASSUME ReadList(q) PROVE query' = Moved(q, "listed", CellsOf(q).policy.blocked, query[q].mode, query[q].user)
  <2>1. query[q] \in ActiveQuery
    BY <1>4, <1>5 DEF ReadList, Active
  <2> DEFINE b == CellsOf(q).policy.blocked
  <2>2. query' = [query EXCEPT ![q].step = "listed", ![q].list = b]
    BY <1>5 DEF ReadList, CellsOf
  <2> HIDE DEF b
  <2>3. query' = [query EXCEPT ![q] = [query[q] EXCEPT !.step = "listed", !.list = b]]
    BY <1>3, <2>1, <2>2, Zenon
  <2>4. [query[q] EXCEPT !.step = "listed", !.list = b] =
            [step |-> "listed", via |-> query[q].via, at |-> query[q].at, name |-> query[q].name,
             list |-> b, mode |-> query[q].mode, user |-> query[q].user, owner |-> query[q].owner, calm |-> query[q].calm, steady |-> query[q].steady]
    BY <1>2, <2>1, Zenon
  <2>5. query' = Moved(q, "listed", b, query[q].mode, query[q].user)
    BY <2>3, <2>4, Zenon DEF Moved
  <2> QED BY <2>5 DEF b
<1>6. ASSUME Judge(q)
      PROVE  query' = Moved(q, IF Refuses(query[q].list, CellsOf(q).policy.allowed, query[q].name)
                               THEN "mode" ELSE "forward",
                            None, query[q].mode, query[q].user)
  <2>1. query[q] \in ActiveQuery
    BY <1>4, <1>6 DEF Judge, Active
  <2> DEFINE s == IF Refuses(query[q].list, CellsOf(q).policy.allowed, query[q].name)
                  THEN "mode" ELSE "forward"
  <2>2. query' = [query EXCEPT ![q].step = s, ![q].list = None]
    BY <1>6 DEF Judge, CellsOf
  <2> HIDE DEF s
  <2>3. query' = [query EXCEPT ![q] = [query[q] EXCEPT !.step = s, !.list = None]]
    BY <1>3, <2>1, <2>2, Zenon
  <2>4. [query[q] EXCEPT !.step = s, !.list = None] =
            [step |-> s, via |-> query[q].via, at |-> query[q].at, name |-> query[q].name,
             list |-> None, mode |-> query[q].mode, user |-> query[q].user, owner |-> query[q].owner, calm |-> query[q].calm, steady |-> query[q].steady]
    BY <1>2, <2>1, Zenon
  <2>5. query' = Moved(q, s, None, query[q].mode, query[q].user)
    BY <2>3, <2>4, Zenon DEF Moved
  <2> QED BY <2>5 DEF s
<1>7. ASSUME ReadMode(q) PROVE query' = Moved(q, "user", query[q].list, CellsOf(q).policy.mode, query[q].user)
  <2>1. query[q] \in ActiveQuery
    BY <1>4, <1>7 DEF ReadMode, Active
  <2>2. query' = [query EXCEPT ![q].step = "user", ![q].mode = CellsOf(q).policy.mode]
    BY <1>7 DEF ReadMode, CellsOf
  <2>3. query' = [query EXCEPT ![q] = [query[q] EXCEPT !.step = "user", !.mode = CellsOf(q).policy.mode]]
    BY <1>3, <2>1, <2>2, Zenon
  <2> QED BY <1>2, <2>1, <2>3, Zenon DEF Moved
<1>8. ASSUME ReadUser(q) PROVE query' = Moved(q, "notify", query[q].list, query[q].mode, CellsOf(q).policy.user)
  <2>1. query[q] \in ActiveQuery
    BY <1>4, <1>8 DEF ReadUser, Active
  <2>2. query' = [query EXCEPT ![q].step = "notify", ![q].user = CellsOf(q).policy.user]
    BY <1>8 DEF ReadUser, CellsOf
  <2>3. query' = [query EXCEPT ![q] = [query[q] EXCEPT !.step = "notify", !.user = CellsOf(q).policy.user]]
    BY <1>3, <2>1, <2>2, Zenon
  <2> QED BY <1>2, <2>1, <2>3, Zenon DEF Moved
<1> QED BY <1>5, <1>6, <1>7, <1>8

\* A query that ends leaves its slot free.
LEMMA EndTypes ==
    ASSUME TypeOK, NEW q \in Queries, NEW ls \in [Listeners -> Cell], End(q, ls)
    PROVE  /\ query' \in [Queries -> ActiveQuery \cup {NoQuery}]
           /\ listeners' \in [Listeners -> Cell]
BY DroppedTypes DEF End, TypeOK

LEMMA DiedTypes ==
    ASSUME TypeOK, NEW l \in Listeners
    PROVE  Died(l) \in [Listeners -> Cell]
<1>1. listeners \in [Listeners -> Cell]
  BY DEF TypeOK, Cell
<1> QED BY <1>1 DEF Died, Cell, TaskStates

LEMMA MovedTypes ==
    ASSUME TypeOK, NEW q \in Queries, query[q] \in ActiveQuery,
           NEW step \in Steps \ {"free"}, NEW list \in (SUBSET Names) \cup {None},
           NEW mode \in Modes \cup {None}, NEW user \in Users \cup {None}
    PROVE  Moved(q, step, list, mode, user) \in [Queries -> ActiveQuery \cup {NoQuery}]
BY DEF TypeOK, Moved, ActiveQuery

\* What a query reads are the cells of a policy.
LEMMA ReadTypes ==
    ASSUME TypeOK, TableInv, QueriesKeepCells, NEW q \in Queries, Active(q)
    PROVE  /\ query[q] \in ActiveQuery /\ query[q].at \in Listeners
           /\ CellsOf(q) \in Cell /\ CellsOf(q).port \in Ports
           /\ CellsOf(q).policy \in DnsPolicy
<1>1. query[q] \in ActiveQuery
  BY QueryTypes
<1>2. query[q].at \in Listeners
  BY <1>1 DEF ActiveQuery
<1>3. CellsOf(q) \in Cell
  BY <1>2 DEF TypeOK, Cell, CellsOf
<1>4. CellsOf(q).task # "none"
  BY DEF QueriesKeepCells
<1> QED BY <1>1, <1>2, <1>3, <1>4 DEF TableInv, CellsFilled, CellsOf, Cell

\* The flags of a query written.
LEMMA FlagsWritten ==
    ASSUME NEW r \in ActiveQuery, NEW c, NEW v
    PROVE  [r EXCEPT !.calm = c, !.steady = v] =
              [step |-> r.step, via |-> r.via, at |-> r.at, name |-> r.name, list |-> r.list,
               mode |-> r.mode, user |-> r.user, owner |-> r.owner, calm |-> c, steady |-> v]
<1>1. [r EXCEPT !.calm = c] =
         [step |-> r.step, via |-> r.via, at |-> r.at, name |-> r.name, list |-> r.list,
          mode |-> r.mode, user |-> r.user, owner |-> r.owner, calm |-> c, steady |-> r.steady]
  BY DEF ActiveQuery
<1>2. [[step |-> r.step, via |-> r.via, at |-> r.at, name |-> r.name, list |-> r.list,
        mode |-> r.mode, user |-> r.user, owner |-> r.owner, calm |-> c, steady |-> r.steady]
          EXCEPT !.steady = v] =
         [step |-> r.step, via |-> r.via, at |-> r.at, name |-> r.name, list |-> r.list,
          mode |-> r.mode, user |-> r.user, owner |-> r.owner, calm |-> c, steady |-> v]
  OBVIOUS
<1>3. [r EXCEPT !.calm = c, !.steady = v] = [[r EXCEPT !.calm = c] EXCEPT !.steady = v]
  BY Zenon
<1> QED BY <1>1, <1>2, <1>3, Zenon

\* What a reconcile that begins changes of a query.
LEMMA ReconcileQuery ==
    ASSUME TypeOK, NEW next, Reconcile(next), NEW q \in Queries, Active(q)
    PROVE  query'[q] = [step |-> query[q].step, via |-> query[q].via, at |-> query[q].at,
                        name |-> query[q].name, list |-> query[q].list, mode |-> query[q].mode,
                        user |-> query[q].user, owner |-> query[q].owner, calm |-> FALSE,
                        steady |-> query[q].steady /\ ~Reassigns(next, query[q].at)]
           /\ query'[q] \in ActiveQuery
<1>1. query[q] \in ActiveQuery
  BY QueryTypes
<1>2. PICK steady \in BOOLEAN : steady = (query[q].steady /\ ~Reassigns(next, query[q].at))
  OBVIOUS
<1>3. query'[q] = [query[q] EXCEPT !.calm = FALSE, !.steady = steady]
  BY <1>2 DEF Reconcile
<1>4. [query[q] EXCEPT !.calm = FALSE, !.steady = steady] =
         [step |-> query[q].step, via |-> query[q].via, at |-> query[q].at,
          name |-> query[q].name, list |-> query[q].list, mode |-> query[q].mode,
          user |-> query[q].user, owner |-> query[q].owner, calm |-> FALSE, steady |-> steady]
  BY <1>1, FlagsWritten, Zenon
<1>5. [step |-> query[q].step, via |-> query[q].via, at |-> query[q].at,
          name |-> query[q].name, list |-> query[q].list, mode |-> query[q].mode,
          user |-> query[q].user, owner |-> query[q].owner, calm |-> FALSE, steady |-> steady]
          \in ActiveQuery
  BY <1>1 DEF ActiveQuery
<1> QED BY <1>2, <1>3, <1>4, <1>5, Zenon

LEMMA TypeStep ==
    ASSUME TypeOK, TableInv, QueriesKeepCells, [Next]_vars
    PROVE  TypeOK'
<1> USE DEF TypeOK
<1>0. listeners \in [Listeners -> Cell]
  BY DEF Cell
<1>1. ASSUME NEW next \in [Ports -> Policies \cup {None}], Reconcile(next) PROVE TypeOK'
  <2>1. next \in [Ports -> DnsPolicy \cup {None}]
    BY DnsPolicyAssumption
  <2>2. query' \in [Queries -> ActiveQuery \cup {NoQuery}]
    <3>1. \A k \in Queries : Active(k) => query'[k] \in ActiveQuery
      BY <1>1, ReconcileQuery, QueryTypes
    <3>2. \A k \in Queries : ~Active(k) => query'[k] = query[k]
      BY <1>1 DEF Reconcile
    <3>3. query' = [k \in Queries |-> query'[k]]
      BY <1>1 DEF Reconcile
    <3> QED BY <3>1, <3>2, <3>3
  <2>3. faults' \in 0..MaxFaults
    <3>1. faults' = faults \/ (faults < MaxFaults /\ faults' = faults + 1)
      BY <1>1, Zenon DEF Reconcile, Fault
    <3> QED BY <3>1, DnsFaultAssumption
  <2> QED BY <1>1, <2>1, <2>2, <2>3 DEF Reconcile
<1>2. ASSUME NEW p \in Ports, Spawn(p) PROVE TypeOK'
  <2>1. PICK l \in Listeners :
           /\ listeners' = [listeners EXCEPT
                ![l] = [port |-> p, policy |-> job[p], task |-> "starting", stop |-> FALSE]]
           /\ table' = [table EXCEPT ![p] = l]
    BY <1>2, Zenon DEF Spawn
  <2>2. job[p] \in DnsPolicy \cup {None}
    BY <1>2 DEF Spawn, InLoop
  <2>3. listeners' \in [Listeners -> Cell]
    BY <1>0, <2>1, <2>2 DEF Cell, TaskStates
  <2>4. table' \in [Ports -> Listeners \cup {None}]
    BY <2>1
  <2> QED BY <1>2, <2>3, <2>4 DEF Spawn, Cell
<1>3. ASSUME NEW p \in Ports, Overwrite(p) PROVE TypeOK'
  BY <1>3 DEF Overwrite, Cells
<1>4. ASSUME NEW p \in Ports, StopStale(p) PROVE TypeOK'
  <2>1. table[p] \in Listeners
    BY <1>4 DEF StopStale, Stale
  <2>2. listeners' \in [Listeners -> Cell]
    BY <1>0, <1>4, <2>1 DEF StopStale, Cell
  <2>3. table' \in [Ports -> Listeners \cup {None}] /\ stopping' \in Listeners
    BY <1>4, <2>1 DEF StopStale
  <2> QED BY <1>4, <2>2, <2>3 DEF StopStale, Cell
<1>5. CASE AskForList
  <2>1. writing' \in [port : Ports, cell : Cells]
    BY <1>5 DEF AskForList, Cells
  <2> QED BY <1>5, <2>1 DEF AskForList
<1>6. CASE WriteList \/ WriteRest
  <2>1. writing # None /\ writing \in [port : Ports, cell : Cells]
    BY <1>6 DEF WriteList, WriteRest
  <2>2. listeners' \in [Listeners -> Cell]
    <3> DEFINE policy == Updated(listeners[table[writing.port]].policy, job[writing.port], writing.cell)
    <3>1. policy \in DnsPolicy /\ listeners' = Written(policy)
      BY <1>6, Writing
    <3>2. table[writing.port] \in Listeners /\ listeners[table[writing.port]] \in Cell
      BY <2>1, WriterTypes
    <3> HIDE DEF policy
    <3> QED BY <1>0, <2>1, <3>1, <3>2 DEF Written, Cell
  <2>3. writing' \in [port : Ports, cell : Cells] \cup {None}
    <3>1. CASE WriteList
      BY <2>1, <3>1 DEF WriteList, Cells, CellAfter
    <3>2. CASE WriteRest
      BY <2>1, <3>2 DEF WriteRest, Cells, CellAfter
    <3> QED BY <1>6, <3>1, <3>2
  <2> QED BY <1>6, <2>2, <2>3 DEF WriteList, WriteRest, Cell
<1>7. CASE JoinStale
  <2>1. listeners' \in [Listeners -> Cell]
    BY <1>0, <1>7, DroppedTypes DEF JoinStale
  <2> QED BY <1>7, <2>1 DEF JoinStale, Cell
<1>8. CASE Return
  BY <1>8 DEF Return, InLoop
<1>9. ASSUME NEW l \in Listeners, Bind(l) PROVE TypeOK'
  <2>1. listeners' \in [Listeners -> Cell]
    <3>1. [listeners EXCEPT ![l].task = "serving"] \in [Listeners -> Cell]
      BY <1>0 DEF Cell, TaskStates
    <3> QED BY <1>9, <3>1, DiedTypes DEF Bind
  <2>2. faults' \in 0..MaxFaults
    BY <1>9, DnsFaultAssumption DEF Bind, Fault
  <2> QED BY <1>9, <2>1, <2>2 DEF Bind, Cell
<1>10. ASSUME NEW l \in Listeners, ShutDown(l) PROVE TypeOK'
  <2>1. listeners' \in [Listeners -> Cell]
    BY <1>10, DiedTypes DEF ShutDown
  <2> QED BY <1>10, <2>1 DEF ShutDown, Cell
<1>11. ASSUME NEW l \in Listeners, SocketFails(l) PROVE TypeOK'
  <2>1. listeners' \in [Listeners -> Cell]
    BY <1>11, DiedTypes DEF SocketFails
  <2>2. faults' \in 0..MaxFaults
    BY <1>11, DnsFaultAssumption DEF SocketFails, Fault
  <2> QED BY <1>11, <2>1, <2>2 DEF SocketFails, Cell
<1>12. ASSUME NEW l \in Listeners, NEW q \in Queries, NEW via \in {"udp", "tcp"}, NEW name \in Names,
              Receive(q, l, via, name)
       PROVE  TypeOK'
  <2>1. listeners[l].policy \in DnsPolicy
    <3>1. listeners[l].task # "none"
      BY <1>12 DEF Receive
    <3>2. listeners[l].policy # None
      BY <3>1 DEF TableInv, CellsFilled
    <3> QED BY <3>2, <1>0 DEF Cell
  <2>2. query' \in [Queries -> ActiveQuery \cup {NoQuery}]
    <3>1. listeners[l].policy.user \in Users
      BY <2>1 DEF DnsPolicy
    <3> DEFINE new == [step |-> "arrived", via |-> via, at |-> l, name |-> name, list |-> None,
           mode |-> None, user |-> None, owner |-> listeners[l].policy.user,
           calm |-> job = None, steady |-> job = None \/ ~Reassigns(job, l)]
    <3>2. new \in ActiveQuery
      <4>1. PICK calm \in BOOLEAN, steady \in BOOLEAN :
               calm = (job = None) /\ steady = (job = None \/ ~Reassigns(job, l))
        OBVIOUS
      <4>2. new = [step |-> "arrived", via |-> via, at |-> l, name |-> name, list |-> None,
                   mode |-> None, user |-> None, owner |-> listeners[l].policy.user,
                   calm |-> calm, steady |-> steady]
        BY <4>1, Zenon
      <4> HIDE DEF new
      <4>3. "arrived" \in Steps \ {"free"} /\ None \in (SUBSET Names) \cup {None}
              /\ None \in Modes \cup {None} /\ None \in Users \cup {None}
        BY DEF Steps
      <4> QED BY <3>1, <4>1, <4>2, <4>3 DEF ActiveQuery
    <3>3. query' = [query EXCEPT ![q] = new]
      BY <1>12 DEF Receive
    <3> HIDE DEF new
    <3> QED BY <3>2, <3>3
  <2> QED BY <1>12, <2>2 DEF Receive
<1>13. ASSUME NEW q \in Queries, Answer(q) PROVE TypeOK'
  <2>0. query[q] \in ActiveQuery
    BY <1>13, QueryTypes DEF Answer, Active, ReadList, Judge, ReadMode, ReadUser, Notify, Forward
  <2>1. ASSUME ReadList(q) \/ Judge(q) \/ ReadMode(q) \/ ReadUser(q) PROVE TypeOK'
    <3>1. CellsOf(q).policy \in DnsPolicy
      BY <2>1, ReadTypes DEF Active, ReadList, Judge, ReadMode, ReadUser
    <3>2. /\ query[q].list \in (SUBSET Names) \cup {None}
          /\ query[q].mode \in Modes \cup {None} /\ query[q].user \in Users \cup {None}
          /\ "listed" \in Steps \ {"free"} /\ "mode" \in Steps \ {"free"}
          /\ "forward" \in Steps \ {"free"} /\ "user" \in Steps \ {"free"}
          /\ "notify" \in Steps \ {"free"}
          /\ CellsOf(q).policy.blocked \in (SUBSET Names) \cup {None} /\ None \in (SUBSET Names) \cup {None}
          /\ CellsOf(q).policy.mode \in Modes \cup {None}
          /\ CellsOf(q).policy.user \in Users \cup {None}
      BY <2>0, <3>1 DEF DnsPolicy, ActiveQuery, Steps
    <3>3. query' \in [Queries -> ActiveQuery \cup {NoQuery}]
      <4>3. CASE ReadList(q)
        <5>1. query' = Moved(q, "listed", CellsOf(q).policy.blocked, query[q].mode, query[q].user)
          BY <4>3, Reading
        <5> QED BY <2>0, <3>2, <5>1, MovedTypes, Zenon
      <4>4. CASE Judge(q)
        <5>1. PICK verdict \in Steps \ {"free"} :
                 query' = Moved(q, verdict, None, query[q].mode, query[q].user)
          BY <3>2, <4>4, Reading
        <5> QED BY <2>0, <3>2, <5>1, MovedTypes, Zenon
      <4>5. CASE ReadMode(q)
        <5>1. query' = Moved(q, "user", query[q].list, CellsOf(q).policy.mode, query[q].user)
          BY <4>5, Reading
        <5> QED BY <2>0, <3>2, <5>1, MovedTypes, Zenon
      <4>6. CASE ReadUser(q)
        <5>1. query' = Moved(q, "notify", query[q].list, query[q].mode, CellsOf(q).policy.user)
          BY <4>6, Reading
        <5> QED BY <2>0, <3>2, <5>1, MovedTypes, Zenon
      <4> QED BY <2>1, <4>3, <4>4, <4>5, <4>6
    <3> QED BY <2>1, <3>3 DEF ReadList, Judge, ReadMode, ReadUser
  <2>2. CASE Notify(q)
    <3>1. cooling' \in SUBSET Names
      BY <2>0, <2>2, NameAssumption DEF Notify, ActiveQuery
    <3> QED BY <1>0, <2>2, <3>1, EndTypes DEF Notify, Cell
  <2>3. CASE Forward(q)
    BY <1>0, <2>3, EndTypes DEF Forward, Cell
  <2> QED BY <1>13, <2>1, <2>2, <2>3 DEF Answer
<1>14. ASSUME NEW q \in Queries, QueryFails(q) PROVE TypeOK'
  <2>1. query[q] \in ActiveQuery
    BY <1>14 DEF QueryFails, NoQuery
  <2>2. query[q].at \in Listeners
    BY <2>1 DEF ActiveQuery
  <2>3. /\ query' \in [Queries -> ActiveQuery \cup {NoQuery}]
        /\ listeners' \in [Listeners -> Cell]
    BY <1>0, <1>14, <2>2, EndTypes, DiedTypes DEF QueryFails
  <2>4. faults' \in 0..MaxFaults
    BY <1>14, DnsFaultAssumption DEF QueryFails, Fault
  <2> QED BY <1>14, <2>3, <2>4 DEF QueryFails, Cell
<1>15. ASSUME NEW name \in Names, CooldownEnds(name) PROVE TypeOK'
  BY <1>15 DEF CooldownEnds
<1>16. CASE UNCHANGED vars
  BY <1>16 DEF vars
<1> QED
  BY <1>1, <1>2, <1>3, <1>4, <1>5, <1>6, <1>7, <1>8, <1>9, <1>10, <1>11, <1>12, <1>13, <1>14,
     <1>15, <1>16 DEF Next, Reconciling

-----------------------------------------------------------------------------
(* Steps that neither fill nor write cells *)

\* Tasks move on or die, cells that nothing refers to are released, queries
\* end; the table and the call are left alone.
Aged ==
    /\ \A l \in Listeners :
          \/ /\ listeners'[l].port = listeners[l].port /\ listeners'[l].policy = listeners[l].policy
             /\ listeners'[l].task = "none" <=> listeners[l].task = "none"
             /\ listeners'[l].task \in {"starting", "serving"} =>
                    listeners[l].task \in {"starting", "serving"}
          \/ /\ listeners'[l].task = "none" /\ ~InTable(l) /\ stopping' # l
             /\ \A q \in Queries : query'[q].step # "free" => query'[q].at # l
    /\ \A q \in Queries : query'[q] = query[q] \/ query'[q].step = "free"
    /\ UNCHANGED <<table, job, todo, writing, applied>>
    /\ stopping' # stopping => stopping' = None /\ ~Alive(stopping)

LEMMA AgedTable ==
    ASSUME TypeOK, TableInv, Aged
    PROVE  TableInv'
<1>1. UNCHANGED <<table, job, todo, writing, applied>>
  BY DEF Aged
<1>2. \A p \in Ports : table[p] # None =>
         /\ table[p] \in Listeners
         /\ listeners'[table[p]].port = listeners[table[p]].port
         /\ listeners'[table[p]].policy = listeners[table[p]].policy
         /\ listeners[table[p]].task # "none" => listeners'[table[p]].task # "none"
  BY DEF TypeOK, Aged, InTable
<1>3. \A p \in Ports : table[p] # None => Held(p)' = Held(p)
  BY <1>1, <1>2 DEF Held
<1>4. CellsFilled'
  BY DEF CellsFilled, TableInv, Aged
<1>5. TableFits'
  BY <1>1, <1>2 DEF TableFits, TableInv
<1>6. AliveInTable'
  <2>1. ASSUME NEW l \in Listeners, listeners'[l].task \in {"starting", "serving"}
        PROVE  stopping' = l \/ table[listeners'[l].port] = l
    <3>1. Alive(l) /\ listeners'[l].port = listeners[l].port
      BY <2>1 DEF Aged, Alive
    <3>2. stopping = l \/ table[listeners[l].port] = l
      BY <3>1 DEF TableInv, AliveInTable
    <3>3. stopping = l => stopping' = l
      BY <3>1 DEF Aged
    <3> QED BY <3>1, <3>2, <3>3
  <2> QED BY <1>1, <2>1 DEF AliveInTable, Alive
<1>7. StoppingLeftTable'
  <2>1. ASSUME stopping' # None
        PROVE  /\ stopping' = stopping /\ stopping \in Listeners
               /\ listeners'[stopping].port = listeners[stopping].port
               /\ listeners[stopping].task # "none" => listeners'[stopping].task # "none"
    BY <2>1 DEF Aged, TypeOK
  <2> QED BY <1>1, <2>1 DEF StoppingLeftTable, TableInv
<1>8. TableAtRest'
  BY <1>1, <1>3 DEF TableAtRest, TableInv
<1>9. PortsInCall'
  <2>1. \A p \in Ports : Writes(p)' = Writes(p)
    BY <1>1 DEF Writes
  <2>2. ASSUME job # None, NEW p \in Ports
        PROVE  /\ p \in todo => job[p] # None
               /\ (p \in todo \/ job[p] = None) /\ table[p] # None =>
                      applied[p] # None /\ Held(p)' = applied[p]
               /\ p \notin todo /\ job[p] # None /\ ~Writes(p)' =>
                      table[p] # None /\ Held(p)' = job[p]
    BY <1>3, <2>1, <2>2 DEF PortsInCall, TableInv
  <2> QED BY <1>1, <2>2 DEF PortsInCall
<1>10. CellsInCall'
  <2>1. writing # None => writing.port \in Ports
    BY DEF TypeOK
  <2>2. writing # None => table[writing.port] # None
    BY DEF TableInv, CellsInCall
  <2>3. writing # None => Held(writing.port)' = Held(writing.port)
    BY <1>1, <1>3, <2>1, <2>2 DEF Held
  <2> QED BY <1>1, <2>3 DEF CellsInCall, TableInv
<1> QED BY <1>4, <1>5, <1>6, <1>7, <1>8, <1>9, <1>10 DEF TableInv

QueryInv == QueriesKeepCells /\ CalmQueries /\ AlertsNameTheirUser

LEMMA AgedQueries ==
    ASSUME TypeOK, QueryInv, Aged
    PROVE  QueryInv'
<1>1. ASSUME NEW q \in Queries, Active(q)'
      PROVE  /\ Active(q) /\ query'[q] = query[q]
             /\ CellsOf(q)'.port = CellsOf(q).port /\ CellsOf(q)'.policy = CellsOf(q).policy
             /\ CellsOf(q).task # "none" => CellsOf(q)'.task # "none"
  <2>1. Active(q) /\ query'[q] = query[q]
    BY <1>1 DEF Aged, Active
  <2>2. query[q].at \in Listeners
    BY <2>1, QueryTypes DEF ActiveQuery
  <2>3. query'[q].step # "free"
    BY <1>1 DEF Active
  <2> QED BY <2>1, <2>2, <2>3 DEF Aged, CellsOf
<1>2. UNCHANGED <<table, job>>
  BY DEF Aged
<1>3. QueriesKeepCells'
  <2>1. ASSUME NEW q \in Queries, Active(q)', query'[q].steady, job' # None
        PROVE  ~Reassigns(job, query[q].at)'
    <3>1. /\ Active(q) /\ query'[q] = query[q] /\ CellsOf(q)'.policy = CellsOf(q).policy
          /\ ~Reassigns(job, query[q].at)
      BY <1>1, <1>2, <2>1 DEF QueryInv, QueriesKeepCells
    <3>2. /\ query'[q].at = query[q].at
          /\ listeners'[query[q].at].policy = listeners[query[q].at].policy
      BY <3>1 DEF CellsOf
    <3> QED BY <1>2, <3>1, <3>2 DEF Reassigns
  <2> QED BY <1>1, <2>1 DEF QueryInv, QueriesKeepCells
<1>4. CalmQueries'
  BY <1>1, <1>2 DEF QueryInv, CalmQueries
<1>5. AlertsNameTheirUser'
  BY <1>1 DEF QueryInv, AlertsNameTheirUser
<1> QED BY <1>3, <1>4, <1>5 DEF QueryInv

LEMMA DroppedCells ==
    ASSUME NEW ls \in [Listeners -> Cell], NEW qs \in [Queries -> ActiveQuery \cup {NoQuery}],
           NEW ids, NEW l \in Listeners
    PROVE  \/ Dropped(ls, qs, ids)[l] = ls[l]
           \/ /\ Dropped(ls, qs, ids)[l].task = "none"
              /\ l \in ids /\ ~InTable(l)
              /\ \A q \in Queries : qs[q].step # "free" => qs[q].at # l
BY DEF Dropped, NoListener

\* Cells that differ in their task only.
LEMMA DiedCells ==
    ASSUME TypeOK, NEW l \in Listeners, listeners[l].task # "none", NEW k \in Listeners
    PROVE  /\ Died(l)[k].port = listeners[k].port /\ Died(l)[k].policy = listeners[k].policy
           /\ Died(l)[k].task = "none" <=> listeners[k].task = "none"
           /\ Died(l)[k].task \in {"starting", "serving"} =>
                  listeners[k].task \in {"starting", "serving"}
<1>1. listeners \in [Listeners -> Cell]
  BY DEF TypeOK, Cell
<1> QED BY <1>1 DEF Died, Cell

LEMMA AgedSteps ==
    ASSUME TypeOK, TableInv, QueriesKeepCells,
           \/ \E l \in Listeners : Bind(l) \/ ShutDown(l) \/ SocketFails(l)
           \/ \E q \in Queries : Notify(q) \/ Forward(q) \/ QueryFails(q)
           \/ \E name \in Names : CooldownEnds(name)
           \/ JoinStale
           \/ UNCHANGED vars
    PROVE  Aged
<1>0. listeners \in [Listeners -> Cell] /\ query \in [Queries -> ActiveQuery \cup {NoQuery}]
  BY DEF TypeOK, Cell
<1>1. ASSUME NEW l \in Listeners, Bind(l) \/ ShutDown(l) \/ SocketFails(l) PROVE Aged
  <2>1. listeners[l].task \in {"starting", "serving"}
    BY <1>1 DEF Bind, ShutDown, SocketFails
  <2>2. listeners' = Died(l) \/ listeners' = [listeners EXCEPT ![l].task = "serving"]
    BY <1>1 DEF Bind, ShutDown, SocketFails
  <2>3. CASE listeners' = Died(l)
    BY <1>1, <2>1, <2>3, DiedCells DEF Aged, Bind, ShutDown, SocketFails
  <2>4. CASE listeners' = [listeners EXCEPT ![l].task = "serving"]
    <3>1. \A k \in Listeners :
             /\ listeners'[k].port = listeners[k].port /\ listeners'[k].policy = listeners[k].policy
             /\ listeners'[k].task = IF k = l THEN "serving" ELSE listeners[k].task
      BY <1>0, <2>4 DEF Cell
    <3> QED BY <1>1, <2>1, <3>1 DEF Aged, Bind, ShutDown, SocketFails
  <2> QED BY <2>2, <2>3, <2>4
<1>2. ASSUME NEW q \in Queries, Notify(q) \/ Forward(q) \/ QueryFails(q) PROVE Aged
  <2>1. Active(q)
    BY <1>2 DEF Notify, Forward, QueryFails, Active
  <2>2. query[q].at \in Listeners /\ CellsOf(q).task # "none"
    BY <2>1, ReadTypes DEF QueriesKeepCells
  <2>3. PICK ls \in [Listeners -> Cell] : End(q, ls) /\ (ls = listeners \/ ls = Died(query[q].at))
    BY <1>0, <1>2, <2>2, DiedTypes DEF Notify, Forward, QueryFails
  <2>4. \A k \in Listeners :
           /\ ls[k].port = listeners[k].port /\ ls[k].policy = listeners[k].policy
           /\ ls[k].task = "none" <=> listeners[k].task = "none"
           /\ ls[k].task \in {"starting", "serving"} => listeners[k].task \in {"starting", "serving"}
    BY <2>2, <2>3, DiedCells DEF CellsOf
  <2>5. \A k \in Queries : query'[k] = query[k] \/ query'[k].step = "free"
    BY <1>0, <2>3 DEF End, NoQuery
  <2>6. query' \in [Queries -> ActiveQuery \cup {NoQuery}]
    BY <2>3, EndTypes
  <2>7. \A k \in Listeners :
           \/ listeners'[k] = ls[k]
           \/ /\ listeners'[k].task = "none" /\ ~InTable(k) /\ k # stopping
              /\ \A r \in Queries : query'[r].step # "free" => query'[r].at # k
    <3>1. listeners' = Dropped(ls, query', {query[q].at} \ {stopping})
      BY <2>3 DEF End
    <3> DEFINE qs == query'
               ids == {query[q].at} \ {stopping}
    <3>2. \A k \in Listeners :
             \/ Dropped(ls, qs, ids)[k] = ls[k]
             \/ /\ Dropped(ls, qs, ids)[k].task = "none"
                /\ k \in ids /\ ~InTable(k)
                /\ \A r \in Queries : qs[r].step # "free" => qs[r].at # k
      <4> HIDE DEF ids
      <4> QED BY <2>6, DroppedCells
    <3> QED BY <3>1, <3>2
  <2>8. UNCHANGED <<table, job, todo, writing, applied, stopping>>
    BY <1>2 DEF Notify, Forward, QueryFails
  <2> QED BY <2>4, <2>5, <2>7, <2>8 DEF Aged
<1>3. ASSUME NEW name \in Names, CooldownEnds(name) PROVE Aged
  BY <1>3 DEF CooldownEnds, Aged
<1>4. CASE JoinStale
  <2>1. listeners' = Dropped(listeners, query, {stopping}) /\ stopping' = None
    BY <1>4 DEF JoinStale
  <2>2. \A k \in Listeners :
           \/ listeners'[k] = listeners[k]
           \/ /\ listeners'[k].task = "none" /\ ~InTable(k)
              /\ \A r \in Queries : query[r].step # "free" => query[r].at # k
    BY <1>0, <2>1, DroppedCells
  <2> QED BY <1>4, <2>1, <2>2, ListenerAssumption DEF JoinStale, Aged, Alive
<1>5. CASE UNCHANGED vars
  BY <1>5 DEF vars, Aged
<1> QED BY <1>1, <1>2, <1>3, <1>4, <1>5

-----------------------------------------------------------------------------
(* Steps of reconcile *)

LEMMA TableKept ==
    ASSUME TypeOK, TableInv, UNCHANGED <<table, listeners, job, todo, writing, stopping, applied>>
    PROVE  TableInv'
BY DEF TableInv, CellsFilled, TableFits, AliveInTable, StoppingLeftTable, TableAtRest, PortsInCall,
       CellsInCall, Held, Writes, Alive

LEMMA ReconcileTable ==
    ASSUME TypeOK, TableInv, NEW next \in [Ports -> Policies \cup {None}], Reconcile(next)
    PROVE  TableInv'
<1>1. /\ job = None /\ job' = next
      /\ todo' = {p \in Ports : next[p] # None}
      /\ UNCHANGED <<table, listeners, writing, stopping, applied>>
  BY DEF Reconcile
<1>2. next # None
  BY DnsAbsentAssumption, DnsPolicyAssumption
<1>3. /\ todo = {} /\ writing = None
      /\ \A p \in Ports : IF applied[p] = None THEN table[p] = None
                           ELSE table[p] # None /\ Held(p) = applied[p]
  BY <1>1 DEF TableInv, TableAtRest
<1>4. stopping = None
  BY <1>1 DEF TableInv, StoppingLeftTable
<1>5. CellsFilled' /\ TableFits' /\ AliveInTable' /\ StoppingLeftTable' /\ TableAtRest' /\ CellsInCall'
  BY <1>1, <1>2, <1>3, <1>4 DEF TableInv, CellsFilled, TableFits, AliveInTable, StoppingLeftTable,
     TableAtRest, CellsInCall, Alive
<1>6. PortsInCall'
  <2>1. \A p \in Ports : Held(p)' = Held(p)
    BY <1>1 DEF Held
  <2>2. \A p \in Ports :
              /\ p \in todo' => next[p] # None
              /\ (p \in todo' \/ next[p] = None) /\ table[p] # None =>
                     applied[p] # None /\ Held(p)' = applied[p]
              /\ p \notin todo' /\ next[p] # None => FALSE
    BY <1>1, <1>3, <2>1
  <2> QED BY <1>1, <2>2 DEF PortsInCall
<1> QED BY <1>5, <1>6 DEF TableInv

LEMMA SpawnTable ==
    ASSUME TypeOK, TableInv, NEW p \in Ports, Spawn(p)
    PROVE  TableInv'
<1>1. PICK l \in Listeners :
         /\ Free(l)
         /\ listeners' = [listeners EXCEPT
                ![l] = [port |-> p, policy |-> job[p], task |-> "starting", stop |-> FALSE]]
         /\ table' = [table EXCEPT ![p] = l]
  BY Zenon DEF Spawn
<1>2. /\ job # None /\ writing = None /\ stopping = None
      /\ p \in todo /\ table[p] = None /\ todo' = todo \ {p}
      /\ UNCHANGED <<job, writing, stopping, applied>>
  BY DEF Spawn, InLoop
<1>3. listeners \in [Listeners -> Cell] /\ table \in [Ports -> Listeners \cup {None}]
  BY DEF TypeOK, Cell
<1>4. job[p] # None /\ listeners[l].task = "none"
  BY <1>1, <1>2 DEF TableInv, PortsInCall, Free
<1>5. /\ listeners'[l] = [port |-> p, policy |-> job[p], task |-> "starting", stop |-> FALSE]
      /\ \A k \in Listeners \ {l} : listeners'[k] = listeners[k]
      /\ table'[p] = l
      /\ \A k \in Ports \ {p} : table'[k] = table[k]
  BY <1>1, <1>3
<1>6. \A k \in Ports : table[k] # l
  BY <1>4, ListenerAssumption DEF TableInv, TableFits
<1>7. \A k \in Ports \ {p} : table[k] # None => Held(k)' = Held(k)
  BY <1>3, <1>5, <1>6 DEF Held
<1>8. Held(p)' = job[p] /\ l # None
  BY <1>5, ListenerAssumption DEF Held
<1>9. CellsFilled'
  BY <1>4, <1>5 DEF TableInv, CellsFilled
<1>10. TableFits'
  <2>1. ASSUME NEW k \in Ports, table'[k] # None
        PROVE  listeners'[table'[k]].port = k /\ listeners'[table'[k]].task # "none"
    BY <1>3, <1>5, <1>6, <2>1 DEF TableInv, TableFits
  <2> QED BY <2>1 DEF TableFits
<1>11. AliveInTable'
  <2>1. ASSUME NEW k \in Listeners, Alive(k)'
        PROVE  table'[listeners'[k].port] = k
    <3>1. CASE k = l
      BY <1>5, <3>1
    <3>2. CASE k # l
      <4>1. Alive(k) /\ listeners[k].port \in Ports
        BY <1>5, <2>1, <3>2 DEF Alive, TableInv, CellsFilled
      <4>2. table[listeners[k].port] = k
        BY <4>1, <1>2, ListenerAssumption DEF TableInv, AliveInTable
      <4>3. listeners[k].port # p
        BY <4>2, <1>2, ListenerAssumption
      <4> QED BY <1>5, <3>2, <4>1, <4>2, <4>3
    <3> QED BY <3>1, <3>2
  <2> QED BY <2>1 DEF AliveInTable
<1>12. StoppingLeftTable' /\ TableAtRest' /\ CellsInCall'
  BY <1>2 DEF StoppingLeftTable, TableAtRest, CellsInCall
<1>13. PortsInCall'
  <2>1. ASSUME NEW k \in Ports
        PROVE  /\ k \in todo' => job[k] # None
               /\ (k \in todo' \/ job[k] = None) /\ table'[k] # None =>
                     applied[k] # None /\ Held(k)' = applied[k]
               /\ k \notin todo' /\ job[k] # None /\ ~Writes(k)' =>
                     table'[k] # None /\ Held(k)' = job[k]
    <3>1. CASE k = p
      BY <1>2, <1>4, <1>5, <1>8, <3>1
    <3>2. CASE k # p
      <4>1. /\ k \in todo => job[k] # None
            /\ (k \in todo \/ job[k] = None) /\ table[k] # None =>
                     applied[k] # None /\ Held(k) = applied[k]
            /\ k \notin todo /\ job[k] # None =>
                     table[k] # None /\ Held(k) = job[k]
        BY <1>2 DEF TableInv, PortsInCall, Writes
      <4> QED BY <1>2, <1>5, <1>7, <3>2, <4>1
    <3> QED BY <3>1, <3>2
  <2> QED BY <1>2, <2>1 DEF PortsInCall
<1> QED BY <1>9, <1>10, <1>11, <1>12, <1>13 DEF TableInv

LEMMA OverwriteTable ==
    ASSUME TypeOK, TableInv, NEW p \in Ports, Overwrite(p)
    PROVE  TableInv'
<1>1. /\ job # None /\ writing = None /\ stopping = None /\ p \in todo /\ table[p] # None
      /\ writing' = [port |-> p, cell |-> "blocked"] /\ todo' = todo \ {p}
      /\ UNCHANGED <<table, listeners, job, stopping, applied>>
  BY DEF Overwrite, InLoop
<1>2. writing' # None /\ writing'.port = p /\ writing'.cell = "blocked"
  BY <1>1, DnsAbsentAssumption DEF Cells
<1>3. job[p] # None /\ applied[p] # None /\ Held(p) = applied[p]
  BY <1>1 DEF TableInv, PortsInCall
<1>4. \A k \in Ports : Held(k)' = Held(k)
  BY <1>1 DEF Held
<1>5. CellsFilled' /\ TableFits' /\ AliveInTable' /\ StoppingLeftTable' /\ TableAtRest'
  BY <1>1 DEF TableInv, CellsFilled, TableFits, AliveInTable, StoppingLeftTable, TableAtRest, Alive
<1>6. CellsInCall'
  BY <1>1, <1>2, <1>3, <1>4 DEF CellsInCall
<1>7. PortsInCall'
  <2>1. ASSUME NEW k \in Ports
        PROVE  /\ k \in todo' => job[k] # None
               /\ (k \in todo' \/ job[k] = None) /\ table[k] # None =>
                     applied[k] # None /\ Held(k)' = applied[k]
               /\ k \notin todo' /\ job[k] # None /\ ~Writes(k)' =>
                     table[k] # None /\ Held(k)' = job[k]
    <3>1. /\ k \in todo => job[k] # None
          /\ (k \in todo \/ job[k] = None) /\ table[k] # None =>
                   applied[k] # None /\ Held(k) = applied[k]
          /\ k \notin todo /\ job[k] # None => table[k] # None /\ Held(k) = job[k]
      BY <1>1 DEF TableInv, PortsInCall, Writes
    <3>2. Writes(k)' = (k = p)
      BY <1>2 DEF Writes
    <3> QED BY <1>1, <1>4, <3>1, <3>2
  <2> QED BY <1>1, <2>1 DEF PortsInCall
<1> QED BY <1>5, <1>6, <1>7 DEF TableInv

LEMMA AskTable ==
    ASSUME TypeOK, TableInv, AskForList
    PROVE  TableInv'
<1>1. /\ writing # None /\ writing.cell = "blocked" /\ writing' = [writing EXCEPT !.cell = "queued"]
      /\ UNCHANGED <<table, listeners, job, todo, stopping, applied>>
  BY DEF AskForList
<1>2. writing' # None /\ writing'.port = writing.port /\ writing'.cell = "queued" /\ writing.port \in Ports
  BY <1>1, DnsAbsentAssumption DEF TypeOK, Cells
<1>3. \A k \in Ports : Held(k)' = Held(k) /\ Writes(k)' = Writes(k)
  BY <1>1, <1>2 DEF Held, Writes
<1>4. job # None /\ stopping = None
  BY <1>1 DEF TableInv, CellsInCall, StoppingLeftTable
<1>5. CellsFilled' /\ TableFits' /\ AliveInTable' /\ StoppingLeftTable' /\ TableAtRest'
  BY <1>1, <1>4 DEF TableInv, CellsFilled, TableFits, AliveInTable, StoppingLeftTable, TableAtRest, Alive
<1>6. CellsInCall'
  BY <1>1, <1>2, <1>3 DEF TableInv, CellsInCall
<1>7. PortsInCall'
  <2>1. ASSUME NEW k \in Ports
        PROVE  /\ k \in todo => job[k] # None
               /\ (k \in todo \/ job[k] = None) /\ table[k] # None =>
                     applied[k] # None /\ Held(k)' = applied[k]
               /\ k \notin todo /\ job[k] # None /\ ~Writes(k)' =>
                     table[k] # None /\ Held(k)' = job[k]
    BY <1>3, <1>4 DEF TableInv, PortsInCall
  <2> QED BY <1>1, <2>1 DEF PortsInCall
<1> QED BY <1>5, <1>6, <1>7 DEF TableInv

LEMMA StopTable ==
    ASSUME TypeOK, TableInv, NEW p \in Ports, StopStale(p)
    PROVE  TableInv'
<1> DEFINE l == table[p]
<1>1. /\ job # None /\ writing = None /\ stopping = None /\ todo = {}
      /\ job[p] = None /\ l # None /\ table' = [table EXCEPT ![p] = None]
      /\ listeners' = [listeners EXCEPT ![l].stop = TRUE] /\ stopping' = l
      /\ UNCHANGED <<job, todo, writing, applied>>
  BY DEF StopStale, InLoop, Stale
<1>2. listeners \in [Listeners -> Cell] /\ table \in [Ports -> Listeners \cup {None}] /\ l \in Listeners
  BY <1>1 DEF TypeOK, Cell
<1>3. /\ \A k \in Listeners : /\ listeners'[k].port = listeners[k].port
                              /\ listeners'[k].policy = listeners[k].policy
                              /\ listeners'[k].task = listeners[k].task
      /\ table'[p] = None
      /\ \A k \in Ports \ {p} : table'[k] = table[k]
  <2> HIDE DEF l
  <2> QED BY <1>1, <1>2 DEF Cell
<1>4. listeners[l].port = p /\ listeners[l].task # "none"
  BY <1>1 DEF TableInv, TableFits
<1>5. \A k \in Ports \ {p} : table[k] # None => Held(k)' = Held(k)
  BY <1>2, <1>3 DEF Held
<1>6. CellsFilled'
  BY <1>3 DEF TableInv, CellsFilled
<1>7. TableFits'
  BY <1>2, <1>3 DEF TableInv, TableFits
<1>8. AliveInTable'
  <2>1. ASSUME NEW k \in Listeners, Alive(k)' PROVE stopping' = k \/ table'[listeners'[k].port] = k
    <3>1. Alive(k) /\ listeners[k].port \in Ports
      BY <1>3, <2>1 DEF Alive, TableInv, CellsFilled
    <3>2. table[listeners[k].port] = k
      BY <3>1, <1>1, ListenerAssumption DEF TableInv, AliveInTable
    <3> QED BY <1>1, <1>3, <3>1, <3>2
  <2> QED BY <2>1 DEF AliveInTable
<1>9. StoppingLeftTable'
  BY <1>1, <1>2, <1>3, <1>4 DEF StoppingLeftTable
<1>10. TableAtRest' /\ CellsInCall'
  BY <1>1 DEF TableAtRest, CellsInCall
<1>11. PortsInCall'
  <2>1. ASSUME NEW k \in Ports
        PROVE  /\ k \in todo => job[k] # None
               /\ (k \in todo \/ job[k] = None) /\ table'[k] # None =>
                     applied[k] # None /\ Held(k)' = applied[k]
               /\ k \notin todo /\ job[k] # None /\ ~Writes(k)' =>
                     table'[k] # None /\ Held(k)' = job[k]
    <3>1. /\ k \in todo => job[k] # None
          /\ (k \in todo \/ job[k] = None) /\ table[k] # None =>
                   applied[k] # None /\ Held(k) = applied[k]
          /\ k \notin todo /\ job[k] # None => table[k] # None /\ Held(k) = job[k]
      BY <1>1 DEF TableInv, PortsInCall, Writes
    <3> QED BY <1>1, <1>3, <1>5, <3>1
  <2> QED BY <1>1, <2>1 DEF PortsInCall
<1> QED BY <1>6, <1>7, <1>8, <1>9, <1>10, <1>11 DEF TableInv

LEMMA ReturnTable ==
    ASSUME TypeOK, TableInv, Return
    PROVE  TableInv'
<1>1. /\ job # None /\ writing = None /\ stopping = None /\ todo = {}
      /\ \A p \in Ports : ~Stale(p)
      /\ job' = None /\ applied' = job
      /\ UNCHANGED <<table, listeners, todo, writing, stopping>>
  BY DEF Return, InLoop
<1>2. CellsFilled' /\ TableFits' /\ AliveInTable' /\ StoppingLeftTable' /\ CellsInCall' /\ PortsInCall'
  BY <1>1 DEF TableInv, CellsFilled, TableFits, AliveInTable, StoppingLeftTable, CellsInCall,
     PortsInCall, Alive
<1>3. \A p \in Ports : IF job[p] = None THEN table[p] = None
                        ELSE table[p] # None /\ Held(p)' = job[p]
  BY <1>1 DEF TableInv, PortsInCall, Writes, Stale, Held
<1>4. TableAtRest'
  BY <1>1, <1>3 DEF TableAtRest
<1> QED BY <1>2, <1>4 DEF TableInv

LEMMA WriteTable ==
    ASSUME TypeOK, TableInv, WriteList \/ WriteRest
    PROVE  TableInv'
<1> DEFINE p == writing.port
           l == table[p]
           new == job[p]
           old == listeners[l].policy
           policy == Updated(old, new, writing.cell)
<1>1. writing # None /\ writing.cell \in {"queued", "allowed", "mode", "user"}
        /\ UNCHANGED <<table, job, todo, stopping, applied>>
  BY DEF WriteList, WriteRest
<1>2. policy \in DnsPolicy /\ listeners' = Written(policy)
  BY Writing
<1>3. /\ p \in Ports /\ l \in Listeners /\ listeners[l] \in Cell /\ listeners[l].port = p
      /\ new \in DnsPolicy /\ old \in DnsPolicy
  BY <1>1, WriterTypes
<1>4. /\ listeners'[l] = [port |-> p, policy |-> policy, task |-> listeners[l].task,
                          stop |-> listeners[l].stop]
      /\ \A k \in Listeners \ {l} : listeners'[k] = listeners[k]
  <2>1. listeners \in [Listeners -> Cell]
    BY DEF TypeOK, Cell
  <2> HIDE DEF policy
  <2> QED BY <1>2, <1>3, <2>1 DEF Written
<1>5. \A k \in Listeners : listeners'[k].port = listeners[k].port /\ listeners'[k].task = listeners[k].task
  <2> HIDE DEF policy
  <2> QED BY <1>3, <1>4
<1>6. \A k \in Ports \ {p} : table[k] # None => Held(k)' = Held(k)
  <2>1. \A k \in Ports \ {p} : table[k] # None => table[k] # l /\ table[k] \in Listeners
    BY <1>3 DEF TypeOK, TableInv, TableFits
  <2> QED BY <1>1, <1>4, <2>1 DEF Held
<1>7. listeners'[l].policy = policy
  <2> HIDE DEF policy
  <2> QED BY <1>4
<1>8. /\ job # None /\ p \notin todo /\ new # None /\ applied[p] # None /\ l # None
      /\ writing.cell \in {"allowed", "mode", "user"} => old.blocked = new.blocked
      /\ writing.cell \in {"mode", "user"} => old.allowed = new.allowed
      /\ writing.cell = "user" => old.mode = new.mode
  BY <1>1 DEF TableInv, CellsInCall, Held
<1>9. stopping = None
  BY <1>1 DEF TableInv, StoppingLeftTable
<1>10. CellsFilled'
  <2>1. policy # None
    BY <1>2, DnsPolicyAssumption
  <2> HIDE DEF policy
  <2> QED BY <1>3, <1>4, <2>1 DEF TableInv, CellsFilled
<1>11. TableFits' /\ AliveInTable' /\ StoppingLeftTable' /\ TableAtRest'
  <2>1. \A k \in Ports : table[k] # None => table[k] \in Listeners
    BY DEF TypeOK
  <2> QED BY <1>1, <1>5, <1>8, <1>9, <2>1 DEF TableInv, TableFits, AliveInTable, StoppingLeftTable, TableAtRest, Alive
<1>12. writing' = IF writing.cell = "user" THEN None
                  ELSE [port |-> p, cell |-> CellAfter[writing.cell]]
  <2>1. writing \in [port : Ports, cell : Cells]
    BY <1>1 DEF TypeOK
  <2>2. writing' = IF writing.cell = "user" THEN None ELSE [writing EXCEPT !.cell = CellAfter[@]]
    <3>1. CASE WriteList
      BY <3>1 DEF WriteList
    <3>2. CASE WriteRest
      BY <3>2 DEF WriteRest
    <3> QED BY <3>1, <3>2
  <2> QED BY <2>1, <2>2 DEF Cells
<1>13. /\ policy.blocked = new.blocked
       /\ writing.cell \in {"allowed", "mode", "user"} => policy.allowed = new.allowed
       /\ writing.cell \in {"mode", "user"} => policy.mode = new.mode
       /\ writing.cell = "user" => policy.user = new.user
  BY <1>1, <1>8 DEF Updated
<1>14. \A k \in Ports : k = p => Held(k)' = policy
  <2>1. \A k \in Ports : k = p => table'[k] = l
    BY <1>1
  <2> HIDE DEF policy, l
  <2> QED BY <1>7, <2>1 DEF Held
<1>15. job' # None
  BY <1>1, <1>8
<1>16. \A k \in Ports :
          /\ k \in todo => job[k] # None
          /\ (k \in todo \/ job[k] = None) /\ table[k] # None =>
                   applied[k] # None /\ Held(k) = applied[k]
          /\ k \notin todo /\ job[k] # None /\ k # p => table[k] # None /\ Held(k) = job[k]
  BY <1>8 DEF TableInv, PortsInCall, Writes
<1>17. ASSUME NEW k \in Ports, k # p
       PROVE  /\ k \in todo => job[k] # None
              /\ (k \in todo \/ job[k] = None) /\ table[k] # None =>
                       applied[k] # None /\ Held(k)' = applied[k]
              /\ k \notin todo /\ job[k] # None => table[k] # None /\ Held(k)' = job[k]
  BY <1>6, <1>16, <1>17
<1>18. CASE writing.cell = "user"
  <2>1. writing' = None
    BY <1>12, <1>18
  <2>2. policy = new
    BY <1>2, <1>3, <1>13, <1>18 DEF DnsPolicy
  <2>3. CellsInCall'
    BY <2>1 DEF CellsInCall
  <2>4. \A k \in Ports : k = p => Held(k)' = job[k] /\ k \notin todo /\ job[k] # None /\ table[k] # None
    <3>1. \A k \in Ports : k = p => Held(k)' = new
      <4> HIDE DEF policy
      <4> QED BY <1>14, <2>2
    <3> QED BY <3>1, <1>8
  <2>5. PortsInCall'
    BY <1>1, <1>15, <1>17, <2>4 DEF PortsInCall
  <2> QED BY <1>10, <1>11, <2>3, <2>5 DEF TableInv
<1>19. CASE writing.cell # "user"
  <2>1. writing' = [port |-> p, cell |-> CellAfter[writing.cell]]
    BY <1>12, <1>19
  <2>2. CellAfter[writing.cell] \in Cells /\ writing'.port = p /\ writing'.cell = CellAfter[writing.cell]
    BY <1>1, <1>19, <2>1 DEF CellAfter, Cells
  <2>3. writing' # None
    BY <1>3, <2>1, <2>2, DnsAbsentAssumption
  <2>4. CellsInCall'
    <3>1. Held(writing.port)' = policy
      <4>1. listeners'[table'[writing'.port]].policy = policy
        <5>1. table'[writing'.port] = l
          BY <1>1, <2>2
        <5> HIDE DEF policy, l
        <5> QED BY <1>7, <5>1
      <4> QED BY <4>1 DEF Held
    <3>2. /\ writing'.cell \in {"allowed", "mode", "user"}
          /\ writing'.cell \in {"mode", "user"} => writing.cell \in {"allowed", "mode"}
          /\ writing'.cell = "user" => writing.cell = "mode"
      BY <1>1, <1>19, <2>2 DEF CellAfter
    <3>3. /\ job' # None /\ writing'.port \notin todo' /\ job'[writing'.port] # None
          /\ applied'[writing'.port] # None /\ table'[writing'.port] # None
          /\ job'[writing'.port] = new
      BY <1>1, <1>8, <2>2
    <3>4. /\ Held(writing.port)'.blocked = new.blocked
          /\ writing'.cell \in {"mode", "user"} => Held(writing.port)'.allowed = new.allowed
          /\ writing'.cell = "user" => Held(writing.port)'.mode = new.mode
      BY <1>13, <3>1, <3>2
    <3> QED BY <3>3, <3>4 DEF CellsInCall
  <2>5. PortsInCall'
    <3>1. \A k \in Ports : Writes(k)' = (k = p)
      BY <2>2, <2>3 DEF Writes
    <3>2. \A k \in Ports : k = p => k \notin todo /\ job[k] # None
      BY <1>8
    <3> QED BY <1>1, <1>15, <1>17, <3>1, <3>2 DEF PortsInCall
  <2> QED BY <1>10, <1>11, <2>4, <2>5 DEF TableInv
<1> QED BY <1>18, <1>19

Reads(q) == ReadList(q) \/ Judge(q) \/ ReadMode(q) \/ ReadUser(q)

\* The next-state relation, its steps grouped as the proofs take them.
LEMMA StepCases ==
    ASSUME [Next]_vars
    PROVE  \/ \E next \in [Ports -> Policies \cup {None}] : Reconcile(next)
           \/ \E p \in Ports : Spawn(p) \/ Overwrite(p) \/ StopStale(p)
           \/ AskForList \/ WriteList \/ WriteRest \/ Return
           \/ \E l \in Listeners, q \in Queries, via \in {"udp", "tcp"}, name \in Names :
                 Receive(q, l, via, name)
           \/ \E q \in Queries : Reads(q)
           \/ \/ \E l \in Listeners : Bind(l) \/ ShutDown(l) \/ SocketFails(l)
              \/ \E q \in Queries : Notify(q) \/ Forward(q) \/ QueryFails(q)
              \/ \E name \in Names : CooldownEnds(name)
              \/ JoinStale
              \/ UNCHANGED vars
BY DEF Next, Reconciling, Answer, Reads

LEMMA TableStep ==
    ASSUME TypeOK, TableInv, QueriesKeepCells, [Next]_vars
    PROVE  TableInv'
<1>1. CASE \E next \in [Ports -> Policies \cup {None}] : Reconcile(next)
  BY <1>1, ReconcileTable
<1>2. CASE \E p \in Ports : Spawn(p) \/ Overwrite(p) \/ StopStale(p)
  BY <1>2, SpawnTable, OverwriteTable, StopTable
<1>3. CASE AskForList \/ WriteList \/ WriteRest \/ Return
  BY <1>3, AskTable, WriteTable, ReturnTable
<1>4. CASE \E l \in Listeners, q \in Queries, via \in {"udp", "tcp"}, name \in Names :
              Receive(q, l, via, name)
  BY <1>4, TableKept DEF Receive
<1>5. CASE \E q \in Queries : Reads(q)
  BY <1>5, TableKept DEF Reads, ReadList, Judge, ReadMode, ReadUser
<1>6. CASE \/ \E l \in Listeners : Bind(l) \/ ShutDown(l) \/ SocketFails(l)
           \/ \E q \in Queries : Notify(q) \/ Forward(q) \/ QueryFails(q)
           \/ \E name \in Names : CooldownEnds(name)
           \/ JoinStale
           \/ UNCHANGED vars
  BY <1>6, AgedSteps, AgedTable
<1> QED BY <1>1, <1>2, <1>3, <1>4, <1>5, <1>6, StepCases

-----------------------------------------------------------------------------
(* Queries *)

\* A listener that is not given away is not by a step that puts it at no port
\* and keeps its user.
LEMMA StaysGiven ==
    ASSUME NEW l, job' = job, ~Reassigns(job, l),
           \A p \in Ports : table'[p] = l => table[p] = l,
           listeners'[l].policy.user = listeners[l].policy.user
    PROVE  \A p \in Ports :
              table'[p] = l /\ job'[p] # None => job'[p].user = listeners'[l].policy.user
BY DEF Reassigns

\* During a call no query is calm: it is enough that the users of the cells,
\* and the lists that are locked, stay, and that no listener a query reads is put
\* at another port.
LEMMA CallKeepsQueries ==
    ASSUME TypeOK, QueryInv, UNCHANGED query, job # None,
           \A q \in Queries : Active(q) =>
              /\ CellsOf(q)'.task = CellsOf(q).task
              /\ query[q].steady => CellsOf(q)'.policy.user = CellsOf(q).policy.user
              /\ query[q].step = "listed" =>
                     CellsOf(q)'.policy.blocked = CellsOf(q).policy.blocked,
           \/ job' = None
           \/ /\ job' = job
              /\ \A q \in Queries, p \in Ports :
                    Active(q) /\ table'[p] = query[q].at => table[p] = query[q].at
    PROVE  QueryInv'
<1>1. \A q \in Queries : Active(q) => ~query[q].calm
  BY DEF QueryInv, CalmQueries
<1>2. QueriesKeepCells'
  <2>1. ASSUME NEW q \in Queries, Active(q), query[q].steady, job' # None
        PROVE  ~Reassigns(job, query[q].at)'
    <3>1. ~Reassigns(job, query[q].at) /\ CellsOf(q)'.policy.user = CellsOf(q).policy.user
      BY <2>1 DEF QueryInv, QueriesKeepCells
    <3>2. listeners'[query[q].at].policy.user = listeners[query[q].at].policy.user
      BY <3>1 DEF CellsOf
    <3>3. job' = job /\ \A p \in Ports : table'[p] = query[q].at => table[p] = query[q].at
      BY <2>1
    <3>4. \A p \in Ports : table'[p] = query[q].at /\ job'[p] # None =>
                              job'[p].user = listeners'[query[q].at].policy.user
      BY <3>1, <3>2, <3>3, StaysGiven
    <3> QED BY <3>4 DEF Reassigns
  <2> QED BY <2>1 DEF QueryInv, QueriesKeepCells, Active
<1>3. CalmQueries'
  BY <1>1 DEF CalmQueries, Active
<1>4. AlertsNameTheirUser'
  BY DEF QueryInv, AlertsNameTheirUser, Active
<1> QED BY <1>2, <1>3, <1>4 DEF QueryInv

LEMMA ReconcileQueries ==
    ASSUME TypeOK, TableInv, QueryInv, NEW next \in [Ports -> Policies \cup {None}], Reconcile(next)
    PROVE  QueryInv'
<1>1. \A q \in Queries : ~Active(q) => query'[q] = query[q]
  BY DEF Reconcile
<1>2. \A q \in Queries : Active(q)' =>
         /\ Active(q)
         /\ query'[q].step = query[q].step /\ query'[q].at = query[q].at
         /\ query'[q].list = query[q].list /\ query'[q].user = query[q].user
         /\ query'[q].owner = query[q].owner /\ query'[q].calm = FALSE
         /\ query'[q].steady => query[q].steady /\ ~Reassigns(next, query[q].at)
  <2> SUFFICES ASSUME NEW q \in Queries, Active(q)'
               PROVE  /\ Active(q)
                      /\ query'[q].step = query[q].step /\ query'[q].at = query[q].at
                      /\ query'[q].list = query[q].list /\ query'[q].user = query[q].user
                      /\ query'[q].owner = query[q].owner /\ query'[q].calm = FALSE
                      /\ query'[q].steady => query[q].steady /\ ~Reassigns(next, query[q].at)
    OBVIOUS
  <2>1. Active(q)
    BY <1>1 DEF Active
  <2>2. query'[q] = [step |-> query[q].step, via |-> query[q].via, at |-> query[q].at,
                     name |-> query[q].name, list |-> query[q].list, mode |-> query[q].mode,
                     user |-> query[q].user, owner |-> query[q].owner, calm |-> FALSE,
                     steady |-> query[q].steady /\ ~Reassigns(next, query[q].at)]
    BY <2>1, ReconcileQuery
  <2>3. PICK steady : steady = (query[q].steady /\ ~Reassigns(next, query[q].at))
    OBVIOUS
  <2>4. query'[q] = [step |-> query[q].step, via |-> query[q].via, at |-> query[q].at,
                     name |-> query[q].name, list |-> query[q].list, mode |-> query[q].mode,
                     user |-> query[q].user, owner |-> query[q].owner, calm |-> FALSE,
                     steady |-> steady]
    BY <2>2, <2>3, Zenon
  <2>5. /\ query'[q].step = query[q].step /\ query'[q].at = query[q].at
        /\ query'[q].list = query[q].list /\ query'[q].user = query[q].user
        /\ query'[q].owner = query[q].owner /\ query'[q].calm = FALSE
        /\ query'[q].steady = steady
    BY <2>4
  <2> QED BY <2>1, <2>3, <2>5
<1>3. \A q \in Queries : Active(q)' => CellsOf(q)' = CellsOf(q)
  BY <1>2 DEF CellsOf, Reconcile
<1>4. QueriesKeepCells'
  <2>1. \A q \in Queries : Active(q)' /\ query'[q].steady => ~Reassigns(job, query[q].at)'
    <3>1. job' = next /\ UNCHANGED <<table, listeners>>
      BY DEF Reconcile
    <3> QED BY <1>2, <3>1 DEF Reassigns
  <2> QED BY <1>2, <1>3, <2>1 DEF QueryInv, QueriesKeepCells
<1>5. CalmQueries'
  BY <1>2 DEF CalmQueries
<1>6. AlertsNameTheirUser'
  BY <1>2 DEF QueryInv, AlertsNameTheirUser
<1> QED BY <1>4, <1>5, <1>6 DEF QueryInv

LEMMA CallQueries ==
    ASSUME TypeOK, TableInv, QueryInv,
           \/ \E p \in Ports : Spawn(p) \/ Overwrite(p) \/ StopStale(p)
           \/ AskForList \/ WriteList \/ WriteRest \/ Return
    PROVE  QueryInv'
<1> DEFINE Kept == \A q \in Queries : Active(q) =>
              /\ CellsOf(q)'.task = CellsOf(q).task
              /\ query[q].steady => CellsOf(q)'.policy.user = CellsOf(q).policy.user
              /\ query[q].step = "listed" =>
                     CellsOf(q)'.policy.blocked = CellsOf(q).policy.blocked
<1>1. UNCHANGED query /\ job # None
  BY DEF Spawn, Overwrite, StopStale, AskForList, WriteList, WriteRest, Return, InLoop, TableInv, CellsInCall
<1>2. \A q \in Queries : Active(q) =>
         query[q].at \in Listeners /\ CellsOf(q) = listeners[query[q].at] /\ CellsOf(q) \in Cell
           /\ CellsOf(q)' = listeners'[query[q].at] /\ CellsOf(q).task # "none"
  BY <1>1, ReadTypes DEF CellsOf, QueryInv, QueriesKeepCells
<1>3. listeners \in [Listeners -> Cell]
  BY DEF TypeOK, Cell
<1>4. ASSUME NEW p \in Ports, Spawn(p) PROVE Kept
  <2>1. PICK l \in Listeners : Free(l) /\ \A k \in Listeners \ {l} : listeners'[k] = listeners[k]
    <3>1. PICK l \in Listeners :
           /\ Free(l)
           /\ listeners' = [listeners EXCEPT
                ![l] = [port |-> p, policy |-> job[p], task |-> "starting", stop |-> FALSE]]
      BY <1>4, Zenon DEF Spawn
    <3> QED BY <1>3, <3>1
  <2> QED BY <1>2, <2>1 DEF Free
<1>5. ASSUME NEW p \in Ports, Overwrite(p) PROVE Kept
  BY <1>2, <1>5 DEF Overwrite
<1>6. ASSUME NEW p \in Ports, StopStale(p) PROVE Kept
  <2>1. \A k \in Listeners : /\ listeners'[k].policy = listeners[k].policy
                             /\ listeners'[k].task = listeners[k].task
    <3>1. PICK l \in Listeners : listeners' = [listeners EXCEPT ![l].stop = TRUE]
      BY <1>6 DEF StopStale, Stale, TypeOK
    <3> QED BY <1>3, <3>1 DEF Cell
  <2> QED BY <1>2, <2>1
<1>7. ASSUME WriteList \/ WriteRest PROVE Kept
  <2> DEFINE l == table[writing.port]
             new == job[writing.port]
             old == listeners[l].policy
             policy == Updated(old, new, writing.cell)
  <2>1. writing # None
    BY <1>7 DEF WriteList, WriteRest
  <2>2. listeners' = Written(policy) /\ l \in Listeners
    BY <1>7, <2>1, Writing, WriterTypes
  <2>3. ASSUME NEW q \in Queries, Active(q), query[q].at = l, query[q].steady
        PROVE  policy.user = old.user
    <3>1. ~Reassigns(job, l)
      BY <1>1, <2>3 DEF QueryInv, QueriesKeepCells
    <3>2. writing.port \in Ports /\ new # None
      BY <2>1, WriterTypes DEF TableInv, CellsInCall
    <3>3. new.user = old.user
      BY <3>1, <3>2 DEF Reassigns
    <3> QED BY <3>3 DEF Updated
  <2>4. WriteRest => policy.blocked = old.blocked
    BY DEF Updated, WriteRest
  <2>5. \A k \in Listeners \ {l} : listeners'[k] = listeners[k]
    <3> HIDE DEF policy
    <3> QED BY <1>3, <2>2 DEF Written
  <2>6. listeners'[l].task = listeners[l].task /\ listeners'[l].policy = policy
    <3> HIDE DEF policy
    <3> QED BY <1>3, <2>2 DEF Written
  <2>7. ASSUME NEW q \in Queries, Active(q), query[q].at = l, query[q].step = "listed"
        PROVE  WriteRest
    <3>1. q \in ReadersOfList(l)
      BY <2>7 DEF ReadersOfList, Holds
    <3> QED BY <1>7, <3>1 DEF WriteList
  <2>8. ASSUME NEW q \in Queries, Active(q)
        PROVE  /\ CellsOf(q)'.task = CellsOf(q).task
               /\ query[q].steady => CellsOf(q)'.policy.user = CellsOf(q).policy.user
               /\ query[q].step = "listed" =>
                     CellsOf(q)'.policy.blocked = CellsOf(q).policy.blocked
    <3>1. CASE query[q].at = l
      <4>1. CellsOf(q) = listeners[l] /\ CellsOf(q)' = listeners'[l]
        BY <1>2, <2>8, <3>1
      <4> HIDE DEF policy
      <4> QED BY <2>3, <2>4, <2>6, <2>7, <2>8, <3>1, <4>1
    <3>2. CASE query[q].at # l
      <4>1. CellsOf(q)' = CellsOf(q)
        BY <1>2, <2>5, <2>8, <3>2
      <4> QED BY <4>1
    <3> QED BY <3>1, <3>2
  <2> QED BY <2>8
<1>8. Kept
  <2>1. CASE \E p \in Ports : Spawn(p) \/ Overwrite(p) \/ StopStale(p)
    BY <1>4, <1>5, <1>6, <2>1
  <2>2. CASE WriteList \/ WriteRest
    BY <1>7, <2>2
  <2>3. CASE AskForList \/ Return
    BY <1>2, <2>3 DEF AskForList, Return
  <2> QED BY <2>1, <2>2, <2>3
<1>9. \/ job' = None
      \/ /\ job' = job
         /\ \A q \in Queries, p \in Ports :
               Active(q) /\ table'[p] = query[q].at => table[p] = query[q].at
  <2>1. ASSUME NEW p \in Ports, Spawn(p), NEW q \in Queries, Active(q), NEW k \in Ports,
               table'[k] = query[q].at
        PROVE  table[k] = query[q].at
    <3>1. PICK l \in Listeners : Free(l) /\ table' = [table EXCEPT ![p] = l]
      BY <2>1, Zenon DEF Spawn
    <3>2. query[q].at # l
      BY <1>2, <2>1, <3>1 DEF Free
    <3> QED BY <2>1, <3>1, <3>2 DEF TypeOK
  <2>2. ASSUME NEW p \in Ports, StopStale(p), NEW q \in Queries, Active(q), NEW k \in Ports,
               table'[k] = query[q].at
        PROVE  table[k] = query[q].at
    BY <1>2, <2>2, ListenerAssumption DEF StopStale, TypeOK
  <2>3. Return => job' = None
    BY DEF Return
  <2>4. \A p \in Ports : Spawn(p) \/ Overwrite(p) \/ StopStale(p) => job' = job
    BY DEF Spawn, Overwrite, StopStale
  <2>5. AskForList \/ WriteList \/ WriteRest \/ (\E p \in Ports : Overwrite(p)) =>
           UNCHANGED <<job, table>>
    BY DEF AskForList, WriteList, WriteRest, Overwrite
  <2> QED BY <2>1, <2>2, <2>3, <2>4, <2>5
<1> QED BY <1>1, <1>8, <1>9, CallKeepsQueries

LEMMA ReceiveQueries ==
    ASSUME TypeOK, TableInv, QueryInv, NEW q \in Queries, NEW l \in Listeners,
           NEW via \in {"udp", "tcp"}, NEW name \in Names, Receive(q, l, via, name)
    PROVE  QueryInv'
<1>1. /\ ~Active(q) /\ listeners[l].task = "serving"
      /\ UNCHANGED <<table, listeners, job>>
  BY DEF Receive
<1>2. /\ query'[q].step = "arrived" /\ query'[q].at = l
      /\ query'[q].owner = listeners[l].policy.user
      /\ query'[q].calm <=> job = None
      /\ query'[q].steady <=> job = None \/ ~Reassigns(job, l)
      /\ \A k \in Queries \ {q} : query'[k] = query[k]
  BY DEF Receive, TypeOK
<1>3. job = None => table[listeners[l].port] = l
  BY <1>1, ListenerAssumption DEF TableInv, AliveInTable, StoppingLeftTable, Alive
<1>4. CellsOf(q)' = listeners[l]
  BY <1>1, <1>2 DEF CellsOf
<1>5. \A k \in Queries \ {q} : Active(k)' = Active(k) /\ CellsOf(k)' = CellsOf(k)
  BY <1>1, <1>2 DEF Active, CellsOf
<1>6. QueriesKeepCells'
  <2>1. \A k \in Listeners : Reassigns(job, k)' = Reassigns(job, k)
    BY <1>1 DEF Reassigns
  <2>2. \A k \in Queries \ {q} : Active(k) => query[k].at \in Listeners
    BY QueryTypes DEF ActiveQuery
  <2>3. /\ CellsOf(q)'.task # "none" /\ CellsOf(q)'.policy.user = query'[q].owner
        /\ query'[q].steady /\ job' # None => ~Reassigns(job, query[q].at)'
        /\ query'[q].step # "listed"
    BY <1>1, <1>2, <1>4 DEF Reassigns
  <2>4. \A k \in Queries \ {q} : Active(k)' =>
           /\ CellsOf(k)'.task # "none"
           /\ query'[k].steady =>
                 /\ CellsOf(k)'.policy.user = query'[k].owner
                 /\ job' # None => ~Reassigns(job, query[k].at)'
           /\ query'[k].step = "listed" => query'[k].list = CellsOf(k)'.policy.blocked
    BY <1>1, <1>2, <1>5, <2>1, <2>2 DEF QueryInv, QueriesKeepCells, Reassigns
  <2> QED BY <2>3, <2>4 DEF QueriesKeepCells
<1>7. CalmQueries'
  BY <1>1, <1>2, <1>3, <1>4, <1>5 DEF QueryInv, CalmQueries
<1>8. AlertsNameTheirUser'
  BY <1>2, <1>5 DEF QueryInv, AlertsNameTheirUser
<1> QED BY <1>6, <1>7, <1>8 DEF QueryInv

LEMMA ReadsQueries ==
    ASSUME TypeOK, TableInv, QueryInv, NEW q \in Queries, Reads(q)
    PROVE  QueryInv'
<1>1. Active(q)
  BY DEF Reads, ReadList, Judge, ReadMode, ReadUser, Active
<1>2. query[q] \in ActiveQuery /\ query[q].at \in Listeners
  BY <1>1, ReadTypes DEF QueryInv
<1>3. UNCHANGED <<table, listeners, job>>
  BY DEF Reads, ReadList, Judge, ReadMode, ReadUser
<1>4. PICK step, list, mode, user :
         /\ query' = Moved(q, step, list, mode, user)
         /\ \/ ReadList(q) /\ step = "listed" /\ list = CellsOf(q).policy.blocked
            \/ Judge(q) /\ step = (IF Refuses(query[q].list, CellsOf(q).policy.allowed, query[q].name)
                                   THEN "mode" ELSE "forward")
            \/ ReadMode(q) /\ step = "user" /\ mode = CellsOf(q).policy.mode
            \/ ReadUser(q) /\ step = "notify" /\ mode = query[q].mode /\ user = CellsOf(q).policy.user
  BY Reading, Zenon DEF Reads
<1>5. /\ query'[q].step = step /\ query'[q].list = list /\ query'[q].mode = mode
      /\ query'[q].user = user /\ query'[q].at = query[q].at /\ query'[q].name = query[q].name
      /\ query'[q].owner = query[q].owner /\ query'[q].calm = query[q].calm
      /\ query'[q].steady = query[q].steady
      /\ \A k \in Queries \ {q} : query'[k] = query[k]
  BY <1>4 DEF Moved, TypeOK
<1>6. CellsOf(q)' = CellsOf(q)
  BY <1>3, <1>5 DEF CellsOf
<1>7. \A k \in Queries \ {q} : Active(k)' = Active(k) /\ CellsOf(k)' = CellsOf(k)
  BY <1>3, <1>5 DEF Active, CellsOf
<1>8. QueriesKeepCells'
  <2>1. /\ CellsOf(q).task # "none"
        /\ query[q].steady => CellsOf(q).policy.user = query[q].owner
                              /\ (job # None => ~Reassigns(job, query[q].at))
    BY <1>1 DEF QueryInv, QueriesKeepCells
  <2>2. step = "listed" => list = CellsOf(q).policy.blocked
    BY <1>4
  <2>3. \A k \in Queries \ {q} : Active(k) =>
           /\ CellsOf(k).task # "none"
           /\ query[k].steady => CellsOf(k).policy.user = query[k].owner
                                 /\ (job # None => ~Reassigns(job, query[k].at))
           /\ query[k].step = "listed" => query[k].list = CellsOf(k).policy.blocked
    BY DEF QueryInv, QueriesKeepCells
  <2>4. \A k \in Queries : query'[k].at = query[k].at
    BY <1>5
  <2>5. \A k \in Queries : job' # None /\ ~Reassigns(job, query[k].at) =>
                                job # None /\ ~Reassigns(job, query[k].at)'
    BY <1>3, <2>4 DEF Reassigns
  <2>6. \A k \in Queries : Active(k)' => (query'[k].steady /\ job' # None => ~Reassigns(job, query[k].at)')
    BY <1>1, <1>3, <1>5, <1>7, <2>1, <2>3, <2>5
  <2> QED BY <1>5, <1>6, <1>7, <2>1, <2>2, <2>3, <2>6 DEF QueriesKeepCells
<1>9. CalmQueries'
  <2>1. ASSUME query[q].calm
        PROVE  /\ job = None /\ query[q].steady /\ table[CellsOf(q).port] = query[q].at
               /\ step \in {"mode", "user", "notify"} =>
                     Refuses(CellsOf(q).policy.blocked, CellsOf(q).policy.allowed, query[q].name)
               /\ step = "forward" =>
                     ~Refuses(CellsOf(q).policy.blocked, CellsOf(q).policy.allowed, query[q].name)
               /\ step \in {"user", "notify"} => mode = CellsOf(q).policy.mode
    <3>1. /\ job = None /\ query[q].steady
          /\ table[CellsOf(q).port] = query[q].at
          /\ query[q].step \in {"mode", "user", "notify"} =>
                Refuses(CellsOf(q).policy.blocked, CellsOf(q).policy.allowed, query[q].name)
          /\ query[q].step \in {"user", "notify"} => query[q].mode = CellsOf(q).policy.mode
      BY <1>1, <2>1 DEF QueryInv, CalmQueries
    <3>2. query[q].step = "listed" => query[q].list = CellsOf(q).policy.blocked
      BY <1>1 DEF QueryInv, QueriesKeepCells
    <3>3. CASE ReadList(q)
      BY <1>4, <3>1, <3>3 DEF ReadList, Judge, ReadMode, ReadUser
    <3>4. CASE Judge(q)
      BY <1>4, <3>1, <3>2, <3>4 DEF ReadList, Judge, ReadMode, ReadUser
    <3>5. CASE ReadMode(q)
      BY <1>4, <3>1, <3>5 DEF ReadList, Judge, ReadMode, ReadUser
    <3>6. CASE ReadUser(q)
      BY <1>4, <3>1, <3>6 DEF ReadList, Judge, ReadMode, ReadUser
    <3> QED BY <3>3, <3>4, <3>5, <3>6 DEF Reads
  <2>2. \A k \in Queries \ {q} : Active(k) /\ query[k].calm =>
        /\ job = None /\ query[k].steady
        /\ table[CellsOf(k).port] = query[k].at
        /\ query[k].step \in {"mode", "user", "notify"} =>
               Refuses(CellsOf(k).policy.blocked, CellsOf(k).policy.allowed, query[k].name)
        /\ query[k].step = "forward" =>
               ~Refuses(CellsOf(k).policy.blocked, CellsOf(k).policy.allowed, query[k].name)
        /\ query[k].step \in {"user", "notify"} => query[k].mode = CellsOf(k).policy.mode
    BY DEF QueryInv, CalmQueries
  <2> QED BY <1>3, <1>5, <1>6, <1>7, <2>1, <2>2 DEF CalmQueries
<1>10. AlertsNameTheirUser'
  <2>1. step = "notify" /\ query[q].steady => user = query[q].owner
    BY <1>1, <1>4 DEF QueryInv, QueriesKeepCells, ReadList, ReadMode, ReadUser, Judge
  <2> QED BY <1>5, <1>7, <2>1 DEF QueryInv, AlertsNameTheirUser
<1> QED BY <1>8, <1>9, <1>10 DEF QueryInv

LEMMA QueryStep ==
    ASSUME TypeOK, TableInv, QueryInv, [Next]_vars
    PROVE  QueryInv'
<1>1. CASE \E next \in [Ports -> Policies \cup {None}] : Reconcile(next)
  BY <1>1, ReconcileQueries
<1>2. CASE \/ \E p \in Ports : Spawn(p) \/ Overwrite(p) \/ StopStale(p)
           \/ AskForList \/ WriteList \/ WriteRest \/ Return
  BY <1>2, CallQueries
<1>3. CASE \E l \in Listeners, q \in Queries, via \in {"udp", "tcp"}, name \in Names :
              Receive(q, l, via, name)
  BY <1>3, ReceiveQueries
<1>4. CASE \E q \in Queries : Reads(q)
  BY <1>4, ReadsQueries
<1>5. CASE \/ \E l \in Listeners : Bind(l) \/ ShutDown(l) \/ SocketFails(l)
           \/ \E q \in Queries : Notify(q) \/ Forward(q) \/ QueryFails(q)
           \/ \E name \in Names : CooldownEnds(name)
           \/ JoinStale
           \/ UNCHANGED vars
  <2>1. Aged
    BY <1>5, AgedSteps DEF QueryInv
  <2> QED BY <2>1, AgedQueries
<1> QED BY <1>1, <1>2, <1>3, <1>4, <1>5, StepCases

-----------------------------------------------------------------------------
(* Theorems *)

LEMMA Initially == Init => IInv
<1> SUFFICES ASSUME Init PROVE IInv
  OBVIOUS
<1>1. TypeOK
  <2>1. NoListener \in Cell
    BY DEF NoListener, Cell, TaskStates
  <2>2. listeners \in [Listeners -> Cell]
    BY <2>1 DEF Init
  <2>3. faults \in 0..MaxFaults
    BY DnsFaultAssumption DEF Init
  <2> QED BY <2>2, <2>3 DEF Init, TypeOK, NoPolicies, Cell
<1>2. TableInv
  BY DEF Init, TableInv, CellsFilled, TableFits, AliveInTable, StoppingLeftTable, TableAtRest,
     PortsInCall, CellsInCall, NoListener, NoPolicies, Alive
<1>3. QueriesKeepCells /\ CalmQueries /\ AlertsNameTheirUser
  BY DEF Init, QueriesKeepCells, CalmQueries, AlertsNameTheirUser, Active, NoQuery
<1> QED BY <1>1, <1>2, <1>3 DEF IInv

\* The inductive invariant: the cells of the listeners follow the call port by
\* port and cell by cell, and what a query has read agrees with them.
THEOREM Listening == Spec => []IInv
<1>1. IInv /\ [Next]_vars => IInv'
  <2> SUFFICES ASSUME IInv, [Next]_vars PROVE IInv'
    OBVIOUS
  <2>1. TypeOK /\ TableInv /\ QueriesKeepCells /\ QueryInv
    BY DEF IInv, QueryInv
  <2>2. TypeOK' /\ TableInv' /\ QueryInv'
    BY <2>1, TypeStep, TableStep, QueryStep
  <2> QED BY <2>2 DEF IInv, QueryInv
<1> QED BY Initially, <1>1, PTL DEF Spec

\* Every listener, query and call keeps its type (TypeOK).
THEOREM TypesAreKept == Spec => []TypeOK
<1>1. IInv => TypeOK
  BY DEF IInv
<1> QED BY Listening, <1>1, PTL

\* A refused query is reported under the user whose listener received it, also
\* when the TCP client outlives that listener, unless a reconcile gives that very
\* listener to another user.
THEOREM AlertsReachTheirUser == Spec => []AlertsNameTheirUser
<1>1. IInv => AlertsNameTheirUser
  BY DEF IInv
<1> QED BY Listening, <1>1, PTL

\* Two listeners never hold one port: reconcile waits for the task of a stale
\* listener before it returns, and no port is spawned twice.
THEOREM PortsAreExclusive == Spec => []OneListenerPerPort
<1>1. IInv => OneListenerPerPort
  <2> SUFFICES ASSUME IInv, NEW k \in Listeners, NEW l \in Listeners,
                      Alive(k), Alive(l), listeners[k].port = listeners[l].port
               PROVE  k = l
    BY DEF OneListenerPerPort
  <2>1. /\ stopping = k \/ table[listeners[k].port] = k
        /\ stopping = l \/ table[listeners[k].port] = l
    BY DEF IInv, TableInv, AliveInTable
  <2>2. stopping \in {k, l} => table[listeners[k].port] = None
    BY ListenerAssumption DEF IInv, TableInv, StoppingLeftTable
  <2> QED BY <2>1, <2>2, ListenerAssumption
<1> QED BY Listening, <1>1, PTL

\* Once reconcile has returned, a query that meets no other reconcile is judged
\* and reported by what that reconcile asked for.
THEOREM AnswersFollowPolicy == Spec => []AnswerFollowsPolicy
<1>1. IInv => AnswerFollowsPolicy
  <2> SUFFICES ASSUME IInv, NEW q \in Queries, Active(q), query[q].calm
               PROVE  /\ PolicyAt(q) # None
                      /\ query[q].step \in {"mode", "user", "notify", "forward"} =>
                            (query[q].step # "forward" <=>
                               Refuses(PolicyAt(q).blocked, PolicyAt(q).allowed, query[q].name))
                      /\ query[q].step = "notify" =>
                            query[q].mode = PolicyAt(q).mode /\ query[q].user = PolicyAt(q).user
    BY DEF AnswerFollowsPolicy
  <2>1. /\ query[q] \in ActiveQuery /\ query[q].at \in Listeners /\ CellsOf(q).port \in Ports
        /\ job = None /\ table[CellsOf(q).port] = query[q].at
    BY ReadTypes DEF IInv, CalmQueries
  <2>2. PolicyAt(q) # None /\ PolicyAt(q) = CellsOf(q).policy
    BY <2>1, ListenerAssumption DEF IInv, TableInv, TableAtRest, Held, PolicyAt, CellsOf
  <2>3. query[q].step = "notify" => query[q].user = CellsOf(q).policy.user
    BY DEF IInv, QueriesKeepCells, CalmQueries, AlertsNameTheirUser
  <2> QED BY <2>2, <2>3 DEF IInv, CalmQueries
<1> QED BY Listening, <1>1, PTL

\* The list a verdict rests on is the one in the cells when the verdict is
\* given, whatever a reconcile was about to write.
THEOREM VerdictsUseListInForce == Spec => VerdictFromListInForce
<1>1. IInv => \A q \in Queries :
                 Active(q) /\ query[q].step = "listed" =>
                     query[q].list = listeners[query[q].at].policy.blocked
  BY DEF IInv, QueriesKeepCells, CellsOf
<1>2. IInv /\ [Next]_vars =>
        [\A q \in Queries :
          Active(q) /\ query[q].step = "listed" /\ query'[q].step \in {"mode", "forward"} =>
              query[q].list = listeners[query[q].at].policy.blocked]_vars
  BY <1>1
<1> QED BY Listening, <1>2, PTL DEF VerdictFromListInForce, Spec

-----------------------------------------------------------------------------
(* What reconcile waits for *)

\* A release of cells keeps those that something refers to, and their orders.
LEMMA DroppedKeeps ==
    ASSUME NEW ls \in [Listeners -> Cell], NEW qs, NEW ids, NEW l \in Listeners,
           Dropped(ls, qs, ids)[l].task # "none"
    PROVE  /\ Dropped(ls, qs, ids)[l] = ls[l]
           /\ \/ l \notin ids \/ ls[l].task # "gone" \/ InTable(l)
              \/ \E q \in Queries : qs[q].step # "free" /\ qs[q].at = l
BY DEF Dropped, NoListener

\* Steps after which what referred to cells still does, and no cells are filled.
LEMMA UseKept ==
    ASSUME WaitInv, stopping' = stopping,
           \A p \in Ports : table'[p] = table[p],
           \A l \in Listeners : /\ listeners'[l].task # "none" => listeners[l].task # "none"
                                /\ listeners'[l].stop = listeners[l].stop,
           \A q \in Queries : Active(q) => Active(q)' /\ query'[q].at = query[q].at,
           stopping # None => stopping \in Listeners
    PROVE  WaitInv'
<1>1. CellsInUse'
  <2>1. \A l \in Listeners : InTable(l) => InTable(l)'
    BY DEF InTable
  <2>2. \A l \in Listeners, q \in Queries : Holds(q, l) => Holds(q, l)'
    BY DEF Holds
  <2> QED BY <2>1, <2>2 DEF WaitInv, CellsInUse
<1>2. StaleIsTold'
  BY DEF WaitInv, StaleIsTold
<1> QED BY <1>1, <1>2 DEF WaitInv

LEMMA EndKeepsUse ==
    ASSUME TypeOK, TableInv, WaitInv, NEW q \in Queries, Active(q),
           NEW ls \in [Listeners -> Cell], End(q, ls), UNCHANGED <<table, stopping>>,
           \A l \in Listeners : /\ ls[l].stop = listeners[l].stop
                                /\ ls[l].task # "none" => listeners[l].task # "none"
                                /\ ls[l].task \in {"starting", "serving"} => Alive(l)
    PROVE  WaitInv'
<1> DEFINE ids == {query[q].at} \ {stopping}
<1>1. /\ listeners' = Dropped(ls, query', ids)
      /\ query' = [query EXCEPT ![q] = NoQuery]
  BY DEF End
<1>2. \A k \in Queries \ {q} : query'[k] = query[k]
  BY <1>1 DEF TypeOK
<1>3. \A l \in Listeners : InTable(l)' = InTable(l)
  BY DEF InTable
<1>4. ASSUME NEW l \in Listeners, listeners'[l].task # "none"
      PROVE  /\ listeners'[l] = ls[l]
             /\ \/ l \notin ids \/ ls[l].task # "gone" \/ InTable(l)
                \/ \E k \in Queries : Holds(k, l)'
  <2> DEFINE qs == query'
  <2>1. Dropped(ls, qs, ids)[l].task # "none"
    BY <1>1, <1>4
  <2>2. /\ Dropped(ls, qs, ids)[l] = ls[l]
        /\ \/ l \notin ids \/ ls[l].task # "gone" \/ InTable(l)
           \/ \E k \in Queries : qs[k].step # "free" /\ qs[k].at = l
    <3> HIDE DEF qs, ids
    <3> QED BY <2>1, DroppedKeeps
  <2> QED BY <1>1, <2>2 DEF Holds, Active
<1>5. CellsInUse'
  <2> SUFFICES ASSUME NEW l \in Listeners, listeners'[l].task # "none"
               PROVE  InTable(l)' \/ stopping' = l \/ \E k \in Queries : Holds(k, l)'
    BY DEF CellsInUse
  <2>1. listeners[l].task # "none"
    BY <1>4
  <2>2. InTable(l) \/ stopping = l \/ \E k \in Queries : Holds(k, l)
    BY <2>1 DEF WaitInv, CellsInUse
  <2>3. ASSUME NEW k \in Queries \ {q}, Holds(k, l) PROVE Holds(k, l)'
    BY <1>2, <2>3 DEF Holds, Active
  <2>4. CASE Holds(q, l) /\ stopping # l /\ ~InTable(l)
    <3>1. l \in ids
      BY <2>4 DEF Holds
    <3>2. ls[l].task # "gone" => Alive(l)
      <4>1. ls[l].task \in TaskStates /\ ls[l].task # "none"
        BY <1>4 DEF Cell
      <4> QED BY <4>1 DEF TaskStates
    <3>3. Alive(l) => stopping = l \/ InTable(l)
      <4>1. Alive(l) => listeners[l].port \in Ports
        BY DEF TableInv, CellsFilled, Alive
      <4> QED BY <4>1 DEF TableInv, AliveInTable, InTable
    <3> QED BY <1>4, <2>4, <3>1, <3>2, <3>3
  <2> QED BY <1>3, <2>2, <2>3, <2>4
<1>6. StaleIsTold'
  <2> SUFFICES ASSUME stopping # None PROVE listeners'[stopping].stop
    BY DEF StaleIsTold
  <2>1. stopping \in Listeners /\ listeners[stopping].stop
    BY DEF TypeOK, WaitInv, StaleIsTold
  <2>2. stopping \notin ids
    OBVIOUS
  <2>3. listeners'[stopping] = ls[stopping]
    BY <1>1, <2>1, <2>2 DEF Dropped
  <2> QED BY <2>1, <2>3
<1> QED BY <1>5, <1>6 DEF WaitInv

LEMMA WaitStep ==
    IInv /\ WaitInv /\ [Next]_vars => WaitInv'
<1> SUFFICES ASSUME IInv, WaitInv, [Next]_vars PROVE WaitInv'
  OBVIOUS
<1>0. /\ TypeOK /\ TableInv /\ QueriesKeepCells
      /\ listeners \in [Listeners -> Cell] /\ table \in [Ports -> Listeners \cup {None}]
      /\ stopping # None => stopping \in Listeners
  BY DEF IInv, TypeOK, Cell
<1>1. ASSUME NEW next \in [Ports -> Policies \cup {None}], Reconcile(next) PROVE WaitInv'
  <2>1. \A q \in Queries : Active(q) => Active(q)' /\ query'[q].at = query[q].at
    <3>1. ASSUME NEW q \in Queries, Active(q) PROVE Active(q)' /\ query'[q].at = query[q].at
      <4>1. query'[q] = [query[q] EXCEPT !.calm = FALSE,
                            !.steady = @ /\ ~Reassigns(next, query[q].at)]
        BY <1>1, <3>1 DEF Reconcile
      <4>2. query'[q] \in ActiveQuery
        BY <1>0, <1>1, <3>1, ReconcileQuery
      <4>3. query'[q].at = query[q].at
        BY <4>1, <4>2, <1>0, <3>1, QueryTypes DEF ActiveQuery
      <4> QED BY <4>2, <4>3 DEF Active, ActiveQuery
    <3> QED BY <3>1
  <2>2. UNCHANGED <<table, listeners, stopping>>
    BY <1>1 DEF Reconcile
  <2> QED BY <1>0, <2>1, <2>2, UseKept
<1>2. ASSUME NEW p \in Ports, Spawn(p) PROVE WaitInv'
  <2>1. PICK l \in Listeners :
           /\ listeners' = [listeners EXCEPT
                ![l] = [port |-> p, policy |-> job[p], task |-> "starting", stop |-> FALSE]]
           /\ table' = [table EXCEPT ![p] = l]
    BY <1>2, Zenon DEF Spawn
  <2>2. /\ table[p] = None /\ stopping = None
        /\ UNCHANGED <<query, stopping>>
    BY <1>2 DEF Spawn, InLoop
  <2>3. \A k \in Listeners \ {l} : listeners'[k] = listeners[k]
    BY <1>0, <2>1
  <2>4. \A k \in Listeners : k = l \/ InTable(k) => InTable(k)'
    BY <1>0, <2>1, <2>2, ListenerAssumption DEF InTable
  <2>5. CellsInUse'
    BY <2>2, <2>3, <2>4 DEF WaitInv, CellsInUse, Holds, Active
  <2>6. StaleIsTold'
    BY <2>2 DEF StaleIsTold
  <2> QED BY <2>5, <2>6 DEF WaitInv
<1>3. ASSUME NEW p \in Ports, StopStale(p) PROVE WaitInv'
  <2>1. /\ table[p] \in Listeners
        /\ table' = [table EXCEPT ![p] = None]
        /\ listeners' = [listeners EXCEPT ![table[p]].stop = TRUE]
        /\ stopping = None /\ stopping' = table[p] /\ query' = query
    BY <1>0, <1>3 DEF StopStale, Stale, InLoop
  <2> DEFINE l == table[p]
  <2>2. /\ \A k \in Listeners : listeners'[k].task = listeners[k].task
        /\ listeners'[l].stop
    <3>1. l \in Listeners /\ listeners' = [listeners EXCEPT ![l].stop = TRUE]
      BY <2>1
    <3> HIDE DEF l
    <3> QED BY <1>0, <3>1 DEF Cell
  <2>3. \A k \in Listeners : InTable(k) => k = table[p] \/ InTable(k)'
    BY <1>0, <2>1 DEF InTable
  <2>4. CellsInUse'
    BY <1>0, <2>1, <2>2, <2>3, ListenerAssumption DEF WaitInv, CellsInUse, Holds, Active
  <2>5. StaleIsTold'
    BY <2>1, <2>2 DEF StaleIsTold
  <2> QED BY <2>4, <2>5 DEF WaitInv
<1>4. CASE \/ \E p \in Ports : Overwrite(p)
           \/ AskForList \/ Return
           \/ \E name \in Names : CooldownEnds(name)
           \/ UNCHANGED vars
  <2>1. UNCHANGED <<table, listeners, stopping, query>>
    BY <1>4 DEF Overwrite, AskForList, Return, CooldownEnds, vars
  <2> QED BY <1>0, <2>1, UseKept DEF Active
<1>5. CASE WriteList \/ WriteRest
  <2> DEFINE policy == Updated(listeners[table[writing.port]].policy, job[writing.port], writing.cell)
  <2>1. listeners' = Written(policy)
    BY <1>0, <1>5, Writing
  <2>2. /\ table[writing.port] \in Listeners
        /\ UNCHANGED <<table, stopping, query>>
    BY <1>0, <1>5, WriterTypes DEF WriteList, WriteRest
  <2>3. \A l \in Listeners : /\ listeners'[l].task = listeners[l].task
                             /\ listeners'[l].stop = listeners[l].stop
    <3> HIDE DEF policy
    <3> QED BY <1>0, <2>1, <2>2 DEF Written
  <2> HIDE DEF policy
  <2> QED BY <1>0, <2>2, <2>3, UseKept DEF Active
<1>6. ASSUME NEW l \in Listeners, Bind(l) \/ ShutDown(l) \/ SocketFails(l) PROVE WaitInv'
  <2>1. listeners[l].task # "none" /\ UNCHANGED <<table, stopping, query>>
    BY <1>6 DEF Bind, ShutDown, SocketFails
  <2>2. PICK task : listeners' = [listeners EXCEPT ![l].task = task]
    BY <1>6 DEF Bind, ShutDown, SocketFails, Died
  <2>3. \A k \in Listeners : /\ listeners'[k].stop = listeners[k].stop
                             /\ k # l => listeners'[k].task = listeners[k].task
    BY <1>0, <2>2 DEF Cell
  <2> QED BY <1>0, <2>1, <2>3, UseKept DEF Active
<1>7. ASSUME NEW l \in Listeners, NEW q \in Queries, NEW via \in {"udp", "tcp"}, NEW name \in Names,
             Receive(q, l, via, name)
      PROVE  WaitInv'
  <2>1. UNCHANGED <<table, listeners, stopping>> /\ ~Active(q)
    BY <1>7 DEF Receive
  <2>2. \A k \in Queries \ {q} : query'[k] = query[k]
    BY <1>0, <1>7 DEF Receive, TypeOK
  <2> QED BY <1>0, <2>1, <2>2, UseKept DEF Active
<1>8. ASSUME NEW q \in Queries, Reads(q) PROVE WaitInv'
  <2>1. UNCHANGED <<table, listeners, stopping>> /\ Active(q)
    BY <1>8 DEF Reads, ReadList, Judge, ReadMode, ReadUser, Active
  <2>2. PICK step, list, mode, user : step # "free" /\ query' = Moved(q, step, list, mode, user)
    <3>1. "listed" # "free" /\ "mode" # "free" /\ "forward" # "free" /\ "user" # "free" /\ "notify" # "free"
      OBVIOUS
    <3>2. CASE ReadList(q)
      BY <1>0, <3>1, <3>2, Reading, Zenon
    <3>3. CASE Judge(q)
      <4>1. PICK verdict : verdict # "free" /\ query' = Moved(q, verdict, None, query[q].mode, query[q].user)
        BY <1>0, <3>1, <3>3, Reading
      <4> QED BY <4>1
    <3>4. CASE ReadMode(q)
      BY <1>0, <3>1, <3>4, Reading, Zenon
    <3>5. CASE ReadUser(q)
      BY <1>0, <3>1, <3>5, Reading, Zenon
    <3> QED BY <1>8, <3>2, <3>3, <3>4, <3>5 DEF Reads
  <2>3. /\ query'[q].step = step /\ query'[q].at = query[q].at
        /\ \A k \in Queries \ {q} : query'[k] = query[k]
    BY <1>0, <2>2 DEF Moved, TypeOK
  <2>4. \A k \in Queries : Active(k) => Active(k)' /\ query'[k].at = query[k].at
    BY <2>2, <2>3 DEF Active
  <2> QED BY <1>0, <2>1, <2>4, UseKept
<1>9. ASSUME NEW q \in Queries, Notify(q) \/ Forward(q) \/ QueryFails(q) PROVE WaitInv'
  <2>1. Active(q) /\ UNCHANGED <<table, stopping>>
    BY <1>9 DEF Notify, Forward, QueryFails, Active
  <2>2. query[q].at \in Listeners /\ CellsOf(q).task # "none"
    BY <1>0, <2>1, ReadTypes DEF QueriesKeepCells
  <2>3. PICK ls \in [Listeners -> Cell] : End(q, ls) /\ (ls = listeners \/ ls = Died(query[q].at))
    BY <1>0, <1>9, <2>2, DiedTypes DEF Notify, Forward, QueryFails
  <2>4. \A l \in Listeners : /\ ls[l].stop = listeners[l].stop
                             /\ ls[l].task # "none" => listeners[l].task # "none"
                             /\ ls[l].task \in {"starting", "serving"} => Alive(l)
    BY <1>0, <2>2, <2>3 DEF Died, Cell, CellsOf, Alive
  <2> QED BY <1>0, <2>1, <2>3, <2>4, EndKeepsUse
<1>10. CASE JoinStale
  <2>1. /\ listeners' = Dropped(listeners, query, {stopping})
        /\ stopping' = None /\ listeners[stopping].task = "gone"
        /\ UNCHANGED <<table, query>>
    BY <1>10 DEF JoinStale
  <2>2. ASSUME NEW l \in Listeners, listeners'[l].task # "none"
        PROVE  InTable(l)' \/ \E k \in Queries : Holds(k, l)'
    <3>1. /\ listeners'[l] = listeners[l]
          /\ \/ l # stopping \/ listeners[l].task # "gone" \/ InTable(l)
             \/ \E q \in Queries : query[q].step # "free" /\ query[q].at = l
      BY <1>0, <2>1, <2>2, DroppedKeeps
    <3>2. InTable(l) \/ stopping = l \/ \E k \in Queries : Holds(k, l)
      BY <2>2, <3>1 DEF WaitInv, CellsInUse
    <3> QED BY <2>1, <3>1, <3>2 DEF InTable, Holds, Active
  <2> QED BY <2>1, <2>2 DEF WaitInv, CellsInUse, StaleIsTold
<1> QED BY <1>1, <1>2, <1>3, <1>4, <1>5, <1>6, <1>7, <1>8, <1>9, <1>10, StepCases

\* When a port has no listener, the others and the queries do not use all cells.
LEMMA CellsAreLeft ==
    ASSUME TypeOK, CellsInUse, stopping = None, NEW p \in Ports, table[p] = None
    PROVE  \E l \in Listeners : Free(l)
<1> SUFFICES ASSUME \A l \in Listeners : ~Free(l) PROVE FALSE
  OBVIOUS
<1> DEFINE others == {x \in Ports : table[x] # None}
           active == {q \in Queries : Active(q)}
           held   == {l \in Listeners : InTable(l)}
           read   == {l \in Listeners : \E q \in Queries : Holds(q, l)}
           tables == [x \in others |-> table[x]]
           reads  == [q \in active |-> query[q].at]
<1>1. Listeners = held \cup read
  BY ListenerAssumption DEF CellsInUse, Free
<1>2. tables \in Surjection(others, held)
  <2>1. tables \in [others -> held]
    BY DEF TypeOK, InTable
  <2>2. \A l \in held : \E x \in others : tables[x] = l
    BY ListenerAssumption DEF InTable
  <2> QED BY <2>1, <2>2 DEF Surjection
<1>3. reads \in Surjection(active, read)
  <2>1. \A q \in active : query[q].at \in Listeners
    BY QueryTypes DEF ActiveQuery
  <2>2. reads \in [active -> read]
    BY <2>1 DEF Holds
  <2>3. \A l \in read : \E q \in active : reads[q] = l
    BY DEF Holds
  <2> QED BY <2>2, <2>3 DEF Surjection
<1>4. others \in SUBSET (Ports \ {p}) /\ active \in SUBSET Queries
  OBVIOUS
<1> HIDE DEF others, active, held, read, tables, reads
<1>5. IsFiniteSet(Ports \ {p}) /\ Cardinality(Ports \ {p}) = Cardinality(Ports) - 1
  BY FiniteAssumption, FS_RemoveElement
<1>6. /\ IsFiniteSet(others) /\ Cardinality(others) <= Cardinality(Ports \ {p})
      /\ IsFiniteSet(active) /\ Cardinality(active) <= Cardinality(Queries)
  BY <1>4, <1>5, FiniteAssumption, FS_Subset
<1>7. /\ IsFiniteSet(held) /\ Cardinality(held) <= Cardinality(others)
      /\ IsFiniteSet(read) /\ Cardinality(read) <= Cardinality(active)
  BY <1>2, <1>3, <1>6, FS_Surjection
<1>8. /\ IsFiniteSet(held \cup read)
      /\ Cardinality(held \cup read) = Cardinality(held) + Cardinality(read) - Cardinality(held \cap read)
  BY <1>7, FS_Union
<1>9. IsFiniteSet(held \cap read)
  <2>1. held \cap read \in SUBSET held
    OBVIOUS
  <2> QED BY <1>7, <2>1, FS_Subset
<1>10. /\ Cardinality(Ports) \in Nat /\ Cardinality(Queries) \in Nat
       /\ Cardinality(others) \in Nat /\ Cardinality(active) \in Nat
       /\ Cardinality(held) \in Nat /\ Cardinality(read) \in Nat
       /\ Cardinality(held \cap read) \in Nat
  BY <1>6, <1>7, <1>9, FiniteAssumption, FS_CardinalityType
<1>11. Cardinality(Listeners) >= Cardinality(Ports) + Cardinality(Queries)
  BY ListenerAssumption
<1> QED BY <1>1, <1>5, <1>6, <1>7, <1>8, <1>10, <1>11

\* The safety part of the return of reconcile: the stale task it waits for has been
\* told to stop, finds its port free, and is not kept out of its cells by the very
\* writer; and cells for a new listener are always at hand.
THEOREM ReconcileIsNotStuck == Spec => []ReconcileNotStuck
<1>1. Init => WaitInv
  BY ListenerAssumption DEF Init, WaitInv, CellsInUse, StaleIsTold, NoListener
<1>2. IInv /\ WaitInv => ReconcileNotStuck
  <2> SUFFICES ASSUME IInv, WaitInv PROVE ReconcileNotStuck
    OBVIOUS
  <2>1. ASSUME stopping # None, Alive(stopping)
        PROVE  listeners[stopping].stop /\ ~PortTaken(stopping) /\ ~WriterQueued(stopping)
    <3>1. stopping \in Listeners /\ listeners[stopping].stop /\ writing = None
      BY <2>1 DEF IInv, TypeOK, TableInv, StoppingLeftTable, WaitInv, StaleIsTold
    <3>2. ASSUME NEW k \in Listeners \ {stopping}, Alive(k),
                 listeners[k].port = listeners[stopping].port
          PROVE  FALSE
      <4>1. table[listeners[k].port] = k
        BY <3>2 DEF IInv, TableInv, AliveInTable
      <4>2. table[listeners[stopping].port] = None
        BY <2>1 DEF IInv, TableInv, StoppingLeftTable
      <4> QED BY <3>2, <4>1, <4>2, ListenerAssumption
    <3> QED BY <3>1, <3>2 DEF PortTaken, WriterQueued, Alive
  <2>2. ASSUME InLoop, NEW p \in todo, table[p] = None PROVE \E l \in Listeners : Free(l)
    <3>1. stopping = None /\ p \in Ports
      BY <2>2 DEF InLoop, IInv, TypeOK
    <3> QED BY <2>2, <3>1, CellsAreLeft DEF IInv, WaitInv
  <2> QED BY <2>1, <2>2 DEF ReconcileNotStuck
<1> QED BY <1>1, <1>2, WaitStep, Listening, PTL DEF Spec
=============================================================================
