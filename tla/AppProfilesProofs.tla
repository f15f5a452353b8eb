------------------------- MODULE AppProfilesProofs -------------------------
(***************************************************************************)
(* Proofs about AppProfiles, for every set of users, rules, names, patterns   *)
(* and sessions, any updates, and any number of faults and restarts.         *)
(***************************************************************************)
EXTENDS AppProfiles, TLAPS

-----------------------------------------------------------------------------
(* Types *)

\* The fields of a call that a step writes.
LEMMA ProgressOf ==
    ASSUME job \in Calls, NEW at, NEW todo
    PROVE  [job EXCEPT !.at = at, !.todo = todo] =
              [op |-> job.op, user |-> job.user, phase |-> job.phase, todo |-> todo, at |-> at,
               done |-> job.done]
<1>1. [job EXCEPT !.at = at] =
          [op |-> job.op, user |-> job.user, phase |-> job.phase, todo |-> job.todo, at |-> at,
           done |-> job.done]
  BY DEF Calls
<1>2. [[op |-> job.op, user |-> job.user, phase |-> job.phase, todo |-> job.todo, at |-> at,
        done |-> job.done] EXCEPT !.todo = todo] =
          [op |-> job.op, user |-> job.user, phase |-> job.phase, todo |-> todo, at |-> at,
           done |-> job.done]
  OBVIOUS
<1>3. [job EXCEPT !.at = at, !.todo = todo] = [[job EXCEPT !.at = at] EXCEPT !.todo = todo]
  BY Zenon
<1> QED BY <1>1, <1>2, <1>3, Zenon

LEMMA AdvanceOf ==
    ASSUME job \in Calls
    PROVE  [job EXCEPT !.at = None, !.todo = @ \ {job.at}, !.done = @ + 1] =
              [op |-> job.op, user |-> job.user, phase |-> job.phase, todo |-> job.todo \ {job.at},
               at |-> None, done |-> job.done + 1]
<1> DEFINE todo == job.todo \ {job.at}
           done == job.done + 1
<1> HIDE DEF todo, done
<1>1. [job EXCEPT !.at = None, !.todo = todo] =
          [op |-> job.op, user |-> job.user, phase |-> job.phase, todo |-> todo, at |-> None,
           done |-> job.done]
  BY ProgressOf
<1>2. [[op |-> job.op, user |-> job.user, phase |-> job.phase, todo |-> todo, at |-> None,
        done |-> job.done] EXCEPT !.done = done] =
          [op |-> job.op, user |-> job.user, phase |-> job.phase, todo |-> todo, at |-> None,
           done |-> done]
  OBVIOUS
<1>3. [job EXCEPT !.at = None, !.todo = todo, !.done = done] =
          [[job EXCEPT !.at = None, !.todo = todo] EXCEPT !.done = done]
  BY Zenon
<1>4. [job EXCEPT !.at = None, !.todo = @ \ {job.at}, !.done = @ + 1] =
          [job EXCEPT !.at = None, !.todo = todo, !.done = done]
  BY DEF Calls, todo, done
<1>5. [job EXCEPT !.at = None, !.todo = @ \ {job.at}, !.done = @ + 1] =
          [op |-> job.op, user |-> job.user, phase |-> job.phase, todo |-> todo, at |-> None,
           done |-> done]
  BY <1>1, <1>2, <1>3, <1>4, Zenon
<1> QED BY <1>5 DEF todo, done

LEMMA EntryOf ==
    ASSUME job \in Calls, NEW phase, NEW todo
    PROVE  [job EXCEPT !.phase = phase, !.todo = todo, !.at = None, !.done = 0] =
              [op |-> job.op, user |-> job.user, phase |-> phase, todo |-> todo, at |-> None, done |-> 0]
<1>1. [job EXCEPT !.phase = phase] =
          [op |-> job.op, user |-> job.user, phase |-> phase, todo |-> job.todo, at |-> job.at,
           done |-> job.done]
  BY DEF Calls
<1>2. [[op |-> job.op, user |-> job.user, phase |-> phase, todo |-> job.todo, at |-> job.at,
        done |-> job.done] EXCEPT !.todo = todo] =
          [op |-> job.op, user |-> job.user, phase |-> phase, todo |-> todo, at |-> job.at,
           done |-> job.done]
  OBVIOUS
<1>3. [[op |-> job.op, user |-> job.user, phase |-> phase, todo |-> todo, at |-> job.at,
        done |-> job.done] EXCEPT !.at = None] =
          [op |-> job.op, user |-> job.user, phase |-> phase, todo |-> todo, at |-> None,
           done |-> job.done]
  OBVIOUS
<1>4. [[op |-> job.op, user |-> job.user, phase |-> phase, todo |-> todo, at |-> None,
        done |-> job.done] EXCEPT !.done = 0] =
          [op |-> job.op, user |-> job.user, phase |-> phase, todo |-> todo, at |-> None, done |-> 0]
  OBVIOUS
<1>5. [job EXCEPT !.phase = phase, !.todo = todo, !.at = None, !.done = 0] =
          [[[[job EXCEPT !.phase = phase] EXCEPT !.todo = todo] EXCEPT !.at = None] EXCEPT !.done = 0]
  BY Zenon
<1> QED BY <1>1, <1>2, <1>3, <1>4, <1>5, Zenon

\* The steps of a call.
LEMMA EnterStep ==
    ASSUME job \in Calls, NEW phase, NEW todo, Enter(phase, todo)
    PROVE  /\ job' = [op |-> job.op, user |-> job.user, phase |-> phase, todo |-> todo, at |-> None,
                      done |-> 0]
           /\ UNCHANGED <<reply, listenerVars>>
BY EntryOf, Zenon DEF Enter

LEMMA ProgressStep ==
    ASSUME job \in Calls, NEW at, NEW todo, Progress(at, todo)
    PROVE  /\ job' = [op |-> job.op, user |-> job.user, phase |-> job.phase, todo |-> todo, at |-> at,
                      done |-> job.done]
           /\ UNCHANGED <<reply, listenerVars, runtimeVars, sessions, restarts>>
BY ProgressOf, Zenon DEF Progress

LEMMA FinishStep ==
    ASSUME TypeOK, job # None, NEW result \in BOOLEAN, Finish(result)
    PROVE  /\ job' = None /\ reply' \in Users \cup {None}
           /\ handling' \in Handlings \cup {None}
           /\ (handling' = None <=> handling = None)
           /\ handling # None =>
                 /\ handling'.op = handling.op /\ handling'.user = handling.user
                 /\ handling'.step = IF handling.step = "calling" THEN "done" ELSE handling.step
           /\ UNCHANGED <<listening, begun, ended, cache, crossed>>
<1>1. job.user \in Users
  BY DEF TypeOK, Calls
<1>2. reply' \in Users \cup {None}
  BY <1>1 DEF Finish
<1>3. handling \in Handlings =>
         [handling EXCEPT !.step = "done"] =
            [op |-> handling.op, session |-> handling.session, user |-> handling.user, step |-> "done"]
  BY DEF Handlings
<1>4. handling # None /\ handling.step = "calling" =>
         handling' = [op |-> handling.op, session |-> handling.session,
                      user |-> handling.user, step |-> "done"]
  BY <1>3 DEF Finish, TypeOK
<1>5. ~(handling # None /\ handling.step = "calling") => handling' = handling
  BY DEF Finish
<1>6. handling' \in Handlings \cup {None} /\ (handling' = None <=> handling = None)
  BY <1>4, <1>5, ProfileAbsentAssumption DEF TypeOK, Handlings
<1> QED BY <1>2, <1>4, <1>5, <1>6 DEF Finish

\* The rules of a user and the names of their profiles.
LEMMA RuleTypes ==
    ASSUME TypeOK, NEW u \in Users
    PROVE  /\ RulesOf(u) \in Seq(Rules) /\ Len(RulesOf(u)) \in Nat
           /\ DOMAIN RulesOf(u) = 1..Len(RulesOf(u))
           /\ \A i \in DOMAIN RulesOf(u) : RulesOf(u)[i] \in Rules
           /\ \A i \in DOMAIN RulesOf(u) : NameOf[u, RulesOf(u)[i]] \in Prefixed[u]
           /\ Prefixed[u] \subseteq Profiles
<1>1. state.users[u] \in Policy
  BY DEF TypeOK, State
<1>2. RulesOf(u) \in Seq(Rules)
  BY <1>1 DEF Policy, RulesOf
<1>3. /\ Len(RulesOf(u)) \in Nat /\ DOMAIN RulesOf(u) = 1..Len(RulesOf(u))
      /\ \A i \in DOMAIN RulesOf(u) : RulesOf(u)[i] \in Rules
  BY <1>2
<1>4. \A rule \in Rules : NameOf[u, rule] \in Prefixed[u]
  BY NameAssumption
<1>5. Prefixed[u] \subseteq Profiles
  BY NameAssumption
<1> QED BY <1>2, <1>3, <1>4, <1>5

LEMMA BodyTypes ==
    ASSUME TypeOK
    PROVE  /\ \A u \in Users, rule \in Rules : BodyOf(u, rule) \in Body
           /\ GlobalBody \in Body
<1>1. \A u \in Users : LinesOf(u) \in SUBSET (Users \X Patterns)
  BY DEF LinesOf, TypeOK, State, Policy
<1>2. PathLines \in SUBSET (Users \X Patterns)
  BY <1>1 DEF PathLines, TypeOK
<1> QED BY <1>1, <1>2 DEF BodyOf, GlobalBody, Body

\* The loop over the rules of a user stays in his list.
LEMMA NextTypes ==
    ASSUME TypeOK, job # None
    PROVE  /\ job.user \in Users /\ job.done \in Nat
           /\ job.phase = "load" /\ MoreToLoad =>
                 /\ job.done + 1 \in DOMAIN RulesOf(job.user) /\ NextRule \in Rules
                 /\ NextNames = {NameOf[job.user, NextRule]}
                 /\ NameOf[job.user, NextRule] \in Prefixed[job.user]
                 /\ Content = BodyOf(job.user, NextRule)
           /\ job.phase # "load" => NextNames = job.todo /\ Content = GlobalBody
           /\ MoreToLoad => NextNames \subseteq Names /\ Content \in Body
<1>1. job.user \in Users /\ job.done \in Nat /\ job.todo \subseteq Names
  BY DEF TypeOK, Calls
<1>2. ASSUME job.phase = "load", MoreToLoad
      PROVE  /\ job.done + 1 \in DOMAIN RulesOf(job.user) /\ NextRule \in Rules
             /\ NextNames = {NameOf[job.user, NextRule]}
             /\ NameOf[job.user, NextRule] \in Prefixed[job.user]
             /\ Content = BodyOf(job.user, NextRule)
  <2>1. job.done < Len(RulesOf(job.user))
    BY <1>2 DEF MoreToLoad
  <2>2. job.done + 1 \in DOMAIN RulesOf(job.user)
    <3>1. Len(RulesOf(job.user)) \in Nat /\ DOMAIN RulesOf(job.user) = 1..Len(RulesOf(job.user))
      BY <1>1, RuleTypes
    <3> QED BY <1>1, <2>1, <3>1
  <2> QED BY <1>1, <1>2, <2>2, RuleTypes DEF NextRule, NextNames, Content
<1>3. job.phase # "load" => NextNames = job.todo /\ Content = GlobalBody
  BY DEF NextNames, Content
<1>4. MoreToLoad => NextNames \subseteq Names /\ Content \in Body
  <2>1. CASE job.phase = "load"
    <3>1. MoreToLoad => NameOf[job.user, NextRule] \in Names
      BY <1>1, <1>2, <2>1, RuleTypes DEF Names
    <3>2. ASSUME MoreToLoad PROVE NextNames = {NameOf[job.user, NextRule]} /\ Content \in Body
      BY <1>1, <1>2, <2>1, <3>2, BodyTypes
    <3> QED BY <3>1, <3>2
  <2>2. CASE job.phase # "load"
    BY <1>1, <1>3, <2>2, BodyTypes
  <2> QED BY <2>1, <2>2
<1> QED BY <1>1, <1>2, <1>3, <1>4

\* The names a call can be given.
LEMMA NameTypes ==
    ASSUME TypeOK, NEW u \in Users
    PROVE  /\ FilesOf(u) \subseteq Names /\ FilesOf(u) \subseteq Prefixed[u]
           /\ GlobalFiles \subseteq Names /\ GlobalFiles \subseteq Global
           /\ Global \subseteq Names
BY RuleTypes DEF FilesOf, GlobalFiles, Names

LEMMA EmptyType == EmptyState \in State
<1>1. <<>> \in Seq(Rules)
  OBVIOUS
<1>2. NoPolicy \in Policy
  BY <1>1 DEF NoPolicy, Policy
<1> QED BY <1>2 DEF EmptyState, State

LEMMA FaultTypes ==
    ASSUME TypeOK, NEW k \in FaultKinds, Fault(k)
    PROVE  /\ faults' \in [FaultKinds -> Nat]
           /\ \A j \in FaultKinds : faults'[j] = IF j = k THEN faults[j] + 1 ELSE faults[j]
BY DEF TypeOK, Fault

LEMMA NoFaults ==
    ASSUME TypeOK
    PROVE  TotalFaults = 0 <=> \A k \in FaultKinds : faults[k] = 0
BY DEF TypeOK, TotalFaults, FaultKinds

LEMMA CallTypes ==
    ASSUME TypeOK, job # None
    PROVE  /\ job \in Calls /\ job.user \in Users /\ job.todo \subseteq Names
           /\ job.at \in Names \cup {None} /\ job.done \in Nat
BY DEF TypeOK, Calls

LEMMA EntryTypes ==
    ASSUME TypeOK, job # None, NEW phase \in {"unload", "load", "unload_global", "load_global"},
           NEW todo \in SUBSET Names, Enter(phase, todo)
    PROVE  job' \in Calls /\ UNCHANGED <<reply, listenerVars>>
<1>1. job \in Calls
  BY CallTypes
<1>2. /\ job' = [op |-> job.op, user |-> job.user, phase |-> phase, todo |-> todo, at |-> None,
                 done |-> 0]
      /\ UNCHANGED <<reply, listenerVars>>
  BY <1>1, EnterStep
<1> QED BY <1>1, <1>2 DEF Calls

LEMMA ProgressTypes ==
    ASSUME TypeOK, job # None, NEW at \in Names \cup {None}, NEW todo \in SUBSET Names,
           Progress(at, todo)
    PROVE  job' \in Calls /\ UNCHANGED <<reply, listenerVars, runtimeVars, sessions, restarts>>
<1>1. job \in Calls
  BY CallTypes
<1>2. /\ job' = [op |-> job.op, user |-> job.user, phase |-> job.phase, todo |-> todo, at |-> at,
                 done |-> job.done]
      /\ UNCHANGED <<reply, listenerVars, runtimeVars, sessions, restarts>>
  BY <1>1, ProgressStep
<1> QED BY <1>1, <1>2 DEF Calls

LEMMA ForgetTypes ==
    ASSUME TypeOK, Forget
    PROVE  /\ listening' \in BOOLEAN
           /\ begun' \in Seq(Sessions) /\ ended' \in Seq(Sessions)
           /\ cache' \in [Sessions -> Users \cup {None}]
<1>1. <<>> \in Seq(Sessions)
  OBVIOUS
<1> QED BY <1>1 DEF Forget

LEMMA TypeStep ==
    ASSUME TypeOK, CallFits, [Next]_vars
    PROVE  TypeOK'
<1> USE DEF runtimeVars, hostVars, callVars, listenerVars
<1>1. CASE Restore
  <2>1. EmptyState \in State
    BY EmptyType
  <2>2. state' \in State
    BY <1>1, <2>1 DEF Restore, TypeOK
  <2>3. faults' \in [FaultKinds -> Nat]
    BY <1>1, FaultTypes DEF Restore, FaultKinds, TypeOK
  <2> QED BY <1>1, <2>2, <2>3 DEF Restore, TypeOK
<1>2. CASE RefuseSync
  BY <1>2 DEF RefuseSync, TypeOK
<1>3. ASSUME NEW u \in Users, NEW update \in Updates, Sync(u, update) PROVE TypeOK'
  <2>1. update.policy \in Policy /\ update.overlay \in Overlays \cup {None}
    BY UpdateAssumption
  <2>2. state' \in State
    BY <1>3, <2>1 DEF Sync, TypeOK, State
  <2>3. job' \in Calls
    BY <1>3 DEF Sync, Calls
  <2> QED BY <1>3, <2>2, <2>3 DEF Sync, TypeOK
<1>4. CASE Save
  <2>1. job # None /\ job.user \in Users
    BY <1>4, CallTypes DEF Save
  <2>2. CASE job.user \in loaded
    <3>1. Enter("unload", FilesOf(job.user)) /\ FilesOf(job.user) \in SUBSET Names
      BY <1>4, <2>1, <2>2, NameTypes DEF Save
    <3>2. job' \in Calls /\ UNCHANGED <<reply, listenerVars>>
      BY <2>1, <3>1, EntryTypes
    <3> QED BY <1>4, <3>2 DEF Save, TypeOK
  <2>3. CASE job.user \notin loaded
    <3>1. Finish(TRUE)
      BY <1>4, <2>3 DEF Save
    <3> QED BY <1>4, <2>1, <3>1, FinishStep DEF Save, TypeOK
  <2> QED BY <2>2, <2>3
<1>5. CASE SaveFails
  <2>1. job # None /\ Finish(FALSE) /\ faults' \in [FaultKinds -> Nat]
    BY <1>5, FaultTypes DEF SaveFails, FaultKinds
  <2> QED BY <1>5, <2>1, FinishStep DEF SaveFails, TypeOK
<1>6. ASSUME NEW n \in Names, RemoveProfile(n) PROVE TypeOK'
  <2>1. job # None /\ Progress(n, job.todo)
    BY <1>6 DEF RemoveProfile, Unloading
  <2>2. job' \in Calls /\ UNCHANGED <<reply, listenerVars, runtimeVars, sessions, restarts>>
    BY <2>1, CallTypes, ProgressTypes
  <2>3. kernel' \in [Names -> Body \cup {None}]
    BY <1>6 DEF RemoveProfile, TypeOK
  <2>4. faults' \in [FaultKinds -> Nat]
    BY <1>6, FaultTypes DEF RemoveProfile, FaultKinds, TypeOK
  <2> QED BY <1>6, <2>2, <2>3, <2>4 DEF RemoveProfile, TypeOK
<1>7. ASSUME NEW n \in Names, WriteFile(n) PROVE TypeOK'
  <2>1. job # None /\ Progress(n, job.todo) /\ MoreToLoad
    BY <1>7 DEF WriteFile, Loading
  <2>2. job' \in Calls /\ UNCHANGED <<reply, listenerVars, runtimeVars, sessions, restarts>>
    BY <2>1, CallTypes, ProgressTypes
  <2>3. files' \in [Names -> Body \cup {None}]
    BY <1>7, <2>1, NextTypes DEF WriteFile, TypeOK
  <2> QED BY <1>7, <2>2, <2>3 DEF WriteFile, TypeOK
<1>8. CASE DeleteFile
  <2>1. job # None /\ Progress(None, job.todo \ {job.at})
    BY <1>8 DEF DeleteFile, Unloading
  <2>2. job' \in Calls /\ UNCHANGED <<reply, listenerVars, runtimeVars, sessions, restarts>>
    BY <2>1, CallTypes, ProgressTypes
  <2>3. files' \in [Names -> Body \cup {None}]
    BY <1>8 DEF DeleteFile, TypeOK
  <2> QED BY <1>8, <2>2, <2>3 DEF DeleteFile, TypeOK
<1>9. CASE LoadProfile
  <2>1. /\ job # None /\ job.at # None /\ job.phase \in {"load", "load_global"}
        /\ job' = [job EXCEPT !.at = None, !.todo = @ \ {job.at}, !.done = @ + 1]
        /\ UNCHANGED <<reply, listenerVars, runtimeVars, sessions, restarts>>
    BY <1>9, Zenon DEF LoadProfile, Loading
  <2>2. job' \in Calls
    BY <2>1, CallTypes, AdvanceOf DEF Calls
  <2>3. Content \in Body
    <3>1. job.phase = "load" => MoreToLoad
      BY <2>1 DEF CallFits
    <3> QED BY <2>1, <3>1, NextTypes, BodyTypes
  <2>4. kernel' \in [Names -> Body \cup {None}]
    BY <1>9, <2>3 DEF LoadProfile, TypeOK
  <2>5. faults' \in [FaultKinds -> Nat]
    BY <1>9, FaultTypes DEF LoadProfile, FaultKinds, TypeOK
  <2> QED BY <1>9, <2>2, <2>4, <2>5 DEF LoadProfile, TypeOK
<1>10. CASE ToolFails
  <2>1. job # None /\ Finish(FALSE) /\ faults' \in [FaultKinds -> Nat]
    BY <1>10, FaultTypes DEF ToolFails, FaultKinds, Unloading, Loading
  <2> QED BY <1>10, <2>1, FinishStep DEF ToolFails, TypeOK
<1>11. CASE Unloaded
  <2>1. job # None /\ job.user \in Users
    BY <1>11, CallTypes DEF Unloaded, Unloading
  <2>2. job' \in Calls /\ UNCHANGED <<reply, listenerVars>> /\ loaded' \subseteq Users
    <3>1. CASE job.op = "sync" /\ loaded' = loaded /\ Enter("load", {})
      BY <2>1, <3>1, NameTypes, EntryTypes DEF TypeOK
    <3>2. CASE job.op = "unload" /\ loaded' = loaded \ {job.user} /\ Enter("unload_global", GlobalFiles)
      BY <2>1, <3>2, NameTypes, EntryTypes DEF TypeOK
    <3> QED BY <1>11, <3>1, <3>2 DEF Unloaded
  <2> QED BY <1>11, <2>2 DEF Unloaded, TypeOK
<1>12. CASE RefreshGlobal
  <2>1. job # None /\ Enter("unload_global", GlobalFiles) /\ GlobalFiles \in SUBSET Names
    BY <1>12 DEF RefreshGlobal, Loading, GlobalFiles, Names
  <2>2. job' \in Calls /\ UNCHANGED <<reply, listenerVars>>
    BY <2>1, EntryTypes
  <2> QED BY <1>12, <2>2 DEF RefreshGlobal, TypeOK
<1>13. CASE RenderGlobal
  <2>1. PICK todo \in SUBSET Names : job # None /\ Enter("load_global", todo)
    BY <1>13, Zenon DEF RenderGlobal, Unloading, Names
  <2>2. job' \in Calls /\ UNCHANGED <<reply, listenerVars>>
    BY <2>1, EntryTypes
  <2> QED BY <1>13, <2>2 DEF RenderGlobal, TypeOK
<1>14. CASE Return
  <2>1. job # None /\ Finish(TRUE)
    BY <1>14 DEF Return, Loading
  <2> QED BY <1>14, <2>1, FinishStep DEF Return, TypeOK
<1>15. CASE Connect
  BY <1>15 DEF Connect, TypeOK
<1>16. CASE Disconnect
  BY <1>16, ForgetTypes DEF Disconnect, TypeOK
<1>17. CASE TakeBegun
  <2>1. begun' \in Seq(Sessions) /\ Head(begun) \in Sessions
    BY <1>17 DEF TakeBegun, TypeOK
  <2>2. handling' \in Handlings \cup {None}
    BY <1>17, <2>1 DEF TakeBegun, Wait, Handlings, TypeOK
  <2> QED BY <1>17, <2>1, <2>2 DEF TakeBegun, TypeOK
<1>18. CASE TakeEnded
  <2>1. ended' \in Seq(Sessions) /\ Head(ended) \in Sessions
    BY <1>18 DEF TakeEnded, TypeOK
  <2>2. cache[Head(ended)] # None => cache[Head(ended)] \in Users
    BY <2>1 DEF TypeOK
  <2>3. handling' \in Handlings \cup {None}
    <3>1. CASE handling' = handling
      BY <3>1 DEF TypeOK
    <3>2. CASE cache[Head(ended)] # None /\ Wait("unload", Head(ended), cache[Head(ended)])
      BY <2>1, <2>2, <3>2 DEF Wait, Handlings
    <3> QED BY <1>18, <3>1, <3>2 DEF TakeEnded
  <2>5. crossed' \in BOOLEAN
    <3> DEFINE s == Head(ended)
               others == {r \in Sessions \ {s} : cache[r] = cache[s]}
    <3>1. crossed' = crossed \/ crossed' = (crossed \/ others # {})
      BY <1>18 DEF TakeEnded
    <3> HIDE DEF others
    <3> QED BY <3>1 DEF TypeOK
  <2>4. cache' \in [Sessions -> Users \cup {None}]
    BY <1>18 DEF TakeEnded, TypeOK
  <2> QED BY <1>18, <2>1, <2>3, <2>4, <2>5 DEF TakeEnded, TypeOK
<1>19. CASE Call
  <2>1. handling \in Handlings /\ handling.user \in Users
    BY <1>19 DEF Call, TypeOK, Handlings
  <2>2. handling' \in Handlings
    BY <1>19, <2>1 DEF Call, Handlings
  <2>3. job' \in Calls /\ loaded' \subseteq Users
    BY <1>19, <2>1, NameTypes DEF Call, Calls, TypeOK
  <2> QED BY <1>19, <2>2, <2>3 DEF Call, TypeOK
<1>20. CASE Handled
  <2>1. handling \in Handlings
    BY <1>20 DEF Handled, TypeOK
  <2>2. cache' \in [Sessions -> Users \cup {None}]
    BY <1>20, <2>1 DEF Handled, TypeOK, Handlings
  <2> QED BY <1>20, <2>2 DEF Handled, TypeOK
<1>21. ASSUME NEW s \in Sessions, SignOut(s) PROVE TypeOK'
  <2>1. ended' \in Seq(Sessions)
    BY <1>21 DEF SignOut, TypeOK
  <2> QED BY <1>21, <2>1 DEF SignOut, TypeOK
<1>22. ASSUME NEW s \in Sessions, NEW u \in Users, SignIn(s, u) PROVE TypeOK'
  <2>1. begun' \in Seq(Sessions)
    BY <1>22 DEF SignIn, TypeOK
  <2> QED BY <1>22, <2>1 DEF SignIn, TypeOK
<1>23. CASE Crash \/ Reboot
  <2>1. state' \in State
    BY <1>23, EmptyType DEF Crash, Reboot, ProcessLost
  <2>2. restarts' \in 0..MaxRestarts
    BY <1>23, BoundAssumption DEF Crash, Reboot, ProcessLost, TypeOK
  <2>3. kernel' \in [Names -> Body \cup {None}] /\ sessions' \in [Sessions -> Users \cup {"unused", "over"}]
    BY <1>23 DEF Crash, Reboot, TypeOK
  <2> QED BY <1>23, <2>1, <2>2, <2>3, ForgetTypes DEF Crash, Reboot, ProcessLost, TypeOK
<1>24. CASE UNCHANGED vars
  BY <1>24 DEF vars, TypeOK
<1> QED
  BY <1>1, <1>2, <1>3, <1>4, <1>5, <1>6, <1>7, <1>8, <1>9, <1>10, <1>11, <1>12, <1>13, <1>14,
     <1>15, <1>16, <1>17, <1>18, <1>19, <1>20, <1>21, <1>22, <1>23, <1>24
  DEF Next, Profiling, Listening

-----------------------------------------------------------------------------
(* The steps by what they change *)

LEMMA Entered ==
    ASSUME TypeOK, job # None, NEW phase \in {"unload", "load", "unload_global", "load_global"},
           NEW todo \in SUBSET Names, Enter(phase, todo)
    PROVE  /\ job' # None /\ job'.op = job.op /\ job'.user = job.user
           /\ job'.phase = phase /\ job'.todo = todo /\ job'.at = None /\ job'.done = 0
           /\ UNCHANGED <<reply, listenerVars>>
<1>1. /\ job' = [op |-> job.op, user |-> job.user, phase |-> phase, todo |-> todo, at |-> None,
                 done |-> 0]
      /\ UNCHANGED <<reply, listenerVars>>
  BY CallTypes, EnterStep
<1>2. job' # None
  BY EntryTypes, ProfileAbsentAssumption
<1> QED BY <1>1, <1>2

LEMMA Progressed ==
    ASSUME TypeOK, job # None, NEW at \in Names \cup {None}, NEW todo \in SUBSET Names,
           Progress(at, todo)
    PROVE  /\ job' # None /\ job'.op = job.op /\ job'.user = job.user
           /\ job'.phase = job.phase /\ job'.todo = todo /\ job'.at = at /\ job'.done = job.done
           /\ UNCHANGED <<reply, listenerVars, runtimeVars, sessions, restarts>>
<1>1. /\ job' = [op |-> job.op, user |-> job.user, phase |-> job.phase, todo |-> todo, at |-> at,
                 done |-> job.done]
      /\ UNCHANGED <<reply, listenerVars, runtimeVars, sessions, restarts>>
  BY CallTypes, ProgressStep
<1>2. job' # None
  BY ProgressTypes, ProfileAbsentAssumption
<1> QED BY <1>1, <1>2

LEMMA NoneFailed ==
    ASSUME NEW f \in [FaultKinds -> Nat]
    PROVE  f["read"] + f["save"] + f["remove"] + f["load"] + f["tool"] = 0 <=>
              \A k \in FaultKinds : f[k] = 0
BY DEF FaultKinds

\* A failed operation is counted.
LEMMA Failed ==
    ASSUME TypeOK, NEW k \in FaultKinds, Fault(k)
    PROVE  TotalFaults' # 0 /\ faults'[k] # 0 /\ \A j \in FaultKinds : faults'[j] = 0 => faults[j] = 0
<1>1. /\ faults' \in [FaultKinds -> Nat]
      /\ \A j \in FaultKinds : faults'[j] = IF j = k THEN faults[j] + 1 ELSE faults[j]
  BY FaultTypes
<1>2. \A j \in FaultKinds : faults[j] \in Nat
  BY DEF TypeOK
<1>3. faults'[k] # 0
  BY <1>1, <1>2
<1>4. TotalFaults' # 0
  BY <1>1, <1>3, NoneFailed DEF TotalFaults
<1> QED BY <1>1, <1>2, <1>3, <1>4

\* The branches of the steps of a call: what each writes, and whether it failed.
LEMMA RemoveStep ==
    ASSUME TypeOK, NEW n \in Names, RemoveProfile(n)
    PROVE  /\ job # None /\ job.phase \in {"unload", "unload_global"} /\ n \in job.todo /\ job.at = None
           /\ job' # None /\ job'.op = job.op /\ job'.user = job.user
           /\ job'.phase = job.phase /\ job'.todo = job.todo /\ job'.at = n
           /\ UNCHANGED <<runtimeVars, disk, files, reply, listenerVars, sessions, restarts>>
           /\ \/ /\ UNCHANGED faults
                 /\ kernel'[n] = None /\ \A m \in Names \ {n} : kernel'[m] = kernel[m]
              \/ Fault("remove") /\ UNCHANGED kernel
<1>1. job # None /\ job.phase \in {"unload", "unload_global"} /\ n \in job.todo /\ job.at = None
        /\ Progress(n, job.todo)
  BY DEF RemoveProfile, Unloading
<1>2. job.todo \in SUBSET Names
  BY <1>1, CallTypes
<1>3. \/ /\ UNCHANGED faults
         /\ kernel'[n] = None /\ \A m \in Names \ {n} : kernel'[m] = kernel[m]
      \/ Fault("remove") /\ UNCHANGED kernel
  BY DEF RemoveProfile, TypeOK
<1> QED BY <1>1, <1>2, <1>3, Progressed DEF RemoveProfile

LEMMA WriteStep ==
    ASSUME TypeOK, NEW n \in Names, WriteFile(n)
    PROVE  /\ job # None /\ job.phase \in {"load", "load_global"} /\ job.at = None
           /\ MoreToLoad /\ n \in NextNames
           /\ job' # None /\ job'.op = job.op /\ job'.user = job.user
           /\ job'.phase = job.phase /\ job'.todo = job.todo /\ job'.at = n /\ job'.done = job.done
           /\ UNCHANGED <<runtimeVars, disk, kernel, reply, listenerVars, sessions, restarts, faults>>
           /\ files'[n] # None /\ \A m \in Names \ {n} : files'[m] = files[m]
<1>1. /\ job # None /\ job.phase \in {"load", "load_global"} /\ job.at = None
      /\ MoreToLoad /\ n \in NextNames /\ Progress(n, job.todo)
  BY DEF WriteFile, Loading
<1>2. job.todo \in SUBSET Names
  BY <1>1, CallTypes
<1>3. Content # None
  BY <1>1, NextTypes, ProfileAbsentAssumption
<1>4. files'[n] # None /\ \A m \in Names \ {n} : files'[m] = files[m]
  BY <1>3 DEF WriteFile, TypeOK
<1> QED BY <1>1, <1>2, <1>4, Progressed DEF WriteFile

LEMMA DeleteStep ==
    ASSUME TypeOK, DeleteFile
    PROVE  /\ job # None /\ job.phase \in {"unload", "unload_global"} /\ job.at \in Names
           /\ job.at # None
           /\ job' # None /\ job'.op = job.op /\ job'.user = job.user
           /\ job'.phase = job.phase /\ job'.todo = job.todo \ {job.at} /\ job'.at = None
           /\ UNCHANGED <<runtimeVars, disk, kernel, reply, listenerVars, sessions, restarts, faults>>
           /\ \A m \in Names \ {job.at} : files'[m] = files[m]
<1>1. job # None /\ job.phase \in {"unload", "unload_global"} /\ job.at # None
        /\ Progress(None, job.todo \ {job.at})
  BY DEF DeleteFile, Unloading
<1>2. job.todo \ {job.at} \in SUBSET Names /\ job.at \in Names
  BY <1>1, CallTypes
<1>3. \A m \in Names \ {job.at} : files'[m] = files[m]
  BY DEF DeleteFile, TypeOK
<1> QED BY <1>1, <1>2, <1>3, Progressed DEF DeleteFile

LEMMA LoadStep ==
    ASSUME TypeOK, LoadProfile
    PROVE  /\ job # None /\ job.phase \in {"load", "load_global"} /\ job.at \in Names /\ job.at # None
           /\ job' # None /\ job'.op = job.op /\ job'.user = job.user
           /\ job'.phase = job.phase /\ job'.todo = job.todo \ {job.at} /\ job'.at = None
           /\ job'.done = job.done + 1
           /\ UNCHANGED <<runtimeVars, disk, files, reply, listenerVars, sessions, restarts>>
           /\ \/ /\ UNCHANGED faults
                 /\ kernel'[job.at] = Content
                 /\ \A m \in Names \ {job.at} : kernel'[m] = kernel[m]
              \/ Fault("load") /\ UNCHANGED kernel
<1>1. /\ job # None /\ job.phase \in {"load", "load_global"} /\ job.at # None
      /\ job' = [job EXCEPT !.at = None, !.todo = @ \ {job.at}, !.done = @ + 1]
      /\ UNCHANGED <<disk, files, reply, listenerVars, runtimeVars, sessions, restarts>>
  BY Zenon DEF LoadProfile, Loading
<1>2. job \in Calls /\ job.todo \ {job.at} \in SUBSET Names /\ job.at \in Names /\ job.done \in Nat
  BY <1>1, CallTypes
<1>3. \/ /\ UNCHANGED faults
         /\ kernel'[job.at] = Content
         /\ \A m \in Names \ {job.at} : kernel'[m] = kernel[m]
      \/ Fault("load") /\ UNCHANGED kernel
  BY <1>2 DEF LoadProfile, TypeOK
<1>4. job' = [op |-> job.op, user |-> job.user, phase |-> job.phase, todo |-> job.todo \ {job.at},
              at |-> None, done |-> job.done + 1]
  BY <1>1, <1>2, AdvanceOf, Zenon
<1>5. job' \in Calls
  BY <1>2, <1>4 DEF Calls
<1>6. job' # None
  BY <1>5, ProfileAbsentAssumption
<1> QED BY <1>1, <1>2, <1>3, <1>4, <1>6

LEMMA SaveStep ==
    ASSUME TypeOK, Save
    PROVE  /\ job # None /\ job.phase = "save" /\ job.user \in Users
           /\ disk' = state /\ UNCHANGED <<runtimeVars, files, kernel, sessions, faults, restarts>>
           /\ \/ /\ job.user \in loaded
                 /\ job' # None /\ job'.op = job.op /\ job'.user = job.user
                 /\ job'.phase = "unload" /\ job'.todo = FilesOf(job.user) /\ job'.at = None
                 /\ UNCHANGED listenerVars
              \/ job.user \notin loaded /\ Finish(TRUE)
<1>1. job # None /\ job.phase = "save" /\ job.user \in Users
  BY CallTypes DEF Save
<1>2. FilesOf(job.user) \in SUBSET Names
  BY <1>1, NameTypes
<1>3. CASE job.user \in loaded
  <2>1. Enter("unload", FilesOf(job.user))
    BY <1>3 DEF Save
  <2> QED BY <1>1, <1>2, <1>3, <2>1, Entered DEF Save
<1>4. CASE job.user \notin loaded
  BY <1>1, <1>4 DEF Save
<1> QED BY <1>3, <1>4

LEMMA UnloadedStep ==
    ASSUME TypeOK, Unloaded
    PROVE  /\ job # None /\ job.phase = "unload" /\ job.user \in Users /\ job.todo = {} /\ job.at = None
           /\ job' # None /\ job'.op = job.op /\ job'.user = job.user /\ job'.at = None
           /\ UNCHANGED <<restored, state, hostVars, listenerVars, sessions, faults, restarts>>
           /\ \/ /\ job.op = "sync" /\ loaded' = loaded
                 /\ job'.phase = "load" /\ job'.done = 0
              \/ /\ job.op = "unload" /\ loaded' = loaded \ {job.user}
                 /\ job'.phase = "unload_global" /\ job'.todo = GlobalFiles
<1>1. job # None /\ job.phase = "unload" /\ job.user \in Users /\ job.todo = {} /\ job.at = None
  BY CallTypes DEF Unloaded, Unloading
<1>2. GlobalFiles \in SUBSET Names
  BY <1>1, NameTypes
<1>3. CASE job.op = "sync" /\ loaded' = loaded /\ Enter("load", {})
  BY <1>1, <1>2, <1>3, Entered DEF Unloaded
<1>4. CASE job.op = "unload" /\ loaded' = loaded \ {job.user} /\ Enter("unload_global", GlobalFiles)
  BY <1>1, <1>2, <1>4, Entered DEF Unloaded
<1> QED BY <1>3, <1>4 DEF Unloaded

LEMMA RefreshStep ==
    ASSUME TypeOK, RefreshGlobal
    PROVE  /\ job # None /\ job.phase = "load" /\ job.user \in Users /\ ~MoreToLoad
           /\ job' # None /\ job'.op = job.op /\ job'.user = job.user /\ job'.at = None
           /\ job'.phase = "unload_global" /\ job'.todo = GlobalFiles
           /\ UNCHANGED <<runtimeVars, hostVars, listenerVars, sessions, faults, restarts>>
<1>1. job # None /\ job.phase = "load" /\ job.user \in Users /\ ~MoreToLoad
        /\ Enter("unload_global", GlobalFiles) /\ GlobalFiles \in SUBSET Names
  BY CallTypes DEF RefreshGlobal, Loading, GlobalFiles, Names
<1> QED BY <1>1, Entered DEF RefreshGlobal

LEMMA RenderStep ==
    ASSUME TypeOK, RenderGlobal
    PROVE  /\ job # None /\ job.phase = "unload_global" /\ job.user \in Users /\ job.todo = {} /\ job.at = None
           /\ job' # None /\ job'.op = job.op /\ job'.user = job.user /\ job'.at = None
           /\ job'.phase = "load_global"
           /\ job'.todo = IF PathLines = {} THEN {} ELSE Global
           /\ UNCHANGED <<runtimeVars, hostVars, listenerVars, sessions, faults, restarts>>
<1> DEFINE todo == IF PathLines = {} THEN {} ELSE Global
<1>1. job # None /\ job.phase = "unload_global" /\ job.user \in Users /\ job.todo = {} /\ job.at = None
        /\ Enter("load_global", todo)
  BY CallTypes DEF RenderGlobal, Unloading
<1>2. todo \in SUBSET Names
  BY DEF Names
<1>3. /\ job' # None /\ job'.op = job.op /\ job'.user = job.user
      /\ job'.phase = "load_global" /\ job'.todo = todo /\ job'.at = None
      /\ UNCHANGED <<reply, listenerVars>>
  <2> HIDE DEF todo
  <2> QED BY <1>1, <1>2, Entered
<1> QED BY <1>1, <1>3 DEF RenderGlobal

\* The ways a call ends.
LEMMA EndStep ==
    ASSUME TypeOK, SaveFails \/ ToolFails \/ Return
    PROVE  /\ job # None /\ job' = None
           /\ UNCHANGED <<runtimeVars, hostVars, sessions, restarts, cache, crossed>>
           /\ \/ SaveFails /\ job.phase = "save" /\ Fault("save")
              \/ ToolFails /\ Fault("tool")
              \/ Return /\ job.phase = "load_global" /\ job.todo = {} /\ UNCHANGED faults
           /\ \E result \in BOOLEAN : Finish(result)
BY FinishStep DEF SaveFails, ToolFails, Return, Unloading, Loading, MoreToLoad

\* Steps that leave the runtime, the host and the call alone.
Listens ==
    \/ RefuseSync \/ Connect \/ Disconnect \/ TakeBegun \/ TakeEnded \/ Handled
    \/ \E s \in Sessions : SignOut(s) \/ \E u \in Users : SignIn(s, u)
    \/ UNCHANGED vars

LEMMA ListensStep ==
    ASSUME Listens
    PROVE  UNCHANGED <<runtimeVars, hostVars, job, faults, restarts>>
BY DEF Listens, RefuseSync, Connect, Disconnect, TakeBegun, TakeEnded, Handled, SignOut, SignIn,
   vars, callVars

LEMMA StepCases ==
    ASSUME [Next]_vars
    PROVE  \/ Restore
           \/ \E u \in Users, update \in Updates : Sync(u, update)
           \/ Save
           \/ \E n \in Names : RemoveProfile(n) \/ WriteFile(n)
           \/ DeleteFile \/ LoadProfile
           \/ Unloaded \/ RefreshGlobal \/ RenderGlobal
           \/ SaveFails \/ ToolFails \/ Return
           \/ Call
           \/ Crash \/ Reboot
           \/ Listens
BY DEF Next, Profiling, Listening, Listens

-----------------------------------------------------------------------------
(* Calls, files and the saved state *)

BaseInv == CallFits /\ ProfileAtHand /\ EveryProfileHasFile /\ DiskFollowsMemory

LEMMA PoliciesKept ==
    ASSUME UNCHANGED <<state, loaded>>
    PROVE  /\ \A u : RulesOf(u)' = RulesOf(u) /\ Lasting(u)' = Lasting(u)
           /\ \A u, rule : BodyOf(u, rule)' = BodyOf(u, rule)
           /\ \A n : Wanted(n)' = Wanted(n)
           /\ PathLines' = PathLines /\ GlobalBody' = GlobalBody
<1>1. \A u : RulesOf(u)' = RulesOf(u) /\ LinesOf(u)' = LinesOf(u)
  BY DEF RulesOf, LinesOf
<1>2. PathLines' = PathLines
  BY DEF PathLines, LinesOf
<1> QED BY <1>1, <1>2 DEF Lasting, BodyOf, Wanted, GlobalBody

\* A step of the loop over a user's rules that does not count one.
LEMMA LoopKept ==
    ASSUME UNCHANGED state, job'.user = job.user, job'.phase = job.phase, job'.done = job.done,
           job.phase = "load"
    PROVE  MoreToLoad' = MoreToLoad /\ NextNames' = NextNames
BY DEF MoreToLoad, NextNames, NextRule, RulesOf

LEMMA BaseKept ==
    ASSUME BaseInv, UNCHANGED <<runtimeVars, hostVars, job, faults>>
    PROVE  BaseInv'
<1>1. \A u : RulesOf(u)' = RulesOf(u)
  BY PoliciesKept DEF runtimeVars
<1>2. MoreToLoad' = MoreToLoad /\ NextNames' = NextNames
  BY DEF MoreToLoad, NextNames, NextRule, RulesOf, runtimeVars
<1>3. CallFits'
  BY <1>1, <1>2 DEF BaseInv, CallFits, runtimeVars
<1> QED
  BY <1>3 DEF BaseInv, ProfileAtHand, EveryProfileHasFile, DiskFollowsMemory, runtimeVars, hostVars

LEMMA BaseStarts ==
    ASSUME TypeOK, BaseInv,
           \/ Restore
           \/ \E u \in Users, update \in Updates : Sync(u, update)
           \/ Call
           \/ Crash \/ Reboot
    PROVE  BaseInv'
<1> USE DEF runtimeVars, hostVars, callVars, listenerVars
<1>1. CASE Restore
  <2>1. job = None /\ loaded = {} /\ restored' /\ UNCHANGED <<job, loaded, disk, files, kernel>>
    BY <1>1 DEF Restore, BaseInv, CallFits
  <2>2. CallFits' /\ ProfileAtHand'
    BY <2>1 DEF CallFits, ProfileAtHand
  <2>3. CASE state' = (IF disk = None THEN EmptyState ELSE disk) /\ UNCHANGED faults
    BY <2>1, <2>2, <2>3 DEF BaseInv, EveryProfileHasFile, DiskFollowsMemory
  <2>4. CASE Fault("read")
    <3>1. /\ faults'["read"] # 0 /\ faults'["read"] \in Nat /\ faults'["save"] \in Nat
          /\ faults'["remove"] = 0 => faults["remove"] = 0
      BY <2>4, Failed, FaultTypes DEF FaultKinds
    <3> QED BY <2>1, <2>2, <3>1 DEF BaseInv, EveryProfileHasFile, DiskFollowsMemory
  <2> QED BY <1>1, <2>3, <2>4 DEF Restore
<1>2. ASSUME NEW u \in Users, NEW update \in Updates, Sync(u, update) PROVE BaseInv'
  <2>1. job' = [op |-> "sync", user |-> u, phase |-> "save", todo |-> {}, at |-> None,
                  done |-> 0]
          /\ restored /\ UNCHANGED <<restored, loaded, disk, files, kernel, faults>>
    BY <1>2 DEF Sync, Ready
  <2>2. job' # None
    BY <2>1, ProfileAbsentAssumption DEF Calls
  <2> QED BY <2>1, <2>2 DEF BaseInv, CallFits, ProfileAtHand, EveryProfileHasFile, DiskFollowsMemory
<1>3. CASE Call
  <2>1. /\ restored /\ job = None /\ handling \in Handlings /\ handling.user \in Users
        /\ UNCHANGED <<restored, state, disk, files, kernel, faults>>
    BY <1>3 DEF Call, Ready, TypeOK, Handlings
  <2>2. CASE /\ loaded' = loaded \cup {handling.user}
             /\ job' = [op |-> "load", user |-> handling.user, phase |-> "load",
                        todo |-> {}, at |-> None, done |-> 0]
    <3>1. \A u \in Users : RulesOf(u)' = RulesOf(u) /\ Len(RulesOf(u)) \in Nat
      BY <2>1, RuleTypes DEF RulesOf
    <3>2. CallFits'
      BY <2>1, <2>2, <3>1 DEF CallFits
    <3> QED BY <2>1, <2>2, <3>2 DEF BaseInv, ProfileAtHand, EveryProfileHasFile, DiskFollowsMemory
  <2>3. CASE /\ loaded' = loaded
             /\ job' = [op |-> "unload", user |-> handling.user, phase |-> "unload",
                        todo |-> FilesOf(handling.user), at |-> None, done |-> 0]
    <3>1. CallFits'
      BY <2>1, <2>3, NameTypes DEF CallFits
    <3> QED BY <2>1, <2>3, <3>1 DEF BaseInv, ProfileAtHand, EveryProfileHasFile, DiskFollowsMemory
  <2> QED BY <1>3, <2>2, <2>3 DEF Call
<1>4. CASE Crash \/ Reboot
  <2>1. /\ restored' = FALSE /\ loaded' = {} /\ job' = None
        /\ UNCHANGED <<disk, files, faults>>
        /\ kernel' = kernel \/ kernel' = files
    BY <1>4 DEF Crash, Reboot, ProcessLost
  <2>2. CallFits' /\ ProfileAtHand' /\ DiskFollowsMemory'
    BY <2>1 DEF CallFits, ProfileAtHand, DiskFollowsMemory
  <2>3. EveryProfileHasFile'
    BY <2>1 DEF BaseInv, EveryProfileHasFile
  <2> QED BY <2>2, <2>3 DEF BaseInv
<1> QED BY <1>1, <1>2, <1>3, <1>4

LEMMA BaseCall ==
    ASSUME TypeOK, BaseInv,
           \/ Save
           \/ \E n \in Names : RemoveProfile(n) \/ WriteFile(n)
           \/ DeleteFile \/ LoadProfile
           \/ Unloaded \/ RefreshGlobal \/ RenderGlobal
           \/ SaveFails \/ ToolFails \/ Return
    PROVE  BaseInv'
<1> USE DEF runtimeVars, hostVars, callVars, listenerVars
<1>0. job # None => restored
  BY DEF BaseInv, CallFits
<1>1. CASE Save
  <2>1. /\ restored /\ disk' = state /\ UNCHANGED <<restored, state, loaded, files, kernel, faults>>
        /\ \/ /\ job.user \in loaded
              /\ job' # None /\ job'.op = job.op /\ job'.user = job.user
              /\ job'.phase = "unload" /\ job'.todo = FilesOf(job.user) /\ job'.at = None
           \/ job' = None
    BY <1>0, <1>1, SaveStep, FinishStep
  <2>2. state # None
    BY ProfileAbsentAssumption DEF TypeOK
  <2>3. DiskFollowsMemory'
    BY <2>1, <2>2 DEF DiskFollowsMemory
  <2>4. CallFits'
    BY <2>1, SaveStep, <1>1, NameTypes DEF BaseInv, CallFits
  <2> QED BY <2>1, <2>3, <2>4 DEF BaseInv, ProfileAtHand, EveryProfileHasFile
<1>2. ASSUME NEW n \in Names, RemoveProfile(n) PROVE BaseInv'
  <2>1. /\ job # None /\ job.phase \in {"unload", "unload_global"} /\ n \in job.todo
        /\ job' # None /\ job'.op = job.op /\ job'.user = job.user
        /\ job'.phase = job.phase /\ job'.todo = job.todo /\ job'.at = n
        /\ UNCHANGED <<restored, state, loaded, disk, files>>
        /\ \/ /\ UNCHANGED faults
              /\ kernel'[n] = None /\ \A m \in Names \ {n} : kernel'[m] = kernel[m]
           \/ Fault("remove") /\ UNCHANGED kernel
    BY <1>2, RemoveStep
  <2>3. CallFits'
    BY <2>1 DEF BaseInv, CallFits
  <2>4. CASE UNCHANGED faults /\ kernel'[n] = None /\ \A m \in Names \ {n} : kernel'[m] = kernel[m]
    BY <2>1, <2>3, <2>4 DEF BaseInv, ProfileAtHand, EveryProfileHasFile, DiskFollowsMemory
  <2>5. CASE Fault("remove") /\ UNCHANGED kernel
    <3>1. /\ faults'["remove"] # 0
          /\ faults'["read"] = faults["read"] /\ faults'["save"] = faults["save"]
      BY <2>5, Failed, FaultTypes DEF FaultKinds
    <3> QED BY <2>1, <2>3, <3>1 DEF BaseInv, ProfileAtHand, EveryProfileHasFile, DiskFollowsMemory
  <2> QED BY <2>1, <2>4, <2>5
<1>3. ASSUME NEW n \in Names, WriteFile(n) PROVE BaseInv'
  <2>1. /\ job # None /\ job.phase \in {"load", "load_global"} /\ MoreToLoad /\ n \in NextNames
        /\ job' # None /\ job'.op = job.op /\ job'.user = job.user
        /\ job'.phase = job.phase /\ job'.todo = job.todo /\ job'.at = n /\ job'.done = job.done
        /\ UNCHANGED <<restored, state, loaded, disk, kernel, faults>>
        /\ files'[n] # None /\ \A m \in Names \ {n} : files'[m] = files[m]
    BY <1>3, WriteStep
  <2>2. \A u : RulesOf(u)' = RulesOf(u)
    BY <2>1, PoliciesKept
  <2>3. CallFits'
    <3>1. CASE job.phase = "load"
      BY <2>1, <2>2, <3>1, LoopKept DEF BaseInv, CallFits
    <3>2. CASE job.phase = "load_global"
      <4>1. n \in job.todo
        BY <2>1, <3>2, NextTypes
      <4> QED BY <2>1, <3>2, <4>1 DEF BaseInv, CallFits
    <3> QED BY <2>1, <3>1, <3>2
  <2> QED BY <2>1, <2>3 DEF BaseInv, ProfileAtHand, EveryProfileHasFile, DiskFollowsMemory
<1>4. CASE DeleteFile
  <2>1. /\ job # None /\ job.phase \in {"unload", "unload_global"} /\ job.at \in Names /\ job.at # None
        /\ job' # None /\ job'.op = job.op /\ job'.user = job.user
        /\ job'.phase = job.phase /\ job'.todo = job.todo \ {job.at} /\ job'.at = None
        /\ UNCHANGED <<restored, state, loaded, disk, kernel, faults>>
        /\ \A m \in Names \ {job.at} : files'[m] = files[m]
    BY <1>4, DeleteStep
  <2>3. CallFits'
    BY <2>1 DEF BaseInv, CallFits
  <2>4. faults["remove"] = 0 => kernel[job.at] = None
    BY <2>1 DEF BaseInv, ProfileAtHand
  <2> QED BY <2>1, <2>3, <2>4 DEF BaseInv, ProfileAtHand, EveryProfileHasFile, DiskFollowsMemory
<1>5. CASE LoadProfile
  <2>1. /\ job # None /\ job.phase \in {"load", "load_global"} /\ job.at \in Names /\ job.at # None
        /\ job' # None /\ job'.op = job.op /\ job'.user = job.user
        /\ job'.phase = job.phase /\ job'.todo = job.todo \ {job.at} /\ job'.at = None
        /\ job'.done = job.done + 1
        /\ UNCHANGED <<restored, state, loaded, disk, files>>
        /\ \/ /\ UNCHANGED faults
              /\ \A m \in Names \ {job.at} : kernel'[m] = kernel[m]
           \/ Fault("load") /\ UNCHANGED kernel
    BY <1>5, LoadStep
  <2>2. \A u : RulesOf(u)' = RulesOf(u)
    BY <2>1, PoliciesKept
  <2>3. CallFits' /\ ProfileAtHand'
    <3>1. job.phase = "load" => job'.done \in 0..Len(RulesOf(job.user))
      <4>1. /\ job.user \in Users /\ job.done \in Nat /\ Len(RulesOf(job.user)) \in Nat
        BY <2>1, CallTypes, RuleTypes
      <4>2. job.phase = "load" => job.done < Len(RulesOf(job.user))
        BY <2>1 DEF BaseInv, CallFits, MoreToLoad
      <4> QED BY <2>1, <4>1, <4>2
    <3> QED BY <2>1, <2>2, <3>1 DEF BaseInv, CallFits, ProfileAtHand
  <2>4. files[job.at] # None
    BY <2>1 DEF BaseInv, ProfileAtHand
  <2>5. \A k \in {"read", "save", "remove"} : faults'[k] = faults[k]
    BY <2>1, FaultTypes DEF FaultKinds
  <2>6. \A m \in Names \ {job.at} : kernel'[m] = kernel[m]
    BY <2>1
  <2>7. EveryProfileHasFile'
    BY <2>1, <2>4, <2>5, <2>6 DEF BaseInv, EveryProfileHasFile
  <2>8. DiskFollowsMemory'
    BY <2>1, <2>5 DEF BaseInv, DiskFollowsMemory
  <2> QED BY <2>3, <2>7, <2>8 DEF BaseInv
<1>6. CASE Unloaded
  <2>1. UNCHANGED <<restored, state, disk, files, kernel, faults>>
    BY <1>6 DEF Unloaded
  <2>2. \A u : RulesOf(u)' = RulesOf(u)
    BY <2>1 DEF RulesOf
  <2>3. /\ job # None /\ job.phase = "unload" /\ job.user \in Users
        /\ job' # None /\ job'.op = job.op /\ job'.user = job.user /\ job'.at = None
        /\ \/ /\ job.op = "sync" /\ loaded' = loaded
              /\ job'.phase = "load" /\ job'.done = 0
           \/ /\ job.op = "unload" /\ loaded' = loaded \ {job.user}
              /\ job'.phase = "unload_global" /\ job'.todo = GlobalFiles
    BY <1>6, UnloadedStep
  <2>4. GlobalFiles \subseteq Global /\ Len(RulesOf(job.user)) \in Nat
    BY <2>3, NameTypes, RuleTypes
  <2>5. CallFits'
    BY <1>0, <2>1, <2>2, <2>3, <2>4 DEF BaseInv, CallFits
  <2> QED BY <2>1, <2>3, <2>5 DEF BaseInv, ProfileAtHand, EveryProfileHasFile, DiskFollowsMemory
<1>7. CASE RefreshGlobal \/ RenderGlobal
  <2>1. /\ job # None /\ UNCHANGED <<restored, state, loaded, disk, files, kernel, faults>>
        /\ job' # None /\ job'.op = job.op /\ job'.user = job.user /\ job'.at = None
        /\ job'.phase \in {"unload_global", "load_global"} /\ job.phase # "save"
        /\ job'.todo \subseteq Global
    <3>1. GlobalFiles \subseteq Global
      BY DEF GlobalFiles
    <3>2. CASE RefreshGlobal
      BY <3>1, <3>2, RefreshStep
    <3>3. CASE RenderGlobal
      BY <3>3, RenderStep
    <3> QED BY <1>7, <3>2, <3>3
  <2> QED BY <1>0, <2>1 DEF BaseInv, CallFits, ProfileAtHand, EveryProfileHasFile, DiskFollowsMemory
<1>8. CASE SaveFails \/ ToolFails \/ Return
  <2>1. /\ job # None /\ job' = None /\ UNCHANGED <<restored, state, loaded, disk, files, kernel>>
        /\ \/ job.phase = "save" /\ Fault("save")
           \/ ToolFails /\ Fault("tool")
           \/ job.phase = "load_global" /\ UNCHANGED faults
    BY <1>8, EndStep
  <2>2. CallFits' /\ ProfileAtHand'
    BY <1>0, <2>1 DEF CallFits, ProfileAtHand
  <2>3. faults'["remove"] = faults["remove"]
    BY <2>1, FaultTypes DEF FaultKinds
  <2>4. EveryProfileHasFile'
    BY <2>1, <2>3 DEF BaseInv, EveryProfileHasFile
  <2>5. DiskFollowsMemory'
    <3>1. CASE job.phase = "save" /\ Fault("save")
      <4>1. faults'["save"] # 0 /\ faults'["save"] \in Nat /\ faults'["read"] \in Nat
        BY <3>1, Failed, FaultTypes DEF FaultKinds
      <4> QED BY <4>1 DEF DiskFollowsMemory
    <3>2. CASE job.phase # "save" /\ faults'["save"] = faults["save"] /\ faults'["read"] = faults["read"]
      BY <2>1, <3>2 DEF BaseInv, DiskFollowsMemory
    <3>3. ToolFails => job.phase # "save"
      BY DEF ToolFails, Unloading, Loading
    <3> QED BY <2>1, <3>1, <3>2, <3>3, FaultTypes DEF FaultKinds
  <2> QED BY <2>2, <2>4, <2>5 DEF BaseInv
<1> QED BY <1>1, <1>2, <1>3, <1>4, <1>5, <1>6, <1>7, <1>8

LEMMA BaseStep ==
    ASSUME TypeOK, BaseInv, [Next]_vars
    PROVE  BaseInv'
BY BaseStarts, BaseCall, BaseKept, ListensStep, StepCases

-----------------------------------------------------------------------------
(* Profiles in force, while nothing failed *)

CleanInv == NothingStale /\ GlobalInCall /\ LoadedInForce

\* The names of users' profiles and of the global ones are apart.
LEMMA OwnNames ==
    /\ Profiles \subseteq Names /\ Global \subseteq Names
    /\ \A n \in Profiles : n \notin Global /\ n # None
    /\ \A n \in Global : n \notin Profiles /\ n # None
BY GlobalAssumption, ProfileAbsentAssumption DEF Names

\* What unload_profiles_with_prefix has to find.
LEMMA FilesFound ==
    ASSUME BaseInv, TypeOK, TotalFaults = 0
    PROVE  /\ \A u \in Users : \A n \in Prefixed[u] : kernel[n] # None => n \in FilesOf(u)
           /\ \A n \in Global : kernel[n] # None => n \in GlobalFiles
<1>1. faults["remove"] = 0
  BY NoFaults DEF FaultKinds
<1>2. \A n \in Names : kernel[n] # None => files[n] # None
  BY <1>1 DEF BaseInv, EveryProfileHasFile
<1>3. \A u \in Users : Prefixed[u] \subseteq Names
  BY NameAssumption DEF Names
<1>4. Global \subseteq Names
  BY OwnNames
<1> QED BY <1>2, <1>3, <1>4 DEF FilesOf, GlobalFiles

\* A profile stays in force where the kernel is not written.
LEMMA InForceKept ==
    ASSUME NEW u \in Users, TypeOK, state'.users[u] = state.users[u]
    PROVE  /\ RulesOf(u)' = RulesOf(u) /\ Lasting(u)' = Lasting(u)
           /\ Lasting(u) \subseteq DOMAIN RulesOf(u)
           /\ \A i \in Lasting(u) :
                 LET n == NameOf[u, RulesOf(u)[i]]
                 IN  /\ n \in Prefixed[u] /\ n \in Profiles
                     /\ InForce(u, RulesOf(u)[i]) /\ kernel'[n] = kernel[n] =>
                           InForce(u, RulesOf(u)[i])'
<1>1. RulesOf(u)' = RulesOf(u) /\ \A rule : BodyOf(u, rule)' = BodyOf(u, rule)
  BY DEF RulesOf, BodyOf, LinesOf
<1>2. Lasting(u)' = Lasting(u)
  BY <1>1 DEF Lasting
<1>3. Lasting(u) \subseteq DOMAIN RulesOf(u)
  BY DEF Lasting
<1> QED BY <1>1, <1>2, <1>3, RuleTypes DEF InForce

LEMMA CleanKept ==
    ASSUME CleanInv, UNCHANGED <<runtimeVars, hostVars, job, faults, restarts>>
    PROVE  CleanInv'
<1>1. /\ \A u : RulesOf(u)' = RulesOf(u) /\ Lasting(u)' = Lasting(u)
      /\ \A u, rule : InForce(u, rule)' = InForce(u, rule)
      /\ \A n : Wanted(n)' = Wanted(n)
      /\ PathLines' = PathLines /\ GlobalBody' = GlobalBody
  BY PoliciesKept DEF runtimeVars, hostVars, InForce
<1>2. TotalFaults' = TotalFaults
  BY DEF TotalFaults
<1>4. NothingStale'
  BY <1>1, <1>2 DEF CleanInv, NothingStale, runtimeVars, hostVars
<1>5. GlobalInCall'
  BY <1>1, <1>2 DEF CleanInv, GlobalInCall, runtimeVars, hostVars
<1>6. LoadedInForce'
  BY <1>1, <1>2 DEF CleanInv, LoadedInForce, runtimeVars, hostVars
<1> QED BY <1>4, <1>5, <1>6 DEF CleanInv

LEMMA CleanRestore ==
    ASSUME TypeOK, BaseInv, CleanInv, TotalFaults' = 0, Restore
    PROVE  CleanInv'
<1>1. job = None /\ loaded = {} /\ ~restored /\ restored' /\ UNCHANGED <<job, loaded, kernel, restarts>>
  BY DEF Restore, BaseInv, CallFits, hostVars, callVars
<1>2. UNCHANGED faults
  BY Failed DEF Restore, FaultKinds
<1>3. NothingStale'
  <2>1. restarts = 0 => \A n \in Profiles : kernel[n] = None
    BY <1>1, <1>2 DEF CleanInv, NothingStale, TotalFaults
  <2> QED BY <1>1, <2>1 DEF NothingStale
<1>4. GlobalInCall' /\ LoadedInForce'
  BY <1>1 DEF GlobalInCall, LoadedInForce
<1> QED BY <1>3, <1>4 DEF CleanInv

LEMMA CleanSync ==
    ASSUME TypeOK, BaseInv, CleanInv, TotalFaults' = 0,
           NEW u \in Users, NEW update \in Updates, Sync(u, update)
    PROVE  CleanInv'
<1>1. /\ job = None /\ restored
      /\ job' = [op |-> "sync", user |-> u, phase |-> "save", todo |-> {}, at |-> None, done |-> 0]
      /\ UNCHANGED <<restored, loaded, disk, files, kernel, faults, restarts>>
  BY DEF Sync, Ready, hostVars
<1>2. job' # None /\ job'.user = u /\ job'.phase = "save"
  BY <1>1, ProfileAbsentAssumption DEF Calls
<1>3. \A v \in Users \ {u} : state'.users[v] = state.users[v]
  BY DEF Sync, TypeOK, State
<1>4. u \notin loaded => PathLines' = PathLines /\ GlobalBody' = GlobalBody
  <2>1. SUFFICES ASSUME u \notin loaded
                 PROVE  PathLines' = PathLines
    BY DEF GlobalBody
  <2>2. \A v \in loaded : LinesOf(v)' = LinesOf(v)
    BY <1>3, <2>1 DEF TypeOK, LinesOf
  <2>3. PathLines' = UNION {LinesOf(v)' : v \in loaded}
    BY <1>1 DEF PathLines
  <2>4. {LinesOf(v)' : v \in loaded} = {LinesOf(v) : v \in loaded}
    BY <2>2
  <2> QED BY <2>3, <2>4, Zenon DEF PathLines
<1>5. TotalFaults = 0 /\ loaded \subseteq Users
  BY <1>1 DEF TotalFaults, TypeOK
<1>6. NothingStale'
  <2>1. ASSUME restarts = 0, NEW n \in Profiles, kernel[n] # None
        PROVE  Wanted(n)' \/ (n \in Prefixed[u] /\ u \in loaded)
    <3>1. PICK v \in loaded : \E i \in DOMAIN RulesOf(v) : NameOf[v, RulesOf(v)[i]] = n
      BY <1>1, <1>5, <2>1 DEF CleanInv, NothingStale, Wanted
    <3>2. CASE v = u
      BY <1>5, <3>1, <3>2, RuleTypes
    <3>3. CASE v # u
      <4>1. RulesOf(v)' = RulesOf(v)
        BY <1>3, <1>5, <3>3 DEF RulesOf
      <4> QED BY <1>1, <3>1, <4>1 DEF Wanted
    <3> QED BY <3>2, <3>3
  <2> QED BY <1>1, <1>2, <2>1 DEF NothingStale
<1>7. GlobalInCall'
  <2>1. loaded # {} => \A n \in Global : kernel[n] = IF PathLines = {} THEN None ELSE GlobalBody
    BY <1>1, <1>5 DEF CleanInv, GlobalInCall
  <2> QED BY <1>1, <1>2, <1>4, <2>1 DEF GlobalInCall
<1>8. LoadedInForce'
  <2>1. Apart => \A v \in loaded : \A i \in Lasting(v) : InForce(v, RulesOf(v)[i])
    BY <1>1, <1>5 DEF CleanInv, LoadedInForce
  <2>2. ASSUME Apart, NEW v \in loaded, NEW i \in Lasting(v)', v # u
        PROVE  InForce(v, RulesOf(v)[i])'
    BY <1>1, <1>3, <1>5, <2>1, <2>2, InForceKept
  <2> QED BY <1>1, <1>2, <2>2, Zenon DEF LoadedInForce
<1> QED BY <1>6, <1>7, <1>8 DEF CleanInv

\* What CleanInv says of the users' profiles in a state in which nothing failed.
LEMMA CleanParts ==
    ASSUME CleanInv, TotalFaults = 0
    PROVE  /\ restarts = 0 =>
                 /\ \A n \in Profiles : kernel[n] # None =>
                       \/ Wanted(n)
                       \/ /\ job # None /\ n \in Prefixed[job.user]
                          /\ job.phase = "unload" \/ (job.phase = "save" /\ job.user \in loaded)
                 /\ job # None /\ job.phase = "unload" =>
                       \A n \in Prefixed[job.user] : kernel[n] # None => n \in job.todo \ {job.at}
           /\ Apart =>
                 \A u \in loaded : \A i \in Lasting(u) :
                    \/ InForce(u, RulesOf(u)[i])
                    \/ /\ job # None /\ job.user = u
                       /\ job.phase \in {"save", "unload"} \/ (job.phase = "load" /\ i > job.done)
BY DEF CleanInv, NothingStale, LoadedInForce

LEMMA CleanSave ==
    ASSUME TypeOK, BaseInv, CleanInv, TotalFaults' = 0, Save
    PROVE  CleanInv'
<1> DEFINE user == job.user
<1>1. /\ job # None /\ job.phase = "save" /\ user \in Users /\ restored
      /\ UNCHANGED <<restored, state, loaded, kernel, faults, restarts>>
      /\ \/ /\ user \in loaded
            /\ job' # None /\ job'.user = user
            /\ job'.phase = "unload" /\ job'.todo = FilesOf(user) /\ job'.at = None
         \/ user \notin loaded /\ job' = None
  BY SaveStep, FinishStep DEF runtimeVars, BaseInv, CallFits
<1>2. /\ \A n : Wanted(n)' = Wanted(n)
      /\ PathLines' = PathLines /\ GlobalBody' = GlobalBody
      /\ loaded \subseteq Users
  BY <1>1, PoliciesKept DEF TypeOK
<1>3. TotalFaults = 0
  BY <1>1 DEF TotalFaults
<1>4. NothingStale'
  <2>1. ASSUME restarts = 0, NEW n \in Profiles, kernel[n] # None
        PROVE  Wanted(n) \/ (n \in Prefixed[user] /\ user \in loaded)
    BY <1>1, <1>3, <2>1, CleanParts
  <2>2. \A n \in Prefixed[user] : kernel[n] # None => n \in FilesOf(user) \ {None}
    BY <1>1, <1>3, FilesFound, RuleTypes, OwnNames
  <2> QED BY <1>1, <1>2, <2>1, <2>2 DEF NothingStale
<1>5. GlobalInCall'
  <2>1. user \notin loaded /\ loaded # {} => \A n \in Global : kernel[n] =
            IF PathLines = {} THEN None ELSE GlobalBody
    BY <1>1, <1>3 DEF CleanInv, GlobalInCall
  <2> QED BY <1>1, <1>2, <2>1 DEF GlobalInCall
<1>6. LoadedInForce'
  <2>1. ASSUME Apart, NEW v \in loaded, NEW i \in Lasting(v)', v # user
        PROVE  InForce(v, RulesOf(v)[i])'
    <3>1. v \in Users
      BY <1>2, <2>1
    <3>2. /\ i \in Lasting(v) /\ RulesOf(v)' = RulesOf(v)
          /\ InForce(v, RulesOf(v)[i]) => InForce(v, RulesOf(v)[i])'
      BY <1>1, <2>1, <3>1, InForceKept
    <3>3. InForce(v, RulesOf(v)[i])
      BY <1>1, <1>3, <2>1, <3>1, <3>2, CleanParts
    <3> QED BY <3>2, <3>3
  <2> QED BY <1>1, <2>1 DEF LoadedInForce
<1> QED BY <1>4, <1>5, <1>6 DEF CleanInv

LEMMA CleanRemove ==
    ASSUME TypeOK, BaseInv, CleanInv, TotalFaults' = 0, NEW n \in Names, RemoveProfile(n)
    PROVE  CleanInv'
<1>1. /\ job # None /\ job.phase \in {"unload", "unload_global"} /\ n \in job.todo /\ job.at = None
      /\ restored /\ job.user \in Users
      /\ job' # None /\ job'.user = job.user
      /\ job'.phase = job.phase /\ job'.todo = job.todo /\ job'.at = n
      /\ UNCHANGED <<restored, state, loaded, restarts>>
  BY RemoveStep, CallTypes DEF runtimeVars, BaseInv, CallFits
<1>2. UNCHANGED faults /\ kernel'[n] = None /\ \A m \in Names \ {n} : kernel'[m] = kernel[m]
  BY RemoveStep, Failed DEF FaultKinds
<1>3. /\ \A m : Wanted(m)' = Wanted(m)
      /\ PathLines' = PathLines /\ GlobalBody' = GlobalBody
      /\ loaded \subseteq Users
  BY <1>1, PoliciesKept DEF TypeOK
<1>4. TotalFaults = 0
  BY <1>2 DEF TotalFaults
<1>5. \A m \in Names : kernel'[m] # None => m # n /\ kernel[m] # None
  BY <1>2
<1>6. NothingStale'
  <2>1. ASSUME restarts = 0, NEW m \in Profiles, kernel'[m] # None
        PROVE  Wanted(m) \/ (m \in Prefixed[job.user] /\ job.phase = "unload")
    BY <1>1, <1>4, <1>5, <2>1, CleanParts, OwnNames
  <2>2. ASSUME restarts = 0, job.phase = "unload", NEW m \in Prefixed[job.user], kernel'[m] # None
        PROVE  m \in job.todo \ {n}
    BY <1>1, <1>4, <1>5, <2>2, OwnNames, RuleTypes, CleanParts
  <2> QED BY <1>1, <1>3, <2>1, <2>2 DEF NothingStale
<1>7. GlobalInCall'
  <2>1. ASSUME job.phase = "unload_global", NEW m \in Global, kernel'[m] # None
        PROVE  m \in job.todo \ {n}
    BY <1>1, <1>4, <1>5, <2>1, OwnNames DEF CleanInv, GlobalInCall
  <2> QED BY <1>1, <2>1 DEF GlobalInCall
<1>8. LoadedInForce'
  <2>1. ASSUME Apart, NEW v \in loaded, NEW i \in Lasting(v)', v # job.user \/ job.phase = "unload_global"
        PROVE  InForce(v, RulesOf(v)[i])'
    <3>1. v \in Users
      BY <1>3
    <3>2. /\ i \in Lasting(v) /\ RulesOf(v)' = RulesOf(v)
          /\ NameOf[v, RulesOf(v)[i]] \in Prefixed[v] /\ NameOf[v, RulesOf(v)[i]] \in Profiles
      BY <1>1, <2>1, <3>1, InForceKept
    <3>3. InForce(v, RulesOf(v)[i])
      BY <1>1, <1>4, <2>1, <3>2, CleanParts
    <3>4. NameOf[v, RulesOf(v)[i]] # n
      <4>1. CASE job.phase = "unload_global"
        BY <1>1, <3>2, <4>1, OwnNames DEF BaseInv, CallFits
      <4>2. CASE job.phase = "unload" /\ v # job.user
        <5>1. n \in Prefixed[job.user]
          BY <1>1, <4>2 DEF BaseInv, CallFits
        <5> QED BY <1>1, <2>1, <3>1, <3>2, <4>2, <5>1 DEF Apart
      <4> QED BY <1>1, <2>1, <4>1, <4>2
    <3> QED BY <1>1, <1>2, <3>1, <3>2, <3>3, <3>4, InForceKept, OwnNames
  <2> QED BY <1>1, <2>1 DEF LoadedInForce
<1> QED BY <1>6, <1>7, <1>8 DEF CleanInv

\* Steps that leave the kernel's profiles alone.
LEMMA CleanWrite ==
    ASSUME TypeOK, BaseInv, CleanInv, TotalFaults' = 0, NEW n \in Names, WriteFile(n)
    PROVE  CleanInv'
<1>1. /\ job # None /\ job.phase \in {"load", "load_global"}
      /\ restored /\ job.user \in Users
      /\ job' # None /\ job'.user = job.user
      /\ job'.phase = job.phase /\ job'.todo = job.todo /\ job'.done = job.done
      /\ UNCHANGED <<restored, state, loaded, kernel, faults, restarts>>
  BY WriteStep, CallTypes DEF runtimeVars, BaseInv, CallFits
<1>2. /\ \A m : Wanted(m)' = Wanted(m)
      /\ PathLines' = PathLines /\ GlobalBody' = GlobalBody
      /\ loaded \subseteq Users
  BY <1>1, PoliciesKept DEF TypeOK
<1>3. TotalFaults = 0
  BY <1>1 DEF TotalFaults
<1>4. NothingStale'
  <2>1. ASSUME restarts = 0, NEW m \in Profiles, kernel[m] # None
        PROVE  Wanted(m)
    BY <1>1, <1>3, <2>1, CleanParts
  <2> QED BY <1>1, <1>2, <2>1 DEF NothingStale
<1>5. GlobalInCall'
  BY <1>1, <1>2, <1>3 DEF CleanInv, GlobalInCall
<1>6. LoadedInForce'
  <2>1. ASSUME Apart, NEW v \in loaded, NEW i \in Lasting(v)'
        PROVE  InForce(v, RulesOf(v)[i])' \/ (job.user = v /\ job.phase = "load" /\ i > job.done)
    <3>1. v \in Users
      BY <1>2, <2>1
    <3>2. /\ i \in Lasting(v) /\ RulesOf(v)' = RulesOf(v)
          /\ InForce(v, RulesOf(v)[i]) => InForce(v, RulesOf(v)[i])'
      BY <1>1, <2>1, <3>1, InForceKept
    <3>3. InForce(v, RulesOf(v)[i]) \/ (job.user = v /\ job.phase = "load" /\ i > job.done)
      BY <1>1, <1>3, <2>1, <3>1, <3>2, CleanParts
    <3> QED BY <3>2, <3>3
  <2> QED BY <1>1, <2>1 DEF LoadedInForce
<1> QED BY <1>4, <1>5, <1>6 DEF CleanInv

LEMMA CleanDelete ==
    ASSUME TypeOK, BaseInv, CleanInv, TotalFaults' = 0, DeleteFile
    PROVE  CleanInv'
<1>1. /\ job # None /\ job.phase \in {"unload", "unload_global"}
      /\ restored /\ job.user \in Users
      /\ job' # None /\ job'.user = job.user
      /\ job'.phase = job.phase /\ job'.todo = job.todo \ {job.at} /\ job'.at = None
      /\ UNCHANGED <<restored, state, loaded, kernel, faults, restarts>>
  BY DeleteStep, CallTypes DEF runtimeVars, BaseInv, CallFits
<1>2. /\ \A m : Wanted(m)' = Wanted(m)
      /\ PathLines' = PathLines /\ GlobalBody' = GlobalBody
      /\ loaded \subseteq Users
  BY <1>1, PoliciesKept DEF TypeOK
<1>3. TotalFaults = 0
  BY <1>1 DEF TotalFaults
<1>4. NothingStale'
  <2>1. ASSUME restarts = 0, NEW m \in Profiles, kernel[m] # None
        PROVE  Wanted(m) \/ (m \in Prefixed[job.user] /\ job.phase = "unload")
    BY <1>1, <1>3, <2>1, CleanParts
  <2>2. ASSUME restarts = 0, job.phase = "unload", NEW m \in Prefixed[job.user], kernel[m] # None
        PROVE  m \in (job.todo \ {job.at}) \ {None}
    BY <1>1, <1>3, <2>2, OwnNames, RuleTypes, CleanParts
  <2> QED BY <1>1, <1>2, <2>1, <2>2 DEF NothingStale
<1>5. GlobalInCall'
  <2>1. ASSUME job.phase = "unload_global", NEW m \in Global, kernel[m] # None
        PROVE  m \in (job.todo \ {job.at}) \ {None}
    BY <1>1, <1>3, <2>1, OwnNames DEF CleanInv, GlobalInCall
  <2> QED BY <1>1, <2>1 DEF GlobalInCall
<1>6. LoadedInForce'
  <2>1. ASSUME Apart, NEW v \in loaded, NEW i \in Lasting(v)', v # job.user \/ job.phase = "unload_global"
        PROVE  InForce(v, RulesOf(v)[i])'
    <3>1. v \in Users
      BY <1>2, <2>1
    <3>2. /\ i \in Lasting(v) /\ RulesOf(v)' = RulesOf(v)
          /\ InForce(v, RulesOf(v)[i]) => InForce(v, RulesOf(v)[i])'
      BY <1>1, <2>1, <3>1, InForceKept
    <3>3. InForce(v, RulesOf(v)[i])
      BY <1>1, <1>3, <2>1, <3>1, <3>2, CleanParts
    <3> QED BY <3>2, <3>3
  <2> QED BY <1>1, <2>1 DEF LoadedInForce
<1> QED BY <1>4, <1>5, <1>6 DEF CleanInv

\* The profile that is loaded is that of a loaded user's rule, and of the rules
\* before it in the list none that lasts has its name.
LEMMA CleanLoad ==
    ASSUME TypeOK, BaseInv, CleanInv, TotalFaults' = 0, LoadProfile
    PROVE  CleanInv'
<1> DEFINE user == job.user
           k    == job.done + 1
<1>1. /\ job # None /\ job.phase \in {"load", "load_global"} /\ job.at \in Names
      /\ restored /\ user \in Users /\ job.done \in Nat
      /\ job.phase = "load_global" => job.at \in job.todo /\ job.todo \subseteq Global
      /\ job' # None /\ job'.user = user
      /\ job'.phase = job.phase /\ job'.todo = job.todo \ {job.at} /\ job'.at = None /\ job'.done = k
      /\ UNCHANGED <<restored, state, loaded, restarts>>
  <2>1. job # None /\ job.at # None /\ job.phase \in {"load", "load_global"}
    BY LoadStep
  <2>2. /\ restored
        /\ job.phase = "load_global" => job.at \in job.todo /\ job.todo \subseteq Global
    BY <2>1 DEF BaseInv, CallFits
  <2> QED BY <2>1, <2>2, LoadStep, CallTypes DEF runtimeVars
<1>2. /\ UNCHANGED faults
      /\ kernel'[job.at] = Content /\ \A m \in Names \ {job.at} : kernel'[m] = kernel[m]
  BY LoadStep, Failed DEF FaultKinds
<1>3. /\ \A m : Wanted(m)' = Wanted(m)
      /\ \A u : RulesOf(u)' = RulesOf(u) /\ Lasting(u)' = Lasting(u)
      /\ \A u, rule : BodyOf(u, rule)' = BodyOf(u, rule)
      /\ PathLines' = PathLines /\ GlobalBody' = GlobalBody
      /\ loaded \subseteq Users
  BY <1>1, PoliciesKept DEF TypeOK
<1>4. TotalFaults = 0
  BY <1>2 DEF TotalFaults
<1>5. job.phase = "load" =>
        /\ user \in loaded /\ k \in DOMAIN RulesOf(user)
        /\ job.at = NameOf[user, RulesOf(user)[k]] /\ job.at \in Prefixed[user] /\ job.at \in Profiles
        /\ Content = BodyOf(user, RulesOf(user)[k])
  <2>1. ASSUME job.phase = "load"
        PROVE  user \in loaded /\ MoreToLoad /\ job.at \in NextNames
    BY <2>1, LoadStep DEF BaseInv, CallFits
  <2> QED BY <1>1, <2>1, NextTypes, RuleTypes DEF NextRule
<1>6. NothingStale'
  <2>1. ASSUME restarts = 0, NEW m \in Profiles, kernel'[m] # None
        PROVE  Wanted(m)
    <3>1. CASE m = job.at
      <4>1. job.phase = "load"
        BY <1>1, <3>1, OwnNames
      <4> QED BY <1>5, <3>1, <4>1 DEF Wanted
    <3>2. CASE m # job.at
      <4>1. kernel[m] # None
        BY <1>2, <2>1, <3>2, OwnNames
      <4> QED BY <1>1, <1>4, <2>1, <4>1, CleanParts
    <3> QED BY <3>1, <3>2
  <2> QED BY <1>1, <1>3, <2>1 DEF NothingStale
<1>7. GlobalInCall'
  <2>1. ASSUME job.phase = "load_global"
        PROVE  PathLines # {} /\ Content = GlobalBody
    BY <1>1, <1>4, <2>1, NextTypes DEF CleanInv, GlobalInCall
  <2>2. ASSUME job.phase = "load_global", NEW m \in Global
        PROVE  m \in job.todo \ {job.at} \/ kernel'[m] = GlobalBody
    <3>1. CASE m = job.at
      BY <1>2, <2>1, <2>2, <3>1
    <3>2. CASE m # job.at
      <4>1. m \in job.todo \/ kernel[m] = GlobalBody
        BY <1>1, <1>4, <2>1, <2>2 DEF CleanInv, GlobalInCall
      <4> QED BY <1>2, <3>2, <4>1, OwnNames
    <3> QED BY <3>1, <3>2
  <2> QED BY <1>1, <1>3, <2>1, <2>2 DEF GlobalInCall
<1>8. LoadedInForce'
  <2>1. ASSUME Apart, NEW v \in loaded, NEW i \in Lasting(v)
        PROVE  \/ InForce(v, RulesOf(v)[i])'
               \/ user = v /\ job.phase = "load" /\ i > k
    <3> DEFINE name == NameOf[v, RulesOf(v)[i]]
    <3>1. /\ v \in Users /\ name \in Prefixed[v] /\ name \in Profiles
          /\ i \in DOMAIN RulesOf(v)
      BY <1>1, <1>3, <2>1, InForceKept
    <3>2. i \in Nat
      <4>1. i \in 1..Len(RulesOf(v)) /\ Len(RulesOf(v)) \in Nat
        BY <3>1, RuleTypes
      <4> QED BY <4>1
    <3>3. CASE job.phase = "load" /\ v = user /\ i = k
      <4>1. kernel'[name] = BodyOf(v, RulesOf(v)[i])
        BY <1>2, <1>5, <3>3
      <4> QED BY <1>3, <4>1 DEF InForce
    <3>4. CASE name # job.at
      <4>1. kernel'[name] = kernel[name]
        BY <1>2, <3>1, <3>4, OwnNames
      <4>2. \/ InForce(v, RulesOf(v)[i])
            \/ user = v /\ job.phase = "load" /\ i > job.done
        BY <1>1, <1>4, <2>1, CleanParts
      <4>3. InForce(v, RulesOf(v)[i]) => InForce(v, RulesOf(v)[i])'
        BY <1>1, <2>1, <3>1, <4>1, InForceKept
      <4>4. user = v /\ job.phase = "load" /\ i > job.done => i > k \/ i = k
        BY <1>1, <3>2
      <4> QED BY <3>3, <4>2, <4>3, <4>4
    <3>5. CASE name = job.at /\ ~(job.phase = "load" /\ v = user /\ i = k)
      <4>1. job.phase = "load"
        BY <1>1, <3>1, <3>5, OwnNames
      <4>2. v = user
        BY <1>1, <1>5, <2>1, <3>1, <3>5, <4>1 DEF Apart
      <4>3. k \in DOMAIN RulesOf(v) /\ NameOf[v, RulesOf(v)[k]] = NameOf[v, RulesOf(v)[i]]
        BY <1>5, <3>5, <4>1, <4>2
      <4>4. k <= i
        BY <2>1, <4>3 DEF Lasting
      <4>5. i # k
        BY <3>5, <4>1, <4>2
      <4>6. i > k
        BY <1>1, <3>2, <4>4, <4>5
      <4> QED BY <4>1, <4>2, <4>6
    <3> QED BY <3>3, <3>4, <3>5
  <2> QED BY <1>1, <1>3, <2>1 DEF LoadedInForce
<1> QED BY <1>6, <1>7, <1>8 DEF CleanInv

LEMMA CleanUnloaded ==
    ASSUME TypeOK, BaseInv, CleanInv, TotalFaults' = 0, Unloaded
    PROVE  CleanInv'
<1>1. PICK user \in Users :
      /\ job # None /\ job.phase = "unload" /\ job.user = user /\ job.todo = {}
      /\ restored
      /\ job' # None /\ job'.user = user /\ job'.at = None
      /\ UNCHANGED <<restored, state, kernel, faults, restarts>>
      /\ \/ /\ loaded' = loaded
            /\ job'.phase = "load" /\ job'.done = 0
         \/ /\ loaded' = loaded \ {user}
            /\ job'.phase = "unload_global" /\ job'.todo = GlobalFiles
  BY UnloadedStep DEF hostVars, BaseInv, CallFits
<1>2. /\ \A v : RulesOf(v)' = RulesOf(v)
      /\ loaded \subseteq Users
  BY <1>1 DEF RulesOf, TypeOK
<1>3. TotalFaults = 0
  BY <1>1 DEF TotalFaults
<1>4. NothingStale'
  <2>1. ASSUME restarts = 0, NEW n \in Prefixed[user]
        PROVE  kernel[n] = None
    BY <1>1, <1>3, <2>1, CleanParts
  <2>2. ASSUME restarts = 0, NEW n \in Profiles, kernel[n] # None
        PROVE  Wanted(n)'
    <3>1. n \notin Prefixed[user]
      BY <2>1, <2>2
    <3>2. PICK v \in loaded : \E i \in DOMAIN RulesOf(v) : NameOf[v, RulesOf(v)[i]] = n
      BY <1>1, <1>3, <2>2, <3>1, CleanParts DEF Wanted
    <3>3. v # user
      <4>1. \A i \in DOMAIN RulesOf(user) : NameOf[user, RulesOf(user)[i]] # n
        BY <1>1, <3>1, RuleTypes
      <4> QED BY <3>2, <4>1
    <3> QED BY <1>1, <1>2, <3>2, <3>3 DEF Wanted
  <2> QED BY <1>1, <2>2 DEF NothingStale
<1>5. GlobalInCall'
  <2>1. \A n \in Global : kernel[n] # None => n \in GlobalFiles \ {None}
    BY <1>1, <1>3, FilesFound, OwnNames
  <2> QED BY <1>1, <2>1 DEF GlobalInCall
<1>6. LoadedInForce'
  <2>1. ASSUME Apart, NEW v \in loaded', NEW i \in Lasting(v)', v # user
        PROVE  InForce(v, RulesOf(v)[i])'
    <3>1. v \in loaded /\ v \in Users
      BY <1>1, <1>2
    <3>2. /\ i \in Lasting(v) /\ RulesOf(v)' = RulesOf(v)
          /\ InForce(v, RulesOf(v)[i]) => InForce(v, RulesOf(v)[i])'
      BY <1>1, <2>1, <3>1, InForceKept
    <3>3. InForce(v, RulesOf(v)[i])
      BY <1>1, <1>3, <2>1, <3>1, <3>2, CleanParts
    <3> QED BY <3>2, <3>3
  <2>2. ASSUME user \in loaded', NEW i \in Lasting(user)'
        PROVE  job'.phase = "load" /\ i > job'.done
    <3>1. i \in DOMAIN RulesOf(user)
      BY <1>2, <2>2 DEF Lasting
    <3>2. i > 0
      <4>1. i \in 1..Len(RulesOf(user)) /\ Len(RulesOf(user)) \in Nat
        BY <3>1, RuleTypes
      <4> QED BY <4>1
    <3> QED BY <1>1, <2>2, <3>2
  <2> QED BY <1>1, <2>1, <2>2 DEF LoadedInForce
<1> QED BY <1>4, <1>5, <1>6 DEF CleanInv

LEMMA CleanGlobal ==
    ASSUME TypeOK, BaseInv, CleanInv, TotalFaults' = 0, RefreshGlobal \/ RenderGlobal
    PROVE  CleanInv'
<1>1. /\ job # None /\ job.user \in Users /\ restored
      /\ job' # None /\ job'.user = job.user /\ job'.at = None
      /\ UNCHANGED <<restored, state, loaded, kernel, faults, restarts>>
      /\ \/ /\ job.phase = "load" /\ ~MoreToLoad
            /\ job'.phase = "unload_global" /\ job'.todo = GlobalFiles
         \/ /\ job.phase = "unload_global" /\ job.todo = {}
            /\ job'.phase = "load_global"
            /\ job'.todo = IF PathLines = {} THEN {} ELSE Global
  <2>1. CASE RefreshGlobal
    BY <2>1, RefreshStep DEF runtimeVars, hostVars, BaseInv, CallFits
  <2>2. CASE RenderGlobal
    BY <2>2, RenderStep DEF runtimeVars, hostVars, BaseInv, CallFits
  <2> QED BY <2>1, <2>2
<1>2. /\ \A m : Wanted(m)' = Wanted(m)
      /\ PathLines' = PathLines /\ GlobalBody' = GlobalBody
      /\ loaded \subseteq Users
  BY <1>1, PoliciesKept DEF TypeOK
<1>3. TotalFaults = 0
  BY <1>1 DEF TotalFaults
<1>4. NothingStale'
  <2>1. ASSUME restarts = 0, NEW n \in Profiles, kernel[n] # None
        PROVE  Wanted(n)
    BY <1>1, <1>3, <2>1, CleanParts
  <2> QED BY <1>1, <1>2, <2>1 DEF NothingStale
<1>5. GlobalInCall'
  <2>1. \A n \in Global : kernel[n] # None => n \in GlobalFiles \ {None}
    BY <1>1, <1>3, FilesFound, OwnNames
  <2>2. job.phase = "unload_global" => \A n \in Global : kernel[n] = None
    BY <1>1, <1>3 DEF CleanInv, GlobalInCall
  <2> QED BY <1>1, <1>2, <2>1, <2>2 DEF GlobalInCall
<1>6. LoadedInForce'
  <2>1. ASSUME Apart, NEW v \in loaded, NEW i \in Lasting(v)'
        PROVE  InForce(v, RulesOf(v)[i])'
    <3>1. v \in Users /\ i \in Lasting(v) /\ i \in DOMAIN RulesOf(v)
      BY <1>1, <1>2, <2>1, InForceKept
    <3>2. ~(job.user = v /\ job.phase = "load" /\ i > job.done)
      <4>1. /\ i \in 1..Len(RulesOf(v)) /\ Len(RulesOf(v)) \in Nat /\ job.done \in Nat
        BY <1>1, <3>1, RuleTypes, CallTypes
      <4>2. job.user = v /\ job.phase = "load" => job.done >= Len(RulesOf(v))
        BY <1>1, <4>1 DEF MoreToLoad
      <4> QED BY <4>1, <4>2
    <3>3. InForce(v, RulesOf(v)[i])
      BY <1>1, <1>3, <2>1, <3>1, <3>2, CleanParts
    <3> QED BY <1>1, <3>1, <3>3, InForceKept
  <2> QED BY <1>1, <2>1 DEF LoadedInForce
<1> QED BY <1>4, <1>5, <1>6 DEF CleanInv

LEMMA CleanEnd ==
    ASSUME TypeOK, BaseInv, CleanInv, TotalFaults' = 0, SaveFails \/ ToolFails \/ Return
    PROVE  CleanInv'
<1>1. /\ job # None /\ job.user \in Users /\ job.phase = "load_global" /\ job.todo = {} /\ restored
      /\ job' = None
      /\ UNCHANGED <<restored, state, loaded, kernel, faults, restarts>>
  BY EndStep, Failed, CallTypes DEF FaultKinds, runtimeVars, hostVars, BaseInv, CallFits
<1>2. /\ \A m : Wanted(m)' = Wanted(m)
      /\ PathLines' = PathLines /\ GlobalBody' = GlobalBody
      /\ loaded \subseteq Users
  BY <1>1, PoliciesKept DEF TypeOK
<1>3. TotalFaults = 0
  BY <1>1 DEF TotalFaults
<1>4. NothingStale'
  <2>1. ASSUME restarts = 0, NEW n \in Profiles, kernel[n] # None
        PROVE  Wanted(n)
    BY <1>1, <1>3, <2>1, CleanParts
  <2> QED BY <1>1, <1>2, <2>1 DEF NothingStale
<1>5. GlobalInCall'
  BY <1>1, <1>2, <1>3 DEF CleanInv, GlobalInCall
<1>6. LoadedInForce'
  <2>1. ASSUME Apart, NEW v \in loaded, NEW i \in Lasting(v)'
        PROVE  InForce(v, RulesOf(v)[i])'
    <3>1. v \in Users
      BY <1>2, <2>1
    <3>2. /\ i \in Lasting(v) /\ RulesOf(v)' = RulesOf(v)
          /\ InForce(v, RulesOf(v)[i]) => InForce(v, RulesOf(v)[i])'
      BY <1>1, <2>1, <3>1, InForceKept
    <3>3. InForce(v, RulesOf(v)[i])
      BY <1>1, <1>3, <2>1, <3>1, <3>2, CleanParts
    <3> QED BY <3>2, <3>3
  <2> QED BY <1>1, <2>1 DEF LoadedInForce
<1> QED BY <1>4, <1>5, <1>6 DEF CleanInv

LEMMA CallStep ==
    ASSUME TypeOK, Call
    PROVE  /\ job = None /\ restored /\ handling # None /\ handling.user \in Users
           /\ handling.step = "waiting"
           /\ job' # None /\ job'.op = handling.op /\ job'.user = handling.user /\ job'.at = None
           /\ handling' # None /\ handling'.op = handling.op /\ handling'.user = handling.user
           /\ handling'.step = "calling"
           /\ UNCHANGED <<restored, state, hostVars, cache, crossed, faults, restarts>>
           /\ \/ /\ handling.op = "load" /\ loaded' = loaded \cup {handling.user}
                 /\ job'.phase = "load" /\ job'.done = 0
              \/ /\ handling.op = "unload" /\ loaded' = loaded
                 /\ job'.phase = "unload" /\ job'.todo = FilesOf(handling.user)
<1>1. /\ job = None /\ restored /\ handling \in Handlings /\ handling.user \in Users
      /\ handling # None /\ handling.step = "waiting"
      /\ handling' = [handling EXCEPT !.step = "calling"]
      /\ UNCHANGED <<restored, state, hostVars, cache, crossed, faults, restarts>>
  BY DEF Call, Ready, TypeOK, Handlings
<1>2. handling' = [op |-> handling.op, session |-> handling.session, user |-> handling.user,
                   step |-> "calling"]
  BY <1>1 DEF Handlings
<1>3. handling' # None
  BY <1>1, <1>2, ProfileAbsentAssumption DEF Handlings
<1>4. \/ /\ handling.op = "load" /\ loaded' = loaded \cup {handling.user}
         /\ job' = [op |-> "load", user |-> handling.user, phase |-> "load",
                    todo |-> {}, at |-> None, done |-> 0]
      \/ /\ handling.op = "unload" /\ loaded' = loaded
         /\ job' = [op |-> "unload", user |-> handling.user, phase |-> "unload",
                    todo |-> FilesOf(handling.user), at |-> None, done |-> 0]
  BY DEF Call
<1>5. FilesOf(handling.user) \in SUBSET Names
  BY <1>1, NameTypes
<1>6. job' # None
  BY <1>1, <1>4, <1>5, ProfileAbsentAssumption DEF Calls
<1> QED BY <1>1, <1>2, <1>3, <1>4, <1>5, <1>6

LEMMA CleanCall ==
    ASSUME TypeOK, BaseInv, CleanInv, TotalFaults' = 0, Call
    PROVE  CleanInv'
<1>1. PICK user \in Users :
      /\ job = None /\ restored
      /\ job' # None /\ job'.user = user /\ job'.at = None
      /\ UNCHANGED <<restored, state, kernel, faults, restarts>>
      /\ \/ /\ loaded' = loaded \cup {user}
            /\ job'.phase = "load" /\ job'.done = 0
         \/ /\ loaded' = loaded
            /\ job'.phase = "unload" /\ job'.todo = FilesOf(user)
  BY CallStep DEF hostVars
<1>2. /\ \A v : RulesOf(v)' = RulesOf(v)
      /\ loaded \subseteq Users
  BY <1>1 DEF RulesOf, TypeOK
<1>3. TotalFaults = 0
  BY <1>1 DEF TotalFaults
<1>4. NothingStale'
  <2>1. ASSUME restarts = 0, NEW n \in Profiles, kernel[n] # None
        PROVE  Wanted(n)'
    <3>1. PICK v \in loaded : \E i \in DOMAIN RulesOf(v) : NameOf[v, RulesOf(v)[i]] = n
      BY <1>1, <1>3, <2>1, CleanParts DEF Wanted
    <3> QED BY <1>1, <1>2, <3>1 DEF Wanted
  <2>2. \A n \in Prefixed[user] : kernel[n] # None => n \in FilesOf(user) \ {None}
    BY <1>1, <1>3, FilesFound, RuleTypes, OwnNames
  <2> QED BY <1>1, <2>1, <2>2 DEF NothingStale
<1>5. GlobalInCall'
  BY <1>1 DEF GlobalInCall
<1>6. LoadedInForce'
  <2>1. ASSUME Apart, NEW v \in loaded', NEW i \in Lasting(v)', v # user
        PROVE  InForce(v, RulesOf(v)[i])'
    <3>1. v \in loaded /\ v \in Users
      BY <1>1, <1>2, <2>1
    <3>2. /\ i \in Lasting(v) /\ RulesOf(v)' = RulesOf(v)
          /\ InForce(v, RulesOf(v)[i]) => InForce(v, RulesOf(v)[i])'
      BY <1>1, <2>1, <3>1, InForceKept
    <3>3. InForce(v, RulesOf(v)[i])
      BY <1>1, <1>3, <2>1, <3>1, <3>2, CleanParts
    <3> QED BY <3>2, <3>3
  <2>2. ASSUME NEW i \in Lasting(user)'
        PROVE  job'.phase = "unload" \/ (job'.phase = "load" /\ i > job'.done)
    <3>1. i \in DOMAIN RulesOf(user)
      BY <1>2, <2>2 DEF Lasting
    <3>2. i > 0
      <4>1. i \in 1..Len(RulesOf(user)) /\ Len(RulesOf(user)) \in Nat
        BY <3>1, RuleTypes
      <4> QED BY <4>1
    <3> QED BY <1>1, <3>2
  <2> QED BY <1>1, <2>1, <2>2 DEF LoadedInForce
<1> QED BY <1>4, <1>5, <1>6 DEF CleanInv

LEMMA CleanLost ==
    ASSUME TypeOK, Crash \/ Reboot
    PROVE  CleanInv'
<1>1. job' = None /\ loaded' = {} /\ restarts' # 0
  BY DEF Crash, Reboot, ProcessLost, TypeOK
<1> QED BY <1>1 DEF CleanInv, NothingStale, GlobalInCall, LoadedInForce

LEMMA CleanStep ==
    ASSUME TypeOK, BaseInv, CleanInv, [Next]_vars
    PROVE  CleanInv'
<1>1. CASE TotalFaults' # 0
  BY <1>1 DEF CleanInv, NothingStale, GlobalInCall, LoadedInForce
<1>2. CASE TotalFaults' = 0
  BY <1>2, StepCases, CleanRestore, CleanSync, CleanSave, CleanRemove, CleanWrite, CleanDelete,
     CleanLoad, CleanUnloaded, CleanGlobal, CleanEnd, CleanCall, CleanLost, CleanKept, ListensStep
<1> QED BY <1>1, <1>2

-----------------------------------------------------------------------------
(* The listener of sessions *)

ListenerInv == HandlingFits /\ CacheFits

\* A call goes on.
LEMMA ListenerProgress ==
    ASSUME TypeOK, ListenerInv, job # None, job' # None, job'.op = job.op, job'.user = job.user,
           UNCHANGED <<handling, cache, crossed>>,
           loaded' = loaded \/ (job.op = "unload" /\ loaded' = loaded \ {job.user})
    PROVE  ListenerInv'
<1>1. handling # None => handling.step \in {"waiting", "calling", "done"}
  BY DEF TypeOK, Handlings
<1>2. HandlingFits'
  BY <1>1 DEF ListenerInv, HandlingFits
<1>3. CacheFits'
  BY DEF ListenerInv, CacheFits
<1> QED BY <1>2, <1>3 DEF ListenerInv

\* A call ends.
LEMMA ListenerFinish ==
    ASSUME TypeOK, ListenerInv, job # None, UNCHANGED loaded, NEW result \in BOOLEAN, Finish(result)
    PROVE  ListenerInv'
<1>1. /\ job' = None /\ (handling' = None <=> handling = None)
      /\ handling # None =>
            /\ handling'.op = handling.op /\ handling'.user = handling.user
            /\ handling'.step = IF handling.step = "calling" THEN "done" ELSE handling.step
      /\ UNCHANGED <<cache, crossed>>
  BY FinishStep
<1>2. HandlingFits'
  BY <1>1 DEF ListenerInv, HandlingFits
<1>3. CacheFits'
  BY <1>1 DEF ListenerInv, CacheFits
<1> QED BY <1>2, <1>3 DEF ListenerInv

LEMMA ListenerCall ==
    ASSUME TypeOK, ListenerInv, Call
    PROVE  ListenerInv'
<1>1. /\ handling # None /\ job' # None /\ job'.op = handling.op /\ job'.user = handling.user
      /\ handling' # None /\ handling'.op = handling.op /\ handling'.user = handling.user
      /\ handling'.step = "calling"
      /\ UNCHANGED <<cache, crossed>>
      /\ \/ handling.op = "load" /\ loaded' = loaded \cup {handling.user}
         \/ handling.op = "unload" /\ loaded' = loaded
  BY CallStep
<1>2. HandlingFits'
  BY <1>1 DEF HandlingFits
<1>3. CacheFits'
  BY <1>1 DEF ListenerInv, CacheFits
<1> QED BY <1>2, <1>3 DEF ListenerInv

\* A session that ends leaves the cache, and is the last of its user there
\* unless the listener has crossed.
LEMMA ListenerTakeEnded ==
    ASSUME TypeOK, ListenerInv, TakeEnded
    PROVE  ListenerInv'
<1> DEFINE s == Head(ended)
<1>1. /\ handling = None /\ s \in Sessions
      /\ cache' = [cache EXCEPT ![s] = None]
      /\ UNCHANGED <<job, loaded>>
  BY DEF TakeEnded, TypeOK, runtimeVars, callVars
<1>2. CASE cache[s] = None /\ UNCHANGED <<handling, crossed>>
  <2>1. \A r \in Sessions : cache'[r] # None => cache[r] # None /\ cache'[r] = cache[r]
    BY <1>1 DEF TypeOK
  <2> QED BY <1>1, <1>2, <2>1 DEF ListenerInv, HandlingFits, CacheFits
<1>3. CASE /\ cache[s] # None /\ Wait("unload", s, cache[s])
           /\ crossed' = (crossed \/ {r \in Sessions \ {s} : cache[r] = cache[s]} # {})
  <2>1. handling' = [op |-> "unload", session |-> s, user |-> cache[s], step |-> "waiting"]
    BY <1>3 DEF Wait
  <2>2. HandlingFits'
    BY <1>1, <2>1 DEF HandlingFits
  <2>3. ~crossed' => ~crossed /\ \A r \in Sessions \ {s} : cache[r] # cache[s]
    BY <1>3
  <2>4. ASSUME ~crossed', NEW r \in Sessions, cache'[r] # None
        PROVE  cache'[r] = cache[r] /\ cache[r] # None /\ cache[r] # cache[s] /\ ~crossed
    BY <1>1, <2>3, <2>4 DEF TypeOK
  <2>5. CacheFits'
    BY <1>1, <2>1, <2>4 DEF ListenerInv, CacheFits
  <2> QED BY <2>2, <2>5 DEF ListenerInv
<1> QED BY <1>2, <1>3 DEF TakeEnded

LEMMA ListenerHandled ==
    ASSUME TypeOK, ListenerInv, Handled
    PROVE  ListenerInv'
<1>1. /\ handling # None /\ handling.step = "done" /\ handling' = None
      /\ handling.session \in Sessions
      /\ cache' = IF listening /\ handling.op = "load"
                  THEN [cache EXCEPT ![handling.session] = handling.user] ELSE cache
      /\ UNCHANGED <<job, loaded, crossed>>
  BY DEF Handled, TypeOK, Handlings, runtimeVars, callVars
<1>2. /\ job # None => job.op = "sync"
      /\ handling.op = "load" => handling.user \in loaded
  BY <1>1 DEF ListenerInv, HandlingFits
<1>3. ASSUME ~crossed, NEW r \in Sessions, cache'[r] # None
      PROVE  cache'[r] \in loaded
  <2>1. cache[r] # None => cache[r] \in loaded
    BY <1>3 DEF ListenerInv, CacheFits
  <2> QED BY <1>1, <1>2, <1>3, <2>1 DEF TypeOK
<1>4. HandlingFits'
  BY <1>1 DEF HandlingFits
<1>5. CacheFits'
  BY <1>1, <1>2, <1>3 DEF CacheFits
<1> QED BY <1>4, <1>5 DEF ListenerInv

LEMMA ListenerStep ==
    ASSUME TypeOK, ListenerInv, [Next]_vars
    PROVE  ListenerInv'
<1> USE DEF runtimeVars, hostVars, callVars, listenerVars
<1>1. CASE \/ \E n \in Names : RemoveProfile(n) \/ WriteFile(n)
           \/ DeleteFile \/ LoadProfile \/ Unloaded \/ RefreshGlobal \/ RenderGlobal
  <2>1. ASSUME NEW n \in Names, RemoveProfile(n) PROVE ListenerInv'
    BY <2>1, RemoveStep, ListenerProgress
  <2>2. ASSUME NEW n \in Names, WriteFile(n) PROVE ListenerInv'
    BY <2>2, WriteStep, ListenerProgress
  <2>3. CASE DeleteFile
    BY <2>3, DeleteStep, ListenerProgress
  <2>4. CASE LoadProfile
    BY <2>4, LoadStep, ListenerProgress
  <2>5. CASE Unloaded
    BY <2>5, UnloadedStep, ListenerProgress
  <2>6. CASE RefreshGlobal
    BY <2>6, RefreshStep, ListenerProgress
  <2>7. CASE RenderGlobal
    BY <2>7, RenderStep, ListenerProgress
  <2> QED BY <1>1, <2>1, <2>2, <2>3, <2>4, <2>5, <2>6, <2>7
<1>2. CASE Save
  <2>1. job # None /\ UNCHANGED loaded
    BY <1>2, SaveStep
  <2>2. CASE Finish(TRUE)
    BY <2>1, <2>2, ListenerFinish
  <2>3. CASE job' # None /\ job'.op = job.op /\ job'.user = job.user /\ UNCHANGED listenerVars
    BY <2>1, <2>3, ListenerProgress
  <2> QED BY <1>2, <2>2, <2>3, SaveStep
<1>3. CASE SaveFails \/ ToolFails \/ Return
  <2>1. job # None /\ UNCHANGED loaded /\ \E result \in BOOLEAN : Finish(result)
    BY <1>3, EndStep
  <2> QED BY <2>1, ListenerFinish
<1>4. CASE Call
  BY <1>4, ListenerCall
<1>5. CASE TakeEnded
  BY <1>5, ListenerTakeEnded
<1>6. CASE Handled
  BY <1>6, ListenerHandled
<1>7. CASE Crash \/ Reboot
  <2>1. job' = None /\ handling' = None /\ cache' = [s \in Sessions |-> None]
    BY <1>7 DEF Crash, Reboot, ProcessLost, Forget
  <2> QED BY <2>1 DEF ListenerInv, HandlingFits, CacheFits
<1>8. CASE Restore
  <2>1. UNCHANGED <<job, loaded, handling, cache, crossed>>
    BY <1>8 DEF Restore
  <2> QED BY <2>1 DEF ListenerInv, HandlingFits, CacheFits
<1>9. ASSUME NEW u \in Users, NEW update \in Updates, Sync(u, update) PROVE ListenerInv'
  <2>1. /\ job = None /\ UNCHANGED <<loaded, handling, cache, crossed>>
        /\ job' = [op |-> "sync", user |-> u, phase |-> "save", todo |-> {}, at |-> None, done |-> 0]
    BY <1>9 DEF Sync, Ready
  <2> QED BY <2>1 DEF ListenerInv, HandlingFits, CacheFits
<1>10. CASE \/ RefuseSync \/ Connect
            \/ \E s \in Sessions : SignOut(s) \/ \E u \in Users : SignIn(s, u)
            \/ UNCHANGED vars
  <2>1. UNCHANGED <<job, loaded, handling, cache, crossed>>
    BY <1>10 DEF RefuseSync, Connect, SignIn, SignOut, vars
  <2> QED BY <2>1 DEF ListenerInv, HandlingFits, CacheFits
<1>11. CASE Disconnect
  <2>1. UNCHANGED <<job, loaded>> /\ handling' \in {None, handling} /\ cache' = [s \in Sessions |-> None]
    BY <1>11 DEF Disconnect, Forget
  <2> QED BY <2>1 DEF ListenerInv, HandlingFits, CacheFits
<1>12. CASE TakeBegun
  <2>1. UNCHANGED <<job, loaded, cache, crossed>> /\ handling = None
    BY <1>12 DEF TakeBegun
  <2>2. CASE handling' = handling
    BY <2>1, <2>2 DEF ListenerInv, HandlingFits, CacheFits
  <2>3. CASE Wait("load", Head(begun), sessions[Head(begun)])
    <3>1. handling'.op = "load" /\ handling'.step = "waiting"
      BY <2>3 DEF Wait
    <3> QED BY <2>1, <3>1 DEF ListenerInv, HandlingFits, CacheFits
  <2> QED BY <1>12, <2>2, <2>3 DEF TakeBegun
<1> QED
  BY <1>1, <1>2, <1>3, <1>4, <1>5, <1>6, <1>7, <1>8, <1>9, <1>10, <1>11, <1>12, StepCases DEF Listens

-----------------------------------------------------------------------------
(* The inductive invariant and what it gives *)

LEMMA Initially ==
    ASSUME Init
    PROVE  IInv
<1> USE DEF Init
<1>1. TypeOK
  <2>1. EmptyState \in State
    BY EmptyType
  <2>2. <<>> \in Seq(Sessions)
    OBVIOUS
  <2>3. restarts \in 0..MaxRestarts
    BY BoundAssumption
  <2>4. /\ files \in [Names -> Body \cup {None}] /\ kernel \in [Names -> Body \cup {None}]
        /\ cache \in [Sessions -> Users \cup {None}]
        /\ sessions \in [Sessions -> Users \cup {"unused", "over"}]
        /\ faults \in [FaultKinds -> Nat]
    OBVIOUS
  <2> QED BY <2>1, <2>2, <2>3, <2>4 DEF TypeOK
<1>2. \A n \in Names : kernel[n] = None
  OBVIOUS
<1>3. CallFits /\ ProfileAtHand /\ EveryProfileHasFile /\ DiskFollowsMemory
  BY <1>2 DEF CallFits, ProfileAtHand, EveryProfileHasFile, DiskFollowsMemory
<1>4. NothingStale
  BY <1>2, OwnNames DEF NothingStale
<1>5. GlobalInCall /\ LoadedInForce
  BY DEF GlobalInCall, LoadedInForce
<1>6. HandlingFits /\ CacheFits
  BY DEF HandlingFits, CacheFits
<1> QED BY <1>1, <1>3, <1>4, <1>5, <1>6 DEF IInv

LEMMA Inductively ==
    ASSUME IInv, [Next]_vars
    PROVE  IInv'
<1>1. TypeOK /\ BaseInv /\ CleanInv /\ ListenerInv
  BY DEF IInv, BaseInv, CleanInv, ListenerInv
<1>2. TypeOK' /\ BaseInv' /\ CleanInv' /\ ListenerInv'
  BY <1>1, TypeStep, BaseStep, CleanStep, ListenerStep DEF BaseInv
<1> QED BY <1>2 DEF IInv, BaseInv, CleanInv, ListenerInv

\* The calls on the runtime, what is on disk, what is in force, and the
\* listener fit together in every reachable state: IInv is inductive.
THEOREM Confining == Spec => []IInv
<1>1. Init => IInv
  BY Initially
<1>2. IInv /\ [Next]_vars => IInv'
  BY Inductively
<1> QED BY <1>1, <1>2, PTL DEF Spec

\* Every step of every call writes values of the model's types.
THEOREM TypesAreKept == Spec => []TypeOK
<1>1. IInv => TypeOK
  BY DEF IInv
<1> QED BY <1>1, Confining, PTL

\* A profile in force always has its file in PROFILE_DIR, by which a later call
\* or a later process finds it, for any crash between two steps and any failure
\* but a refused removal: the order of unload_profiles_with_prefix and of
\* write_and_load_profile.
THEOREM ProfilesCanBeFound == Spec => []EveryProfileHasFile
<1>1. IInv => EveryProfileHasFile
  BY DEF IInv
<1> QED BY <1>1, Confining, PTL

\* The policies in memory are those of apparmor-policy.json, outside the save
\* itself and unless a read or a save failed: a restart forgets no policy.
THEOREM PoliciesSurviveRestart == Spec => []DiskFollowsMemory
<1>1. IInv => DiskFollowsMemory
  BY DEF IInv
<1> QED BY <1>1, Confining, PTL

\* Updates and logouts of any number of users, in any order, leave no profile of
\* a user in force but those whose name a rule of a loaded user has, as long as
\* the first process lives and nothing failed.
THEOREM NoRuleStaysBehind == Spec => []StaleOnlyAfterRestart
<1>1. IInv => StaleOnlyAfterRestart
  BY DEF IInv, NothingStale, StaleOnlyAfterRestart, Quiet
<1> QED BY <1>1, Confining, PTL

\* When no call runs and some user is loaded, the global profiles hold the path
\* rules of exactly the loaded users, also after a restart, as long as nothing
\* failed: refresh_global_exec_profiles ends every call that changes them.
THEOREM GlobalRulesAreCurrent == Spec => []GlobalFollowsLoaded
<1>1. IInv => GlobalFollowsLoaded
  BY DEF IInv, GlobalInCall, GlobalFollowsLoaded, Quiet
<1> QED BY <1>1, Confining, PTL

\* A user of a session in the listener's cache is loaded and has in force, for
\* every profile name his rules make, the profile of the last rule that makes it,
\* as long as nothing failed and no session ended beside another of its user.
\* Nothing is said of a rule with a later one of its name: the later profile
\* replaces its own (make_profile_name keeps no two applications apart whose names
\* differ in case or punctuation).  The hypothesis says that no user's profile
\* names start like another's: unload_profiles_with_prefix removes by the prefix
\* guardian-<user>- and would take those of the longer name too.
THEOREM SignedInIsConfined ==
    ASSUME Apart
    PROVE  Spec => []EnforcedWhileSignedIn
<1>1. IInv => EnforcedWhileSignedIn
  <2>1. SUFFICES ASSUME IInv, Quiet, TotalFaults = 0, ~crossed,
                        NEW s \in Sessions, cache[s] # None
                 PROVE  /\ cache[s] \in loaded
                        /\ \A i \in Lasting(cache[s]) : InForce(cache[s], RulesOf(cache[s])[i])
    BY DEF EnforcedWhileSignedIn
  <2>2. cache[s] \in loaded
    BY <2>1 DEF IInv, CacheFits
  <2>3. \A u \in loaded : \A i \in Lasting(u) : InForce(u, RulesOf(u)[i])
    BY <2>1 DEF IInv, LoadedInForce, Quiet
  <2> QED BY <2>2, <2>3
<1> QED BY <1>1, Confining, PTL
=============================================================================
