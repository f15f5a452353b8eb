# Verification of the Guardian agent for Linux

TLA+ models of the agent in `src/src`, model-checked with TLC and proved about with TLAPS. The agent is one tokio process that runs as root: it takes policies and
commands from a server, enforces them on the host (iptables, local DNS listeners, AppArmor,
polkit, Time-kpr, an overlay on the screen) and reports what the managed users do.

Contents: [inventory](#1-inventory), [modules](#2-modules), [runs](#3-runs),
[fairness](#4-fairness), [proofs](#5-proofs), [findings](#6-findings),
[not modelled](#7-what-is-not-modelled), [plan](#8-plan).

## 1. Inventory

Every task of the process may run at the same time as every other. What is shared is behind
global `Mutex`es and `RwLock`s or in channels; what outlives the process is in files, in
iptables, in the kernel and in helper processes.

| Component (source) | State it keeps | Operations | What is hard about it | What makes it correct |
|---|---|---|---|---|
| Domain policy (`domain_policy.rs`) | state in memory, staged synchronisation, `domain-policy.json` | staged synchronisation (begin, delete, chunk, manifest, abort, finalize), one-call synchronisation, restore | the call that applies a state goes through listeners, chains and file, and may fail or die between any two; chunks repeat, mix, restart | ports distinct and stable; revisions unmixed; staged work commits whole; an Ok answer is enforced and durable |
| Firewall (`firewall.rs`) | two iptables chains, flushed and refilled rule by rule | `reconcile` | a half-rebuilt chain survives the process | no guard rejects what a redirect sends |
| Local DNS (`local_dns.rs`) | table of listeners, four cells behind each, tasks for listeners and TCP clients | `reconcile`, queries | queries read the cells while they are overwritten; TCP tasks outlive listeners; `reconcile` waits for a listener | a query is judged by the policy in force and reported under its user; `reconcile` returns |
| Domain alerts (`domain_notify.rs`, `approval_deduper.rs`) | cooldown of each alert key | alert, clear | the cooldown races the grant that ends it | grants end the cooldown |
| AppArmor profiles (`apparmor.rs`) | policies, `loaded_users`, `apparmor-policy.json`, profile files, profiles in the kernel | update, load, unload | files and kernel change one at a time, each may fail; `loaded_users` is lost with the process | a signed-in user is confined by the policy in force; no rule is left behind |
| Session, sleep, shutdown listeners (`sessions.rs`) | cache of sessions | SessionNew, SessionRemoved, sleep, shutdown | two streams in any order; the cache is lost with every connection | profiles follow the sessions |
| Overlay launcher (`overlay.rs`) | the slot `OVERLAY_CHILD`, helper processes | `show`, `dismiss` | called from several threads; the lock is released between kill and store | one helper at most, and the slot tracks it |
| Clock integrity (`clock_integrity_monitor.rs`) | lockdown state in memory and on disk | periodic tick, tick after resume | ticks overlap, act after they have released the state | the lockdown survives a restart and the overlay comes back |
| Server commands, policy pull (`commands.rs`, `policy_sync.rs`) | none of their own | one handler per command | several D-Bus calls, each of which may fail | all or a stated part of a command |
| Schedules, time limits (`schedule.rs`, `timekpr_dbus.rs`) | Time-kpr's configuration | set limits, intervals | partial failure | limits of one schedule, never of two |
| Process monitor (`netlink.rs`, `approval_policy.rs`, `reporting_filter.rs`) | the socket's queue, tracked processes, cooldowns | exec and exit events | a pid may exec again, end or be reused before it is read; three policies are asked one after the other; events get lost | what a policy forbids does not go on running; usage is charged to the program that ran |
| Audit monitor (`audit_monitor.rs`) | the journal it follows | denial records | which profile names it recognises | denials of the agent's profiles are reported |
| Terminal monitor (`terminal_monitor.rs`) | offsets into history files, saved | a pass over the files | files grow, shrink, are replaced; offsets saved after the pass | each line reported that was read whole, none twice, as far as the files allow |
| Device policy (`linux_device_policy/`, `extension_policy.rs`) | policies and their file, active and enforced user, polkit rules, rfkill, browser policies | update, refresh of the active session, unenrolment, reconcile | the session is asked before the lock is taken; rules are removed before new ones are written; any step may fail | Ok means the host is that of the active user; rules of one user only; an unenrolled device is free |
| IPC server (`ipc.rs`, `overlay_cef/agent_ipc.rs`) | connections of local clients | requests, replies | many clients, an owner of the active slot that leaves | a reply goes to its requester |
| Start, relay (`lib.rs`, `main.rs`, `runtime.rs`) | the active server connection | start order, relay of alerts | alerts while nobody is connected | relayed to the current connection |
| Screenshots (`screenshots.rs`, `screenshot.rs`) | schedule, wake channel | schedule, capture | the channel is replaced under a running task | captures when due |
| BIOS management (`bios_management/`) | none; the firmware has settings, password, session | apply, audit | the answer is the only copy of a password that is set before its session opens; the firmware takes writes at once, later or never | the password is with somebody; a receipt says what is in force |
| Inventory, apps, users, reporting filter, updater, helper window | none that is shared | scans, formatting, download | little | left to tests |

How they meet. The server's commands call into the domain policy, the profiles, the overlay and the
device policy under their own locks. The domain policy replaces the DNS listeners, then the chains,
then its file, under one Mutex; a query does not take that Mutex, only the cells of its listener.
`reconcile` of the listeners waits for tasks that answer queries. The session listener loads
profiles and refreshes the device policy for each session. The clock monitor and the commands share
the overlay. All monitors send alerts into one channel that is relayed to the connected server.

## 2. Modules

| Module | Models | Reads on |
|---|---|---|
| `DomainPolicy` | domain policy runtime, table of listeners, both chains, state file | `DomainPolicyRefinement`, `DomainPolicyAllocation` |
| `PolicyTransaction` | abstract: a transactional store with one open transaction | |
| `DomainPolicyRefinement` | the refinement mapping from the first to the second | |
| `DomainPolicyAllocation` | port allocation as the loop it is in the code | |
| `DomainPolicyProofs` | proofs about `DomainPolicy` and its refinement | |
| `DnsListener` | listeners, cells, tasks, queries in flight, alerts and their cooldown | |
| `DnsListenerProofs` | proofs about `DnsListener` | |
| `Overlay` | `show` and `dismiss` called by any threads, helper processes | |
| `ClockMonitor` | ticks, resumes, the saved lockdown; `EXTENDS Overlay` and drives it with the commands | |
| `ClockMonitorProofs` | proofs about `Overlay` and `ClockMonitor` | |
| `AppProfiles` | AppArmor runtime, profile files, kernel, session listener, logins | |
| `AppProfilesProofs` | proofs about `AppProfiles` | |
| `DevicePolicy` | device policy runtime, polkit, rfkill and browser files, unenrolment, the listener's refreshes, the seat | |
| `DevicePolicyProofs` | proofs about `DevicePolicy` | |
| `ExecMonitor` | processes, the event socket, the monitoring task and the three policies it asks | |
| `ExecMonitorProofs` | proofs about `ExecMonitor` | |
| `TerminalMonitor` | history files and the shells that write them, poller, saved offsets, hooks | |
| `TerminalMonitorProofs` | proofs about `TerminalMonitor` | |
| `HardwareBaseline` | the command that sets password and settings of the firmware, the firmware, the server's copy | |
| `HardwareBaselineProofs` | proofs about `HardwareBaseline` | |
| `MC*` | small instances | |

### DomainPolicy

A tokio Mutex guards the runtime, so calls do not interleave; `phase` says how far the call that
holds it is, and every step of the call the host can see is an action. `BeginSync`,
`DeleteSources`, `PushSourceChunk`, `SetManifest`, `AbortSync` are the staging handlers, with
`RefuseStaging` for their common refusal. `FinalizeSync` takes the pending work (before anything
can fail, as the code does) and `FullSync` builds a state from one call; both and `Restore` start a
`job`, which goes `ApplyDns`, `FlushNat`, `FlushFilter`, `AppendRule` once per iptables command in
the code's order, `Commit`, `Save`. `FirewallFails` and `SaveFails` end it where it is. `Crash`
loses the process; `Reboot` loses the chains as well. A port is the lowest free one: `Allocations` states it as a
condition, which is what the other proofs need. `DomainPolicyAllocation` has the loop of
`resolve_next_policies` and `allocate_policy_port`, as a recursive function over the uids (numbered in the
order of their texts, up to `LastUid`), and `AllocationIsTheLoop` compares the two for every manifest.

Kept abstract: domains, ids and revisions are values; SHA-256 is taken to be injective; the part of
a policy that is only copied is `Terms`; a user name is identified with its uid. A manifest with a
uid that does not parse is the value `BadUid`.

`PolicyTransaction` is the promise to the server. Its transaction edits a private copy of the store,
which the code does not have: the code stages deletions and updates and merges them at the end. The
mapping computes the copy as that merge, so the refinement says that both ways of staging agree,
that nothing staged is seen before the commit, and that the durable copy is always a whole store.

### DnsListener

`DomainPolicy` replaces the table of listeners in one step; here that step is the loop of
`LocalDnsController::reconcile` (`Overwrite` and one action per cell it writes, `Spawn`, `StopStale`,
`JoinStale`, `Return`) against the reads of `resolve_blocked_query` and `notify_blocked_domain`
(`ReadList`, `Judge`, `ReadMode`, `ReadUser`, `Notify`, `Forward`). The lock of the block list is
held by a query until it has read the grants, and tokio's fair `RwLock` makes later readers wait for
a queued writer; both are modelled. A UDP query runs inside its listener's task and keeps it from
seeing the shutdown; a TCP client has a task of its own and outlives the listener. A failure of the
socket or of a UDP query ends the listener's task, which stays in the table.

A reconcile may ask for any policies. Those that give the listener of one user to another (`Reassigns`) count
as a failure, because the domain policy asks for them only when an iptables command has failed before
(`PortsStable`); a query that meets one is no longer `steady`, as one that meets any reconcile is no longer
`calm`. The ids of listeners are the model's: `ListenerAssumption` has enough of them for the
table and the queries, and `ReconcileNotStuck` says that a new listener never has to wait for one.

### Overlay and ClockMonitor

`Overlay` knows nothing of its callers: `Show` and `Dismiss` begin a call of any thread, `KillTracked`,
`Spawn`, `SpawnFails`, `Store` are its steps, with the lock taken and released where the code does.
`ClockMonitor` adds the monitor's state, its file and its threads. A tick reads the clock without a
lock (`Fetch`), decides and saves under it (`Decide`), and acts after it has released it (`Act`). The
rule that judges the samples is in the crate `guardian_agent` and external: a sample is good or bad.
Every step of the composition is a step of `Overlay` or leaves it alone (`UsesOverlay`, proved).

### AppProfiles

A Mutex guards this runtime too, and again a call is taken apart where the host sees it. `Sync`
changes memory, `Save` or `SaveFails` follows, and if the process has loaded the user, the refresh:
`RemoveProfile` and `DeleteFile` for each file found, `Unloaded`, `WriteFile` and `LoadProfile` for
each rule, `RefreshGlobal` and `RenderGlobal` for the profiles that hold the path rules of all loaded
users, `Return`. A refusal of `apparmor_parser` is logged and the call goes on; one that does not start
ends the call (`ToolFails`). The session listener takes signals from two queues in any order
(`TakeBegun`, `TakeEnded`), asks logind about a session when it takes the signal, calls the runtime when
the Mutex is free (`Call`) and enters the session in its cache when the call is over (`Handled`). It
ends with the connection to the server: the runtime crate is external, so the task may be aborted
where it waits or may finish the signal it is at. The host loads `/etc/apparmor.d` when it starts.

A policy is a list of rules. `NameOf` is `make_profile_name`: it need not tell the rules of a user
apart, since the code writes names in lower case and replaces characters, and a rule then replaces the
profile and the file of an earlier one with its name; `Lasting` are the rules this happens to no more.
`Prefixed` are the names an unload for a user finds, among them those of another user whose name begins
alike; that this does not happen is `Apart`, which the instances satisfy and only the proof of
`EnforcedWhileSignedIn` assumes. `crossed` is a history variable: a session ended while the cache held
another of its user.

### DevicePolicy

The reconcile has no await, so the runtime's calls do not interleave; `job.phase` says how far a call is:
`Persist`, `RemoveRules` once per file, `Unblock`, `WriteRules`, `SetRadio`, then `SetBrowser` or
`SkipBrowser` once per browser and `SetManifests`. `PersistFails`, `RemoveFails`, `RfkillFails` and
`WriteFails` return an error from where they are; `ConfigUnread` and `SkipBrowser` are failures the code passes
over. A refresh has two halves, `Ask` without the Mutex and `SetActive` with it, and anything may run
between them. `Unenroll` is followed by `ClearToken` whatever it answered, as in `commands.rs`. The seat
changes by `Announce`, which the listener hears of if it runs, and by `Switch`, which nobody is told of;
the history variable `stale` says whether the seat may be another one than when the code last asked.

### ExecMonitor

One task works through the queue of the socket, so its own steps are a sequence: `ReceiveExec`, `ReadUser`,
`ReadExe`, `ReadArgs`, `ReadCwd`, then a check and a denial for each policy, `Track`, `EndOfEvent`. What makes it hard
is that every step looks at the host as it is then: `Exec`, `Chdir`, `Fork`, `Exit` and `ThreadExit` come in
between, and `Kill` takes whatever process has the pid. A relative script (`Relative`) is resolved twice: in
the directory in which the process executed it, which is the script it runs, and in the one it is in
when the task reads it, which is the script the code judges (`Resolve`); `moved` records that the two may differ. `Report` may lose an event. A path pattern is
the set of files under it, and its length, and a pattern inside another is the longer one
(`NestAssumption`: patterns that cover one file are roots of its path). `PathRule` computes which rule
wins by length and order, as `evaluate_exec_event` does; `Forbidden` says it without either, as the
pattern inside all the others. The policies change by `Sync` and `SetTerminal`, which is
`DevicePolicy`'s enforced user seen from here.

### TerminalMonitor

A line is two pieces and a file a sequence of pieces, so that a read may end in the middle of a line. The
poller looks at the length of a file (`LookAt`, `Follow`, `SkipFile`) and reads it later (`Read`,
`ReadFails`), while `AppendLine`, `AppendRest` and `Rewrite` go on. Saving empties the file first
(`OpenStore`) and fills it then (`WriteStore`), so a crash between the two loses all offsets; so does a start
that cannot read them. The parsers go by lines and know nothing of a line that was read in two parts:
whether one keeps the fragment (`Fragments`) depends on how it begins, and `dropped` has those it did not keep. `Hook` and
`Forget` are the other task: commands it has just reported are not reported again from a file.

### HardwareBaseline

One command runs at a time. `FindSet`, `FindUnset` and `FindUnreadable` are its reading of `is_enabled`,
`Decline` and `MechanismUnreadable` of `mechanism`; then come
`SetPassword`, `OpenSession`, `Adjust` or `LeaveSetting` for secure boot and for USB, `CloseSession` (the
`Drop` of the session), `FinalAudit` and `Reply`, each with its failure. A refusal of a setting is passed
over, a refusal of the password or of the session ends the command. The firmware is external: it takes a
write at once (`good`, `password`) or at the next start (`waiting`, `next`), and only from a session that has
the password, if there is one. `board` is what the interface offers: a role, certificates in place of
passwords, which attributes. Names and values of attributes are abstracted to whether the value
counts as the one wanted (`good`). `made` and `dropped` are history.

## 3. Runs

| Run | Asks | Bounds, and why they suffice |
|---|---|---|
| `domain_ports` | Do ports stay distinct, stable and guarded; does Ok mean enforced and durable; who answers a redirected query meanwhile? | Three users over two ports, so that the range runs out and a freed port is reused; `LastUid` is the third of them; one failed operation of any kind at any step, any number of crashes and reboots. No source lists: rules and ports do not depend on them. |
| `domain_transaction` | Can any order of staging calls mix revisions, or change what is staged while refusing? Does the runtime implement `PolicyTransaction`? | Two syncs (interchangeable), one source, two revisions, of one and of no domain: mixing needs two of each and no more, and whole or not at all shows in one source. One user, one failure, any number of restarts. |
| `dns_listener` | What may a query see while the policy changes? | Two queries, three listener ids, one port: one query at an old listener, one at its successor. Three policies that differ in list, grants, mode and user. One failure, of a socket, an upstream server or an iptables command (which lets a reconcile give a listener away). |
| `dns_listener_returns` | Does `reconcile` return? | One query, two listeners: the wait is for one listener and the query in it. |
| `clock_monitor` | Does the overlay follow the lockdown, and is it tracked? | The periodic tick, one resume and the server's command at once; three helpers; one failure of a file and one of a helper. |
| `app_profiles` | Do the profiles in force follow sessions and policies? | Two users and two sessions in all, so that both a second session of a user and a session of each user occur; two updates besides no rule at all: one rule with approvals, and two rules that make one profile name, one of them without network, with a path; one failure at any step, one crash or reboot, after which only the read of the saved policies still fails (`MCFaults`, for the size of the run; the proofs have no such bound). |
| `device_policy` | Whose policy is the host in, after Ok, after failures, after unenrolment? | Two users (one can be swapped for the other), two browsers so that a pass can be half done, two payloads, three changes of the seat, one failure, one restart. |
| `exec_monitor` | Does anything forbidden go on running; is a tracked pid the process it was? | Two pids, so that one process forks or takes the other's pid; three things that processes do, which is exec, exit and exec again between two reads, or exec, a change of directory and another exec; a script whose relative name is a forbidden file in one of two directories; a pattern inside a pattern with either preset; one change of a policy, one lost event. |
| `terminal_monitor` | Is a line reported twice, or passed over? | Two files, so that a pass is half done when a crash comes; two lines, one rewrite, one failure, of a read, a save or the load of the offsets, and one crash; with one command, a hook either has reported it or not. |
| `hardware_baseline` | Is a password ever left in the firmware unknown; is a compliant receipt true? | Two passwords, so that a second command may run over the first one's; every kind of board; two failures, so that a lost session can follow an unreadable file; two crashes, starts of the machine or changes in its setup. |
| `profiles_refresh` | expected violation, see [findings](#6-findings) | the same |
| `overlay_orphan` | expected violation, see [findings](#6-findings) | as `clock_monitor` |

What the properties say, beyond types:

* `RevisionsUnmixed`, `RefusalKeepsStaging`: what is stored under a revision is part of that revision; a
  refused call changes nothing, although `push_source_chunk` drops the deletion mark of a source before
  it may refuse the chunk. (That no source is deleted and updated by one synchronisation,
  `DeletionOrUpdate`, is proved, and no run repeats it.)
* `PortsDistinct`, `GuardsAdmitRedirects`: in memory, on disk and in the state being
  applied; and whatever mixture of two states the chains are left with, no guard rejects what a
  redirect of the same chains sends.
* `PortsStable`: a user keeps the port while managed; and, until an iptables command fails, a port keeps its user
  while it has a listener, so `reconcile` never overwrites the cells of one user with the policy of another.
  After a failure it may: the listeners are then those of a state that was never committed, and the next
  synchronisation hands out the ports of its new users again.
* `AllocationIsTheLoop`: the loop's ports are the one solution of the condition the model states, and the loop
  fails exactly when more uids are new than ports are free.
* `NoForeignFilter`: between the new listeners and the new chains, queries of one user are never judged
  by another's list. This is why a port freed in a synchronisation is not handed out in the same one.
  It is stated for runs without a failed operation: after one it is not true (see [findings](#6-findings),
  domain policy and DNS).
* `AckIsEnforcedAndDurable`, `FilterLiftedOnlyByRebuild`: an Ok is what listeners, chains and file
  say; and no refusal or failed save lifts the filter.
* `ImplementsTransaction`: the refinement.
* `AnswerFollowsPolicy`, `AlertsNameTheirUser`, `OneListenerPerPort`, `VerdictFromListInForce`: after
  `reconcile` has returned nothing of an earlier policy answers a new query; an alert names the user
  whose listener took the query, unless a reconcile meanwhile gives that listener to another user;
  a verdict never joins a replaced list with newer grants.
* `ReconcileReturns`: it is never stuck behind a query that is stuck behind it. (`ReconcileNotStuck`, the
  safety part of this, is proved.)
* `FileFollowsState`, `LockdownReturns`, `OrphansOnlyFromOverlap`: the file is never behind memory however
  ticks overlap; the overlay keeps coming back; without two calls of `show` at once the slot tracks the
  only helper.
* `EnforcedWhileSignedIn`, `GlobalFollowsLoaded`, `StaleOnlyAfterRestart`: every session the listener knows
  is confined by the policy in force, by the last of the rules that make one profile name; the shared profiles hold the rules of exactly the loaded
  users, and updates and logouts leave nothing behind. They speak of states between calls in runs
  without a failed operation, since after one the code logs and goes on. `EnforcedWhileSignedIn`
  stops at a session that ends beside another of its user: the code then unloads the user's profiles.
* `EveryProfileHasFile`, `DiskFollowsMemory`: hold through crashes at every step and through failures
  other than those they name.

* `OkIsEnforced`, `RulesOfOneUser`: an Ok means that rules, radio and browsers are those of the managed user
  the runtime knows to be at the screen, whatever an earlier call or another life of the process left
  half done; and at no step are rules of two users in force.
* `EnforcedUserIsAtScreen`: once the signals are worked off the enforced user is the one at the screen,
  although the answer of logind may be old when it is stored. It says nothing of a seat that
  changed without a signal (`stale`), because the code has no other moment at which it asks.
* `UnenrolledStaysClear`: no rule, radio block, browser policy or saved policy outlives an unenrolment in
  which no step failed, whatever refreshes and restarts follow.
* `NoForbiddenSurvives`: once the task is through with the exec events of a pid, what runs there is not
  forbidden by the approval overlay, the terminal block or the path rules, although user, executable
  and arguments may have been read from three different programs: each later exec has an event of its own.
  A change of directory has none, so it says nothing of a relative script of a process that left its directory
  before the read; nor of a pid with a lost event, or once the policies have changed.
* `TrackedIsOfThisProcess`: an entry never outlives its process beyond the exit event, so usage is not
  charged to the next owner of the pid.
* `ReportedOnce`, `NothingSkipped`: a piece of a history is reported at most once except across a crash
  before the save; the offset of a file that only grows passes over no line that a read had whole, and
  of a line read in two parts over no fragment but one its parser dropped.
* `PasswordEscrowed`: a supervisor password made by the agent is with the running command or with the server.
  Excused, and recorded in `dropped`, is what a session that did not open, a crash or a lost answer took:
  the code keeps no copy. Every other way through the command must hand the password over.
* `CompliantReceipt`: while the last receipt says compliant, and until somebody enters the setup, the firmware
  enforces both settings, and has accepted a supervisor password, which may be in force from its next start
  only: the audit of the settings reads them again, but for the password an accepted write is reported over
  what `is_enabled` says (`sysfs.rs:345-348`).

Each property is paired with a seeded bug in the module it is about (operators whose comment says
"Seeded bug"), which stands for a plausible mistake in that function and makes TLC find the property
violated under the same configuration.

## 4. Fairness

Only two specifications state fairness, and only for what the code's scheduling gives.

* `DnsListener`: weak fairness for the steps of `reconcile`, of a query and of binding a socket (tasks
  on tokio's scheduler; each await of a query is under a timeout, so an exchange with an upstream
  ends one way or the other). Strong fairness for a listener to take its shutdown: the branch is ready
  only between two queries, and `select!` picks a ready branch at random, so it is taken if it is
  ready again and again. With weak fairness only, a stream of queries could starve it.
* `ClockMonitor`: weak fairness for the periodic tick, for the start of a service that is down, and for
  the steps of calls into the overlay. Nothing makes a resume or a command happen. `LockdownReturns`
  assumes that the service is not restarted for ever.

Deadlock is checked in every run but `exec_monitor`, where the processes stop when the bound on what they do
is reached and the task then waits for an event, as it does in the code.

## 5. Proofs

Eight proof modules hold for any numbers of users, ports, sources, revisions, domains, listeners, queries,
threads, helpers, sessions, processes, rules, patterns, files, lines, browsers, passwords, faults and
restarts, from the named assumptions on the constants. Those say that uids, ports, lengths and bounds are
numbers, that ports are finitely many and uids bounded (`PortAssumption`, `FiniteAssumption`,
`UidAssumption`), that tables have the domains they are used with, that the absent value is none of the present
ones (`AbsentAssumption`, `CopyAssumption`, `DnsAbsentAssumption`, `ProfileAbsentAssumption`, `ExecAbsentAssumption`,
`TerminalAbsentAssumption`), and what the sections below name. TLC evaluates them in the runs, and has
checked each inductive invariant on the instance of its run before it was proved.

Every module is proved in the same way: a conjunction of named parts holds initially and is kept by every
step, and the properties follow from it. One lemma per part or per action says why; the facts about
operators (what a rule decides, what a file holds after a write, what a port allocation returns) are
lemmas of their own, at the head of each module. All safety invariants the passing runs check are theorems;
so are the action properties `RefusalKeepsStaging`, `PortsStable` and `VerdictFromListInForce`, and the
refinement.

**Domain policy.** `PortsDistinct` is not inductive: the state a job is about to commit must be
distinct as well, and for stability it must keep the ports of those who stay; `GuardsAdmitRedirects` needs
to know that after the flushes the chains hold rules of the job's state only, which has distinct
ports; `RevisionsUnmixed` needs the same of what is staged. `IInv` is the conjunction of the ten named
parts: `TypeOK`, `FreshProcess`, `Unanswered`, `PortsDistinct`, `JobKeepsPorts`, `ChainsOfJob`,
`GuardsAdmitRedirects`, `RevisionsUnmixed`, `StagedUnmixed`, `DeletionOrUpdate`. One lemma per part (or
pair) shows that a step keeps it, by cases on the actions that can disturb it; `AllocatedStates`
is the lemma about ports: every result of `resolve_next_policies` is typed, distinct and stable.
Theorems: `Invariant`, `TypeCorrect`, `PortsAreDistinct`, `GuardsAdmit`, `RevisionsAreUnmixed`,
`DeletedOrUpdated`, `RefusalsKeepStaging`.

What is enforced needs more (`EnforcementInv`): after `ApplyDns` the listeners are those of the state being
applied (`ListenersOfJob`) while the chains may still redirect by another, so that state must give nobody
a port of somebody else (`JobTakesNoPort`), and neither may the file, from which a crash would restore
(`RedirectsFitNext`); at a commit the new state is in force as a whole (`CommittedJob`), and without a fault
memory and file agree outside the save (`MemoryIsSaved`). Until an iptables command fails, the listeners between
two updates are those of the state in memory (`ListenersAtRest`); with `JobTakesNoPort` this is the second half of
`PortsStable`, the first is `JobKeepsPorts`. Theorems: `Enforcement`, `AcksAreEnforcedAndDurable`, `FilterStaysOn`,
`RedirectsReachOwnFilter`, `PortsAreStable`. `RuntimeIsTransactional` is the
refinement: under the mapping each action of the runtime is one action of `PolicyTransaction`
or a stutter. The hard steps are the two commits, where the copy merged from deletions and updates must be
the store that `resolve_next_policies` builds. `CopyAssumption` is that the absent value is no copy.

`AllocatesByLoop` is an induction over the turns of the loop. The library's induction rules take an operator, which
the provers cannot instantiate, so it goes by least counterexample: the turns that break the invariant would be
a set of numbers with a least one (`LeastNumber`, from `WFMin`), and `TurnKeepsInv` shows that it has
none. The invariant of the turns (`LoopInv`) says that the ports handed out so far are those every
solution gives to the uids so far, and that the used ports are those of the state and of these. The
loop fails exactly when too few ports are free by counting: `FullMeansTooMany` maps earlier new uids
onto all free ports, `SolutionFits` maps the new uids into them.

**DNS listeners.** What a query reads belongs to the table, to a reconcile that is half way through, or to a
listener that has left the table. `TableInv` says which policy is behind each port at each point of the loop
(`PortsInCall`, `CellsInCall`: cell by cell, in the order they are written) and that a task that runs is in the
table or is being waited for (`AliveInTable`), which is `OneListenerPerPort`. `QueriesKeepCells` says that the
cells of a query are not given away and their user not changed under it, nor its list while it holds
the lock; `CalmQueries` says what a query has found that no reconcile has met. That the user of the cells stays holds for
steady queries, for which `QueriesKeepCells` also says that the call under way does not give their listener away.

`ReconcileNotStuck` is what the liveness property rests on, stated without ENABLED: the stale task has been told to
stop (`StaleIsTold`), finds its port free, and its queries are not kept out by the writer; and there are cells for a
new listener, by counting those that the table and the queries hold (`CellsInUse`, `CellsAreLeft`). Theorems:
`Listening`, `TypesAreKept`, `AlertsReachTheirUser`, `PortsAreExclusive`, `AnswersFollowPolicy`,
`VerdictsUseListInForce`, `ReconcileIsNotStuck`.

**Overlay and clock monitor.** `OverlayInv` adds to the types that without an overlap at most one thread
is in `show` and that a live helper is in the slot or in that thread's hands; `TrackedUnlessOverlapped`
follows for any callers. `Composition` proves that every step of the clock monitor is a step of the
overlay or a stutter, so `MonitorTracksOverlay` needs no proof of its own about ticks.
`FileFollows` is inductive as it stands, with `TypeCorrect`.

**Profiles.** The properties speak of states between calls, so the invariant says for each phase of a call what
is still to do: what is in the kernel and not asked for is on the list to remove (`NothingStale`), what is
asked for and not in the kernel is on the list to load (`LoadedInForce`, `GlobalInCall`); a profile goes from the
kernel before its file and gets there after it (`ProfileAtHand`). `CallFits` and `HandlingFits` tie the call to
the listener that waits for it, and `CacheFits` the cache to the loaded users. Theorems: `Confining`,
`TypesAreKept`, `ProfilesCanBeFound`, `PoliciesSurviveRestart`, `NoRuleStaysBehind`, `GlobalRulesAreCurrent`, and
`SignedInIsConfined`, which assumes that the profile names of two users do not begin alike (`Apart`): otherwise
unloading the one removes profiles of the other. It speaks of the rules that no later rule replaces
(`Lasting`), so `LoadedInForce` follows a load through the list: such a rule is in force once the load has been at
it, and stays so because none of those that follow has its name.

**Process monitor.** The task has read user, executable and arguments one after the other, so the invariant
compares what is in its hand with what runs: `HandIsCurrent` says that for a process none of whose execs is
queued they are the same, and that each policy already asked does not forbid it; the other case has an
event to come. `HandIsOfThisProcess` is the weaker fact that survives another exec, and what `Track` needs.
`PatternDecides` and `OverlayDecides` show that the code's loops over rules and lists find what `Forbidden`
states. `ScriptIsThere` says that what the task will resolve is the script the process named, unless it has left its
directory. Assumed is `NestAssumption`. Theorems: `Watching`, `TypesAreKept`, `ForbiddenIsKilled`, `UsageIsOfItsProcess`.

**Terminal monitor.** `ReportedOnce` is not inductive, since a reported piece could lie beyond the offset. So
`BeyondOffset` and `BeyondStore` say that what lies beyond the offset, and beyond the saved one, was reported at most
before a crash; and this is of use only because pieces do not recur, in any file, though files are trimmed
and begun again (`EachPieceOnce`), and because the end of a half line was not reported before it was written
(`ReportedWasWritten`). `NothingSkipped` needs the same of the saved offset (`StoreSkipsNothing`) and that the offset
of a file that only grows is not past its end (`NotPastEnd`), so that it is never set back to it. Theorems: `Polling`,
`TypesAreKept`, `HistoryIsReportedOnce`, `HistoryIsNotSkipped`.

**Device policy.** `OkIsEnforced` says what holds after a call, so the invariant must say how far the host is
at each phase of one: `JobInv` for rules, radio and file, `BrowserInv` for the browsers a pass has been
through. `SettledInv` is what a call finds if none has failed, and `IdleInv` what a process that is not there
knows. `EnforcedUserIsAtScreen` needs `SeatInv`: unless the seat is stale, the runtime knows who is there, or
has a refresh on the way whose answer says so. `UnenrolledStaysClear` needs `ClearInv`, the same of
memory and of the time between the unenrolment and the end of its token; `RulesOfOneUser` needs nothing but
`JobInv`, which has the rules removed before new ones are written. `IInv` joins these to `TypeOK`. The
assumptions are that the absent value and the steps of a call are no users, payloads or answers
(`PayloadAssumption`, `AbsentAssumption`, `IdleAssumption`) and that the bounds are numbers. Theorems: `Invariant`,
`TypeCorrect`, `OkEnforces`, `OneUsersRules`, `EnforcedAtScreen`, `UnenrolledIsClear`.

**Hardware baseline.** `PasswordEscrowed` and `CompliantReceipt` speak of what the command holds, so `CallInv`
says what it knows at each step: no password before it is set, one when the session opens, the password
it holds is in force or will be, and a verdict "compliant" was read while the settings were in force.
Assumed is that owner, absent value and generated passwords differ. Theorems: `Invariant`, `TypeCorrect`,
`EveryPasswordEscrowed`, `CompliantReceipts`.

Only model-checked: liveness (`ReconcileReturns`, `LockdownReturns`), which is outside the prover's
reach, as ENABLED is. The two runs that
expect a violation show one behaviour each. Only proved, since the proof says more than a run:
`DeletionOrUpdate`, `UsesOverlay`, `ReconcileNotStuck`, `TypeOK` of `HardwareBaseline` and the parts of the
invariants.

## 6. Findings

1. **Two calls of `show` orphan a helper** (`overlay_orphan`, `overlay.rs:122`). The lock is released
   between the kill of the old helper and the store of the new one. Two ticks, or a tick and a command,
   both kill, both spawn, and the second store drops the first child without killing it. The module's
   doc (5-6) says the slot lets `dismiss_overlay` kill the child cleanly. `OrphansOnlyFromOverlap` shows that
   this is the only way to it.
2. **A restarted agent does not refresh loaded profiles** (`profiles_refresh`, `apparmor.rs:297`).
   `loaded_users` is said to track which users have loaded profiles (72) and decides whether an update
   refreshes them (296), but it starts empty while profiles stay in the kernel and in `/etc/apparmor.d`.
   An update then answers Ok and leaves the old profiles in force; one the new policy no longer has
   outlives the next load too, which only writes. `StaleOnlyAfterRestart` shows that without a restart
   nothing of the kind happens.

Behaviour the models have that no document forbids, and so is no finding. The hazards in `PROJECT.json`
give the lines.

* Domain policy and DNS: a listener whose UDP query fails is dead until its user's policy goes away; an
  alert of one user silences the same alert of another during the cooldown; a failed read leaves the agent
  with an empty state that the next synchronisation saves; after a failed iptables command the
  listeners serve one state and the chains redirect by another, and the next synchronisation may give the
  listener of one user to another, so that the alert of a query under way names the other user.
* Profiles: the end of one session of a user unloads the profiles of a second one; sessions that were
  there before the listener are never loaded; the prefix of one user's profiles may also be the
  prefix of another's; two rules of one user whose applications make one profile name (`apparmor.rs:562-574`)
  leave the executable of the first unconfined.
* Overlay: a late `show` may come after the lockdown has ended.
* Device policy: an update whose save fails stays in memory and is enforced by the next reconcile; the
  token is cleared after an unenrolment that failed, and the rules stay; an unenrolment forgets the active
  user, so a device enrolled again enforces nothing until the next signal; the native messaging manifests
  stay; a `config.json` that cannot be read removes the browser policies; nobody learns of a
  seat that is switched; a start without a system bus leaves the old rules.
* Process monitor: the end of a thread untracks a process that runs on; a kill goes to the pid and may hit
  another process; a relative script is judged in the directory the process is in at the read (`netlink.rs:400`),
  which need not be the one it executed in; a child forked before the kill survives; a complain rule for an interpreter keeps its scripts
  from being looked at; the cooldown of an alert starts although the alert is dropped while no server is
  connected (`lib.rs:96`); the cleanup may drop an entry whose exit is still queued.
* Terminal monitor: a line read in two parts is reported as what the parser makes of its fragments: for fish the
  tail is lost, since it does not begin with a marker (`terminal_monitor.rs:480-506`), as is either part of a line cut
  inside the marker; a torn offsets file sets every
  offset to the end of its file; a file that was removed and has grown again is read from the old offset; a
  tailer of the journal that ends is not started again; bash writes its history at logout, long after the
  hook reported the same commands.
* Hardware baseline: a password the firmware has accepted for its next start is reported as applied; a
  `mechanism` that cannot be read counts as no certificate; an audit never finds the password applied, so only the answer of the command that set
  it is ever compliant; a password whose session does not open is lost, and every later command finds
  one it does not know and changes nothing; `force_reset_password` changes only a message, which the last audit overwrites
  together with every other error of the command; a session left open by a crash stays open until the
  machine starts again. `command_requires_linux_username` (`schedule.rs:120`) does not exempt these commands.

Read, and not modelled: the audit monitor keeps denials of profiles named `timekpr-` (`audit_monitor.rs:91`), while the
profiles are named `guardian-` (`apparmor.rs:573`); the scheduler of screenshots drops the sender of its
own wake channel when the handles are cleared (`screenshots.rs:33`), after which `recv` returns at once
(119) until the shutdown is seen, and every wake starts the interval anew; a schedule of less than half a second
allows a day with no time on it (`schedule.rs:87`).

## 7. What is not modelled

* DNS messages, iptables arguments, profile texts, JSON and logging: data no property tells apart.
* Which of two profiles that attach to one executable the kernel takes; a user named so that the names of his
  profiles begin like the global ones (`GlobalAssumption`).
* A process that takes on a user or drops its privileges without executing anything, and symbolic links that change
  between the event and the check of a path.
* The crate `guardian_agent` (connection to the server, the tamper rule): not in this repository; its
  calls are inputs.
* Audit monitor: one task that parses lines of the journal and compares times of day.
* IPC server: requests answered from the state of the other components; it keeps only connections.
* Schedules and time limits: conversions, and calls of Time-kpr, which keeps the state. One command is up to
  seven calls and may stop between two of them with some days set; it answers so, and the agent keeps nothing.
* Screenshots: a timer and I/O of the desktop session. The helper's window is such I/O, too.
* Sleep and shutdown listeners, the relay of alerts: they pass messages on.
* Inventory, installed apps, users: read-only scans. The updater hands over to an installer. Detection of
  the firmware's vendor only reads; the Windows parts are not run by this agent.

## 8. Plan

Done: the domain policy with its refinement, the DNS listeners, the overlay and the clock monitor, the
profiles with the session listener, the device policy, the process monitor, the terminal monitor and the
hardware baseline, each with the proofs of its safety properties.

Next theorem: that what `ExecMonitor` judges by is what `AppProfiles` has saved, as a composition of the two.

Next modules: the screenshot scheduler with its wake channel, and the relay of alerts into the current
connection; the time limits as sequences of D-Bus calls; the connections of the IPC server.
