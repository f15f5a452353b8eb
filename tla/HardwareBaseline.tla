-------------------------- MODULE HardwareBaseline --------------------------
(***************************************************************************)
(* The hardware baseline (src/bios_management): the command that sets a     *)
(* supervisor password in the firmware, turns secure boot on and booting    *)
(* from USB off under it, and answers with a receipt and the password it    *)
(* made.  The agent does not keep the password: the answer is the only copy.*)
(*                                                                          *)
(* The firmware is external.  It takes a password or a setting at once or   *)
(* at the next start of the machine, refuses writes under a password unless *)
(* the session file holds it, and may refuse any write.  Commands run one   *)
(* at a time; the agent or the machine may stop between any two steps.      *)
(***************************************************************************)
EXTENDS Integers

CONSTANTS
    Password,      \* what generate_supervisor_password may return
    Owner,         \* a password somebody chose in the setup of the machine
    None,          \* no password
    MaxFaults,     \* bound: reads, writes and answers that fail
    MaxRestarts    \* bound: crashes of the agent and starts of the machine

ASSUME BaselinePasswordAssumption ==
    None \notin Password \cup {Owner} /\ Owner \notin Password
ASSUME BaselineBoundAssumption == MaxFaults \in Nat /\ MaxRestarts \in Nat

VARIABLES
    board,      \* what the interface offers: a role, its mechanism, attributes
    password,   \* the supervisor password in force
    next,       \* the one that is in force from the next start on
    session,    \* the contents of current_password
    good,       \* the settings whose current_value is the one wanted
    waiting,    \* the settings accepted, but in force from the next start on
    call,       \* the apply command that runs: its step, password and verdict
    known,      \* the passwords the server was given
    receipt,    \* the verdict of the last receipt the server got
    made,       \* history: the passwords generated
    dropped,    \* history: those lost with a crash, a session or an answer
    faults, restarts

firmware == <<password, next, session, good, waiting>>
server   == <<known, receipt>>
history  == <<made, dropped>>
bounds   == <<faults, restarts>>
vars == <<board, firmware, call, server, history, bounds>>

Setting == {"secure_boot", "usb_boot"}

\* secure boot first, then booting from USB; then the session is dropped.
Following == [secure_boot |-> "usb_boot", usb_boot |-> "close"]

Step == {"set", "open", "close", "audit", "reply"} \cup Setting
Call == [at : Step, pw : Password \cup {None}, compliant : BOOLEAN]
Idle == [at |-> "idle", pw |-> None, compliant |-> FALSE]

Running == call # Idle
GoTo(step) == call' = [call EXCEPT !.at = step]

\* What may fail is counted, the refusals of the firmware are not.
Fault == faults < MaxFaults /\ faults' = faults + 1

Init ==
    /\ board \in [role : BOOLEAN, certificate : BOOLEAN, attributes : SUBSET Setting]
    /\ password \in {None, Owner}
    /\ next = None
    /\ session = None
    /\ good \in SUBSET Setting
    /\ waiting = {}
    /\ call = Idle
    /\ known = {} /\ receipt = "none"
    /\ made = {} /\ dropped = {}
    /\ faults = 0 /\ restarts = 0

-----------------------------------------------------------------------------
(* The command apply_hardware_baseline, step by step.                       *)

\* No role: the command fails.  A certificate in place of a password: the
\* receipt says so, and nothing is changed.
Decline ==
    /\ ~Running
    /\ ~board.role \/ board.certificate
    /\ receipt' = IF board.role THEN "non_compliant" ELSE receipt
    /\ UNCHANGED <<board, firmware, call, known, history, bounds>>

\* is_enabled says that there is a password: nothing is changed, forced or
\* not, and the receipt is that of the last audit.
FindSet ==
    /\ ~Running /\ board.role /\ ~board.certificate
    /\ password # None
    /\ call' = [Idle EXCEPT !.at = "audit"]
    /\ UNCHANGED <<board, firmware, server, history, bounds>>

\* There is no password yet.
FindUnset ==
    /\ ~Running /\ board.role /\ ~board.certificate
    /\ password = None
    /\ call' = [Idle EXCEPT !.at = "set"]
    /\ UNCHANGED <<board, firmware, server, history, bounds>>

\* A file is_enabled that cannot be read counts as no password.
FindUnreadable ==
    /\ ~Running /\ board.role /\ ~board.certificate
    /\ password # None
    /\ Fault
    /\ call' = [Idle EXCEPT !.at = "set"]
    /\ UNCHANGED <<board, firmware, server, history, restarts>>

\* A file mechanism that cannot be read counts as no certificate, whatever
\* is_enabled then says.
MechanismUnreadable ==
    /\ ~Running /\ board.role /\ board.certificate
    /\ Fault
    /\ \E step \in {"set"} \cup (IF password = None THEN {} ELSE {"audit"}) :
           call' = [Idle EXCEPT !.at = step]
    /\ UNCHANGED <<board, firmware, server, history, restarts>>

\* The firmware takes a write if there is no password, or the session has it.
Unlocked == password = None \/ session = password

SetPassword ==
    /\ call.at = "set" /\ Unlocked
    /\ \E p \in Password \ made :
         /\ \/ password' = p /\ UNCHANGED next
            \/ next' = p /\ UNCHANGED password
         /\ made' = made \cup {p}
         /\ call' = [call EXCEPT !.at = "open", !.pw = p]
    /\ UNCHANGED <<board, session, good, waiting, server, dropped, bounds>>

\* A refused password ends the command with an error.
PasswordRefused ==
    /\ call.at = "set"
    /\ call' = Idle
    /\ UNCHANGED <<board, firmware, server, history, bounds>>

OpenSession ==
    /\ call.at = "open"
    /\ session' = call.pw
    /\ GoTo("secure_boot")
    /\ UNCHANGED <<board, password, next, good, waiting, server, history, bounds>>

\* The password is set, and its only copy goes with the error.
OpenSessionFails ==
    /\ call.at = "open"
    /\ Fault
    /\ call' = Idle
    /\ dropped' = dropped \cup {call.pw}
    /\ UNCHANGED <<board, firmware, server, made, restarts>>

\* One of the candidate values is accepted, for now or for the next start.
Adjust ==
    /\ call.at \in board.attributes /\ call.at \notin good
    /\ Unlocked
    /\ \/ good' = good \cup {call.at} /\ UNCHANGED waiting
       \/ waiting' = waiting \cup {call.at} /\ UNCHANGED good
    /\ GoTo(Following[call.at])
    /\ UNCHANGED <<board, password, next, session, server, history, bounds>>

\* Seeded bug: a setting that is refused ends the command with an error.
LeaveSettingFailing ==
    /\ call.at \in Setting
    /\ call' = Idle
    /\ UNCHANGED <<board, firmware, server, history, bounds>>

\* No such attribute, none readable, the value wanted already, or every
\* candidate refused: the command goes on.
LeaveSetting ==
    /\ call.at \in Setting
    /\ GoTo(Following[call.at])
    /\ UNCHANGED <<board, firmware, server, history, bounds>>

CloseSession ==
    /\ call.at = "close"
    /\ GoTo("audit")
    /\ session' = None
    /\ UNCHANGED <<board, password, next, good, waiting, server, history, bounds>>

\* The failure of the write that drops the session is ignored.
CloseSessionFails ==
    /\ call.at = "close"
    /\ Fault
    /\ GoTo("audit")
    /\ UNCHANGED <<board, firmware, server, history, restarts>>

\* Seeded bug: the audit trusts the writes that were accepted.
FinalAuditTrusting ==
    /\ call.at = "audit"
    /\ call' = [call EXCEPT !.at = "reply",
                            !.compliant = call.pw # None /\ Setting \subseteq good \cup waiting]
    /\ UNCHANGED <<board, firmware, server, history, bounds>>

\* What the receipt says of the settings is read again from the firmware;
\* the password counts as applied if this command has made it.
FinalAudit ==
    /\ call.at = "audit"
    /\ call' = [call EXCEPT !.at = "reply",
                            !.compliant = call.pw # None /\ Setting \subseteq board.attributes \cap good]
    /\ UNCHANGED <<board, firmware, server, history, bounds>>

\* A value that cannot be read counts as not applied.
FinalAuditUnreadable ==
    /\ call.at = "audit"
    /\ Fault
    /\ call' = [call EXCEPT !.at = "reply", !.compliant = FALSE]
    /\ UNCHANGED <<board, firmware, server, history, restarts>>

Verdict(compliant) == IF compliant THEN "compliant" ELSE "non_compliant"

\* The answer has the receipt, and the password if this command made one.
Reply ==
    /\ call.at = "reply"
    /\ receipt' = Verdict(call.compliant)
    /\ known' = known \cup ({call.pw} \cap Password)
    /\ call' = Idle
    /\ UNCHANGED <<board, firmware, history, bounds>>

\* The connection is gone when the answer is ready.
ReplyLost ==
    /\ call.at = "reply"
    /\ Fault
    /\ dropped' = dropped \cup ({call.pw} \cap Password)
    /\ call' = Idle
    /\ UNCHANGED <<board, firmware, server, made, restarts>>

-----------------------------------------------------------------------------
(* The other commands, and the environment.                                 *)

\* The command audit_hardware_baseline never counts a password as applied.
Audit ==
    /\ ~Running
    /\ receipt' = Verdict(FALSE)
    /\ UNCHANGED <<board, firmware, call, known, history, bounds>>

Restart == restarts < MaxRestarts /\ restarts' = restarts + 1

\* The agent dies with what it holds; the session stays in the firmware.
Crash ==
    /\ Restart /\ Running
    /\ call' = Idle
    /\ dropped' = dropped \cup ({call.pw} \cap Password)
    /\ UNCHANGED <<board, firmware, server, made, faults>>

\* The machine starts again: what waited for it takes effect.
Reboot ==
    /\ Restart
    /\ call' = Idle
    /\ dropped' = dropped \cup ({call.pw} \cap Password)
    /\ password' = IF next # None THEN next ELSE password
    /\ good' = good \cup waiting
    /\ next' = None /\ session' = None /\ waiting' = {}
    /\ UNCHANGED <<board, server, made, faults>>

\* Somebody with the password changes things in the setup of the machine, and
\* the last receipt is void.
Setup ==
    /\ Restart /\ ~Running
    /\ password' \in {None, Owner}
    /\ good' \in SUBSET Setting
    /\ next' = None /\ session' = None /\ waiting' = {}
    /\ receipt' = "none"
    /\ UNCHANGED <<board, call, known, history, faults>>

Next ==
    \/ Decline \/ FindSet \/ FindUnset \/ FindUnreadable \/ MechanismUnreadable
    \/ SetPassword \/ PasswordRefused
    \/ OpenSession \/ OpenSessionFails
    \/ Adjust \/ LeaveSetting
    \/ CloseSession \/ CloseSessionFails
    \/ FinalAudit \/ FinalAuditUnreadable
    \/ Reply \/ ReplyLost
    \/ Audit \/ Crash \/ Reboot \/ Setup

Spec == Init /\ [][Next]_vars

-----------------------------------------------------------------------------
TypeOK ==
    /\ board \in [role : BOOLEAN, certificate : BOOLEAN, attributes : SUBSET Setting]
    /\ password \in Password \cup {Owner, None}
    /\ next \in Password \cup {None}
    /\ session \in Password \cup {None}
    /\ good \in SUBSET Setting
    /\ waiting \in SUBSET board.attributes
    /\ call \in Call \cup {Idle}
    /\ known \in SUBSET made
    /\ receipt \in {"none", "compliant", "non_compliant"}
    /\ made \in SUBSET Password
    /\ dropped \in SUBSET made
    /\ faults \in 0 .. MaxFaults
    /\ restarts \in 0 .. MaxRestarts

\* A supervisor password the agent made is never left in the firmware without
\* somebody who knows it: it is with the command that runs or with the server,
\* unless a crash, the session that did not open, or the connection took it.
PasswordEscrowed ==
    \A p \in Password \cap {password, next} : p = call.pw \/ p \in known \cup dropped

SettingsEnforced == good = Setting
PasswordAccepted == password # None \/ next # None

\* As long as the server's last receipt says compliant and nobody has entered the
\* setup, the two settings are what the firmware enforces, not what it accepted for
\* its next start; a supervisor password is only known to be accepted, in force or
\* from the next start on, because apply_sysfs_interface reports the accepted write
\* over what the audit has read of is_enabled (sysfs.rs:345-348).
CompliantReceipt == receipt = "compliant" => SettingsEnforced /\ PasswordAccepted
=============================================================================
