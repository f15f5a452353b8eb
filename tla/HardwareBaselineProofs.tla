----------------------- MODULE HardwareBaselineProofs -----------------------
(***************************************************************************)
(* What holds of the hardware baseline for any passwords, failures and      *)
(* restarts.                                                                *)
(***************************************************************************)
EXTENDS HardwareBaseline, TLAPS

\* What the steps of a command know of its password and its verdict: the
\* password is made, and on its way into force; a verdict "compliant" was read
\* from the firmware.
CallInv ==
    /\ call.at = "set" => call.pw = None
    /\ call.at = "open" => call.pw # None
    /\ call.pw # None => call.pw \in made /\ call.pw \in {password, next}
    /\ call.compliant => call.at = "reply" /\ call.pw # None /\ good = Setting

\* The inductive invariant.
IInv == TypeOK /\ CallInv /\ PasswordEscrowed /\ CompliantReceipt

-----------------------------------------------------------------------------
(* Each part of the invariant is kept by every step. *)

\* Every step keeps the types.
LEMMA TypeStep ==
  ASSUME TypeOK, CallInv, [Next]_vars
  PROVE  TypeOK'
<1> USE BaselinePasswordAssumption, BaselineBoundAssumption DEF TypeOK, CallInv
<1>1. CASE Decline
  BY <1>1 DEF Decline, Call, Step, Setting, Idle, Running, firmware, history, bounds
<1>2. CASE FindSet
  BY <1>2 DEF FindSet, Call, Step, Setting, Idle, Running, firmware, server, history,
         bounds
<1>3. CASE FindUnset
  BY <1>3 DEF FindUnset, Call, Step, Setting, Idle, Running, firmware, server, history,
         bounds
<1>4. CASE FindUnreadable
  <2>1. call' \in Call
    BY <1>4 DEF FindUnreadable, Call, Idle, Step
  <2>2. faults' \in 0 .. MaxFaults
    BY <1>4 DEF FindUnreadable, Fault
  <2>3. QED
    BY <1>4, <2>1, <2>2 DEF FindUnreadable, Idle, Running, Fault, firmware, server,
         history
<1>5. CASE SetPassword
  <2>1. PICK p \in Password \ made :
          /\ \/ password' = p /\ UNCHANGED next
             \/ next' = p /\ UNCHANGED password
          /\ made' = made \cup {p}
          /\ call' = [call EXCEPT !.at = "open", !.pw = p]
    BY <1>5, Zenon DEF SetPassword
  <2>2. call \in Call
    <3>1. call.at = "set" /\ Idle.at = "idle"
      BY <1>5 DEF SetPassword, Idle
    <3>2. call # Idle
      BY <3>1
    <3>3. QED
      BY <3>2
  <2>3. call' \in Call
    BY <2>1, <2>2 DEF Call, Step
  <2>4. /\ password' \in Password \cup {Owner, None} /\ next' \in Password \cup {None}
        /\ made' \in SUBSET Password /\ known' \in SUBSET made' /\ dropped' \in SUBSET made'
    BY <1>5, <2>1 DEF SetPassword, server
  <2>5. QED
    BY <1>5, <2>3, <2>4 DEF SetPassword, server, bounds
<1>6. CASE PasswordRefused
  BY <1>6 DEF PasswordRefused, Call, Step, Setting, Idle, firmware, server, history,
         bounds
<1>7. CASE OpenSession
  BY <1>7 DEF OpenSession, Call, Step, Idle, Setting, GoTo, server, history, bounds
<1>8. CASE OpenSessionFails
  BY <1>8 DEF OpenSessionFails, Call, Step, Setting, Idle, Fault, firmware, server
<1>9. CASE Adjust
  BY <1>9 DEF Adjust, Call, Step, Idle, Setting, GoTo, Following, Unlocked, server,
         history, bounds
<1>10. CASE LeaveSetting
  BY <1>10 DEF LeaveSetting, Call, Step, Idle, GoTo, Following, Setting, firmware,
         server, history, bounds
<1>11. CASE CloseSession
  BY <1>11 DEF CloseSession, Call, Step, Idle, Setting, GoTo, server, history, bounds
<1>12. CASE CloseSessionFails
  BY <1>12 DEF CloseSessionFails, Call, Step, Idle, Setting, GoTo, Fault, firmware,
         server, history
<1>13. CASE FinalAudit
  BY <1>13 DEF FinalAudit, Call, Step, Idle, Setting, firmware, server, history, bounds
<1>14. CASE FinalAuditUnreadable
  <2>1. call' \in Call
    BY <1>14 DEF FinalAuditUnreadable, Call, Idle, Step
  <2>2. faults' \in 0 .. MaxFaults
    BY <1>14 DEF FinalAuditUnreadable, Fault
  <2>3. QED
    BY <1>14, <2>1, <2>2 DEF FinalAuditUnreadable, Fault, firmware, server, history
<1>15. CASE Reply
  BY <1>15 DEF Reply, Call, Step, Setting, Idle, Verdict, firmware, history, bounds
<1>16. CASE ReplyLost
  BY <1>16 DEF ReplyLost, Call, Step, Setting, Idle, Fault, firmware, server
<1>17. CASE Audit
  BY <1>17 DEF Audit, Call, Step, Setting, Idle, Running, Verdict, firmware, history,
         bounds
<1>18. CASE Crash
  BY <1>18 DEF Crash, Call, Step, Setting, Idle, Running, Restart, firmware, server
<1>19. CASE Reboot
  BY <1>19 DEF Reboot, Call, Step, Setting, Idle, Restart, server
<1>20. CASE Setup
  BY <1>20 DEF Setup, Call, Step, Idle, Running, Restart, Setting, history
<1>21. CASE UNCHANGED vars
  BY <1>21 DEF vars, Call, Step, Idle, Setting, firmware, server, history, bounds
<1>22. CASE MechanismUnreadable
  <2>1. call' \in Call
    BY <1>22 DEF MechanismUnreadable, Call, Idle, Step
  <2>2. faults' \in 0 .. MaxFaults
    BY <1>22 DEF MechanismUnreadable, Fault
  <2>3. QED
    BY <1>22, <2>1, <2>2 DEF MechanismUnreadable, Idle, Running, Fault, firmware, server,
         history
<1>23. QED
  BY <1>1, <1>2, <1>3, <1>4, <1>5, <1>6, <1>7, <1>8, <1>9, <1>10, <1>11, <1>12, <1>13, <1>14, <1>15, <1>16, <1>17, <1>18, <1>19, <1>20, <1>21, <1>22 DEF Next

\* Every step keeps what a command knows of its password.
LEMMA CallStep ==
  ASSUME TypeOK, CallInv, [Next]_vars
  PROVE  CallInv'
<1> USE BaselinePasswordAssumption, BaselineBoundAssumption DEF TypeOK, CallInv
<1>1. CASE Decline
  BY <1>1 DEF Decline, Call, Idle, Running, firmware, history, bounds
<1>2. CASE FindSet
  BY <1>2 DEF FindSet, Call, Idle, Running, firmware, server, history, bounds
<1>3. CASE FindUnset
  BY <1>3 DEF FindUnset, Call, Idle, Running, firmware, server, history, bounds
<1>4. CASE FindUnreadable
  BY <1>4 DEF FindUnreadable, Call, Idle, Running, Fault, firmware, server, history
<1>5. CASE SetPassword
  BY <1>5 DEF SetPassword, Idle, Call, Unlocked, server, bounds
<1>6. CASE PasswordRefused
  BY <1>6 DEF PasswordRefused, Call, Idle, firmware, server, history, bounds
<1>7. CASE OpenSession
  BY <1>7 DEF OpenSession, Idle, Call, GoTo, server, history, bounds
<1>8. CASE OpenSessionFails
  BY <1>8 DEF OpenSessionFails, Call, Idle, Fault, firmware, server
<1>9. CASE Adjust
  BY <1>9 DEF Adjust, Idle, Call, Step, GoTo, Following, Setting, Unlocked, server, history, bounds
<1>10. CASE LeaveSetting
  BY <1>10 DEF LeaveSetting, Idle, Call, GoTo, Following, Setting, firmware, server,
         history, bounds
<1>11. CASE CloseSession
  BY <1>11 DEF CloseSession, Idle, Call, GoTo, server, history, bounds
<1>12. CASE CloseSessionFails
  BY <1>12 DEF CloseSessionFails, Idle, Call, GoTo, Fault, firmware, server, history
<1>13. CASE FinalAudit
  BY <1>13 DEF FinalAudit, Idle, Call, Setting, firmware, server, history, bounds
<1>14. CASE FinalAuditUnreadable
  BY <1>14 DEF FinalAuditUnreadable, Idle, Call, Fault, firmware, server, history
<1>15. CASE Reply
  BY <1>15 DEF Reply, Call, Idle, Verdict, firmware, history, bounds
<1>16. CASE ReplyLost
  BY <1>16 DEF ReplyLost, Call, Idle, Fault, firmware, server
<1>17. CASE Audit
  BY <1>17 DEF Audit, Call, Idle, Running, Verdict, firmware, history, bounds
<1>18. CASE Crash
  BY <1>18 DEF Crash, Call, Idle, Running, Restart, firmware, server
<1>19. CASE Reboot
  BY <1>19 DEF Reboot, Call, Idle, Restart, server
<1>20. CASE Setup
  BY <1>20 DEF Setup, Call, Idle, Running, Restart, Setting, history
<1>21. CASE UNCHANGED vars
  BY <1>21 DEF vars, Idle, Call, firmware, server, history, bounds
<1>22. CASE MechanismUnreadable
  BY <1>22 DEF MechanismUnreadable, Call, Idle, Running, Fault, firmware, server, history
<1>23. QED
  BY <1>1, <1>2, <1>3, <1>4, <1>5, <1>6, <1>7, <1>8, <1>9, <1>10, <1>11, <1>12, <1>13, <1>14, <1>15, <1>16, <1>17, <1>18, <1>19, <1>20, <1>21, <1>22 DEF Next

\* No step leaves a password behind.
LEMMA EscrowStep ==
  ASSUME TypeOK, CallInv, PasswordEscrowed, [Next]_vars
  PROVE  PasswordEscrowed'
<1> USE BaselinePasswordAssumption, BaselineBoundAssumption DEF TypeOK, CallInv, PasswordEscrowed
<1>1. CASE Decline
  BY <1>1 DEF Decline, Idle, Running, firmware, history, bounds
<1>2. CASE FindSet
  BY <1>2 DEF FindSet, Idle, Running, firmware, server, history, bounds
<1>3. CASE FindUnset
  BY <1>3 DEF FindUnset, Idle, Running, firmware, server, history, bounds
<1>4. CASE FindUnreadable
  BY <1>4 DEF FindUnreadable, Idle, Running, Fault, firmware, server, history
<1>5. CASE SetPassword
  BY <1>5 DEF SetPassword, Idle, Unlocked, server, bounds
<1>6. CASE PasswordRefused
  BY <1>6 DEF PasswordRefused, Idle, firmware, server, history, bounds
<1>7. CASE OpenSession
  BY <1>7 DEF OpenSession, Idle, GoTo, server, history, bounds
<1>8. CASE OpenSessionFails
  BY <1>8 DEF OpenSessionFails, Idle, Fault, firmware, server
<1>9. CASE Adjust
  BY <1>9 DEF Adjust, Idle, GoTo, Following, Unlocked, server, history, bounds
<1>10. CASE LeaveSetting
  BY <1>10 DEF LeaveSetting, Idle, GoTo, Following, Setting, firmware, server, history,
         bounds
<1>11. CASE CloseSession
  BY <1>11 DEF CloseSession, Idle, GoTo, server, history, bounds
<1>12. CASE CloseSessionFails
  BY <1>12 DEF CloseSessionFails, Idle, GoTo, Fault, firmware, server, history
<1>13. CASE FinalAudit
  BY <1>13 DEF FinalAudit, Idle, Setting, firmware, server, history, bounds
<1>14. CASE FinalAuditUnreadable
  BY <1>14 DEF FinalAuditUnreadable, Idle, Fault, firmware, server, history
<1>15. CASE Reply
  BY <1>15 DEF Reply, Idle, Verdict, firmware, history, bounds
<1>16. CASE ReplyLost
  BY <1>16 DEF ReplyLost, Idle, Fault, firmware, server
<1>17. CASE Audit
  BY <1>17 DEF Audit, Idle, Running, Verdict, firmware, history, bounds
<1>18. CASE Crash
  BY <1>18 DEF Crash, Idle, Running, Restart, firmware, server
<1>19. CASE Reboot
  BY <1>19 DEF Reboot, Idle, Restart, server
<1>20. CASE Setup
  BY <1>20 DEF Setup, Idle, Running, Restart, Setting, history
<1>21. CASE UNCHANGED vars
  BY <1>21 DEF vars, Idle, firmware, server, history, bounds
<1>22. CASE MechanismUnreadable
  BY <1>22 DEF MechanismUnreadable, Idle, Running, Fault, firmware, server, history
<1>23. QED
  BY <1>1, <1>2, <1>3, <1>4, <1>5, <1>6, <1>7, <1>8, <1>9, <1>10, <1>11, <1>12, <1>13, <1>14, <1>15, <1>16, <1>17, <1>18, <1>19, <1>20, <1>21, <1>22 DEF Next

\* No step takes away what a compliant receipt stands for.
LEMMA ReceiptStep ==
  ASSUME TypeOK, CallInv, CompliantReceipt, [Next]_vars
  PROVE  CompliantReceipt'
<1> USE BaselinePasswordAssumption, BaselineBoundAssumption
       DEF TypeOK, CallInv, CompliantReceipt, SettingsEnforced, PasswordAccepted
<1>1. CASE Decline
  BY <1>1 DEF Decline, Idle, Running, firmware, history, bounds
<1>2. CASE FindSet
  BY <1>2 DEF FindSet, Idle, Running, firmware, server, history, bounds
<1>3. CASE FindUnset
  BY <1>3 DEF FindUnset, Idle, Running, firmware, server, history, bounds
<1>4. CASE FindUnreadable
  BY <1>4 DEF FindUnreadable, Idle, Running, Fault, firmware, server, history
<1>5. CASE SetPassword
  BY <1>5 DEF SetPassword, Idle, Unlocked, server, bounds
<1>6. CASE PasswordRefused
  BY <1>6 DEF PasswordRefused, Idle, firmware, server, history, bounds
<1>7. CASE OpenSession
  BY <1>7 DEF OpenSession, Idle, GoTo, server, history, bounds
<1>8. CASE OpenSessionFails
  BY <1>8 DEF OpenSessionFails, Idle, Fault, firmware, server
<1>9. CASE Adjust
  BY <1>9 DEF Adjust, Idle, GoTo, Following, Unlocked, server, history, bounds
<1>10. CASE LeaveSetting
  BY <1>10 DEF LeaveSetting, Idle, GoTo, Following, Setting, firmware, server, history,
         bounds
<1>11. CASE CloseSession
  BY <1>11 DEF CloseSession, Idle, GoTo, server, history, bounds
<1>12. CASE CloseSessionFails
  BY <1>12 DEF CloseSessionFails, Idle, GoTo, Fault, firmware, server, history
<1>13. CASE FinalAudit
  BY <1>13 DEF FinalAudit, Idle, Setting, firmware, server, history, bounds
<1>14. CASE FinalAuditUnreadable
  BY <1>14 DEF FinalAuditUnreadable, Idle, Fault, firmware, server, history
<1>15. CASE Reply
  BY <1>15 DEF Reply, Idle, Verdict, firmware, history, bounds
<1>16. CASE ReplyLost
  BY <1>16 DEF ReplyLost, Idle, Fault, firmware, server
<1>17. CASE Audit
  BY <1>17 DEF Audit, Idle, Running, Verdict, firmware, history, bounds
<1>18. CASE Crash
  BY <1>18 DEF Crash, Idle, Running, Restart, firmware, server
<1>19. CASE Reboot
  BY <1>19 DEF Reboot, Idle, Restart, server
<1>20. CASE Setup
  BY <1>20 DEF Setup, Idle, Running, Restart, Setting, history
<1>21. CASE UNCHANGED vars
  BY <1>21 DEF vars, Idle, firmware, server, history, bounds
<1>22. CASE MechanismUnreadable
  BY <1>22 DEF MechanismUnreadable, Idle, Running, Fault, firmware, server, history
<1>23. QED
  BY <1>1, <1>2, <1>3, <1>4, <1>5, <1>6, <1>7, <1>8, <1>9, <1>10, <1>11, <1>12, <1>13, <1>14, <1>15, <1>16, <1>17, <1>18, <1>19, <1>20, <1>21, <1>22 DEF Next

-----------------------------------------------------------------------------
(* The theorems *)

\* The inductive invariant holds in every reachable state, whatever the firmware
\* refuses or delays, whatever fails, and whenever the agent or the machine stops.
THEOREM Invariant == Spec => []IInv
<1>1. Init => IInv
  <2> SUFFICES ASSUME Init PROVE IInv
    OBVIOUS
  <2> USE BaselinePasswordAssumption, BaselineBoundAssumption DEF Init
  <2>1. TypeOK
    BY DEF TypeOK
  <2>2. CallInv
    BY DEF CallInv, Idle
  <2>3. PasswordEscrowed
    BY DEF PasswordEscrowed
  <2>4. CompliantReceipt
    BY DEF CompliantReceipt
  <2>5. QED
    BY <2>1, <2>2, <2>3, <2>4 DEF IInv
<1>2. IInv /\ [Next]_vars => IInv'
  BY TypeStep, CallStep, EscrowStep, ReceiptStep DEF IInv
<1>3. QED
  BY <1>1, <1>2, PTL DEF Spec

\* Every reachable state of the hardware baseline is typed.
THEOREM TypeCorrect == Spec => []TypeOK
<1>1. IInv => TypeOK
  BY DEF IInv
<1>2. QED
  BY <1>1, Invariant, PTL

\* No password the agent made stays in the firmware without somebody who knows it,
\* but for those a crash, a session that did not open or a lost answer took.
THEOREM EveryPasswordEscrowed == Spec => []PasswordEscrowed
<1>1. IInv => PasswordEscrowed
  BY DEF IInv
<1>2. QED
  BY <1>1, Invariant, PTL

\* While the last receipt says compliant, until somebody enters the setup: both
\* settings are enforced, and a password is in force or accepted for the next start.
THEOREM CompliantReceipts == Spec => []CompliantReceipt
<1>1. IInv => CompliantReceipt
  BY DEF IInv
<1>2. QED
  BY <1>1, Invariant, PTL
=============================================================================
