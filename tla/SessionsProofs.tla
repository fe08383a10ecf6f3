---------------------------- MODULE SessionsProofs ----------------------------
(***************************************************************************)
(* For any number of logins, checks, permits and resets: the types, that   *)
(* an ended session never returns, that a completed reset leaves only      *)
(* sessions of the new password and of the logins it crossed, and that     *)
(* only idle sessions expire.                                              *)
(***************************************************************************)
EXTENDS Sessions, TLAPS

\* A removed token belongs to a login that has returned, so nothing inserts it
\* again.
EndedAreDone == \A t \in ended : login[t].pc = "done"

\* A login about to insert has matched the hash it read.
Matched == \A l \in Logins : login[l].pc = "inserting" => login[l].tried = login[l].hash

\* Outside a reset, a login past its reading holds the current hash, or the
\* last reset has crossed it or was cut off.
HashCurrent ==
    ~reset /\ ~cut =>
        \A l \in Logins : login[l].pc \in {"verifying", "inserting"}
            => login[l].hash = password \/ l \in crossed

IInv == TypeOK /\ EndedAreDone /\ EndedStaysEnded /\ Matched /\ HashCurrent /\ OldSessionsEnd

\* The invariant holds at the start.
LEMMA InitInv == Init => IInv
<1> SUFFICES ASSUME Init PROVE IInv
  OBVIOUS
<1> USE ConstantsAssumption DEF Init, Passwords, Ticks, NewLogin, NoCheck, Open
<1>1. clock \in Ticks /\ faults \in 0..MaxFaults /\ password \in Passwords
  OBVIOUS
<1>2. /\ login \in [Logins -> [pc : {"new", "queued", "reading", "verifying", "refused",
                                     "inserting", "done"},
                               tried : Passwords, hash : Passwords]]
      /\ check \in [Checks -> [pc : {"idle", "renewing", "expiring"},
                               token : Logins \cup {None}, seen : Ticks]]
  OBVIOUS
<1>3. sessions \in [Logins -> Ticks \cup {None}] /\ opened \in [Logins -> Passwords]
  OBVIOUS
<1>4. reset \in BOOLEAN /\ cut \in BOOLEAN /\ ended \subseteq Logins /\ crossed \subseteq Logins
  OBVIOUS
<1>5. TypeOK
  BY <1>1, <1>2, <1>3, <1>4 DEF TypeOK
<1> QED
  BY <1>5
  DEF IInv, EndedAreDone, EndedStaysEnded, Matched, HashCurrent, OldSessionsEnd

\* Each step of a login keeps it.
LEMMA LoginInv ==
    ASSUME IInv, NEW l \in Logins,
           (\E p \in Passwords : Ask(l, p)) \/ LoginStep(l) \/ Quit(l)
    PROVE IInv'
<1> USE ConstantsAssumption
    DEF IInv, TypeOK, EndedAreDone, EndedStaysEnded, Matched, HashCurrent, OldSessionsEnd,
        Passwords, Ticks, Open, Go, LoginFrame
<1>1. CASE \E p \in Passwords : Ask(l, p)
  BY <1>1 DEF Ask
<1>2. CASE Acquire(l)
  BY <1>2 DEF Acquire
<1>3. CASE ReadHash(l)
  BY <1>3 DEF ReadHash
<1>4. CASE Verify(l)
  BY <1>4 DEF Verify
<1>5. CASE Refuse(l)
  BY <1>5 DEF Refuse
<1>6. CASE Insert(l)
  BY <1>6 DEF Insert
<1>7. CASE Quit(l)
  BY <1>7 DEF Quit, Fault
<1> QED
  BY <1>1, <1>2, <1>3, <1>4, <1>5, <1>6, <1>7 DEF LoginStep

\* Each step of a check keeps it, and so does a logout.
LEMMA CheckInv ==
    ASSUME IInv,
           \/ \E c \in Checks :
                (\E t \in Logins : Select(c, t)) \/ Renew(c) \/ Expire(c) \/ FailCheck(c)
           \/ \E t \in Logins : Logout(t)
    PROVE IInv'
<1> USE ConstantsAssumption
    DEF IInv, TypeOK, EndedAreDone, EndedStaysEnded, Matched, HashCurrent, OldSessionsEnd,
        Passwords, Ticks, Open, CheckFrame, EndCheck, NoCheck
<1>1. ASSUME NEW c \in Checks, NEW t \in Logins, Select(c, t) PROVE IInv'
  BY <1>1 DEF Select
<1>2. ASSUME NEW c \in Checks, Renew(c) PROVE IInv'
  BY <1>2 DEF Renew, Renewed
<1>3. ASSUME NEW c \in Checks, Expire(c) PROVE IInv'
  BY <1>3 DEF Expire, Remove
<1>4. ASSUME NEW c \in Checks, FailCheck(c) PROVE IInv'
  BY <1>4 DEF FailCheck, Fault
<1>5. ASSUME NEW t \in Logins, Logout(t) PROVE IInv'
  BY <1>5 DEF Logout, Remove
<1> QED
  BY <1>1, <1>2, <1>3, <1>4, <1>5

\* A reset, the clock and a restart keep it.
LEMMA ResetInv ==
    ASSUME IInv, SetHash \/ DeleteSessions \/ CutReset \/ Restart \/ Tick
    PROVE IInv'
<1> USE ConstantsAssumption
    DEF IInv, TypeOK, EndedAreDone, EndedStaysEnded, Matched, HashCurrent, OldSessionsEnd,
        Passwords, Ticks, Open, ResetFrame, historyVars
<1>1. CASE SetHash
  BY <1>1 DEF SetHash
<1>2. CASE DeleteSessions
  BY <1>2 DEF DeleteSessions, Remove, Cleared
<1>3. CASE CutReset
  <2>1. faults' \in 0..MaxFaults
    BY <1>3 DEF CutReset, Fault
  <2>2. reset' \in BOOLEAN /\ cut' /\ cut' \in BOOLEAN
    BY <1>3 DEF CutReset
  <2>3. UNCHANGED <<clock, password, sessions, login, check, ended, opened, crossed>>
    BY <1>3 DEF CutReset
  <2> QED
    BY <2>1, <2>2, <2>3
<1>4. CASE Restart
  BY <1>4 DEF Restart, Fault, NewLogin, NoCheck
<1>5. CASE Tick
  BY <1>5 DEF Tick
<1> QED
  BY <1>1, <1>2, <1>3, <1>4, <1>5

\* Every step keeps the invariant.
LEMMA NextInv == IInv /\ [Next]_vars => IInv'
<1> SUFFICES ASSUME IInv, [Next]_vars PROVE IInv'
  OBVIOUS
<1>1. CASE UNCHANGED vars
  BY <1>1
  DEF vars, historyVars, IInv, TypeOK, EndedAreDone, EndedStaysEnded, Matched, HashCurrent,
      OldSessionsEnd, Open
<1>2. CASE Next
  BY <1>2, LoginInv, CheckInv, ResetInv DEF Next
<1> QED
  BY <1>1, <1>2

\* The invariant holds of every behaviour.
LEMMA Invariance == Spec => []IInv
BY InitInv, NextInv, PTL DEF Spec

\* The variables of Sessions keep their types.
THEOREM TypeCorrect == Spec => []TypeOK
<1>1. IInv => TypeOK
  BY DEF IInv
<1> QED
  BY <1>1, Invariance, PTL

\* README.md:66, in every order of logins and resets: a completed reset leaves
\* no session of an older password, but for logins that had read the old hash.
THEOREM ResetEndsOldSessions == Spec => []OldSessionsEnd
<1>1. IInv => OldSessionsEnd
  BY DEF IInv
<1> QED
  BY <1>1, Invariance, PTL

\* A removed session stays removed, however many checks had read its row.
THEOREM EndedForGood == Spec => []EndedStaysEnded
<1>1. IInv => EndedStaysEnded
  BY DEF IInv
<1> QED
  BY <1>1, Invariance, PTL

\* A check that is expiring has read a row older than the limit.
ExpiringIsOld ==
    \A c \in Checks : check[c].pc = "expiring" => clock - check[c].seen > Limit

\* It holds of every behaviour.
LEMMA ExpiringInv == Spec => []ExpiringIsOld
<1> USE ConstantsAssumption DEF ExpiringIsOld
<1>1. Init => ExpiringIsOld
  BY DEF Init, NoCheck
<1>2. TypeOK /\ ExpiringIsOld /\ [Next]_vars => ExpiringIsOld'
  <2> SUFFICES ASSUME TypeOK, ExpiringIsOld, [Next]_vars PROVE ExpiringIsOld'
    OBVIOUS
  <2> USE DEF TypeOK, Ticks
  <2>1. CASE UNCHANGED <<clock, check>>
    BY <2>1
  <2>2. CASE Tick
    BY <2>2 DEF Tick
  <2>3. ASSUME NEW c \in Checks, NEW t \in Logins, Select(c, t) PROVE ExpiringIsOld'
    BY <2>3 DEF Select, CheckFrame, Expired, Open
  <2>4. ASSUME NEW c \in Checks, Renew(c) \/ Expire(c) \/ FailCheck(c) PROVE ExpiringIsOld'
    BY <2>4 DEF Renew, Expire, FailCheck, EndCheck, NoCheck, CheckFrame
  <2>5. CASE Restart
    BY <2>5 DEF Restart, NoCheck
  <2> QED
    BY <2>1, <2>2, <2>3, <2>4, <2>5
    DEF Next, vars, historyVars, Ask, LoginStep, Quit, Acquire, ReadHash, Verify, Refuse, Insert,
        LoginFrame, Logout, CheckFrame, SetHash, DeleteSessions, CutReset, ResetFrame
<1> QED
  BY <1>1, <1>2, TypeCorrect, PTL DEF Spec

\* A session in use is not removed as expired: only one idle for longer than
\* the limit, or renewed since the check read it.
THEOREM OnlyIdleExpire == Spec => ExpiresOnlyIdle
<1>1. TypeOK /\ ExpiringIsOld
      => [\A c \in Checks :
            LET t == check[c].token
            IN check[c].pc = "expiring" /\ Open(t) /\ sessions'[t] = None
                => clock - sessions[t] > Limit \/ sessions[t] # check[c].seen]_vars
  BY DEF ExpiringIsOld
<1> QED
  BY <1>1, TypeCorrect, ExpiringInv, PTL DEF ExpiresOnlyIdle
===============================================================================
