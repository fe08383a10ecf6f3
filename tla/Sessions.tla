------------------------------- MODULE Sessions -------------------------------
(***************************************************************************)
(* The administrator's sessions of auth.rs: logins behind a semaphore,     *)
(* checks that expire or renew a session in a statement of their own, the  *)
(* logout, and the reset of the password by another process while the      *)
(* server runs.  A password is the number of the reset that set it.        *)
(***************************************************************************)
EXTENDS Integers, FiniteSets

CONSTANTS
    Logins,         \* each opens at most one session, which bears its name
    Checks,         \* requests with a cookie, one after another
    Slots,          \* 4 in the code
    Limit,          \* SESSION_SECONDS, in ticks of the model's clock
    LastTick,       \* bound on the clock
    MaxResets,      \* bound on resets
    MaxFaults,      \* bound on failures, clients that leave and restarts
    None

ASSUME ConstantsAssumption ==
    /\ Slots \in Nat \ {0} /\ Limit \in Nat \ {0}
    /\ LastTick \in Nat /\ MaxResets \in Nat /\ MaxFaults \in Nat
    /\ None \notin Logins /\ None \notin Nat

VARIABLES
    clock, faults,
    password,       \* the hash in admin_user
    reset,          \* whether a reset is between its two statements
    sessions,       \* admin_sessions: when each token was last seen, None for no row
    login,          \* of each: where it is, the password tried and the hash it read
    check,          \* of each: where it is, its token and the last_seen it read
    \* history: tokens whose row has been removed, the password each session was
    \* opened with, logins that had read the hash when a reset removed the
    \* sessions, and whether the last reset was cut off
    ended, opened, crossed, cut

historyVars == <<ended, opened, crossed, cut>>
vars == <<clock, faults, password, reset, sessions, login, check, historyVars>>

Passwords == 0..MaxResets
Ticks == 0..LastTick
NewLogin == [pc |-> "new", tried |-> 0, hash |-> 0]
NoCheck == [pc |-> "idle", token |-> None, seen |-> 0]

\* The server does not listen before the first password is set.
Init ==
    /\ clock = 0 /\ faults = 0
    /\ password = 0 /\ reset = FALSE
    /\ sessions = [t \in Logins |-> None]
    /\ login = [l \in Logins |-> NewLogin]
    /\ check = [c \in Checks |-> NoCheck]
    /\ ended = {} /\ opened = [t \in Logins |-> 0] /\ crossed = {} /\ cut = FALSE

Fault == faults < MaxFaults /\ faults' = faults + 1

Tick ==
    /\ clock < LastTick /\ clock' = clock + 1
    /\ UNCHANGED <<faults, password, reset, sessions, login, check, historyVars>>

Open(t) == sessions[t] # None
Remove(tokens) ==
    /\ sessions' = [t \in Logins |-> IF t \in tokens THEN None ELSE sessions[t]]
    /\ ended' = ended \cup {t \in tokens : Open(t)}

-----------------------------------------------------------------------------
(* login.                                                                  *)

Go(l, pc) == login' = [login EXCEPT ![l].pc = pc]
LoginFrame == UNCHANGED <<clock, password, reset, check, ended, crossed, cut>>

Ask(l, p) ==
    /\ login[l].pc = "new"
    /\ login' = [login EXCEPT ![l] = [pc |-> "queued", tried |-> p, hash |-> 0]]
    /\ LoginFrame /\ UNCHANGED <<faults, sessions, opened>>

\* Mutant: a refused login keeps its permit.
HoldingRefused ==
    {l \in Logins : \/ login[l].pc \in {"reading", "verifying", "refused", "inserting"}
                    \/ login[l].pc = "done" /\ login[l].tried # login[l].hash}

\* A login has its permit until it returns.
Holding == {l \in Logins : login[l].pc \in {"reading", "verifying", "refused", "inserting"}}

Acquire(l) ==
    /\ login[l].pc = "queued" /\ Cardinality(Holding) < Slots
    /\ Go(l, "reading")
    /\ LoginFrame /\ UNCHANGED <<faults, sessions, opened>>

ReadHash(l) ==
    /\ login[l].pc = "reading"
    /\ login' = [login EXCEPT ![l] = [pc |-> "verifying", tried |-> @.tried, hash |-> password]]
    /\ LoginFrame /\ UNCHANGED <<faults, sessions, opened>>

Verify(l) ==
    /\ login[l].pc = "verifying"
    /\ Go(l, IF login[l].tried = login[l].hash THEN "inserting" ELSE "refused")
    /\ LoginFrame /\ UNCHANGED <<faults, sessions, opened>>

\* The answer to a wrong password comes after half a second.
Refuse(l) ==
    /\ login[l].pc = "refused" /\ Go(l, "done")
    /\ LoginFrame /\ UNCHANGED <<faults, sessions, opened>>

\* Mutant: the row is written and the login goes on to write it again.
InsertAgain(l) ==
    /\ login[l].pc = "inserting"
    /\ sessions' = [sessions EXCEPT ![l] = clock]
    /\ opened' = [opened EXCEPT ![l] = login[l].tried]
    /\ LoginFrame /\ UNCHANGED <<faults, login>>

Insert(l) ==
    /\ login[l].pc = "inserting" /\ Go(l, "done")
    /\ sessions' = [sessions EXCEPT ![l] = clock]
    /\ opened' = [opened EXCEPT ![l] = login[l].tried]
    /\ LoginFrame /\ UNCHANGED faults

\* The client leaves or a query fails.
Quit(l) ==
    /\ login[l].pc \notin {"new", "done"} /\ Fault
    /\ Go(l, "done")
    /\ LoginFrame /\ UNCHANGED <<sessions, opened>>

-----------------------------------------------------------------------------
(* valid_session and logout.                                               *)

CheckFrame == UNCHANGED <<clock, password, reset, login, opened, crossed, cut>>
EndCheck(c) == check' = [check EXCEPT ![c] = NoCheck]

\* Mutant: the last second of a session is cut off.
ExpiredEarly(t) == clock - sessions[t] >= Limit

Expired(t) == clock - sessions[t] > Limit

\* The row is read and judged; what follows is a statement of its own.
Select(c, t) ==
    /\ check[c].pc = "idle" /\ Open(t)
    /\ check' = [check EXCEPT ![c] = [pc |-> IF Expired(t) THEN "expiring" ELSE "renewing",
                                      token |-> t, seen |-> sessions[t]]]
    /\ CheckFrame /\ UNCHANGED <<faults, sessions, ended>>

\* Mutant: the row is written, not updated.
RenewedByInsert(t) == [sessions EXCEPT ![t] = clock]

\* An UPDATE: a row that is gone stays gone.
Renewed(t) == [x \in Logins |-> IF x = t /\ Open(x) THEN clock ELSE sessions[x]]

\* The request is admitted, whether its row is still there or not.
Renew(c) ==
    /\ check[c].pc = "renewing"
    /\ sessions' = Renewed(check[c].token)
    /\ EndCheck(c)
    /\ CheckFrame /\ UNCHANGED <<faults, ended>>

Expire(c) ==
    /\ check[c].pc = "expiring"
    /\ Remove({check[c].token})
    /\ EndCheck(c)
    /\ CheckFrame /\ UNCHANGED faults

\* authorize_admin takes an error for a missing session.
FailCheck(c) ==
    /\ check[c].pc # "idle" /\ Fault
    /\ EndCheck(c)
    /\ CheckFrame /\ UNCHANGED <<sessions, ended>>

Logout(t) ==
    /\ Open(t) /\ Remove({t})
    /\ CheckFrame /\ UNCHANGED <<faults, check>>

-----------------------------------------------------------------------------
(* reset_password, in a process of its own.                                *)

ResetFrame == UNCHANGED <<clock, login, check, opened>>

SetHash ==
    /\ ~reset /\ password < MaxResets
    /\ password' = password + 1 /\ reset' = TRUE
    /\ ResetFrame /\ UNCHANGED <<faults, sessions, ended, crossed, cut>>

\* Mutant: only what was not used this second is removed.
ClearedButRecent == {t \in Logins : sessions[t] # clock}

Cleared == Logins

DeleteSessions ==
    /\ reset /\ reset' = FALSE
    /\ Remove(Cleared)
    /\ crossed' = crossed \cup {l \in Logins : login[l].pc \in {"verifying", "inserting"}}
    /\ cut' = FALSE
    /\ ResetFrame /\ UNCHANGED <<faults, password>>

\* It fails, or is stopped, after it has set the password.
CutReset ==
    /\ reset /\ reset' = FALSE /\ Fault
    /\ cut' = TRUE
    /\ ResetFrame /\ UNCHANGED <<password, sessions, ended, crossed>>

\* The server stops and starts again; the sessions are in the database.
Restart ==
    /\ Fault
    /\ login' = [l \in Logins |-> IF login[l].pc = "new" THEN NewLogin
                                  ELSE [login[l] EXCEPT !.pc = "done"]]
    /\ check' = [c \in Checks |-> NoCheck]
    /\ UNCHANGED <<clock, password, reset, sessions, historyVars>>

-----------------------------------------------------------------------------
LoginStep(l) == Acquire(l) \/ ReadHash(l) \/ Verify(l) \/ Refuse(l) \/ Insert(l)

Next ==
    \/ Tick
    \/ \E l \in Logins : (\E p \in Passwords : Ask(l, p)) \/ LoginStep(l) \/ Quit(l)
    \/ \E c \in Checks : (\E t \in Logins : Select(c, t)) \/ Renew(c) \/ Expire(c) \/ FailCheck(c)
    \/ \E t \in Logins : Logout(t)
    \/ SetHash \/ DeleteSessions \/ CutReset \/ Restart

Spec == Init /\ [][Next]_vars

\* Permits are given in turn, and a login that has one goes on.
Fairness == \A l \in Logins : WF_vars(LoginStep(l))

FairSpec == Spec /\ Fairness

-----------------------------------------------------------------------------
TypeOK ==
    /\ clock \in Ticks /\ faults \in 0..MaxFaults
    /\ password \in Passwords /\ reset \in BOOLEAN
    /\ sessions \in [Logins -> Ticks \cup {None}]
    /\ login \in [Logins -> [pc : {"new", "queued", "reading", "verifying", "refused", "inserting", "done"},
                             tried : Passwords, hash : Passwords]]
    /\ check \in [Checks -> [pc : {"idle", "renewing", "expiring"}, token : Logins \cup {None}, seen : Ticks]]
    /\ \A c \in Checks : check[c].pc # "idle" => check[c].token \in Logins
    /\ ended \subseteq Logins /\ opened \in [Logins -> Passwords]
    /\ crossed \subseteq Logins /\ cut \in BOOLEAN
    /\ \A t \in Logins : Open(t) => login[t].pc = "done"

\* README.md:66: once a reset is complete, every session was opened with the
\* new password, but for those of logins that had already read the old hash.
OldSessionsEnd ==
    ~reset /\ ~cut => \A t \in Logins : Open(t) => opened[t] = password \/ t \in crossed

\* A session that a logout, its expiry or a reset has ended never comes back,
\* not by a check that had read it before.
EndedStaysEnded == \A t \in ended : ~Open(t)

\* A session is removed as expired only when it has been idle for longer than
\* the limit, unless it was renewed after the check had read it.
ExpiresOnlyIdle ==
    [][\A c \in Checks :
        LET t == check[c].token
        IN check[c].pc = "expiring" /\ Open(t) /\ sessions'[t] = None
            => clock - sessions[t] > Limit \/ sessions[t] # check[c].seen]_vars

\* Every login is answered, however many wrong ones are ahead of it.
LoginsAnswered == \A l \in Logins : login[l].pc = "queued" ~> login[l].pc = "done"
==============================================================================
