------------------------------ MODULE Sessions ------------------------------
(***************************************************************************)
(* One user's account and sessions.  A client keeps a session by trading   *)
(* the hash it holds for a new one; logging out, resetting and changing    *)
(* the password end sessions; confirming an address and resetting write    *)
(* back all of the account they read.  Every round trip to the database    *)
(* is a step of its own.                                                   *)
(***************************************************************************)
EXTENDS Integers

CONSTANTS
    MaxSession,   \* bound: sessions ever opened
    MaxHash,      \* bound: hashes ever issued
    MaxPassword,  \* bound: passwords ever chosen
    Callers       \* bound: requests being handled at the same time

ASSUME SessionsAssumption ==
    MaxSession \in Nat /\ MaxHash \in Nat /\ MaxPassword \in Nat \ {0}

VARIABLES
    account,   \* the user's row
    session,   \* table session
    held,      \* the hash the client of a session was last answered
    call,      \* the handlers in progress
    counters,    \* how many hashes and passwords there have been
    wanted,    \* history: the account as the requests so far want it
    mixed,     \* history: the account was written by overlapping requests
    ended,     \* history: sessions that were ended
    outrun,    \* history: sessions ended while a refresh was to write them
    crossed    \* history: sessions with overlapping or unanswered refreshes

sessionsVars == <<account, session, held, call, counters,
                  wanted, mixed, ended, outrun, crossed>>
sessionRows == <<session, held, ended, outrun, crossed>>
accountRows == <<account, wanted, mixed>>

SessionIds == 1..MaxSession
Garbled == 0   \* the hash of a hash: no password opens it

Accounts ==
    [there : BOOLEAN, active : BOOLEAN, email : {"old", "new"},
     password : 0..MaxPassword]
SessionRows == [state : {"none", "live", "deleted"}, hash : 0..MaxHash]

CallPCs == {"idle", "createSession", "refreshUser", "refreshRead",
            "refreshSave", "refreshAnswer", "endSessions", "compare",
            "accountRead", "accountSave"}

\* A handler keeps the account it read, or what of it it is going to write.
Calls ==
    [pc : CallPCs, sid : 0..MaxSession, hash : 0..MaxHash, user : Accounts,
     new : BOOLEAN, write : SUBSET {"active", "email", "password"},
     alone : BOOLEAN, whole : BOOLEAN]

FirstAccount ==
    [there |-> TRUE, active |-> FALSE, email |-> "old", password |-> 1]
IdleCall ==
    [pc |-> "idle", sid |-> 0, hash |-> 0, user |-> FirstAccount,
     new |-> FALSE, write |-> {}, alone |-> TRUE, whole |-> TRUE]

SessionsTypeOK ==
    /\ account \in Accounts /\ wanted \in Accounts
    /\ session \in [SessionIds -> SessionRows]
    /\ held \in [SessionIds -> 0..MaxHash]
    /\ call \in [Callers -> Calls]
    /\ counters \in [hash : 0..MaxHash, password : 0..MaxPassword]
    /\ mixed \in BOOLEAN
    /\ ended \in SUBSET SessionIds /\ outrun \in SUBSET SessionIds
    /\ crossed \in SUBSET SessionIds

SessionsInit ==
    /\ account = FirstAccount /\ wanted = FirstAccount
    /\ session = [s \in SessionIds |-> [state |-> "none", hash |-> 0]]
    /\ held = [s \in SessionIds |-> 0]
    /\ call = [h \in Callers |-> IdleCall]
    /\ counters = [hash |-> 0, password |-> 1]
    /\ mixed = FALSE /\ ended = {} /\ outrun = {} /\ crossed = {}

-----------------------------------------------------------------------------
CallAt(h, pc) == call[h].pc = pc
CallTo(h, c) == call' = [call EXCEPT ![h] = c]
Hang(h) == CallTo(h, IdleCall)
Live(s) == session[s].state = "live"
RefreshPCs == {"refreshUser", "refreshRead", "refreshSave", "refreshAnswer"}
Refreshing(h, s) == call[h].sid = s /\ call[h].pc \in RefreshPCs

FreshHash ==
    /\ counters.hash < MaxHash
    /\ counters' = [counters EXCEPT !.hash = @ + 1]
FreshPassword ==
    /\ counters.password < MaxPassword
    /\ counters' = [counters EXCEPT !.password = @ + 1]

\* Ending sessions: a refresh that has read one of them will write it again.
EndSessions(S) ==
    LET gone == {s \in S : Live(s)} IN
    /\ session' = [s \in SessionIds |->
                     IF s \in gone THEN [session[s] EXCEPT !.state = "deleted"]
                     ELSE session[s]]
    /\ ended' = ended \cup gone
    /\ outrun' = outrun \cup
          {s \in gone : \E h \in Callers : Refreshing(h, s)
                                        /\ CallAt(h, "refreshSave")}

-----------------------------------------------------------------------------
(***************************************************************************)
(* Logging in and staying so.                                              *)
(***************************************************************************)

\* The password was right; it is not looked at again.
StartLogin(h) ==
    /\ CallAt(h, "idle")
    /\ account.there /\ account.password # Garbled
    /\ CallTo(h, [IdleCall EXCEPT !.pc = "createSession"])
    /\ UNCHANGED <<counters, sessionRows, accountRows>>

CreateSession(h) ==
    /\ CallAt(h, "createSession")
    /\ FreshHash
    /\ \E s \in SessionIds :
          /\ session[s].state = "none"
          /\ \A q \in 1..(s - 1) : session[q].state # "none"
          /\ session' = [session EXCEPT ![s] = [state |-> "live",
                                                hash |-> counters'.hash]]
          /\ held' = [held EXCEPT ![s] = counters'.hash]
    /\ Hang(h)
    /\ UNCHANGED <<ended, outrun, crossed, accountRows>>

\* MUTANT: the hash is taken for the session's id.
StartRefreshSwapped(h, s) ==
    /\ CallAt(h, "idle")
    /\ Live(s) /\ session[s].hash = held[s]
    /\ CallTo(h, [IdleCall EXCEPT !.pc = "refreshUser", !.sid = held[s],
                                  !.alone = \A q \in Callers : ~Refreshing(q, s)])
    /\ UNCHANGED <<counters, sessionRows, accountRows>>

\* The session is there and its hash is the one the client holds.
StartRefresh(h, s) ==
    /\ CallAt(h, "idle")
    /\ Live(s) /\ session[s].hash = held[s]
    /\ CallTo(h, [IdleCall EXCEPT !.pc = "refreshUser", !.sid = s,
                                  !.alone = \A q \in Callers : ~Refreshing(q, s)])
    /\ UNCHANGED <<counters, sessionRows, accountRows>>

RefreshUser(h) ==
    /\ CallAt(h, "refreshUser")
    /\ IF account.there THEN CallTo(h, [call[h] EXCEPT !.pc = "refreshRead"])
       ELSE Hang(h)
    /\ UNCHANGED <<counters, sessionRows, accountRows>>

\* MUTANT: the row is found whether deleted or not.
RefreshReadAny(h) ==
    /\ CallAt(h, "refreshRead")
    /\ CallTo(h, [call[h] EXCEPT !.pc = "refreshSave"])
    /\ UNCHANGED <<counters, sessionRows, accountRows>>

\* SessionRepository.update reads the row again and refuses a deleted one.
RefreshRead(h) ==
    /\ CallAt(h, "refreshRead")
    /\ IF Live(call[h].sid)
       THEN CallTo(h, [call[h] EXCEPT !.pc = "refreshSave"])
       ELSE Hang(h)
    /\ UNCHANGED <<counters, sessionRows, accountRows>>

\* MUTANT: the answer carries the hash that was read.
RefreshSaveAnswersOld(h) ==
    LET s == call[h].sid IN
    /\ CallAt(h, "refreshSave")
    /\ FreshHash
    /\ session' = [session EXCEPT ![s] = [state |-> "live",
                                          hash |-> counters'.hash]]
    /\ CallTo(h, [call[h] EXCEPT !.pc = "refreshAnswer",
                                 !.hash = session[s].hash])
    /\ UNCHANGED <<held, ended, outrun, crossed, accountRows>>

\* The row that was read is saved with the new hash and no deletion date.
RefreshSave(h) ==
    LET s == call[h].sid IN
    /\ CallAt(h, "refreshSave")
    /\ FreshHash
    /\ session' = [session EXCEPT ![s] = [state |-> "live",
                                          hash |-> counters'.hash]]
    /\ crossed' = IF call[h].alone THEN crossed ELSE crossed \cup {s}
    /\ CallTo(h, [call[h] EXCEPT !.pc = "refreshAnswer", !.hash = counters'.hash])
    /\ UNCHANGED <<held, ended, outrun, accountRows>>

RefreshAnswer(h) ==
    /\ CallAt(h, "refreshAnswer")
    /\ held' = [held EXCEPT ![call[h].sid] = call[h].hash]
    /\ crossed' = IF call[h].alone THEN crossed ELSE crossed \cup {call[h].sid}
    /\ Hang(h)
    /\ UNCHANGED <<counters, session, ended, outrun, accountRows>>

Logout(s) ==
    /\ Live(s)
    /\ EndSessions({s})
    /\ UNCHANGED <<held, call, counters, crossed, accountRows>>

-----------------------------------------------------------------------------
(***************************************************************************)
(* The account.                                                            *)
(***************************************************************************)

\* The user is read; sessions end before the password is written.
StartReset(h) ==
    /\ CallAt(h, "idle") /\ account.there
    /\ FreshPassword
    /\ CallTo(h, [IdleCall EXCEPT !.pc = "endSessions", !.new = TRUE,
                                  !.write = {"active", "email"},
                                  !.user = [account EXCEPT
                                              !.password = counters'.password]])
    /\ UNCHANGED <<sessionRows, accountRows>>

\* The old password was right; this session stays, nothing else is written.
StartChangePassword(h, s) ==
    /\ CallAt(h, "idle") /\ account.there /\ account.password # Garbled
    /\ Live(s)
    /\ FreshPassword
    /\ CallTo(h, [IdleCall EXCEPT !.pc = "endSessions", !.sid = s, !.new = TRUE,
                                  !.user = [account EXCEPT
                                              !.password = counters'.password]])
    /\ UNCHANGED <<sessionRows, accountRows>>

DeleteByUserId(h) ==
    /\ CallAt(h, "endSessions")
    /\ EndSessions(SessionIds \ {call[h].sid})
    /\ CallTo(h, [call[h] EXCEPT !.pc = "compare"])
    /\ UNCHANGED <<held, counters, crossed, accountRows>>

StartConfirmEmail(h) ==
    /\ CallAt(h, "idle") /\ account.there /\ ~account.active
    /\ CallTo(h, [IdleCall EXCEPT !.pc = "compare",
                                  !.write = {"active", "email"},
                                  !.user = [account EXCEPT !.active = TRUE]])
    /\ UNCHANGED <<counters, sessionRows, accountRows>>

StartConfirmNewEmail(h) ==
    /\ CallAt(h, "idle") /\ account.there
    /\ CallTo(h, [IdleCall EXCEPT !.pc = "compare",
                                  !.write = {"active", "email"},
                                  !.user = [account EXCEPT !.active = TRUE,
                                                           !.email = "new"]])
    /\ UNCHANGED <<counters, sessionRows, accountRows>>

\* MUTANT: what is in the payload is always hashed.
HashAlways(h) ==
    LET c == call[h] IN
    /\ CallAt(h, "compare")
    /\ CallTo(h, [c EXCEPT !.pc = "accountRead", !.write = @ \cup {"password"},
                           !.user.password = IF c.new THEN @ ELSE Garbled])
    /\ UNCHANGED <<counters, sessionRows, accountRows>>

\* A password that is not the stored hash is hashed, were it itself a hash.
HashNewPassword(h) ==
    LET c == call[h] IN
    /\ CallAt(h, "compare")
    /\ CallTo(h, IF account.there /\ (c.new \/ account.password # c.user.password)
                 THEN [c EXCEPT !.pc = "accountRead",
                                !.write = @ \cup {"password"},
                                !.user.password = IF c.new THEN @ ELSE Garbled]
                 ELSE [c EXCEPT !.pc = "accountRead"])
    /\ UNCHANGED <<counters, sessionRows, accountRows>>

\* UserRepository.update reads the row again and refuses a deleted one.
AccountRead(h) ==
    /\ CallAt(h, "accountRead")
    /\ IF account.there THEN CallTo(h, [call[h] EXCEPT !.pc = "accountSave"])
       ELSE Hang(h)
    /\ UNCHANGED <<counters, sessionRows, accountRows>>

\* Only what the payload names is written, and no deletion date.
AccountSave(h) ==
    LET c == call[h]
        given == [f \in DOMAIN account |->
                    IF f \in c.write THEN c.user[f] ELSE account[f]]
    IN
    /\ CallAt(h, "accountSave")
    /\ account' = [given EXCEPT !.there = TRUE]
    /\ wanted' = IF c.new THEN [wanted EXCEPT !.password = c.user.password]
                 ELSE [wanted EXCEPT !.active = TRUE,
                         !.email = IF c.user.email = "new" THEN "new" ELSE @]
    /\ mixed' = (mixed \/ ~c.whole)
    /\ call' = [q \in Callers |-> IF q = h THEN IdleCall
                                  ELSE [call[q] EXCEPT !.whole = FALSE]]
    /\ UNCHANGED <<counters, sessionRows>>

RemoveUser ==
    /\ account.there
    /\ account' = [account EXCEPT !.there = FALSE]
    /\ wanted' = [wanted EXCEPT !.there = FALSE]
    /\ call' = [q \in Callers |-> [call[q] EXCEPT !.whole = FALSE]]
    /\ UNCHANGED <<counters, mixed, sessionRows>>

\* A round trip fails or the process stops; the client of a refresh that had
\* written its new hash keeps one that is good for nothing.
CallFails(h) ==
    /\ ~CallAt(h, "idle")
    /\ crossed' = IF CallAt(h, "refreshAnswer") THEN crossed \cup {call[h].sid}
                  ELSE crossed
    /\ Hang(h)
    /\ UNCHANGED <<counters, session, held, ended, outrun, accountRows>>

CallStep(h) ==
    \/ StartLogin(h) \/ CreateSession(h)
    \/ RefreshUser(h) \/ RefreshRead(h) \/ RefreshSave(h) \/ RefreshAnswer(h)
    \/ StartReset(h) \/ DeleteByUserId(h)
    \/ StartConfirmEmail(h) \/ StartConfirmNewEmail(h)
    \/ HashNewPassword(h) \/ AccountRead(h) \/ AccountSave(h) \/ CallFails(h)

SessionsNext ==
    \/ \E h \in Callers : CallStep(h)
    \/ \E h \in Callers, s \in SessionIds :
          StartRefresh(h, s) \/ StartChangePassword(h, s)
    \/ \E s \in SessionIds : Logout(s)
    \/ RemoveUser

SessionsSpec == SessionsInit /\ [][SessionsNext]_sessionsVars

-----------------------------------------------------------------------------
(***************************************************************************)
(* Properties.                                                             *)
(***************************************************************************)

\* A client that refreshes its session one request at a time and gets its
\* answers can go on refreshing it for as long as the session is there.
HeldHashIsCurrent ==
    \A s \in SessionIds \ crossed :
        Live(s) /\ (\A h \in Callers : ~Refreshing(h, s))
            => held[s] = session[s].hash

\* A session that was ended, by logging out or with the password, is not
\* live again, unless a refresh had read it before and wrote it after.
EndedSessionStaysEnded == \A s \in ended \ outrun : ~Live(s)

\* The account is as the requests that were answered want it, its password
\* one that was chosen, although each writes back most of what it read;
\* only overlapping requests can make it another.
AccountAsWanted == ~mixed => account = wanted

=============================================================================
