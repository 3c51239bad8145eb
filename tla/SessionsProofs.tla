---------------------------- MODULE SessionsProofs ----------------------------
(***************************************************************************)
(* What Sessions guarantees for any number of sessions, of passwords and   *)
(* of requests at the same time, whatever fails.  The account and the      *)
(* sessions hardly meet: AccountInv says what the handlers that will write *)
(* the account know of it, RefreshInv and AloneInv what a refresh knows of *)
(* its session.                                                            *)
(***************************************************************************)
EXTENDS Sessions, TLAPS

AccountPCs == {"endSessions", "compare", "accountRead", "accountSave"}

\* What a handler that nobody overtook is going to write.
WholeInv(c) ==
    /\ account.there /\ c.user.there
    /\ c.new => /\ c.user.active = account.active
                /\ c.user.email = account.email
                /\ c.pc \in {"accountRead", "accountSave"} =>
                      "password" \in c.write
    /\ ~c.new => /\ c.user.active /\ c.user.email \in {account.email, "new"}
                 /\ c.user.password = account.password
                 /\ c.write = {"active", "email"}
                 /\ c.pc # "endSessions"

AccountInv ==
    /\ AccountAsWanted
    /\ \A h \in Callers :
          call[h].whole /\ call[h].pc \in AccountPCs => WholeInv(call[h])

RefreshInv ==
    \A h \in Callers : call[h].pc \in RefreshPCs =>
        /\ call[h].sid \in SessionIds
        /\ session[call[h].sid].state # "none"
        /\ CallAt(h, "refreshSave") /\ call[h].sid \in ended =>
              call[h].sid \in outrun

EndedInv ==
    /\ EndedSessionStaysEnded
    /\ \A s \in ended : session[s].state # "none"

\* Of the refreshes of a session one at most began alone; a hash that is on
\* its way to the client is the session's, or the session was crossed.
AloneInv ==
    \A h \in Callers : call[h].pc \in RefreshPCs =>
        /\ call[h].alone =>
             \A g \in Callers : Refreshing(g, call[h].sid) /\ call[g].alone
                                 => g = h
        /\ CallAt(h, "refreshAnswer") =>
              \/ call[h].sid \in crossed
              \/ call[h].alone /\ call[h].hash = session[call[h].sid].hash

Answering(h, s) == call[h].sid = s /\ CallAt(h, "refreshAnswer")

HeldInv ==
    \A s \in SessionIds \ crossed :
        Live(s) /\ (\A h \in Callers : ~Answering(h, s))
            => held[s] = session[s].hash

SessionInv == RefreshInv /\ EndedInv /\ AloneInv /\ HeldInv
SessionsInv == SessionsTypeOK /\ AccountInv /\ SessionInv

-----------------------------------------------------------------------------
(***************************************************************************)
(* Types.                                                                  *)
(***************************************************************************)

LEMMA IdleCallMeans ==
  /\ IdleCall \in Calls /\ IdleCall.pc = "idle" /\ IdleCall.whole
  /\ FirstAccount \in Accounts
  BY SessionsAssumption DEF IdleCall, Calls, CallPCs, FirstAccount, Accounts

LEMMA CallToMeans ==
  ASSUME SessionsTypeOK, NEW h \in Callers, NEW c \in Calls, CallTo(h, c)
  PROVE  /\ call' \in [Callers -> Calls] /\ call'[h] = c
         /\ \A q \in Callers \ {h} : call'[q] = call[q]
  BY DEF SessionsTypeOK, CallTo

LEMMA CallFields ==
  ASSUME SessionsTypeOK, NEW h \in Callers
  PROVE  /\ call[h] \in Calls /\ call[h].pc \in CallPCs
         /\ call[h].sid \in 0..MaxSession /\ call[h].hash \in 0..MaxHash
         /\ call[h].user \in Accounts /\ call[h].new \in BOOLEAN
         /\ call[h].write \subseteq {"active", "email", "password"}
         /\ call[h].alone \in BOOLEAN /\ call[h].whole \in BOOLEAN
  BY DEF SessionsTypeOK, Calls

\* How a handler goes on.
LEMMA GoesOn ==
  ASSUME NEW c \in Calls, NEW pc \in CallPCs
  PROVE  LET d == [c EXCEPT !.pc = pc] IN
         /\ d \in Calls /\ d.pc = pc /\ d.sid = c.sid /\ d.hash = c.hash
         /\ d.alone = c.alone /\ d.whole = c.whole /\ d.user = c.user
         /\ d.new = c.new /\ d.write = c.write
  BY DEF Calls

LEMMA FreshMeans ==
  ASSUME SessionsTypeOK, FreshHash \/ FreshPassword
  PROVE  counters' \in [hash : 0..MaxHash, password : 0..MaxPassword]
  BY SessionsAssumption DEF SessionsTypeOK, FreshHash, FreshPassword

LEMMA EndSessionsMeans ==
  ASSUME SessionsTypeOK, NEW S \in SUBSET SessionIds, EndSessions(S)
  PROVE  /\ session' \in [SessionIds -> SessionRows]
         /\ ended' \in SUBSET SessionIds /\ outrun' \in SUBSET SessionIds
         /\ ended \subseteq ended' /\ outrun \subseteq outrun'
         /\ \A s \in SessionIds :
               \/ session'[s] = session[s] /\ (s \in ended' => s \in ended)
               \/ /\ session'[s].state = "deleted" /\ s \in ended'
                  /\ Live(s) /\ session'[s].hash = session[s].hash
                  /\ \A h \in Callers :
                        Refreshing(h, s) /\ CallAt(h, "refreshSave")
                           => s \in outrun'
  BY DEF SessionsTypeOK, EndSessions, SessionRows, Live

-----------------------------------------------------------------------------
(***************************************************************************)
(* Steps that leave the account, or the sessions, alone.                   *)
(***************************************************************************)

LEMMA AccountQuiet ==
  ASSUME AccountInv, UNCHANGED accountRows,
         \A q \in Callers : call'[q].whole /\ call'[q].pc \in AccountPCs =>
                               call'[q] = call[q] \/ WholeInv(call'[q])
  PROVE  AccountInv'
  <1>1. AccountAsWanted'
    BY DEF AccountInv, AccountAsWanted, accountRows
  <1>2. \A q \in Callers : call'[q].whole /\ call'[q].pc \in AccountPCs =>
                              WholeInv(call'[q])
    BY DEF AccountInv
  <1>3. \A q \in Callers : WholeInv(call'[q]) => WholeInv(call[q])'
    BY DEF WholeInv, accountRows
  <1> QED BY <1>1, <1>2, <1>3 DEF AccountInv

\* A refresh that goes on without a write, or is given up before it made one.
Onward(q) ==
    /\ call'[q].pc \in RefreshPCs =>
          /\ call[q].pc \in RefreshPCs /\ call'[q].sid = call[q].sid
          /\ call'[q].hash = call[q].hash /\ call'[q].alone = call[q].alone
          /\ call'[q].pc \in {"refreshSave", "refreshAnswer"} =>
                call'[q].pc = call[q].pc
    /\ CallAt(q, "refreshAnswer") => call'[q].pc = "refreshAnswer"

LEMMA SessionQuiet ==
  ASSUME SessionInv, UNCHANGED sessionRows, \A q \in Callers : Onward(q)
  PROVE  SessionInv'
  <1>1. RefreshInv'
    BY DEF SessionInv, RefreshInv, Onward, sessionRows, CallAt, RefreshPCs
  <1>2. EndedInv'
    BY DEF SessionInv, EndedInv, EndedSessionStaysEnded, Live, sessionRows
  <1>3. AloneInv'
    BY DEF SessionInv, AloneInv, Onward, sessionRows, CallAt, RefreshPCs,
           Refreshing
  <1>4. \A q \in Callers : \A s : Answering(q, s) => Answering(q, s)'
    BY DEF Answering, Onward, CallAt, RefreshPCs
  <1>5. HeldInv'
    BY <1>4 DEF SessionInv, HeldInv, Live, sessionRows
  <1> QED BY <1>1, <1>2, <1>3, <1>5 DEF SessionInv

\* One handler moves and is not among the refreshes, then or now.
LEMMA Elsewhere ==
  ASSUME SessionsTypeOK, NEW h \in Callers, NEW c \in Calls, CallTo(h, c),
         c.pc \notin RefreshPCs, ~CallAt(h, "refreshAnswer")
  PROVE  \A q \in Callers : Onward(q)
  BY CallToMeans DEF Onward, CallAt, RefreshPCs

\* One handler moves and has nothing to do with the account.
LEMMA NotOfAccount ==
  ASSUME SessionsTypeOK, NEW h \in Callers, NEW c \in Calls, CallTo(h, c),
         c.whole /\ c.pc \in AccountPCs => WholeInv(c)
  PROVE  \A q \in Callers : call'[q].whole /\ call'[q].pc \in AccountPCs =>
                               call'[q] = call[q] \/ WholeInv(call'[q])
  BY CallToMeans

LEMMA QuietTypes ==
  ASSUME SessionsTypeOK, call' \in [Callers -> Calls],
         UNCHANGED <<sessionRows, accountRows>>,
         counters' \in [hash : 0..MaxHash, password : 0..MaxPassword]
  PROVE  SessionsTypeOK'
  BY DEF SessionsTypeOK, sessionRows, accountRows

\* A step of a handler that writes no row and is not of a refresh.
LEMMA QuietStep ==
  ASSUME SessionsInv, NEW h \in Callers, NEW c \in Calls, CallTo(h, c),
         UNCHANGED <<sessionRows, accountRows>>,
         counters' \in [hash : 0..MaxHash, password : 0..MaxPassword],
         c.pc \notin RefreshPCs, ~CallAt(h, "refreshAnswer"),
         c.whole /\ c.pc \in AccountPCs => WholeInv(c)
  PROVE  SessionsInv'
  <1>1. SessionsTypeOK'
    BY CallToMeans, QuietTypes DEF SessionsInv
  <1>2. AccountInv'
    BY AccountQuiet, NotOfAccount DEF SessionsInv
  <1>3. SessionInv'
    BY SessionQuiet, Elsewhere DEF SessionsInv
  <1> QED BY <1>1, <1>2, <1>3 DEF SessionsInv

LEMMA CountersStay ==
  ASSUME SessionsInv, UNCHANGED counters
  PROVE  counters' \in [hash : 0..MaxHash, password : 0..MaxPassword]
  BY DEF SessionsInv, SessionsTypeOK

-----------------------------------------------------------------------------
(***************************************************************************)
(* The requests about the account.                                         *)
(***************************************************************************)

LEMMA StartLoginKeeps ==
  ASSUME SessionsInv, NEW h \in Callers, StartLogin(h)
  PROVE  SessionsInv'
  <1> DEFINE c == [IdleCall EXCEPT !.pc = "createSession"]
  <1>1. c \in Calls /\ c.pc = "createSession"
    BY IdleCallMeans DEF IdleCall, Calls, CallPCs
  <1>2. CallTo(h, c) /\ ~CallAt(h, "refreshAnswer")
    BY DEF StartLogin, CallAt
  <1> HIDE DEF c
  <1> QED BY <1>1, <1>2, CountersStay, QuietStep
          DEF StartLogin, RefreshPCs, AccountPCs

LEMMA StartResetKeeps ==
  ASSUME SessionsInv, NEW h \in Callers, StartReset(h)
  PROVE  SessionsInv'
  <1>0. PICK p : p = counters'.password
    OBVIOUS
  <1>1. /\ counters' \in [hash : 0..MaxHash, password : 0..MaxPassword]
        /\ p \in 0..MaxPassword /\ account \in Accounts
    BY <1>0, FreshMeans DEF StartReset, SessionsInv, SessionsTypeOK
  <1>2. PICK u : u = [account EXCEPT !.password = p]
    OBVIOUS
  <1>3. /\ u \in Accounts /\ u.there = account.there
        /\ u.active = account.active /\ u.email = account.email
    BY <1>1, <1>2 DEF Accounts
  <1>4. PICK c : c = [IdleCall EXCEPT !.pc = "endSessions", !.new = TRUE,
                         !.write = {"active", "email"}, !.user = u]
    OBVIOUS
  <1>5. c \in Calls /\ c.pc = "endSessions" /\ c.new /\ c.user = u
    BY <1>3, <1>4, IdleCallMeans DEF IdleCall, Calls, CallPCs
  <1>6. CallTo(h, c) /\ ~CallAt(h, "refreshAnswer")
    BY <1>0, <1>2, <1>4 DEF StartReset, CallAt
  <1>7. WholeInv(c)
    BY <1>3, <1>5 DEF WholeInv, StartReset
  <1> QED BY <1>1, <1>5, <1>6, <1>7, QuietStep DEF StartReset, RefreshPCs

LEMMA StartChangePasswordKeeps ==
  ASSUME SessionsInv, NEW h \in Callers, NEW s \in SessionIds,
         StartChangePassword(h, s)
  PROVE  SessionsInv'
  <1>0. PICK p : p = counters'.password
    OBVIOUS
  <1>1. /\ counters' \in [hash : 0..MaxHash, password : 0..MaxPassword]
        /\ p \in 0..MaxPassword /\ account \in Accounts
    BY <1>0, FreshMeans DEF StartChangePassword, SessionsInv, SessionsTypeOK
  <1>2. PICK u : u = [account EXCEPT !.password = p]
    OBVIOUS
  <1>3. /\ u \in Accounts /\ u.there = account.there
        /\ u.active = account.active /\ u.email = account.email
    BY <1>1, <1>2 DEF Accounts
  <1>4. PICK c : c = [IdleCall EXCEPT !.pc = "endSessions", !.sid = s,
                         !.new = TRUE, !.user = u]
    OBVIOUS
  <1>5. c \in Calls /\ c.pc = "endSessions" /\ c.new /\ c.user = u
    <2>1. s \in 0..MaxSession
      BY SessionsAssumption DEF SessionIds
    <2> QED BY <1>3, <1>4, <2>1, IdleCallMeans DEF IdleCall, Calls, CallPCs
  <1>6. CallTo(h, c) /\ ~CallAt(h, "refreshAnswer")
    BY <1>0, <1>2, <1>4 DEF StartChangePassword, CallAt
  <1>7. WholeInv(c)
    BY <1>3, <1>5 DEF WholeInv, StartChangePassword
  <1> QED BY <1>1, <1>5, <1>6, <1>7, QuietStep
          DEF StartChangePassword, RefreshPCs

\* Confirming an address: the account, active, with its address or the new.
LEMMA ConfirmKeeps ==
  ASSUME SessionsInv, NEW h \in Callers, CallAt(h, "idle"), account.there,
         NEW u \in Accounts, u.there, u.active, u.password = account.password,
         u.email \in {account.email, "new"},
         CallTo(h, [IdleCall EXCEPT !.pc = "compare",
                       !.write = {"active", "email"}, !.user = u]),
         UNCHANGED <<counters, sessionRows, accountRows>>
  PROVE  SessionsInv'
  <1>1. PICK c : c = [IdleCall EXCEPT !.pc = "compare",
                         !.write = {"active", "email"}, !.user = u]
    OBVIOUS
  <1>2. /\ c \in Calls /\ c.pc = "compare" /\ ~c.new /\ c.user = u
        /\ c.write = {"active", "email"}
    BY <1>1, IdleCallMeans DEF IdleCall, Calls, CallPCs
  <1>3. WholeInv(c)
    BY <1>2 DEF WholeInv
  <1>4. ~CallAt(h, "refreshAnswer")
    BY DEF CallAt
  <1> QED BY <1>1, <1>2, <1>3, <1>4, CountersStay, QuietStep DEF RefreshPCs

LEMMA StartConfirmsKeep ==
  ASSUME SessionsInv, NEW h \in Callers,
         StartConfirmEmail(h) \/ StartConfirmNewEmail(h)
  PROVE  SessionsInv'
  <1>1. account \in Accounts
    BY DEF SessionsInv, SessionsTypeOK
  <1>2. CASE StartConfirmEmail(h)
    <2>1. PICK u : u = [account EXCEPT !.active = TRUE]
      OBVIOUS
    <2>2. /\ u \in Accounts /\ u.there = account.there /\ u.active
          /\ u.password = account.password /\ u.email = account.email
      BY <1>1, <2>1 DEF Accounts
    <2> QED BY <1>2, <2>1, <2>2, ConfirmKeeps DEF StartConfirmEmail
  <1>3. CASE StartConfirmNewEmail(h)
    <2>1. PICK u : u = [account EXCEPT !.active = TRUE, !.email = "new"]
      OBVIOUS
    <2>2. /\ u \in Accounts /\ u.there = account.there /\ u.active
          /\ u.password = account.password /\ u.email = "new"
      BY <1>1, <2>1 DEF Accounts
    <2> QED BY <1>3, <2>1, <2>2, ConfirmKeeps DEF StartConfirmNewEmail
  <1> QED BY <1>2, <1>3

LEMMA HashNewPasswordKeeps ==
  ASSUME SessionsInv, NEW h \in Callers, HashNewPassword(h)
  PROVE  SessionsInv'
  <1>1. PICK c : c = call[h]
    OBVIOUS
  <1>2. /\ c \in Calls /\ c.pc = "compare" /\ c.user \in Accounts
        /\ c.write \subseteq {"active", "email", "password"}
        /\ c.new \in BOOLEAN
        /\ (c.whole => WholeInv(c))
    BY <1>1, CallFields DEF SessionsInv, HashNewPassword, CallAt, AccountInv,
                            AccountPCs
  <1>3. \E d \in Calls :
           /\ CallTo(h, d) /\ d.pc = "accountRead"
           /\ d.whole => WholeInv(d)
    <2>1. CASE account.there /\ (c.new \/ account.password # c.user.password)
      <3>1. PICK d : d = [c EXCEPT !.pc = "accountRead",
                            !.write = @ \cup {"password"},
                            !.user.password = IF c.new THEN @ ELSE Garbled]
        OBVIOUS
      <3>2. CallTo(h, d)
        BY <1>1, <2>1, <3>1 DEF HashNewPassword
      <3>3. PICK u : u = [c.user EXCEPT !.password = IF c.new THEN @
                                                     ELSE Garbled]
        OBVIOUS
      <3>4. /\ u \in Accounts /\ u.there = c.user.there
            /\ u.active = c.user.active /\ u.email = c.user.email
        BY <1>2, <3>3, SessionsAssumption DEF Accounts, Garbled
      <3>5. d = [c EXCEPT !.pc = "accountRead",
                          !.write = c.write \cup {"password"}, !.user = u]
        BY <1>2, <3>1, <3>3 DEF Calls, Accounts
      <3>6. /\ d \in Calls /\ d.pc = "accountRead" /\ d.user = u
            /\ d.write = c.write \cup {"password"} /\ d.new = c.new
            /\ d.whole = c.whole
        BY <1>2, <3>4, <3>5 DEF Calls, CallPCs
      <3>7. d.whole => WholeInv(d)
        BY <1>2, <2>1, <3>4, <3>6 DEF WholeInv
      <3> QED BY <3>2, <3>6, <3>7
    <2>2. CASE ~(account.there
                   /\ (c.new \/ account.password # c.user.password))
      <3>1. PICK d : d = [c EXCEPT !.pc = "accountRead"]
        OBVIOUS
      <3>2. /\ d \in Calls /\ d.pc = "accountRead" /\ d.user = c.user
            /\ d.write = c.write /\ d.new = c.new /\ d.whole = c.whole
        BY <1>2, <3>1 DEF Calls, CallPCs
      <3>3. CallTo(h, d)
        BY <1>1, <2>2, <3>1 DEF HashNewPassword
      <3>4. d.whole => WholeInv(d)
        BY <1>2, <2>2, <3>2 DEF WholeInv
      <3> QED BY <3>2, <3>3, <3>4
    <2> QED BY <2>1, <2>2
  <1>4. PICK d \in Calls : /\ CallTo(h, d) /\ d.pc = "accountRead"
                           /\ d.whole => WholeInv(d)
    BY <1>3
  <1> QED BY <1>1, <1>2, <1>4, CountersStay, QuietStep
          DEF HashNewPassword, RefreshPCs, CallAt

\* The row is there or the request is given up.
LEMMA AccountReadKeeps ==
  ASSUME SessionsInv, NEW h \in Callers, AccountRead(h)
  PROVE  SessionsInv'
  <1>1. PICK c : c = call[h]
    OBVIOUS
  <1>2. /\ c \in Calls /\ c.pc = "accountRead" /\ (c.whole => WholeInv(c))
    BY <1>1, CallFields DEF SessionsInv, AccountRead, CallAt, AccountInv,
                            AccountPCs
  <1>3. ~CallAt(h, "refreshAnswer")
    BY DEF AccountRead, CallAt
  <1>4. CASE account.there
    <2>1. PICK d : d = [c EXCEPT !.pc = "accountSave"]
      OBVIOUS
    <2>2. /\ d \in Calls /\ d.pc = "accountSave" /\ d.user = c.user
          /\ d.write = c.write /\ d.new = c.new /\ d.whole = c.whole
      BY <1>2, <2>1 DEF Calls, CallPCs
    <2>3. CallTo(h, d)
      BY <1>1, <1>4, <2>1 DEF AccountRead
    <2>4. d.whole => WholeInv(d)
      BY <1>2, <2>2 DEF WholeInv
    <2> QED BY <1>3, <2>2, <2>3, <2>4, CountersStay, QuietStep
            DEF AccountRead, RefreshPCs
  <1>5. CASE ~account.there
    BY <1>3, <1>5, IdleCallMeans, CountersStay, QuietStep
       DEF AccountRead, Hang, RefreshPCs, AccountPCs
  <1> QED BY <1>4, <1>5

\* What is written is what is wanted, when nobody wrote since it was read.
LEMMA AccountSaveKeeps ==
  ASSUME SessionsInv, NEW h \in Callers, AccountSave(h)
  PROVE  SessionsInv'
  <1>1. PICK c : c = call[h]
    OBVIOUS
  <1>2. /\ c \in Calls /\ c.pc = "accountSave" /\ (c.whole => WholeInv(c))
        /\ c.user \in Accounts /\ c.new \in BOOLEAN
        /\ c.write \subseteq {"active", "email", "password"}
        /\ account \in Accounts /\ wanted \in Accounts /\ mixed \in BOOLEAN
    BY <1>1, CallFields DEF SessionsInv, AccountSave, CallAt, AccountInv,
                            AccountPCs, SessionsTypeOK
  <1>3. PICK given : given = [f \in DOMAIN account |->
                         IF f \in c.write THEN c.user[f] ELSE account[f]]
    OBVIOUS
  <1>4. /\ given \in Accounts
        /\ given.active = IF "active" \in c.write THEN c.user.active
                          ELSE account.active
        /\ given.email = IF "email" \in c.write THEN c.user.email
                         ELSE account.email
        /\ given.password = IF "password" \in c.write THEN c.user.password
                            ELSE account.password
    BY <1>2, <1>3 DEF Accounts
  <1>5. account' = [given EXCEPT !.there = TRUE]
    BY <1>1, <1>3 DEF AccountSave
  <1>6. /\ account' \in Accounts /\ account'.there
        /\ account'.active = given.active /\ account'.email = given.email
        /\ account'.password = given.password
    BY <1>4, <1>5 DEF Accounts
  <1>7. /\ wanted' = (IF c.new THEN [wanted EXCEPT !.password = c.user.password]
                      ELSE [wanted EXCEPT !.active = TRUE,
                              !.email = IF c.user.email = "new" THEN "new"
                                        ELSE @])
        /\ mixed' = (mixed \/ ~c.whole)
        /\ call' = [q \in Callers |-> IF q = h THEN IdleCall
                                      ELSE [call[q] EXCEPT !.whole = FALSE]]
        /\ UNCHANGED <<counters, sessionRows>>
    BY <1>1 DEF AccountSave
  <1>8. wanted' \in Accounts
    BY <1>2, <1>7 DEF Accounts
  <1>9. \A q \in Callers :
           /\ call'[q] \in Calls /\ (q = h => call'[q] = IdleCall)
           /\ q # h => /\ ~call'[q].whole /\ call'[q].pc = call[q].pc
                       /\ call'[q].sid = call[q].sid
                       /\ call'[q].hash = call[q].hash
                       /\ call'[q].alone = call[q].alone
    <2> TAKE q \in Callers
    <2>1. call[q] \in Calls
      BY CallFields DEF SessionsInv
    <2> QED BY <1>7, <2>1, IdleCallMeans DEF Calls
  <1>10. SessionsTypeOK'
    <2>1. call' \in [Callers -> Calls]
      BY <1>7, <1>9
    <2>2. mixed' \in BOOLEAN
      BY <1>2, <1>7 DEF Calls
    <2> QED BY <1>6, <1>7, <1>8, <2>1, <2>2 DEF SessionsInv, SessionsTypeOK,
                                                sessionRows
  <1>11. AccountInv'
    <2>1. \A q \in Callers : ~(call'[q].whole /\ call'[q].pc \in AccountPCs)
      BY <1>9, IdleCallMeans DEF AccountPCs
    <2>2. ASSUME ~mixed' PROVE account' = wanted'
      <3>1. ~mixed /\ c.whole /\ account = wanted /\ WholeInv(c)
        BY <1>2, <1>7, <2>2 DEF SessionsInv, AccountInv, AccountAsWanted
      <3>2. CASE c.new
        <4>1. /\ given.active = account.active /\ given.email = account.email
              /\ given.password = c.user.password
          BY <1>2, <1>4, <3>1, <3>2 DEF WholeInv
        <4> QED BY <1>2, <1>6, <1>7, <1>8, <3>1, <3>2, <4>1 DEF Accounts,
                                                               WholeInv
      <3>3. CASE ~c.new
        <4>1. /\ given.active = TRUE /\ given.email = c.user.email
              /\ given.password = account.password
              /\ c.user.email \in {account.email, "new"} /\ account.there
          BY <1>2, <1>4, <3>1, <3>3 DEF WholeInv, Accounts
        <4>2. /\ wanted'.active = TRUE /\ wanted'.there = wanted.there
              /\ wanted'.password = wanted.password
              /\ wanted'.email = (IF c.user.email = "new" THEN "new"
                                  ELSE wanted.email)
          BY <1>2, <1>7, <3>3 DEF Accounts
        <4>3. /\ account'.there = wanted'.there
              /\ account'.active = wanted'.active
              /\ account'.email = wanted'.email
              /\ account'.password = wanted'.password
          BY <1>2, <1>6, <3>1, <4>1, <4>2 DEF Accounts
        <4> QED BY <1>6, <1>8, <4>3 DEF Accounts
      <3> QED BY <3>2, <3>3
    <2> QED BY <2>1, <2>2 DEF AccountInv, AccountAsWanted
  <1>12. SessionInv'
    <2>1. \A q \in Callers : Onward(q)
      BY <1>1, <1>2, <1>9, IdleCallMeans DEF Onward, CallAt, RefreshPCs
    <2> QED BY <1>7, <2>1, SessionQuiet DEF SessionsInv
  <1> QED BY <1>10, <1>11, <1>12 DEF SessionsInv

LEMMA RemoveUserKeeps ==
  ASSUME SessionsInv, RemoveUser
  PROVE  SessionsInv'
  <1>1. /\ call' = [q \in Callers |-> [call[q] EXCEPT !.whole = FALSE]]
        /\ account' = [account EXCEPT !.there = FALSE]
        /\ wanted' = [wanted EXCEPT !.there = FALSE]
        /\ UNCHANGED <<counters, mixed, sessionRows>>
        /\ account \in Accounts /\ wanted \in Accounts
    BY DEF RemoveUser, SessionsInv, SessionsTypeOK
  <1>2. \A q \in Callers :
           /\ call'[q] \in Calls /\ ~call'[q].whole /\ call'[q].pc = call[q].pc
           /\ call'[q].sid = call[q].sid /\ call'[q].hash = call[q].hash
           /\ call'[q].alone = call[q].alone
    <2> TAKE q \in Callers
    <2>1. call[q] \in Calls
      BY CallFields DEF SessionsInv
    <2> QED BY <1>1, <2>1 DEF Calls
  <1>3. account' \in Accounts /\ wanted' \in Accounts
    BY <1>1 DEF Accounts
  <1>4. SessionsTypeOK'
    <2>1. call' \in [Callers -> Calls]
      BY <1>1, <1>2
    <2> QED BY <1>1, <1>3, <2>1 DEF SessionsInv, SessionsTypeOK, sessionRows
  <1>5. AccountInv'
    BY <1>1, <1>2 DEF SessionsInv, AccountInv, AccountAsWanted
  <1>6. SessionInv'
    <2>1. \A q \in Callers : Onward(q)
      BY <1>2 DEF Onward, CallAt
    <2> QED BY <1>1, <2>1, SessionQuiet DEF SessionsInv
  <1> QED BY <1>4, <1>5, <1>6 DEF SessionsInv

-----------------------------------------------------------------------------
(***************************************************************************)
(* The steps of a refresh.                                                 *)
(***************************************************************************)

\* They have nothing to do with the account.
LEMMA OfSession ==
  ASSUME SessionsInv, NEW h \in Callers, NEW c \in Calls, CallTo(h, c),
         c.pc \notin AccountPCs, UNCHANGED accountRows,
         counters' \in [hash : 0..MaxHash, password : 0..MaxPassword],
         session' \in [SessionIds -> SessionRows],
         held' \in [SessionIds -> 0..MaxHash],
         ended' \in SUBSET SessionIds, outrun' \in SUBSET SessionIds,
         crossed' \in SUBSET SessionIds, SessionInv'
  PROVE  SessionsInv'
  <1>1. call' \in [Callers -> Calls]
    BY CallToMeans DEF SessionsInv
  <1>2. SessionsTypeOK'
    BY <1>1 DEF SessionsInv, SessionsTypeOK, accountRows
  <1>3. AccountInv'
    BY AccountQuiet, NotOfAccount DEF SessionsInv
  <1> QED BY <1>2, <1>3 DEF SessionsInv

\* As for one that writes no row.
LEMMA QuietOfSession ==
  ASSUME SessionsInv, NEW h \in Callers, NEW c \in Calls, CallTo(h, c),
         c.pc \notin AccountPCs, UNCHANGED <<counters, sessionRows, accountRows>>,
         SessionInv'
  PROVE  SessionsInv'
  BY CountersStay, OfSession DEF SessionsInv, SessionsTypeOK, sessionRows

LEMMA StartRefreshKeeps ==
  ASSUME SessionsInv, NEW h \in Callers, NEW s \in SessionIds, StartRefresh(h, s)
  PROVE  SessionsInv'
  <1>1. PICK alone \in BOOLEAN : alone = \A q \in Callers : ~Refreshing(q, s)
    OBVIOUS
  <1>2. PICK c : c = [IdleCall EXCEPT !.pc = "refreshUser", !.sid = s,
                                      !.alone = alone]
    OBVIOUS
  <1>3. c \in Calls /\ c.pc = "refreshUser" /\ c.sid = s /\ c.alone = alone
    <2>1. s \in 0..MaxSession /\ "refreshUser" \in CallPCs
      BY SessionsAssumption DEF SessionIds, CallPCs
    <2> QED BY <1>1, <1>2, <2>1, IdleCallMeans DEF IdleCall, Calls
  <1>4. CallTo(h, c) /\ UNCHANGED <<counters, sessionRows, accountRows>>
        /\ Live(s) /\ CallAt(h, "idle")
    BY <1>1, <1>2 DEF StartRefresh
  <1>5. call'[h] = c /\ \A q \in Callers \ {h} : call'[q] = call[q]
    BY <1>3, <1>4, CallToMeans DEF SessionsInv
  <1>6. RefreshInv'
    BY <1>3, <1>4, <1>5 DEF SessionsInv, SessionInv, RefreshInv, sessionRows,
                            CallAt, RefreshPCs, Live
  <1>7. EndedInv'
    BY <1>4 DEF SessionsInv, SessionInv, EndedInv, EndedSessionStaysEnded,
                Live, sessionRows
  <1>8. AloneInv'
    <2> SUFFICES ASSUME NEW q \in Callers, call'[q].pc \in RefreshPCs
                 PROVE  /\ call'[q].alone =>
                             \A g \in Callers :
                                Refreshing(g, call[q].sid)' /\ call'[g].alone
                                   => g = q
                        /\ CallAt(q, "refreshAnswer")' =>
                             \/ (call[q].sid \in crossed)'
                             \/ /\ call'[q].alone
                                /\ call'[q].hash
                                     = session'[call'[q].sid].hash
      BY DEF AloneInv
    <2>1. CASE q = h
      <3>1. alone => \A g \in Callers \ {h} : ~(Refreshing(g, s)')
        BY <1>1, <1>5 DEF Refreshing
      <3> QED BY <2>1, <3>1, <1>3, <1>5 DEF CallAt
    <2>2. CASE q # h
      <3>1. call'[q] = call[q] /\ call[q].pc \in RefreshPCs
        BY <1>5, <2>2
      <3>2. /\ call[q].alone =>
                 \A g \in Callers : Refreshing(g, call[q].sid) /\ call[g].alone
                                      => g = q
            /\ CallAt(q, "refreshAnswer") =>
                 \/ call[q].sid \in crossed
                 \/ call[q].alone /\ call[q].hash = session[call[q].sid].hash
        BY <3>1 DEF SessionsInv, SessionInv, AloneInv
      <3>3. call[q].sid = s => ~alone
        BY <1>1, <3>1 DEF Refreshing
      <3>4. ASSUME NEW g \in Callers, Refreshing(g, call[q].sid)',
                   call'[g].alone
            PROVE  \/ call[q].sid = s /\ alone
                   \/ Refreshing(g, call[q].sid) /\ call[g].alone
        <4>1. CASE g = h
          BY <1>3, <1>5, <3>1, <3>4, <4>1 DEF Refreshing
        <4>2. CASE g # h
          BY <1>5, <3>1, <3>4, <4>2 DEF Refreshing
        <4> QED BY <4>1, <4>2
      <3> QED BY <1>4, <3>1, <3>2, <3>3, <3>4 DEF CallAt, sessionRows
    <2> QED BY <2>1, <2>2
  <1>9. HeldInv'
    <2>1. \A q \in Callers : \A t : Answering(q, t) => Answering(q, t)'
      BY <1>4, <1>5 DEF Answering, CallAt
    <2> QED BY <1>4, <2>1 DEF SessionsInv, SessionInv, HeldInv, Live,
                              sessionRows
  <1> QED BY <1>3, <1>4, <1>6, <1>7, <1>8, <1>9, QuietOfSession
          DEF AccountPCs, SessionInv

\* A refresh goes on reading, or ends before it has written.
LEMMA OnwardKeeps ==
  ASSUME SessionsInv, NEW h \in Callers, NEW c \in Calls, CallTo(h, c),
         \/ c.pc = "idle" /\ ~CallAt(h, "refreshAnswer")
         \/ /\ c.pc = "refreshRead" /\ call[h].pc \in RefreshPCs
            /\ ~CallAt(h, "refreshAnswer") /\ c.sid = call[h].sid
            /\ c.hash = call[h].hash /\ c.alone = call[h].alone,
         UNCHANGED <<counters, sessionRows, accountRows>>
  PROVE  SessionsInv'
  <1>1. call'[h] = c /\ \A q \in Callers \ {h} : call'[q] = call[q]
    BY CallToMeans DEF SessionsInv
  <1>2. \A q \in Callers : Onward(q)
    BY <1>1 DEF Onward, CallAt, RefreshPCs
  <1> QED BY <1>2, SessionQuiet, QuietOfSession DEF SessionsInv, AccountPCs

LEMMA RefreshUserKeeps ==
  ASSUME SessionsInv, NEW h \in Callers, RefreshUser(h)
  PROVE  SessionsInv'
  <1>1. call[h].pc = "refreshUser" /\ call[h] \in Calls
    BY CallFields DEF RefreshUser, CallAt, SessionsInv
  <1>2. CASE account.there
    <2>1. PICK c : c = [call[h] EXCEPT !.pc = "refreshRead"]
      OBVIOUS
    <2>2. /\ c \in Calls /\ c.pc = "refreshRead" /\ c.sid = call[h].sid
          /\ c.hash = call[h].hash /\ c.alone = call[h].alone
      BY <1>1, <2>1, GoesOn DEF CallPCs
    <2> QED BY <1>1, <1>2, <2>1, <2>2, OnwardKeeps
            DEF RefreshUser, RefreshPCs, CallAt
  <1>3. CASE ~account.there
    BY <1>1, <1>3, IdleCallMeans, OnwardKeeps DEF RefreshUser, Hang, CallAt
  <1> QED BY <1>2, <1>3

LEMMA RefreshReadKeeps ==
  ASSUME SessionsInv, NEW h \in Callers, RefreshRead(h)
  PROVE  SessionsInv'
  <1>1. call[h].pc = "refreshRead" /\ call[h] \in Calls
    BY CallFields DEF RefreshRead, CallAt, SessionsInv
  <1>2. CASE Live(call[h].sid)
    <2>1. PICK c : c = [call[h] EXCEPT !.pc = "refreshSave"]
      OBVIOUS
    <2>2. /\ c \in Calls /\ c.pc = "refreshSave" /\ c.sid = call[h].sid
          /\ c.hash = call[h].hash /\ c.alone = call[h].alone
      BY <1>1, <2>1, GoesOn DEF CallPCs
    <2>3. CallTo(h, c) /\ UNCHANGED <<counters, sessionRows, accountRows>>
      BY <1>2, <2>1 DEF RefreshRead
    <2>4. call'[h] = c /\ \A q \in Callers \ {h} : call'[q] = call[q]
      BY <2>2, <2>3, CallToMeans DEF SessionsInv
    <2>5. c.sid \in SessionIds /\ (c.sid \in ended => c.sid \in outrun)
      BY <1>1, <1>2, <2>2 DEF SessionsInv, SessionInv, RefreshInv, RefreshPCs,
                              EndedInv, EndedSessionStaysEnded
    <2>6. RefreshInv'
      BY <1>1, <2>2, <2>3, <2>4, <2>5 DEF SessionsInv, SessionInv, RefreshInv,
                                     sessionRows, CallAt, RefreshPCs
    <2>7. EndedInv'
      BY <2>3 DEF SessionsInv, SessionInv, EndedInv, EndedSessionStaysEnded,
                  Live, sessionRows
    <2>8. \A q \in Callers : /\ call'[q].pc \in RefreshPCs
                                   <=> call[q].pc \in RefreshPCs
                             /\ call'[q].sid = call[q].sid
                             /\ call'[q].alone = call[q].alone
                             /\ call'[q].hash = call[q].hash
                             /\ CallAt(q, "refreshAnswer")'
                                   <=> CallAt(q, "refreshAnswer")
      BY <1>1, <2>2, <2>4 DEF RefreshPCs, CallAt
    <2>9. AloneInv'
      BY <2>3, <2>8 DEF SessionsInv, SessionInv, AloneInv, Refreshing,
                        sessionRows
    <2>10. HeldInv'
      BY <2>3, <2>8 DEF SessionsInv, SessionInv, HeldInv, Answering, Live,
                        sessionRows
    <2> QED BY <2>2, <2>3, <2>6, <2>7, <2>9, <2>10, QuietOfSession
            DEF AccountPCs, SessionInv
  <1>3. CASE ~Live(call[h].sid)
    BY <1>1, <1>3, IdleCallMeans, OnwardKeeps DEF RefreshRead, Hang, CallAt
  <1> QED BY <1>2, <1>3

\* What is read of a refresh that does not move.
Unmoved(q) ==
    /\ call'[q].pc \in RefreshPCs <=> call[q].pc \in RefreshPCs
    /\ call'[q].pc = "refreshSave" <=> call[q].pc = "refreshSave"
    /\ call'[q].pc = "refreshAnswer" <=> call[q].pc = "refreshAnswer"
    /\ call'[q].sid = call[q].sid /\ call'[q].alone = call[q].alone
    /\ call'[q].hash = call[q].hash

\* The row is live with a new hash, which is on its way to the client.
LEMMA RefreshSaveKeeps ==
  ASSUME SessionsInv, NEW h \in Callers, RefreshSave(h)
  PROVE  SessionsInv'
  <1>1. PICK s, hash : s = call[h].sid /\ hash = counters'.hash
    OBVIOUS
  <1>2. /\ call[h].pc = "refreshSave" /\ call[h] \in Calls /\ s \in SessionIds
        /\ (s \in ended => s \in outrun) /\ session[s].state # "none"
    BY <1>1, CallFields DEF RefreshSave, CallAt, SessionsInv, SessionInv,
                            RefreshInv, RefreshPCs
  <1>3. /\ counters' \in [hash : 0..MaxHash, password : 0..MaxPassword]
        /\ hash \in 0..MaxHash
    BY <1>1, FreshMeans DEF RefreshSave, SessionsInv
  <1>4. PICK c : c = [call[h] EXCEPT !.pc = "refreshAnswer", !.hash = hash]
    OBVIOUS
  <1>5. /\ c \in Calls /\ c.pc = "refreshAnswer" /\ c.sid = s /\ c.hash = hash
        /\ c.alone = call[h].alone
    BY <1>1, <1>2, <1>3, <1>4 DEF Calls, CallPCs
  <1>6. /\ CallTo(h, c) /\ UNCHANGED <<held, ended, outrun, accountRows>>
        /\ session' = [session EXCEPT ![s] = [state |-> "live", hash |-> hash]]
        /\ crossed' = IF call[h].alone THEN crossed ELSE crossed \cup {s}
    BY <1>1, <1>4 DEF RefreshSave
  <1>7. call'[h] = c /\ \A q \in Callers \ {h} : call'[q] = call[q]
    BY <1>5, <1>6, CallToMeans DEF SessionsInv
  <1>8. /\ session' \in [SessionIds -> SessionRows]
        /\ session'[s].state = "live" /\ session'[s].hash = hash
        /\ \A t \in SessionIds \ {s} : session'[t] = session[t]
        /\ crossed' \in SUBSET SessionIds /\ crossed \subseteq crossed'
    BY <1>2, <1>3, <1>6 DEF SessionsInv, SessionsTypeOK, SessionRows
  <1>9. RefreshInv'
    BY <1>2, <1>5, <1>6, <1>7, <1>8 DEF SessionsInv, SessionInv, RefreshInv,
                                        CallAt, RefreshPCs
  <1>10. EndedInv'
    BY <1>2, <1>6, <1>8 DEF SessionsInv, SessionsTypeOK, SessionInv, EndedInv,
                            EndedSessionStaysEnded, Live
  <1>11. AloneInv'
    <2>1. \A q \in Callers : /\ call'[q].pc \in RefreshPCs
                                   <=> call[q].pc \in RefreshPCs
                             /\ call'[q].sid = call[q].sid
                             /\ call'[q].alone = call[q].alone
      BY <1>1, <1>2, <1>5, <1>7 DEF RefreshPCs
    <2>2. \A q \in Callers : \A t : Refreshing(q, t)' <=> Refreshing(q, t)
      BY <2>1 DEF Refreshing
    <2> SUFFICES ASSUME NEW q \in Callers, call[q].pc \in RefreshPCs,
                        call'[q].pc = "refreshAnswer"
                 PROVE  \/ call'[q].sid \in crossed'
                        \/ /\ call'[q].alone
                           /\ call'[q].hash = session'[call'[q].sid].hash
      BY <2>1, <2>2 DEF AloneInv, SessionsInv, SessionInv, CallAt
    <2>3. CASE q = h
      BY <2>3, <1>5, <1>6, <1>7, <1>8
    <2>4. CASE q # h
      <3>1. /\ call'[q] = call[q] /\ call[q].sid \in SessionIds
            /\ \/ call[q].sid \in crossed
               \/ call[q].alone /\ call[q].hash = session[call[q].sid].hash
        BY <1>7, <2>4 DEF SessionsInv, SessionInv, AloneInv, RefreshInv, CallAt
      <3>2. CASE call[q].sid # s
        BY <3>1, <3>2, <1>8
      <3>3. CASE call[q].sid = s
        <4>1. Refreshing(q, s) /\ Refreshing(h, s)
          BY <1>1, <1>2, <3>3 DEF Refreshing, RefreshPCs
        <4>2. ~(call[q].alone /\ call[h].alone)
          BY <4>1, <2>4, <1>1 DEF SessionsInv, SessionInv, AloneInv, Refreshing
        <4> QED BY <3>1, <3>3, <4>2, <1>6
      <3> QED BY <3>2, <3>3
    <2> QED BY <2>3, <2>4
  <1>12. HeldInv'
    <2>1. Answering(h, s)'
      BY <1>5, <1>7 DEF Answering, CallAt
    <2>2. \A q \in Callers : \A t : Answering(q, t) => Answering(q, t)'
      BY <1>2, <1>7 DEF Answering, CallAt
    <2> QED BY <1>6, <1>8, <2>1, <2>2 DEF SessionsInv, SessionInv, HeldInv, Live
  <1>13. held' \in [SessionIds -> 0..MaxHash] /\ ended' \in SUBSET SessionIds
         /\ outrun' \in SUBSET SessionIds
    BY <1>6 DEF SessionsInv, SessionsTypeOK
  <1> QED BY <1>3, <1>5, <1>6, <1>8, <1>9, <1>10, <1>11, <1>12, <1>13,
             OfSession DEF AccountPCs, SessionInv

\* A handler leaves, with the session it refreshed crossed or answered.
LEMMA AnswerLeaves ==
  ASSUME SessionsInv, NEW h \in Callers, CallAt(h, "refreshAnswer"),
         Hang(h), UNCHANGED <<counters, session, ended, outrun, accountRows>>,
         NEW s, s = call[h].sid,
         \/ crossed' = crossed \cup {s} /\ held' = held
         \/ /\ crossed' = IF call[h].alone THEN crossed ELSE crossed \cup {s}
            /\ held' = [held EXCEPT ![s] = call[h].hash]
  PROVE  SessionsInv'
  <1>1. call'[h] = IdleCall /\ \A q \in Callers \ {h} : call'[q] = call[q]
    BY IdleCallMeans, CallToMeans DEF SessionsInv, Hang
  <1>2. /\ call[h].pc \in RefreshPCs /\ s \in SessionIds
        /\ s \in crossed \/ call[h].hash = session[s].hash
        /\ call[h].hash \in 0..MaxHash
    BY CallFields DEF CallAt, RefreshPCs, SessionsInv, SessionInv, RefreshInv,
                      AloneInv
  <1>3. /\ crossed' \in SUBSET SessionIds /\ crossed \subseteq crossed'
        /\ held' \in [SessionIds -> 0..MaxHash]
        /\ \A t \in SessionIds \ {s} : held'[t] = held[t]
        /\ s \in crossed' \/ held'[s] = call[h].hash
        /\ session' = session /\ ended' = ended /\ outrun' = outrun
        /\ ended' \in SUBSET SessionIds /\ outrun' \in SUBSET SessionIds
        /\ session' \in [SessionIds -> SessionRows]
    BY <1>2 DEF SessionsInv, SessionsTypeOK
  <1>4. \A q \in Callers : call'[q].pc \in RefreshPCs => call'[q] = call[q]
    BY <1>1, IdleCallMeans DEF RefreshPCs
  <1>5. RefreshInv'
    BY <1>3, <1>4 DEF SessionsInv, SessionInv, RefreshInv, CallAt
  <1>6. EndedInv'
    BY <1>3 DEF SessionsInv, SessionInv, EndedInv, EndedSessionStaysEnded, Live
  <1>7. \A g \in Callers : \A t : Refreshing(g, t)' => Refreshing(g, t)
                                                    /\ call'[g] = call[g]
    BY <1>4 DEF Refreshing
  <1>8. AloneInv'
    BY <1>3, <1>4, <1>7 DEF SessionsInv, SessionInv, AloneInv, CallAt
  <1>9. \A g \in Callers : \A t : t # s /\ Answering(g, t) => Answering(g, t)'
    BY <1>1 DEF Answering, CallAt
  <1>10. HeldInv'
    BY <1>2, <1>3, <1>9 DEF SessionsInv, SessionInv, HeldInv, Live
  <1> QED BY <1>3, <1>5, <1>6, <1>8, <1>10, IdleCallMeans, CountersStay,
             OfSession DEF AccountPCs, SessionInv, Hang

LEMMA RefreshAnswerKeeps ==
  ASSUME SessionsInv, NEW h \in Callers, RefreshAnswer(h)
  PROVE  SessionsInv'
  <1>1. PICK s : s = call[h].sid
    OBVIOUS
  <1> QED BY <1>1, AnswerLeaves DEF RefreshAnswer

LEMMA CallFailsKeeps ==
  ASSUME SessionsInv, NEW h \in Callers, CallFails(h)
  PROVE  SessionsInv'
  <1>1. CASE CallAt(h, "refreshAnswer")
    <2>1. PICK s : s = call[h].sid
      OBVIOUS
    <2>2. /\ Hang(h) /\ crossed' = crossed \cup {s} /\ held' = held
          /\ UNCHANGED <<counters, session, ended, outrun, accountRows>>
      BY <1>1, <2>1 DEF CallFails
    <2> QED BY <1>1, <2>1, <2>2, AnswerLeaves
  <1>2. CASE ~CallAt(h, "refreshAnswer")
    BY <1>2, IdleCallMeans, OnwardKeeps DEF CallFails, Hang, sessionRows
  <1> QED BY <1>1, <1>2

\* A session nobody knows of yet.
LEMMA CreateSessionKeeps ==
  ASSUME SessionsInv, NEW h \in Callers, CreateSession(h)
  PROVE  SessionsInv'
  <1>1. PICK s \in SessionIds :
          /\ session[s].state = "none"
          /\ session' = [session EXCEPT ![s] = [state |-> "live",
                                                hash |-> counters'.hash]]
          /\ held' = [held EXCEPT ![s] = counters'.hash]
    BY DEF CreateSession
  <1>2. /\ counters' \in [hash : 0..MaxHash, password : 0..MaxPassword]
        /\ counters'.hash \in 0..MaxHash
    BY FreshMeans DEF CreateSession, SessionsInv
  <1>3. /\ call'[h] = IdleCall /\ \A q \in Callers \ {h} : call'[q] = call[q]
        /\ call[h].pc = "createSession"
        /\ UNCHANGED <<ended, outrun, crossed, accountRows>>
    BY IdleCallMeans, CallToMeans DEF SessionsInv, CreateSession, Hang, CallAt
  <1>4. /\ session' \in [SessionIds -> SessionRows]
        /\ held' \in [SessionIds -> 0..MaxHash]
        /\ session'[s].state = "live" /\ session'[s].hash = held'[s]
        /\ \A t \in SessionIds \ {s} : session'[t] = session[t]
                                       /\ held'[t] = held[t]
    BY <1>1, <1>2 DEF SessionsInv, SessionsTypeOK, SessionRows
  <1>5. \A q \in Callers : call'[q].pc \in RefreshPCs => call'[q] = call[q]
    BY <1>3, IdleCallMeans DEF RefreshPCs
  <1>6. /\ \A q \in Callers : call[q].pc \in RefreshPCs =>
              call[q].sid \in SessionIds \ {s}
        /\ s \notin ended /\ ended \subseteq SessionIds
    BY <1>1 DEF SessionsInv, SessionInv, RefreshInv, EndedInv, SessionsTypeOK
  <1>7. RefreshInv'
    BY <1>3, <1>4, <1>5, <1>6 DEF SessionsInv, SessionInv, RefreshInv, CallAt
  <1>8. EndedInv'
    BY <1>3, <1>4, <1>6 DEF SessionsInv, SessionInv, EndedInv,
                            EndedSessionStaysEnded, Live
  <1>9. \A g \in Callers : \A t : Refreshing(g, t)' => Refreshing(g, t)
                                                    /\ call'[g] = call[g]
    BY <1>5 DEF Refreshing
  <1>10. AloneInv'
    BY <1>3, <1>4, <1>5, <1>6, <1>9 DEF SessionsInv, SessionInv, AloneInv,
                                        CallAt
  <1>11. \A g \in Callers : \A t : Answering(g, t) => Answering(g, t)'
    BY <1>3 DEF Answering, CallAt
  <1>12. HeldInv'
    BY <1>3, <1>4, <1>11 DEF SessionsInv, SessionInv, HeldInv, Live
  <1>13. /\ ended' \in SUBSET SessionIds /\ outrun' \in SUBSET SessionIds
         /\ crossed' \in SUBSET SessionIds
    BY <1>3 DEF SessionsInv, SessionsTypeOK
  <1> QED BY <1>2, <1>3, <1>4, <1>7, <1>8, <1>10, <1>12, <1>13, IdleCallMeans,
             OfSession DEF AccountPCs, SessionInv, CreateSession, Hang

\* Ended sessions: a refresh that is about to write one is remembered.
LEMMA EndingKeeps ==
  ASSUME SessionsInv, NEW S \in SUBSET SessionIds, EndSessions(S),
         UNCHANGED <<held, crossed>>, \A q \in Callers : Unmoved(q)
  PROVE  SessionInv'
  <1>1. /\ ended' \in SUBSET SessionIds
        /\ ended \subseteq ended' /\ outrun \subseteq outrun'
        /\ \A s \in SessionIds :
               \/ session'[s] = session[s] /\ (s \in ended' => s \in ended)
               \/ /\ session'[s].state = "deleted" /\ s \in ended'
                  /\ Live(s) /\ session'[s].hash = session[s].hash
                  /\ \A h \in Callers :
                        Refreshing(h, s) /\ CallAt(h, "refreshSave")
                           => s \in outrun'
    BY EndSessionsMeans DEF SessionsInv
  <1>2. \A q \in Callers : \A t : /\ Refreshing(q, t)' <=> Refreshing(q, t)
                                  /\ Answering(q, t)' <=> Answering(q, t)
    BY DEF Unmoved, Refreshing, Answering, CallAt
  <1>3. \A s \in SessionIds : session'[s].hash = session[s].hash
    BY <1>1
  <1>4. RefreshInv'
    BY <1>1 DEF SessionsInv, SessionInv, RefreshInv, Unmoved, CallAt,
                Refreshing
  <1>5. EndedInv'
    BY <1>1 DEF SessionsInv, SessionInv, EndedInv, EndedSessionStaysEnded, Live
  <1>6. AloneInv'
    BY <1>2, <1>3 DEF SessionsInv, SessionInv, AloneInv, RefreshInv, Unmoved,
                      CallAt
  <1>7. HeldInv'
    BY <1>1, <1>2 DEF SessionsInv, SessionInv, HeldInv, Live
  <1> QED BY <1>4, <1>5, <1>6, <1>7 DEF SessionInv

LEMMA LogoutKeeps ==
  ASSUME SessionsInv, NEW s \in SessionIds, Logout(s)
  PROVE  SessionsInv'
  <1>1. EndSessions({s}) /\ {s} \in SUBSET SessionIds
        /\ UNCHANGED <<held, call, counters, crossed, accountRows>>
    BY DEF Logout
  <1>2. SessionInv'
    <2>1. \A q \in Callers : Unmoved(q)
      BY <1>1 DEF Unmoved
    <2> QED BY <1>1, <2>1, EndingKeeps
  <1>3. SessionsTypeOK'
    BY <1>1, EndSessionsMeans DEF SessionsInv, SessionsTypeOK, accountRows
  <1>4. AccountInv'
    BY <1>1, AccountQuiet DEF SessionsInv
  <1> QED BY <1>2, <1>3, <1>4 DEF SessionsInv

LEMMA DeleteByUserIdKeeps ==
  ASSUME SessionsInv, NEW h \in Callers, DeleteByUserId(h)
  PROVE  SessionsInv'
  <1>1. PICK c, S : /\ c = [call[h] EXCEPT !.pc = "compare"]
                    /\ S = SessionIds \ {call[h].sid}
    OBVIOUS
  <1>2. /\ S \in SUBSET SessionIds /\ EndSessions(S) /\ CallTo(h, c)
        /\ UNCHANGED <<held, counters, crossed, accountRows>>
        /\ call[h].pc = "endSessions" /\ call[h] \in Calls
    BY <1>1, CallFields DEF DeleteByUserId, CallAt, SessionsInv
  <1>3. /\ c \in Calls /\ c.pc = "compare" /\ c.sid = call[h].sid
        /\ c.hash = call[h].hash /\ c.alone = call[h].alone
        /\ c.whole = call[h].whole /\ c.user = call[h].user
        /\ c.new = call[h].new /\ c.write = call[h].write
    BY <1>1, <1>2, GoesOn DEF CallPCs
  <1>4. /\ call' \in [Callers -> Calls] /\ call'[h] = c
        /\ \A q \in Callers \ {h} : call'[q] = call[q]
    BY <1>2, <1>3, CallToMeans DEF SessionsInv
  <1>5. SessionInv'
    <2>1. \A q \in Callers : Unmoved(q)
      BY <1>2, <1>3, <1>4 DEF Unmoved, RefreshPCs
    <2> QED BY <1>2, <2>1, EndingKeeps
  <1>6. SessionsTypeOK'
    BY <1>2, <1>4, EndSessionsMeans DEF SessionsInv, SessionsTypeOK, accountRows
  <1>7. AccountInv'
    <2>1. c.whole => WholeInv(c)
      BY <1>2, <1>3 DEF SessionsInv, AccountInv, AccountPCs, WholeInv
    <2> QED BY <1>2, <1>3, <2>1, NotOfAccount, AccountQuiet DEF SessionsInv
  <1> QED BY <1>5, <1>6, <1>7 DEF SessionsInv

-----------------------------------------------------------------------------
(***************************************************************************)
(* Every step, and what follows.                                           *)
(***************************************************************************)

LEMMA InitKeeps == SessionsInit => SessionsInv
  <1> SUFFICES ASSUME SessionsInit PROVE SessionsInv
    OBVIOUS
  <1>1. SessionsTypeOK
    <2>1. /\ 0 \in 0..MaxHash /\ 0 \in 0..MaxPassword /\ 1 \in 0..MaxPassword
          /\ [hash |-> 0, password |-> 1]
                \in [hash : 0..MaxHash, password : 0..MaxPassword]
      BY SessionsAssumption
    <2>2. [state |-> "none", hash |-> 0] \in SessionRows
      BY <2>1 DEF SessionRows
    <2> QED BY <2>1, <2>2, IdleCallMeans DEF SessionsInit, SessionsTypeOK
  <1>2. \A h \in Callers : call[h].pc = "idle"
    BY IdleCallMeans DEF SessionsInit
  <1>3. AccountInv
    BY <1>2 DEF AccountInv, AccountAsWanted, AccountPCs, SessionsInit
  <1>4. RefreshInv /\ AloneInv
    BY <1>2 DEF RefreshInv, AloneInv, RefreshPCs
  <1>5. EndedInv /\ HeldInv
    BY DEF EndedInv, EndedSessionStaysEnded, HeldInv, Live, SessionsInit
  <1> QED BY <1>1, <1>3, <1>4, <1>5 DEF SessionsInv, SessionInv

LEMMA NextKeeps == SessionsInv /\ [SessionsNext]_sessionsVars => SessionsInv'
  <1> SUFFICES ASSUME SessionsInv, [SessionsNext]_sessionsVars
               PROVE  SessionsInv'
    OBVIOUS
  <1>1. ASSUME NEW h \in Callers, CallStep(h) PROVE SessionsInv'
    BY <1>1, StartLoginKeeps, CreateSessionKeeps, RefreshUserKeeps,
       RefreshReadKeeps, RefreshSaveKeeps, RefreshAnswerKeeps, StartResetKeeps,
       DeleteByUserIdKeeps, StartConfirmsKeep, HashNewPasswordKeeps,
       AccountReadKeeps, AccountSaveKeeps, CallFailsKeeps DEF CallStep
  <1>2. ASSUME NEW h \in Callers, NEW s \in SessionIds,
               StartRefresh(h, s) \/ StartChangePassword(h, s)
        PROVE  SessionsInv'
    BY <1>2, StartRefreshKeeps, StartChangePasswordKeeps
  <1>3. ASSUME NEW s \in SessionIds, Logout(s) PROVE SessionsInv'
    BY <1>3, LogoutKeeps
  <1>4. CASE RemoveUser
    BY <1>4, RemoveUserKeeps
  <1>5. CASE UNCHANGED sessionsVars
    <2>1. /\ UNCHANGED <<sessionRows, accountRows>> /\ UNCHANGED counters
          /\ call' = call
      BY <1>5 DEF sessionsVars, sessionRows, accountRows
    <2>2. SessionsTypeOK'
      BY <2>1, CountersStay, QuietTypes DEF SessionsInv, SessionsTypeOK
    <2>3. AccountInv'
      BY <2>1, AccountQuiet DEF SessionsInv
    <2>4. \A q \in Callers : Onward(q)
      BY <2>1 DEF Onward, CallAt
    <2> QED BY <2>1, <2>2, <2>3, <2>4, SessionQuiet DEF SessionsInv
  <1> QED BY <1>1, <1>2, <1>3, <1>4, <1>5 DEF SessionsNext

\* What the handlers know of the account and of their sessions.
THEOREM SessionsInvariance == SessionsSpec => []SessionsInv
  BY InitKeeps, NextKeeps, PTL DEF SessionsSpec

\* The account, the sessions and the handlers keep their shape.
THEOREM SessionsTypes == SessionsSpec => []SessionsTypeOK
  <1>1. SessionsInv => SessionsTypeOK
    BY DEF SessionsInv
  <1> QED BY <1>1, SessionsInvariance, PTL

\* Logging out and a new password end sessions for good, but for a refresh
\* that had read one before (AuthService and SessionService).
THEOREM EndedStaysEnded == SessionsSpec => []EndedSessionStaysEnded
  <1>1. SessionsInv => EndedSessionStaysEnded
    BY DEF SessionsInv, SessionInv, EndedInv
  <1> QED BY <1>1, SessionsInvariance, PTL

\* The whole rows that resets and confirmations write back do no harm unless
\* they overlap (AuthService and UsersService.update).
THEOREM AccountStaysAsWanted == SessionsSpec => []AccountAsWanted
  <1>1. SessionsInv => AccountAsWanted
    BY DEF SessionsInv, AccountInv
  <1> QED BY <1>1, SessionsInvariance, PTL

\* A client that refreshes one request at a time holds the hash of its row.
THEOREM HeldHashStaysCurrent == SessionsSpec => []HeldHashIsCurrent
  <1>1. SessionsInv => HeldHashIsCurrent
    BY DEF SessionsInv, SessionInv, HeldInv, HeldHashIsCurrent, Answering,
           Refreshing, CallAt, RefreshPCs
  <1> QED BY <1>1, SessionsInvariance, PTL

=============================================================================
