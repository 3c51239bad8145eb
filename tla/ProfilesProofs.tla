---------------------------- MODULE ProfilesProofs ----------------------------
(***************************************************************************)
(* What Profiles guarantees of numbers and removals, for any number of     *)
(* students, accounts and requests.  Behind it is that the students of the *)
(* table are numbered in the order of their rows without a gap, removed    *)
(* ones included (NumberInv): a number is generated without a lock, but    *)
(* the key refuses all that do not fit.                                    *)
(***************************************************************************)
EXTENDS Profiles, TLAPS, WellFoundedInduction, FiniteSetTheorems

UpdatePCs == {"updateFind", "updateUser", "updateRead", "updateSave"}

\* What a handler with this record knows.
RequestInv(c) ==
    /\ c.pc \in {"checkUser", "insert"} => c.number # 0
    /\ c.pc \in {"checkEmail", "createUser"} /\ ~c.parent => c.number # 0
    /\ c.pc \in {"checkUser", "ensureUser", "ensureEmail"} =>
          c.user \in Addresses
    /\ c.pc \in {"checkEmail", "createUser", "ensureUser", "ensureEmail"} =>
          c.email \in Addresses
    /\ c.pc = "updateUser" => c.user \in Addresses
    /\ c.pc = "updateFind" => c.user # Nobody
    /\ c.pc \in UpdatePCs => c.found \in ProfileIds
                               /\ profile[c.found].state # "none"
    /\ c.pc = "updateSave" =>
          /\ c.row.number = c.found /\ c.row.state = "live"
          /\ c.found \notin removedFirst

\* With k students made, the number a handler generated is at most the next,
\* and is the next when it saw the newest and nobody was faster.
Numbered(k) ==
    /\ MadeProfiles = 1..k
    /\ \A p \in 1..k : profile[p].number = p
    /\ \A h \in ProfileCalls :
          /\ profileCall[h].number <= k + 1
          /\ profileCall[h].behind \/ profileCall[h].overtaken
                \/ profileCall[h].number \in {0, k + 1}

ProfilesInv ==
    /\ ProfilesTypeOK
    /\ \E k \in 0..MaxProfile : Numbered(k)
    /\ RemovedProfileStaysRemoved
    /\ \A h \in ProfileCalls : RequestInv(profileCall[h])

-----------------------------------------------------------------------------
(***************************************************************************)
(* Numbers.                                                                *)
(***************************************************************************)

\* A set of ids that is not empty has a newest one.
LEMMA NewestExists ==
  ASSUME NEW k \in Nat, NEW P \in SUBSET (1..k), P # {}
  PROVE  NewestOf(P) \in P /\ \A q \in P : q <= NewestOf(P)
  <1> DEFINE D == {k - q : q \in P}
  <1>1. D \subseteq Nat /\ D # {}
    <2>1. \A q \in P : k - q \in Nat
      BY P \subseteq 1..k
    <2> QED BY <2>1
  <1>2. PICK x \in D : \A y \in D : ~(<<y, x>> \in OpToRel(<, Nat))
    BY <1>1, NatLessThanWellFounded, WFMin
  <1>3. \A y \in D : ~(y < x)
    BY <1>1, <1>2 DEF OpToRel
  <1>4. PICK p \in P : x = k - p
    BY <1>2
  <1>5. \A q \in P : q <= p
    <2> TAKE q \in P
    <2>1. ~(k - q < k - p)
      BY <1>3, <1>4
    <2> QED BY <2>1
  <1> QED BY <1>5 DEF NewestOf

LEMMA NoRequestMeans ==
  /\ NoRequest \in ProfileHandlers /\ NoRequest.pc = "idle"
  /\ NoRequest.number = 0 /\ RequestInv(NoRequest)
  <1>1. 0 \in 0..(MaxProfile + 1) /\ 0 \in 0..MaxProfile
    BY ProfilesAssumption
  <1>2. NoProfile \in ProfileRows
    BY <1>1 DEF NoProfile, ProfileRows, Owners
  <1> QED BY <1>1, <1>2 DEF NoRequest, ProfileHandlers, ProfilePCs, ProfileOps,
                            Owners, RequestInv, UpdatePCs

LEMMA RequestFields ==
  ASSUME ProfilesInv, NEW h \in ProfileCalls
  PROVE  /\ profileCall[h] \in ProfileHandlers /\ RequestInv(profileCall[h])
         /\ profileCall[h].number \in 0..(MaxProfile + 1)
         /\ profileCall[h].user \in Owners /\ profileCall[h].email \in Owners
  BY DEF ProfilesInv, ProfilesTypeOK, ProfileHandlers

LEMMA ProfileToMeans ==
  ASSUME ProfilesTypeOK, NEW h \in ProfileCalls, NEW c \in ProfileHandlers,
         ProfileTo(h, c)
  PROVE  /\ profileCall' \in [ProfileCalls -> ProfileHandlers]
         /\ profileCall'[h] = c
         /\ \A q \in ProfileCalls \ {h} : profileCall'[q] = profileCall[q]
  BY DEF ProfilesTypeOK, ProfileTo

\* A step of one handler that leaves the students and what was removed.
LEMMA QuietStep ==
  ASSUME ProfilesInv, NEW h \in ProfileCalls, NEW c \in ProfileHandlers,
         ProfileTo(h, c), UNCHANGED <<profile, removedFirst>>,
         owner' \in [Addresses -> {"none", "live", "removed"}],
         meddled' \in SUBSET Addresses, RequestInv(c),
         \A k \in 0..MaxProfile : Numbered(k) =>
            /\ c.number <= k + 1
            /\ c.behind \/ c.overtaken \/ c.number \in {0, k + 1}
  PROVE  ProfilesInv'
  <1>1. /\ profileCall' \in [ProfileCalls -> ProfileHandlers]
        /\ profileCall'[h] = c
        /\ \A q \in ProfileCalls \ {h} : profileCall'[q] = profileCall[q]
    BY ProfileToMeans DEF ProfilesInv
  <1>2. ProfilesTypeOK'
    BY <1>1 DEF ProfilesInv, ProfilesTypeOK
  <1>3. PICK k \in 0..MaxProfile : Numbered(k)
    BY DEF ProfilesInv
  <1>4. Numbered(k)'
    BY <1>1, <1>3 DEF Numbered, MadeProfiles
  <1>5. RemovedProfileStaysRemoved'
    BY DEF ProfilesInv, RemovedProfileStaysRemoved
  <1>6. \A q \in ProfileCalls : RequestInv(profileCall[q])'
    BY <1>1 DEF ProfilesInv, RequestInv
  <1> QED BY <1>2, <1>3, <1>4, <1>5, <1>6 DEF ProfilesInv

\* A handler whose number stays is no exception.
LEMMA SameNumber ==
  ASSUME ProfilesInv, NEW h \in ProfileCalls, NEW c,
         \/ c.number = 0
         \/ /\ c.number = profileCall[h].number
            /\ c.behind = profileCall[h].behind
            /\ c.overtaken = profileCall[h].overtaken
  PROVE  \A k \in 0..MaxProfile : Numbered(k) =>
            /\ c.number <= k + 1
            /\ c.behind \/ c.overtaken \/ c.number \in {0, k + 1}
  BY DEF Numbered

LEMMA OthersStay ==
  ASSUME ProfilesInv
  PROVE  /\ owner' = owner =>
               owner' \in [Addresses -> {"none", "live", "removed"}]
         /\ meddled' = meddled => meddled' \in SUBSET Addresses
         /\ \A S : S \subseteq Owners =>
               meddled \cup (S \ {Nobody}) \in SUBSET Addresses
  BY DEF ProfilesInv, ProfilesTypeOK, Owners

-----------------------------------------------------------------------------
(***************************************************************************)
(* The steps that write no student.                                        *)
(***************************************************************************)

\* A handler that goes on with the same record at another place.
LEMMA OnTo ==
  ASSUME NEW c \in ProfileHandlers, NEW pc \in ProfilePCs
  PROVE  LET d == [c EXCEPT !.pc = pc] IN
         /\ d \in ProfileHandlers /\ d.pc = pc /\ d.number = c.number
         /\ d.user = c.user /\ d.email = c.email /\ d.found = c.found
         /\ d.row = c.row /\ d.parent = c.parent /\ d.op = c.op
         /\ d.behind = c.behind /\ d.overtaken = c.overtaken
  BY DEF ProfileHandlers

LEMMA EndKeeps ==
  ASSUME ProfilesInv, NEW h \in ProfileCalls, ProfileEnds(h),
         UNCHANGED <<profile, meddled, removedFirst>>,
         owner' \in [Addresses -> {"none", "live", "removed"}]
  PROVE  ProfilesInv'
  <1>1. meddled' \in SUBSET Addresses
    BY OthersStay
  <1> QED BY <1>1, NoRequestMeans, SameNumber, QuietStep DEF ProfileEnds

LEMMA OnToKeeps ==
  ASSUME ProfilesInv, NEW h \in ProfileCalls, NEW pc \in ProfilePCs,
         ProfileTo(h, [profileCall[h] EXCEPT !.pc = pc]),
         UNCHANGED <<profile, meddled, removedFirst>>,
         owner' \in [Addresses -> {"none", "live", "removed"}],
         pc # "updateSave",
         pc \in {"checkUser", "insert"} => profileCall[h].number # 0,
         pc \in {"checkEmail", "createUser"} /\ ~profileCall[h].parent =>
            profileCall[h].number # 0,
         pc \in {"checkUser", "ensureUser", "ensureEmail", "updateUser"} =>
            profileCall[h].user \in Addresses,
         pc \in {"checkEmail", "createUser", "ensureUser", "ensureEmail"} =>
            profileCall[h].email \in Addresses,
         pc = "updateFind" => profileCall[h].user # Nobody,
         pc \in UpdatePCs => profileCall[h].pc \in UpdatePCs
  PROVE  ProfilesInv'
  <1>1. PICK c : c = [profileCall[h] EXCEPT !.pc = pc]
    OBVIOUS
  <1>2. /\ c \in ProfileHandlers /\ c.pc = pc /\ c.number = profileCall[h].number
        /\ c.user = profileCall[h].user /\ c.email = profileCall[h].email
        /\ c.found = profileCall[h].found /\ c.parent = profileCall[h].parent
        /\ c.behind = profileCall[h].behind
        /\ c.overtaken = profileCall[h].overtaken
    BY <1>1, RequestFields, OnTo
  <1>3. RequestInv(c)
    BY <1>2, RequestFields DEF RequestInv
  <1>4. meddled' \in SUBSET Addresses
    BY OthersStay
  <1> QED BY <1>1, <1>2, <1>3, <1>4, SameNumber, QuietStep

LEMMA StartCreateProfileKeeps ==
  ASSUME ProfilesInv, NEW h \in ProfileCalls, NEW email \in Owners,
         NEW user \in Owners, StartCreateProfile(h, email, user)
  PROVE  ProfilesInv'
  <1>1. PICK c : c = [NoRequest EXCEPT !.pc = "number", !.email = email,
                                       !.user = user]
    OBVIOUS
  <1>2. c \in ProfileHandlers /\ c.pc = "number" /\ c.number = 0
    BY <1>1, NoRequestMeans DEF NoRequest, ProfileHandlers, ProfilePCs
  <1>3. RequestInv(c)
    BY <1>2 DEF RequestInv, UpdatePCs
  <1>4. meddled' \in SUBSET Addresses
    BY OthersStay DEF StartCreateProfile
  <1> QED BY <1>1, <1>2, <1>3, <1>4, OthersStay, SameNumber, QuietStep
          DEF StartCreateProfile

LEMMA StartRegisterParentKeeps ==
  ASSUME ProfilesInv, NEW h \in ProfileCalls, NEW a \in Addresses,
         NEW op \in {"parent", "purchase"}, StartRegisterParent(h, a, op)
  PROVE  ProfilesInv'
  <1>1. PICK c : c = [NoRequest EXCEPT !.pc = "checkEmail", !.email = a,
                                       !.op = op, !.parent = TRUE]
    OBVIOUS
  <1>2. /\ c \in ProfileHandlers /\ c.pc = "checkEmail" /\ c.number = 0
        /\ c.email = a /\ c.parent
    BY <1>1, NoRequestMeans DEF NoRequest, ProfileHandlers, ProfilePCs,
                                ProfileOps, Owners
  <1>3. RequestInv(c)
    BY <1>2 DEF RequestInv, UpdatePCs
  <1> QED BY <1>1, <1>2, <1>3, OthersStay, SameNumber, QuietStep
          DEF StartRegisterParent

\* The number is one more than that of the newest there is: of the newest
\* made, or the handler is behind.
LEMMA GenerateStudentIdKeeps ==
  ASSUME ProfilesInv, NEW h \in ProfileCalls, GenerateStudentId(h)
  PROVE  ProfilesInv'
  <1>1. PICK g, n, behind, pc :
           /\ g = profileCall[h]
           /\ n = IF LiveProfiles = {} THEN 1
                  ELSE profile[NewestOf(LiveProfiles)].number + 1
           /\ behind = \E p \in MadeProfiles : \A q \in LiveProfiles : q < p
           /\ pc = IF g.user # Nobody THEN "checkUser"
                   ELSE IF g.email # Nobody THEN "checkEmail" ELSE "insert"
    OBVIOUS
  <1>2. PICK c : c = [g EXCEPT !.number = n, !.behind = behind, !.pc = pc]
    OBVIOUS
  <1>3. PICK k \in 0..MaxProfile : Numbered(k)
    BY DEF ProfilesInv
  <1>4. LiveProfiles \in SUBSET (1..k) /\ k \in Nat /\ MadeProfiles = 1..k
    BY <1>3 DEF Numbered, LiveProfiles, MadeProfiles
  <1>5. n \in 1..(k + 1) /\ (behind \/ n = k + 1)
    <2>1. CASE LiveProfiles = {}
      BY <1>1, <1>4, <2>1
    <2>2. CASE LiveProfiles # {}
      <3>1. PICK p : /\ p = NewestOf(LiveProfiles) /\ p \in LiveProfiles
                     /\ \A q \in LiveProfiles : q <= p
        BY <1>4, <2>2, NewestExists
      <3>2. n = p + 1 /\ p \in 1..k
        BY <1>1, <1>3, <1>4, <2>2, <3>1 DEF Numbered
      <3>3. CASE p = k
        BY <3>2, <3>3
      <3>4. CASE p # k
        <4>1. k \in MadeProfiles /\ \A q \in LiveProfiles : q < k
          BY <1>4, <3>1, <3>2, <3>4
        <4> QED BY <1>1, <3>2, <4>1
      <3> QED BY <3>3, <3>4
    <2> QED BY <2>1, <2>2
  <1>6. /\ g \in ProfileHandlers /\ g.user \in Owners /\ g.email \in Owners
        /\ behind \in BOOLEAN /\ n \in 0..(MaxProfile + 1) /\ pc \in ProfilePCs
    BY <1>1, <1>3, <1>5, RequestFields, ProfilesAssumption DEF ProfilePCs
  <1>7. /\ c \in ProfileHandlers /\ c.pc = pc /\ c.number = n
        /\ c.behind = behind /\ c.user = g.user /\ c.email = g.email
    BY <1>2, <1>6 DEF ProfileHandlers
  <1>8. RequestInv(c)
    BY <1>1, <1>5, <1>6, <1>7 DEF RequestInv, UpdatePCs, Owners
  <1>9. \A l \in 0..MaxProfile : Numbered(l) =>
           /\ c.number <= l + 1
           /\ c.behind \/ c.overtaken \/ c.number \in {0, l + 1}
    <2> TAKE l \in 0..MaxProfile
    <2>1. Numbered(l) => l = k
      BY <1>4 DEF Numbered
    <2> QED BY <1>5, <1>7, <2>1
  <1>10. ProfileTo(h, c) /\ UNCHANGED <<owner, profile, meddled, removedFirst>>
    BY <1>1, <1>2 DEF GenerateStudentId
  <1> QED BY <1>7, <1>8, <1>9, <1>10, OthersStay, QuietStep

LEMMA CheckUserKeeps ==
  ASSUME ProfilesInv, NEW h \in ProfileCalls, CheckUser(h)
  PROVE  ProfilesInv'
  <1>1. profileCall[h].number # 0
    BY RequestFields DEF CheckUser, ProfileAt, RequestInv
  <1> QED BY <1>1, EndKeeps, OnToKeeps, OthersStay
          DEF CheckUser, ProfilePCs, UpdatePCs

LEMMA CheckEmailKeeps ==
  ASSUME ProfilesInv, NEW h \in ProfileCalls, CheckEmail(h)
  PROVE  ProfilesInv'
  <1>1. /\ profileCall[h].email \in Addresses
        /\ ~profileCall[h].parent => profileCall[h].number # 0
    BY RequestFields DEF CheckEmail, ProfileAt, RequestInv
  <1> QED BY <1>1, EndKeeps, OnToKeeps, OthersStay
          DEF CheckEmail, ProfilePCs, UpdatePCs

LEMMA CreateUserKeeps ==
  ASSUME ProfilesInv, NEW h \in ProfileCalls, CreateUser(h)
  PROVE  ProfilesInv'
  <1>1. PICK c : c = profileCall[h]
    OBVIOUS
  <1>2. /\ c \in ProfileHandlers /\ c.email \in Addresses
        /\ (~c.parent => c.number # 0) /\ c.pc = "createUser"
        /\ c.parent \in BOOLEAN
    BY <1>1, RequestFields DEF CreateUser, ProfileAt, RequestInv,
                               ProfileHandlers
  <1>3. /\ owner' \in [Addresses -> {"none", "live", "removed"}]
        /\ UNCHANGED <<profile, meddled, removedFirst>>
    BY <1>1, <1>2 DEF CreateUser, ProfilesInv, ProfilesTypeOK
  <1>4. CASE ProfileEnds(h)
    BY <1>3, <1>4, EndKeeps
  <1>5. CASE ~c.parent /\ ProfileTo(h, [c EXCEPT !.pc = "insert",
                                                 !.user = c.email])
    <2>1. PICK d : d = [c EXCEPT !.pc = "insert", !.user = c.email]
      OBVIOUS
    <2>2. /\ d \in ProfileHandlers /\ d.pc = "insert" /\ d.number = c.number
          /\ d.behind = c.behind /\ d.overtaken = c.overtaken
      BY <1>2, <2>1 DEF ProfileHandlers, ProfilePCs, Owners
    <2>3. RequestInv(d)
      BY <1>2, <1>5, <2>2 DEF RequestInv, UpdatePCs
    <2> QED BY <1>1, <1>3, <1>5, <2>1, <2>2, <2>3, SameNumber, OthersStay,
               QuietStep
  <1>6. CASE ProfileTo(h, [c EXCEPT !.pc = "number", !.parent = FALSE])
    <2>1. PICK d : d = [c EXCEPT !.pc = "number", !.parent = FALSE]
      OBVIOUS
    <2>2. /\ d \in ProfileHandlers /\ d.pc = "number" /\ d.number = c.number
          /\ d.behind = c.behind /\ d.overtaken = c.overtaken
      BY <1>2, <2>1 DEF ProfileHandlers, ProfilePCs
    <2>3. RequestInv(d)
      BY <2>2 DEF RequestInv, UpdatePCs
    <2> QED BY <1>1, <1>3, <1>6, <2>1, <2>2, <2>3, SameNumber, OthersStay,
               QuietStep
  <1> QED BY <1>1, <1>2, <1>4, <1>5, <1>6 DEF CreateUser

LEMMA StartEnsureKeeps ==
  ASSUME ProfilesInv, NEW h \in ProfileCalls, NEW a \in Addresses,
         StartEnsure(h, a)
  PROVE  ProfilesInv'
  <1>1. PICK c : c = [NoRequest EXCEPT !.pc = "ensureUser", !.op = "ensure",
                                       !.user = a, !.email = a]
    OBVIOUS
  <1>2. /\ c \in ProfileHandlers /\ c.pc = "ensureUser" /\ c.number = 0
        /\ c.email = a /\ c.user = a
    BY <1>1, NoRequestMeans DEF NoRequest, ProfileHandlers, ProfilePCs,
                                ProfileOps, Owners
  <1>3. RequestInv(c)
    BY <1>2 DEF RequestInv, UpdatePCs
  <1> QED BY <1>1, <1>2, <1>3, OthersStay, SameNumber, QuietStep
          DEF StartEnsure

LEMMA EnsureUserKeeps ==
  ASSUME ProfilesInv, NEW h \in ProfileCalls, EnsureUser(h)
  PROVE  ProfilesInv'
  <1>1. profileCall[h].email \in Addresses /\ profileCall[h].user \in Addresses
    BY RequestFields DEF EnsureUser, ProfileAt, RequestInv
  <1> QED BY <1>1, EndKeeps, OnToKeeps, OthersStay
          DEF EnsureUser, ProfilePCs, UpdatePCs

LEMMA EnsureEmailKeeps ==
  ASSUME ProfilesInv, NEW h \in ProfileCalls, EnsureEmail(h)
  PROVE  ProfilesInv'
  <1>1. PICK c : c = profileCall[h]
    OBVIOUS
  <1>2. /\ c \in ProfileHandlers /\ c.user \in Addresses
        /\ c.pc = "ensureEmail"
    BY <1>1, RequestFields DEF EnsureEmail, ProfileAt, RequestInv
  <1>3. UNCHANGED <<owner, profile, meddled, removedFirst>>
    BY DEF EnsureEmail
  <1>4. CASE ProfileEnds(h)
    BY <1>3, <1>4, EndKeeps, OthersStay
  <1>5. CASE ProfileTo(h, [c EXCEPT !.pc = "number"])
    BY <1>1, <1>3, <1>5, OnToKeeps, OthersStay DEF ProfilePCs, UpdatePCs
  <1>6. ASSUME NEW p \in LiveProfiles,
               ProfileTo(h, [c EXCEPT !.pc = "updateFind", !.found = p])
        PROVE  ProfilesInv'
    <2>1. PICK d : d = [c EXCEPT !.pc = "updateFind", !.found = p]
      OBVIOUS
    <2>2. p \in ProfileIds /\ profile[p].state # "none" /\ p \in 0..MaxProfile
      BY ProfilesAssumption DEF LiveProfiles, ProfileIds
    <2>3. /\ d \in ProfileHandlers /\ d.pc = "updateFind" /\ d.found = p
          /\ d.number = c.number /\ d.user = c.user
          /\ d.behind = c.behind /\ d.overtaken = c.overtaken
      BY <1>2, <2>1, <2>2 DEF ProfileHandlers, ProfilePCs
    <2>4. RequestInv(d)
      BY <1>2, <2>2, <2>3, ProfilesAssumption DEF RequestInv, UpdatePCs
    <2> QED BY <1>1, <1>3, <1>6, <2>1, <2>3, <2>4, SameNumber, OthersStay,
               QuietStep
  <1> QED BY <1>1, <1>4, <1>5, <1>6 DEF EnsureEmail

LEMMA StartUpdateProfileKeeps ==
  ASSUME ProfilesInv, NEW h \in ProfileCalls, NEW p \in ProfileIds,
         NEW user \in Owners, StartUpdateProfile(h, p, user)
  PROVE  ProfilesInv'
  <1>1. PICK pc : pc = IF user = Nobody THEN "updateRead" ELSE "updateUser"
    OBVIOUS
  <1>2. PICK c : c = [NoRequest EXCEPT !.op = "update", !.found = p,
                                       !.user = user, !.pc = pc]
    OBVIOUS
  <1>3. /\ p \in 0..MaxProfile /\ profile[p].state # "none"
        /\ profile[p].user \in Owners /\ profile[p].email \in Owners
    BY ProfilesAssumption DEF StartUpdateProfile, ProfileIds, ProfilesInv,
                              ProfilesTypeOK, ProfileRows
  <1>4. /\ c \in ProfileHandlers /\ c.pc = pc /\ c.number = 0
        /\ c.found = p /\ c.user = user
    BY <1>1, <1>2, <1>3, NoRequestMeans DEF NoRequest, ProfileHandlers,
                                            ProfilePCs, ProfileOps
  <1>5. RequestInv(c)
    BY <1>1, <1>3, <1>4 DEF RequestInv, UpdatePCs, Owners
  <1>6. meddled' \in SUBSET Addresses
    BY <1>3, OthersStay DEF StartUpdateProfile
  <1>7. ProfileTo(h, c) /\ UNCHANGED <<owner, profile, removedFirst>>
    BY <1>1, <1>2 DEF StartUpdateProfile
  <1> QED BY <1>4, <1>5, <1>6, <1>7, OthersStay, SameNumber, QuietStep

LEMMA UpdateFindProfileKeeps ==
  ASSUME ProfilesInv, NEW h \in ProfileCalls, UpdateFindProfile(h)
  PROVE  ProfilesInv'
  <1>1. profileCall[h].user \in Addresses /\ profileCall[h].pc \in UpdatePCs
    BY RequestFields DEF UpdateFindProfile, ProfileAt, RequestInv, UpdatePCs,
                         Owners
  <1> QED BY <1>1, EndKeeps, OnToKeeps, OthersStay
          DEF UpdateFindProfile, ProfilePCs

LEMMA UpdateUserKeeps ==
  ASSUME ProfilesInv, NEW h \in ProfileCalls, UpdateUser(h)
  PROVE  ProfilesInv'
  <1>1. profileCall[h].pc \in UpdatePCs
    BY DEF UpdateUser, ProfileAt, UpdatePCs
  <1> QED BY <1>1, EndKeeps, OnToKeeps, OthersStay DEF UpdateUser, ProfilePCs

\* The row that is read is not of a student removed before.
LEMMA UpdateReadKeeps ==
  ASSUME ProfilesInv, NEW h \in ProfileCalls, UpdateRead(h)
  PROVE  ProfilesInv'
  <1>1. PICK c : c = profileCall[h]
    OBVIOUS
  <1>2. /\ c \in ProfileHandlers /\ c.pc = "updateRead"
        /\ c.found \in ProfileIds /\ profile[c.found].state # "none"
        /\ c.user \in Owners
    BY <1>1, RequestFields DEF UpdateRead, ProfileAt, RequestInv, UpdatePCs
  <1>3. CASE profile[c.found].state = "live"
    <2>1. PICK row : row = [profile[c.found] EXCEPT !.user = c.user]
      OBVIOUS
    <2>2. PICK k \in 0..MaxProfile : Numbered(k)
      BY DEF ProfilesInv
    <2>3. profile[c.found].number = c.found
      BY <1>2, <2>2 DEF Numbered, MadeProfiles
    <2>4. row \in ProfileRows /\ row.state = "live" /\ row.number = c.found
      BY <1>2, <1>3, <2>1, <2>3 DEF ProfilesInv, ProfilesTypeOK, ProfileRows
    <2>5. PICK d : d = [c EXCEPT !.pc = "updateSave", !.row = row]
      OBVIOUS
    <2>6. /\ d \in ProfileHandlers /\ d.pc = "updateSave" /\ d.row = row
          /\ d.number = c.number /\ d.user = c.user /\ d.found = c.found
          /\ d.behind = c.behind /\ d.overtaken = c.overtaken
      BY <1>2, <2>4, <2>5 DEF ProfileHandlers, ProfilePCs
    <2>7. c.found \notin removedFirst
      BY <1>3 DEF ProfilesInv, RemovedProfileStaysRemoved
    <2>8. RequestInv(d)
      BY <1>2, <2>4, <2>6, <2>7 DEF RequestInv, UpdatePCs
    <2>9. ProfileTo(h, d) /\ UNCHANGED <<owner, profile, meddled, removedFirst>>
      BY <1>1, <1>3, <2>1, <2>5 DEF UpdateRead
    <2> QED BY <1>1, <2>6, <2>8, <2>9, SameNumber, OthersStay, QuietStep
  <1>4. CASE profile[c.found].state # "live"
    BY <1>1, <1>4, EndKeeps, OthersStay DEF UpdateRead
  <1> QED BY <1>3, <1>4

-----------------------------------------------------------------------------
(***************************************************************************)
(* The steps that write one.                                               *)
(***************************************************************************)

\* The key lets only the next number in.
LEMMA InsertProfileKeeps ==
  ASSUME ProfilesInv, NEW h \in ProfileCalls, InsertProfile(h)
  PROVE  ProfilesInv'
  <1>1. PICK c : c = profileCall[h]
    OBVIOUS
  <1>2. PICK p \in ProfileIds :
          /\ MadeProfiles = 1..(p - 1)
          /\ profile' = [profile EXCEPT ![p] =
                [state |-> "live", number |-> c.number, user |-> c.user,
                 email |-> c.email]]
    BY <1>1 DEF InsertProfile
  <1>3. PICK k \in 0..MaxProfile : Numbered(k)
    BY DEF ProfilesInv
  <1>4. p = k + 1 /\ k + 1 \in 0..MaxProfile
    <2>1. p \in Nat /\ p \in 1..MaxProfile /\ MadeProfiles = 1..k /\ k \in Nat
      BY <1>3, ProfilesAssumption DEF ProfileIds, Numbered
    <2>2. p - 1 = k
      <3>1. 1..(p - 1) = 1..k
        BY <1>2, <2>1
      <3>2. CASE p - 1 < k
        <4>1. k \in 1..k /\ k \notin 1..(p - 1)
          BY <2>1, <3>2
        <4> QED BY <3>1, <4>1
      <3>3. CASE k < p - 1
        <4>1. p - 1 \in 1..(p - 1) /\ p - 1 \notin 1..k
          BY <2>1, <3>3
        <4> QED BY <3>1, <4>1
      <3> QED BY <2>1, <3>2, <3>3
    <2> QED BY <2>1, <2>2
  <1>5. /\ c.number \in 0..(MaxProfile + 1) /\ c.number # 0
        /\ c \in ProfileHandlers /\ ~NumberTaken(c.number)
        /\ c.user \in Owners /\ c.email \in Owners
    BY <1>1, RequestFields DEF InsertProfile, ProfileAt, RequestInv
  <1>6. c.number = k + 1
    <2>1. c.number <= k + 1 /\ c.number \notin 1..k
      BY <1>1, <1>3, <1>5 DEF Numbered, NumberTaken
    <2> QED BY <1>3, <1>5, <2>1, ProfilesAssumption
  <1>7. /\ profile' \in [ProfileIds -> ProfileRows]
        /\ profile'[p].state = "live" /\ profile'[p].number = p
        /\ \A q \in ProfileIds \ {p} : profile'[q] = profile[q]
    BY <1>2, <1>4, <1>5, <1>6 DEF ProfilesInv, ProfilesTypeOK, ProfileRows
  <1>8. MadeProfiles' = 1..(k + 1)
    <2>1. MadeProfiles' = MadeProfiles \cup {p}
      BY <1>7 DEF MadeProfiles
    <2> QED BY <1>3, <1>4, <2>1 DEF Numbered
  <1>9. \A q \in ProfileCalls :
           /\ profileCall'[q] \in ProfileHandlers
           /\ \/ profileCall'[q] = NoRequest
              \/ profileCall'[q] = profileCall[q] /\ profileCall[q].number = 0
              \/ /\ profileCall[q].number # 0 /\ q # h
                 /\ profileCall'[q]
                       = [profileCall[q] EXCEPT !.overtaken = TRUE]
    BY <1>1, NoRequestMeans, RequestFields DEF InsertProfile, ProfileHandlers
  <1>10. ProfilesTypeOK'
    <2>1. profileCall' \in [ProfileCalls -> ProfileHandlers]
      BY <1>9 DEF InsertProfile
    <2> QED BY <1>7, <2>1 DEF ProfilesInv, ProfilesTypeOK, InsertProfile
  <1>11. Numbered(k + 1)'
    <2>1. ASSUME NEW q \in 1..(k + 1) PROVE profile'[q].number = q
      <3>1. CASE q = p
        BY <1>7, <3>1
      <3>2. CASE q # p
        <4>1. q \in 1..k /\ q \in ProfileIds
          BY <1>3, <1>4, <3>2, ProfilesAssumption DEF ProfileIds
        <4> QED BY <1>3, <1>7, <3>2, <4>1 DEF Numbered
      <3> QED BY <3>1, <3>2
    <2>2. ASSUME NEW q \in ProfileCalls
          PROVE  /\ profileCall'[q].number <= k + 1 + 1
                 /\ profileCall'[q].behind \/ profileCall'[q].overtaken
                      \/ profileCall'[q].number \in {0, k + 1 + 1}
      <3>1. profileCall[q].number <= k + 1 /\ profileCall[q].number \in Nat
            /\ profileCall[q] \in ProfileHandlers
        BY <1>3, RequestFields, ProfilesAssumption DEF Numbered
      <3>2. CASE profileCall'[q] = NoRequest
        BY <1>3, <3>2, NoRequestMeans
      <3>3. CASE profileCall'[q] = profileCall[q] /\ profileCall[q].number = 0
        BY <1>3, <3>3
      <3>4. CASE profileCall'[q] = [profileCall[q] EXCEPT !.overtaken = TRUE]
        BY <1>3, <3>1, <3>4 DEF ProfileHandlers
      <3> QED BY <1>9, <3>2, <3>3, <3>4
    <2> QED BY <1>8, <2>1, <2>2 DEF Numbered
  <1>12. p \notin removedFirst
    BY <1>2, <1>3, <1>4 DEF ProfilesInv, RemovedProfileStaysRemoved,
                            Numbered, MadeProfiles
  <1>13. RemovedProfileStaysRemoved'
    BY <1>7, <1>12 DEF ProfilesInv, RemovedProfileStaysRemoved, InsertProfile,
                       ProfilesTypeOK
  <1>14. ASSUME NEW q \in ProfileCalls PROVE RequestInv(profileCall[q])'
    <2>1. RequestInv(profileCall[q]) /\ profileCall[q] \in ProfileHandlers
      BY RequestFields
    <2>2. /\ profileCall'[q].pc \in UpdatePCs
                => profile'[profileCall[q].found].state # "none"
                      \/ profileCall'[q] = NoRequest
      BY <1>7, <1>9, <2>1 DEF RequestInv, ProfileHandlers
    <2>3. CASE profileCall'[q] = NoRequest
      BY <2>3, NoRequestMeans DEF RequestInv, UpdatePCs
    <2>4. CASE profileCall'[q] = profileCall[q]
      BY <2>1, <2>2, <2>4, NoRequestMeans DEF RequestInv, InsertProfile,
                                              UpdatePCs
    <2>5. CASE profileCall'[q] = [profileCall[q] EXCEPT !.overtaken = TRUE]
      <3>1. PICK d, e : d = profileCall[q] /\ e = profileCall'[q]
        OBVIOUS
      <3>2. /\ e.pc = d.pc /\ e.number = d.number /\ e.user = d.user
            /\ e.email = d.email /\ e.found = d.found /\ e.row = d.row
            /\ e.parent = d.parent
        BY <2>1, <2>5, <3>1 DEF ProfileHandlers
      <3>3. e.pc # "idle" \/ e.pc \notin UpdatePCs
        BY DEF UpdatePCs
      <3>4. e.pc \in UpdatePCs => profile'[e.found].state # "none"
        BY <2>2, <3>1, <3>2, NoRequestMeans DEF UpdatePCs
      <3> QED BY <2>1, <3>1, <3>2, <3>4 DEF RequestInv, InsertProfile
    <2> QED BY <1>9, <2>3, <2>4, <2>5
  <1> QED BY <1>4, <1>10, <1>11, <1>13, <1>14 DEF ProfilesInv

LEMMA ProfileRefusedKeeps ==
  ASSUME ProfilesInv, NEW h \in ProfileCalls, ProfileRefused(h)
  PROVE  ProfilesInv'
  BY EndKeeps, OthersStay DEF ProfileRefused

LEMMA ProfileCallFailsKeeps ==
  ASSUME ProfilesInv, NEW h \in ProfileCalls, ProfileCallFails(h)
  PROVE  ProfilesInv'
  BY EndKeeps, OthersStay DEF ProfileCallFails

\* The students stay made and keep their numbers.
LEMMA RowsKept ==
  ASSUME ProfilesInv, NEW p \in ProfileIds, profile[p].state # "none",
         profile' \in [ProfileIds -> ProfileRows],
         profile'[p].state # "none", profile'[p].number = profile[p].number,
         \A q \in ProfileIds \ {p} : profile'[q] = profile[q]
  PROVE  /\ MadeProfiles' = MadeProfiles
         /\ \A q \in ProfileIds : profile'[q].number = profile[q].number
         /\ \A q \in ProfileIds :
               profile[q].state # "none" => profile'[q].state # "none"
  BY DEF MadeProfiles

\* What was saved is what the row had when it was live, and such a row is not
\* one of those that were removed first.
LEMMA UpdateSaveProfileKeeps ==
  ASSUME ProfilesInv, NEW h \in ProfileCalls, UpdateSaveProfile(h)
  PROVE  ProfilesInv'
  <1>1. PICK c : c = profileCall[h]
    OBVIOUS
  <1>2. /\ c \in ProfileHandlers /\ c.pc = "updateSave"
        /\ c.found \in ProfileIds /\ profile[c.found].state # "none"
        /\ c.row \in ProfileRows /\ c.row.number = c.found
        /\ c.row.state = "live" /\ c.found \notin removedFirst
    BY <1>1, RequestFields DEF UpdateSaveProfile, ProfileAt, RequestInv,
                               UpdatePCs, ProfileHandlers
  <1>3. PICK k \in 0..MaxProfile : Numbered(k)
    BY DEF ProfilesInv
  <1>4. profile[c.found].number = c.found
    BY <1>2, <1>3 DEF Numbered, MadeProfiles
  <1>5. /\ profile' \in [ProfileIds -> ProfileRows]
        /\ profile'[c.found].state # "none"
        /\ profile'[c.found].number = profile[c.found].number
        /\ \A q \in ProfileIds \ {c.found} : profile'[q] = profile[q]
    BY <1>1, <1>2, <1>4 DEF UpdateSaveProfile, ProfilesInv, ProfilesTypeOK
  <1>6. /\ MadeProfiles' = MadeProfiles
        /\ \A q \in ProfileIds : profile'[q].number = profile[q].number
        /\ \A q \in ProfileIds :
              profile[q].state # "none" => profile'[q].state # "none"
    BY <1>2, <1>5, RowsKept
  <1>7. /\ profileCall' \in [ProfileCalls -> ProfileHandlers]
        /\ profileCall'[h] = NoRequest
        /\ \A q \in ProfileCalls \ {h} : profileCall'[q] = profileCall[q]
        /\ UNCHANGED <<owner, removedFirst>>
    BY NoRequestMeans, ProfileToMeans
       DEF UpdateSaveProfile, ProfileEnds, ProfilesInv
  <1>8. meddled' \in SUBSET Addresses
    <2>1. PICK brought : brought = IF profile[c.found].state = "removed"
                                   THEN {c.row.email} ELSE {}
      OBVIOUS
    <2>2. PICK served :
             served = UNION {{profileCall[q].user, profileCall[q].email} :
                                q \in ProfileCalls \ {h}}
      OBVIOUS
    <2>3. served \subseteq Owners /\ brought \subseteq Owners
      BY <1>2, <2>1, <2>2, RequestFields DEF ProfileRows
    <2>4. meddled \cup ((served \cup brought) \ {Nobody}) \in SUBSET Addresses
      BY <2>3 DEF ProfilesInv, ProfilesTypeOK, Owners
    <2> QED BY <1>1, <2>1, <2>2, <2>4
            DEF UpdateSaveProfile, ProfilesInv, ProfilesTypeOK
  <1>9. ProfilesTypeOK'
    BY <1>5, <1>7, <1>8 DEF ProfilesInv, ProfilesTypeOK
  <1>10. Numbered(k)'
    <2>1. ASSUME NEW p \in 1..k PROVE profile'[p].number = p
      <3>1. p \in ProfileIds
        BY <1>3 DEF Numbered, MadeProfiles
      <3> QED BY <1>3, <1>6, <3>1 DEF Numbered
    <2>2. ASSUME NEW q \in ProfileCalls
          PROVE  /\ profileCall'[q].number <= k + 1
                 /\ profileCall'[q].behind \/ profileCall'[q].overtaken
                      \/ profileCall'[q].number \in {0, k + 1}
      BY <1>3, <1>7, NoRequestMeans DEF Numbered
    <2> QED BY <1>3, <1>6, <2>1, <2>2 DEF Numbered
  <1>11. RemovedProfileStaysRemoved'
    BY <1>2, <1>5, <1>7 DEF ProfilesInv, RemovedProfileStaysRemoved,
                            ProfilesTypeOK
  <1>12. ASSUME NEW q \in ProfileCalls PROVE RequestInv(profileCall[q])'
    <2>1. CASE q = h
      BY <1>7, <2>1, NoRequestMeans DEF RequestInv, UpdatePCs
    <2>2. CASE q # h
      BY <1>6, <1>7, <2>2, RequestFields DEF RequestInv
    <2> QED BY <2>1, <2>2
  <1> QED BY <1>3, <1>9, <1>10, <1>11, <1>12 DEF ProfilesInv

\* A row that an update has read is not counted as removed first.
LEMMA RemoveProfileKeeps ==
  ASSUME ProfilesInv, NEW p \in ProfileIds, RemoveProfile(p)
  PROVE  ProfilesInv'
  <1>1. PICK k \in 0..MaxProfile : Numbered(k)
    BY DEF ProfilesInv
  <1>2. /\ profile' \in [ProfileIds -> ProfileRows]
        /\ profile'[p].state = "removed"
        /\ profile'[p].number = profile[p].number
        /\ \A q \in ProfileIds \ {p} : profile'[q] = profile[q]
        /\ profile[p].state = "live"
        /\ UNCHANGED <<owner, profileCall, meddled>>
    BY DEF RemoveProfile, ProfilesInv, ProfilesTypeOK, ProfileRows
  <1>3. /\ MadeProfiles' = MadeProfiles
        /\ \A q \in ProfileIds : profile'[q].number = profile[q].number
        /\ \A q \in ProfileIds :
              profile[q].state # "none" => profile'[q].state # "none"
    BY <1>2, RowsKept
  <1>4. /\ removedFirst' \in SUBSET ProfileIds
        /\ removedFirst' \subseteq removedFirst \cup {p}
    BY DEF RemoveProfile, ProfilesInv, ProfilesTypeOK
  <1>5. ProfilesTypeOK'
    BY <1>2, <1>4 DEF ProfilesInv, ProfilesTypeOK
  <1>6. Numbered(k)'
    <2>1. ASSUME NEW q \in 1..k PROVE profile'[q].number = q
      <3>1. q \in ProfileIds
        BY <1>1 DEF Numbered, MadeProfiles
      <3> QED BY <1>1, <1>3, <3>1 DEF Numbered
    <2> QED BY <1>1, <1>2, <1>3, <2>1 DEF Numbered
  <1>7. RemovedProfileStaysRemoved'
    BY <1>2, <1>4 DEF ProfilesInv, RemovedProfileStaysRemoved, ProfilesTypeOK
  <1>8. ASSUME NEW q \in ProfileCalls PROVE RequestInv(profileCall[q])'
    <2>1. profileCall[q].pc = "updateSave"
             => profileCall[q].found \notin removedFirst'
      <3>1. CASE profileCall[q].pc = "updateSave" /\ profileCall[q].found = p
        <4>1. removedFirst' = removedFirst
          BY <3>1 DEF RemoveProfile, ProfileAt
        <4> QED BY <3>1, <4>1, RequestFields DEF RequestInv
      <3>2. CASE profileCall[q].pc = "updateSave" /\ profileCall[q].found # p
        BY <1>4, <3>2, RequestFields DEF RequestInv
      <3> QED BY <3>1, <3>2
    <2> QED BY <1>2, <1>3, <2>1, RequestFields DEF RequestInv
  <1> QED BY <1>1, <1>5, <1>6, <1>7, <1>8 DEF ProfilesInv

\* A step that leaves the students and the handlers alone.
LEMMA AccountsOnly ==
  ASSUME ProfilesInv, UNCHANGED <<profile, profileCall, meddled, removedFirst>>,
         owner' \in [Addresses -> {"none", "live", "removed"}]
  PROVE  ProfilesInv'
  <1>1. PICK k \in 0..MaxProfile : Numbered(k)
    BY DEF ProfilesInv
  <1>2. Numbered(k)'
    BY <1>1 DEF Numbered, MadeProfiles
  <1>3. ProfilesTypeOK' /\ RemovedProfileStaysRemoved'
    BY DEF ProfilesInv, ProfilesTypeOK, RemovedProfileStaysRemoved
  <1>4. \A q \in ProfileCalls : RequestInv(profileCall[q])'
    BY DEF ProfilesInv, RequestInv
  <1> QED BY <1>1, <1>2, <1>3, <1>4 DEF ProfilesInv

LEMMA RemoveAccountKeeps ==
  ASSUME ProfilesInv, NEW a \in Addresses, RemoveAccount(a)
  PROVE  ProfilesInv'
  <1>1. owner' \in [Addresses -> {"none", "live", "removed"}]
    BY DEF RemoveAccount, ProfilesInv, ProfilesTypeOK
  <1> QED BY <1>1, AccountsOnly DEF RemoveAccount

-----------------------------------------------------------------------------
(***************************************************************************)
(* The invariant and what follows.                                         *)
(***************************************************************************)

LEMMA ProfilesInitKeeps == ProfilesInit => ProfilesInv
  <1> SUFFICES ASSUME ProfilesInit PROVE ProfilesInv
    OBVIOUS
  <1>1. NoProfile \in ProfileRows
    BY ProfilesAssumption DEF NoProfile, ProfileRows, Owners
  <1>2. ProfilesTypeOK
    BY <1>1, NoRequestMeans DEF ProfilesInit, ProfilesTypeOK
  <1>3. MadeProfiles = 1..0 /\ 0 \in 0..MaxProfile
    BY ProfilesAssumption DEF ProfilesInit, MadeProfiles, NoProfile
  <1>4. Numbered(0)
    BY <1>3, NoRequestMeans DEF ProfilesInit, Numbered
  <1>5. RemovedProfileStaysRemoved
    BY DEF ProfilesInit, RemovedProfileStaysRemoved
  <1>6. \A h \in ProfileCalls : RequestInv(profileCall[h])
    BY NoRequestMeans DEF ProfilesInit
  <1> QED BY <1>2, <1>3, <1>4, <1>5, <1>6 DEF ProfilesInv

LEMMA ProfilesNextKeeps ==
  ASSUME ProfilesInv, [ProfilesNext]_profilesVars
  PROVE  ProfilesInv'
  <1>1. CASE UNCHANGED profilesVars
    BY <1>1, AccountsOnly DEF profilesVars, ProfilesInv, ProfilesTypeOK
  <1>2. ASSUME NEW p \in ProfileIds, RemoveProfile(p) PROVE ProfilesInv'
    BY <1>2, RemoveProfileKeeps
  <1>3. ASSUME NEW a \in Addresses, RemoveAccount(a) PROVE ProfilesInv'
    BY <1>3, RemoveAccountKeeps
  <1>4. ASSUME NEW h \in ProfileCalls,
               \/ \E email, user \in Owners : StartCreateProfile(h, email, user)
               \/ \E a \in Addresses, op \in {"parent", "purchase"} :
                     StartRegisterParent(h, a, op)
               \/ GenerateStudentId(h) \/ CheckUser(h) \/ CheckEmail(h)
               \/ CreateUser(h) \/ InsertProfile(h) \/ ProfileRefused(h)
        PROVE  ProfilesInv'
    BY <1>4, StartCreateProfileKeeps, StartRegisterParentKeeps,
       GenerateStudentIdKeeps, CheckUserKeeps, CheckEmailKeeps,
       CreateUserKeeps, InsertProfileKeeps, ProfileRefusedKeeps
  <1>5. ASSUME NEW h \in ProfileCalls,
               \/ \E a \in Addresses : StartEnsure(h, a)
               \/ EnsureUser(h) \/ EnsureEmail(h)
               \/ \E p \in ProfileIds, user \in Owners :
                     StartUpdateProfile(h, p, user)
               \/ UpdateFindProfile(h) \/ UpdateUser(h) \/ UpdateRead(h)
               \/ UpdateSaveProfile(h) \/ ProfileCallFails(h)
        PROVE  ProfilesInv'
    BY <1>5, StartEnsureKeeps, EnsureUserKeeps, EnsureEmailKeeps,
       StartUpdateProfileKeeps, UpdateFindProfileKeeps, UpdateUserKeeps,
       UpdateReadKeeps, UpdateSaveProfileKeeps, ProfileCallFailsKeeps
  <1> QED BY <1>1, <1>2, <1>3, <1>4, <1>5 DEF ProfilesNext

(***************************************************************************)
(* In every behaviour of the profiles the students are numbered in the     *)
(* order of their rows, the handlers know what RequestInv says, and the    *)
(* rows are of their types.                                                *)
(***************************************************************************)
THEOREM ProfilesInvariance == ProfilesSpec => []ProfilesInv
  <1>1. ProfilesInv /\ [ProfilesNext]_profilesVars => ProfilesInv'
    BY ProfilesNextKeeps
  <1> QED BY <1>1, ProfilesInitKeeps, PTL DEF ProfilesSpec

(***************************************************************************)
(* Accounts, students and handlers are always of their types.              *)
(***************************************************************************)
THEOREM ProfilesTypes == ProfilesSpec => []ProfilesTypeOK
  <1>1. ProfilesInv => ProfilesTypeOK
    BY DEF ProfilesInv
  <1> QED BY <1>1, ProfilesInvariance, PTL

(***************************************************************************)
(* No update brings a student back who was removed before the update read  *)
(* the row (students.service.ts update: findById before save).             *)
(***************************************************************************)
THEOREM RemovedStaysRemoved == ProfilesSpec => []RemovedProfileStaysRemoved
  <1>1. ProfilesInv => RemovedProfileStaysRemoved
    BY DEF ProfilesInv
  <1> QED BY <1>1, ProfilesInvariance, PTL

(***************************************************************************)
(* The key refuses a generated number only when another student was made   *)
(* since it was generated, or the newest student was removed before.       *)
(***************************************************************************)
THEOREM RefusedOnlyBehind == ProfilesSpec => []RefusedOnlyBehindAnother
  <1>1. ASSUME ProfilesInv PROVE RefusedOnlyBehindAnother
    <2> SUFFICES ASSUME NEW h \in ProfileCalls, ProfileAt(h, "insert"),
                        NumberTaken(profileCall[h].number)
                 PROVE  profileCall[h].overtaken \/ profileCall[h].behind
      BY DEF RefusedOnlyBehindAnother
    <2>1. PICK k \in 0..MaxProfile : Numbered(k)
      BY <1>1 DEF ProfilesInv
    <2>2. PICK p \in MadeProfiles : profile[p].number = profileCall[h].number
      BY DEF NumberTaken
    <2>3. profileCall[h].number \in 1..k
      BY <2>1, <2>2 DEF Numbered
    <2>4. profileCall[h].number \notin {0, k + 1}
      BY <2>1, <2>3
    <2> QED BY <2>1, <2>4 DEF Numbered
  <1> QED BY <1>1, ProfilesInvariance, PTL

-----------------------------------------------------------------------------
(***************************************************************************)
(* One profile for each account.  No key keeps an address from being in    *)
(* two profiles: what does is that the user of a profile is a key, and     *)
(* that whoever is about to give a profile a user has made sure that no    *)
(* other profile has the address without the user (Clear).                 *)
(***************************************************************************)
Untouched == Addresses \ meddled

\* The keys of the table, and what they have to do with addresses.
KnownUsers ==
    \A p, q \in MadeProfiles :
        profile[p].user = profile[q].user => p = q \/ profile[p].user = Nobody

AccountRows ==
    \A a \in Untouched :
        /\ \A p \in MadeProfiles :
              /\ profile[p].user = a => profile[p].email = a
              /\ profile[p].email = a => owner[a] # "none"
        /\ \A p, q \in LiveProfiles :
              profile[p].email = a /\ profile[q].email = a => p = q

MakingPCs == {"number", "checkUser", "checkEmail", "createUser", "insert"}
EnsurePCs == {"ensureUser", "ensureEmail"}

MeddledWith(A) == A \ {Nobody} \subseteq meddled

\* Whom a handler serves: a user for whom a profile is ensured, or a user
\* that staff has named.
Serves(c) ==
    /\ c.op = "ensure" =>
          /\ c.user \in Addresses /\ c.email = c.user
          /\ owner[c.user] # "none"
    /\ c.pc \in EnsurePCs => c.op = "ensure" /\ c.found = 0
    /\ c.pc \in MakingPCs => c.op # "update" /\ c.found = 0
    /\ c.op \in {"create", "parent", "purchase"} /\ c.pc # "insert"
          /\ c.user # Nobody => MeddledWith({c.user, c.email})
    /\ c.pc = "insert" =>
          \/ MeddledWith({c.user, c.email})
          \/ c.user = c.email /\ c.user \in Addresses /\ owner[c.user] # "none"
    /\ c.pc \in UpdatePCs =>
          \/ c.op = "ensure" /\ profile[c.found].email = c.user
          \/ /\ c.op = "update"
             /\ c.user # Nobody => MeddledWith({c.user, profile[c.found].email})
    /\ c.pc = "updateSave" =>
          c.row.email = profile[c.found].email /\ c.row.user = c.user

\* No other profile has the address of the user without the user.
Clear(c) ==
    c.pc \in {"number", "checkUser", "insert", "updateSave"}
        /\ c.user \in Untouched =>
      \A q \in LiveProfiles \ {c.found} :
          profile[q].email = c.user => profile[q].user = c.user

AccountsInv ==
    /\ KnownUsers
    /\ AccountRows
    /\ \A h \in ProfileCalls : Serves(profileCall[h]) /\ Clear(profileCall[h])

\* What no step undoes.
Steady ==
    /\ \A p \in MadeProfiles : p \in MadeProfiles'
                                  /\ profile'[p].email = profile[p].email
    /\ \A a \in Addresses : owner[a] # "none" => owner'[a] # "none"
    /\ meddled \subseteq meddled'

LEMMA ServesStays ==
  ASSUME ProfilesTypeOK, Steady, NEW c, RequestInv(c), Serves(c)
  PROVE  Serves(c)'
  <1>1. \A A : MeddledWith(A) => MeddledWith(A)'
    BY DEF Steady, MeddledWith
  <1>2. c.pc \in UpdatePCs => profile'[c.found].email = profile[c.found].email
    BY DEF RequestInv, Steady, MadeProfiles
  <1>3. /\ c.op = "ensure" => owner'[c.user] # "none"
        /\ c.user \in Addresses /\ owner[c.user] # "none" =>
              owner'[c.user] # "none"
    BY DEF Serves, Steady
  <1>4. c.pc = "updateSave" => c.pc \in UpdatePCs
    BY DEF UpdatePCs
  <1>5. /\ c.pc \in UpdatePCs =>
             \/ c.op = "ensure" /\ profile'[c.found].email = c.user
             \/ /\ c.op = "update"
                /\ c.user # Nobody =>
                      MeddledWith({c.user, profile[c.found].email})'
        /\ c.pc = "updateSave" =>
             c.row.email = profile'[c.found].email /\ c.row.user = c.user
    BY <1>2, <1>4 DEF Serves, MeddledWith, Steady
  <1>6. /\ c.op \in {"create", "parent", "purchase"} /\ c.pc # "insert"
             /\ c.user # Nobody => MeddledWith({c.user, c.email})'
        /\ c.pc = "insert" =>
             \/ MeddledWith({c.user, c.email})'
             \/ c.user = c.email /\ c.user \in Addresses
                  /\ owner'[c.user] # "none"
    BY <1>1, <1>3 DEF Serves
  <1> QED BY <1>3, <1>5, <1>6 DEF Serves

\* While the profiles stay, so does all that is known of them.
LEMMA RowsStay ==
  ASSUME ProfilesTypeOK, AccountsInv, UNCHANGED profile, Steady
  PROVE  /\ KnownUsers' /\ AccountRows'
         /\ \A c : Clear(c) => Clear(c)'
  <1>1. MadeProfiles' = MadeProfiles /\ LiveProfiles' = LiveProfiles
    BY DEF MadeProfiles, LiveProfiles
  <1>2. Untouched' \subseteq Untouched
    BY DEF Untouched, Steady
  <1>3. KnownUsers'
    BY <1>1 DEF AccountsInv, KnownUsers
  <1>4. AccountRows'
    BY <1>1, <1>2 DEF AccountsInv, AccountRows, Steady, Untouched
  <1>5. ASSUME NEW c, Clear(c) PROVE Clear(c)'
    BY <1>1, <1>2, <1>5 DEF Clear
  <1> QED BY <1>3, <1>4, <1>5

\* A step of one handler that writes no profile.
LEMMA AccountsQuiet ==
  ASSUME ProfilesInv, AccountsInv, NEW h \in ProfileCalls, NEW c,
         ProfileTo(h, c), UNCHANGED profile, Steady, Serves(c)', Clear(c)'
  PROVE  AccountsInv'
  <1>1. /\ profileCall'[h] = c
        /\ \A q \in ProfileCalls \ {h} : profileCall'[q] = profileCall[q]
    BY DEF ProfileTo, ProfilesInv, ProfilesTypeOK
  <1>2. ASSUME NEW q \in ProfileCalls
        PROVE  Serves(profileCall[q])' /\ Clear(profileCall[q])'
    <2>1. CASE q = h
      BY <1>1, <2>1 DEF Serves, Clear
    <2>2. CASE q # h
      <3>1. PICK d : d = profileCall[q]
        OBVIOUS
      <3>2. RequestInv(d) /\ Serves(d) /\ Clear(d)
        BY <3>1, RequestFields DEF AccountsInv
      <3>3. Serves(d)' /\ Clear(d)'
        BY <3>2, ServesStays, RowsStay DEF ProfilesInv
      <3>4. profileCall'[q] = d
        BY <1>1, <2>2, <3>1
      <3>5. Serves(profileCall[q])'
        BY <3>3, <3>4 DEF Serves
      <3>6. Clear(profileCall[q])'
        BY <3>3, <3>4 DEF Clear
      <3> QED BY <3>5, <3>6
    <2> QED BY <2>1, <2>2
  <1> QED BY <1>2, RowsStay DEF AccountsInv, ProfilesInv

LEMMA SteadyMeans ==
  ASSUME UNCHANGED profile, owner' = owner, meddled \subseteq meddled'
  PROVE  Steady
  BY DEF Steady, MadeProfiles

LEMMA NoRequestServes ==
  Serves(NoRequest)' /\ Clear(NoRequest)' /\ Serves(NoRequest) /\ Clear(NoRequest)
  BY DEF NoRequest, Serves, Clear, EnsurePCs, MakingPCs, UpdatePCs

LEMMA EndServes ==
  ASSUME ProfilesInv, AccountsInv, NEW h \in ProfileCalls, ProfileEnds(h),
         UNCHANGED <<owner, profile, meddled>>
  PROVE  AccountsInv'
  BY SteadyMeans, NoRequestServes, AccountsQuiet DEF ProfileEnds

\* A handler that goes on with the same record at another place.
LEMMA OnToServes ==
  ASSUME ProfilesInv, AccountsInv, NEW h \in ProfileCalls, NEW pc \in ProfilePCs,
         ProfileTo(h, [profileCall[h] EXCEPT !.pc = pc]),
         UNCHANGED <<owner, profile, meddled>>,
         NEW c, c = profileCall[h],
         pc # "updateSave", c.pc # "insert",
         pc = "insert" => Serves([c EXCEPT !.pc = "insert"]),
         pc \in EnsurePCs => c.pc \in EnsurePCs,
         pc \in MakingPCs => c.pc \in MakingPCs,
         pc \in UpdatePCs => c.pc \in UpdatePCs,
         pc \in {"number", "checkUser", "insert"} =>
            c.pc \in {"number", "checkUser"} \/ c.user \notin Untouched
  PROVE  AccountsInv'
  <1>1. PICK d : d = [c EXCEPT !.pc = pc]
    OBVIOUS
  <1>2. /\ d.pc = pc /\ d.op = c.op /\ d.user = c.user /\ d.email = c.email
        /\ d.found = c.found /\ d.row = c.row
    BY <1>1, RequestFields, OnTo
  <1>3. Serves(c) /\ Clear(c) /\ RequestInv(c)
    BY RequestFields DEF AccountsInv
  <1>4. Serves(d)
    <2>1. CASE pc = "insert"
      BY <1>1, <2>1
    <2>2. CASE pc # "insert"
      BY <1>2, <1>3, <2>2 DEF Serves, UpdatePCs, MakingPCs, EnsurePCs
    <2> QED BY <2>1, <2>2
  <1>5. Clear(d)
    BY <1>2, <1>3 DEF Clear
  <1>6. Steady
    BY SteadyMeans
  <1>7. Serves(d)' /\ Clear(d)'
    BY <1>4, <1>5 DEF Serves, Clear, Untouched, MeddledWith, LiveProfiles
  <1> QED BY <1>1, <1>6, <1>7, AccountsQuiet

LEMMA StartCreateProfileServes ==
  ASSUME ProfilesInv, AccountsInv, NEW h \in ProfileCalls, NEW email \in Owners,
         NEW user \in Owners, StartCreateProfile(h, email, user)
  PROVE  AccountsInv'
  <1>1. PICK c : c = [NoRequest EXCEPT !.pc = "number", !.email = email,
                                       !.user = user]
    OBVIOUS
  <1>2. /\ c.pc = "number" /\ c.email = email /\ c.user = user
        /\ c.op = "create" /\ c.found = 0
    BY <1>1 DEF NoRequest
  <1>3. /\ ProfileTo(h, c) /\ UNCHANGED <<owner, profile>>
        /\ meddled' = IF user = Nobody THEN meddled
                      ELSE meddled \cup ({user, email} \ {Nobody})
    BY <1>1 DEF StartCreateProfile
  <1>4. Steady
    BY <1>3, SteadyMeans
  <1>5. user # Nobody => MeddledWith({user, email})' /\ user \notin Untouched'
    BY <1>3 DEF MeddledWith, Untouched
  <1>6. Serves(c)'
    BY <1>2, <1>5 DEF Serves, MakingPCs, EnsurePCs, UpdatePCs
  <1>7. Clear(c)'
    BY <1>2, <1>5, ProfilesAssumption DEF Clear, Untouched
  <1> QED BY <1>3, <1>4, <1>6, <1>7, AccountsQuiet

LEMMA StartRegisterParentServes ==
  ASSUME ProfilesInv, AccountsInv, NEW h \in ProfileCalls, NEW a \in Addresses,
         NEW op \in {"parent", "purchase"}, StartRegisterParent(h, a, op)
  PROVE  AccountsInv'
  <1>1. PICK c : c = [NoRequest EXCEPT !.pc = "checkEmail", !.email = a,
                                       !.op = op, !.parent = TRUE]
    OBVIOUS
  <1>2. /\ c.pc = "checkEmail" /\ c.user = Nobody /\ c.op = op /\ c.found = 0
    BY <1>1 DEF NoRequest
  <1>3. ProfileTo(h, c) /\ UNCHANGED <<owner, profile, meddled>>
    BY <1>1 DEF StartRegisterParent
  <1>4. Serves(c)' /\ Clear(c)'
    BY <1>2 DEF Serves, Clear, MakingPCs, EnsurePCs, UpdatePCs
  <1> QED BY <1>3, <1>4, SteadyMeans, AccountsQuiet

LEMMA StartEnsureServes ==
  ASSUME ProfilesInv, AccountsInv, NEW h \in ProfileCalls, NEW a \in Addresses,
         StartEnsure(h, a)
  PROVE  AccountsInv'
  <1>1. PICK c : c = [NoRequest EXCEPT !.pc = "ensureUser", !.op = "ensure",
                                       !.user = a, !.email = a]
    OBVIOUS
  <1>2. /\ c.pc = "ensureUser" /\ c.user = a /\ c.email = a
        /\ c.op = "ensure" /\ c.found = 0
    BY <1>1 DEF NoRequest
  <1>3. /\ ProfileTo(h, c) /\ UNCHANGED <<owner, profile, meddled>>
        /\ owner[a] = "live"
    BY <1>1 DEF StartEnsure
  <1>4. Serves(c)' /\ Clear(c)'
    BY <1>2, <1>3 DEF Serves, Clear, MakingPCs, EnsurePCs, UpdatePCs
  <1> QED BY <1>3, <1>4, SteadyMeans, AccountsQuiet

LEMMA StartUpdateProfileServes ==
  ASSUME ProfilesInv, AccountsInv, NEW h \in ProfileCalls, NEW p \in ProfileIds,
         NEW user \in Owners, StartUpdateProfile(h, p, user)
  PROVE  AccountsInv'
  <1>1. PICK pc : pc = IF user = Nobody THEN "updateRead" ELSE "updateUser"
    OBVIOUS
  <1>2. PICK c : c = [NoRequest EXCEPT !.op = "update", !.found = p,
                                       !.user = user, !.pc = pc]
    OBVIOUS
  <1>3. c.pc = pc /\ c.user = user /\ c.op = "update" /\ c.found = p
    BY <1>2 DEF NoRequest
  <1>4. /\ ProfileTo(h, c) /\ UNCHANGED <<owner, profile>>
        /\ meddled' = IF user = Nobody THEN meddled
                      ELSE meddled \cup ({user, profile[p].user,
                                          profile[p].email} \ {Nobody})
    BY <1>1, <1>2 DEF StartUpdateProfile
  <1>5. Steady
    BY <1>4, SteadyMeans
  <1>6. user # Nobody => MeddledWith({user, profile[p].email})'
    BY <1>4 DEF MeddledWith
  <1>7. Serves(c)' /\ Clear(c)'
    BY <1>1, <1>3, <1>4, <1>6
       DEF Serves, Clear, MeddledWith, MakingPCs, EnsurePCs, UpdatePCs
  <1> QED BY <1>4, <1>5, <1>7, AccountsQuiet

\* The number is told; the handler serves whom it served.
LEMMA GenerateStudentIdServes ==
  ASSUME ProfilesInv, AccountsInv, NEW h \in ProfileCalls, GenerateStudentId(h)
  PROVE  AccountsInv'
  <1>1. PICK g, n, behind, pc :
           /\ g = profileCall[h]
           /\ n = IF LiveProfiles = {} THEN 1
                  ELSE profile[NewestOf(LiveProfiles)].number + 1
           /\ behind = \E p \in MadeProfiles : \A q \in LiveProfiles : q < p
           /\ pc = IF g.user # Nobody THEN "checkUser"
                   ELSE IF g.email # Nobody THEN "checkEmail" ELSE "insert"
    OBVIOUS
  <1>2. PICK c : c = [g EXCEPT !.number = n, !.behind = behind, !.pc = pc]
    OBVIOUS
  <1>3. /\ ProfileTo(h, c) /\ UNCHANGED <<owner, profile, meddled>>
        /\ g.pc = "number"
    BY <1>1, <1>2 DEF GenerateStudentId, ProfileAt
  <1>4. /\ c.pc = pc /\ c.op = g.op /\ c.user = g.user /\ c.email = g.email
        /\ c.found = g.found
    BY <1>1, <1>2, RequestFields DEF ProfileHandlers
  <1>5. Serves(g) /\ Clear(g)
    BY <1>1 DEF AccountsInv
  <1>6. pc \in {"checkUser", "checkEmail", "insert"}
    BY <1>1
  <1>7. Serves(c)'
    <2>1. g.user # Nobody => pc # "insert"
      BY <1>1
    <2>2. g.user = Nobody /\ pc = "insert" => MeddledWith({c.user, c.email})'
      BY <1>1, <1>4 DEF MeddledWith
    <2> QED BY <1>3, <1>4, <1>5, <1>6, <2>1, <2>2
            DEF Serves, MakingPCs, EnsurePCs, UpdatePCs, MeddledWith
  <1>8. Clear(c)'
    BY <1>3, <1>4, <1>5, <1>6 DEF Clear, Untouched, LiveProfiles
  <1> QED BY <1>3, <1>7, <1>8, SteadyMeans, AccountsQuiet

LEMMA CheckUserServes ==
  ASSUME ProfilesInv, AccountsInv, NEW h \in ProfileCalls, CheckUser(h)
  PROVE  AccountsInv'
  <1>1. PICK c : c = profileCall[h]
    OBVIOUS
  <1>2. /\ c.pc = "checkUser" /\ c.user \in Addresses /\ Serves(c)
        /\ c \in ProfileHandlers
    BY <1>1, RequestFields DEF CheckUser, ProfileAt, RequestInv, AccountsInv
  <1>3. PICK d : d = [c EXCEPT !.pc = "insert"]
    OBVIOUS
  <1>4. /\ d.pc = "insert" /\ d.op = c.op /\ d.user = c.user
        /\ d.email = c.email /\ d.found = c.found /\ c.op \in ProfileOps
    BY <1>2, <1>3 DEF ProfileHandlers
  <1>5. \/ MeddledWith({c.user, c.email})
        \/ c.user = c.email /\ c.user \in Addresses /\ owner[c.user] # "none"
    BY <1>2, <1>4, ProfilesAssumption DEF Serves, ProfileOps, MakingPCs
  <1>6. Serves([c EXCEPT !.pc = "insert"])
    BY <1>2, <1>3, <1>4, <1>5 DEF Serves, MakingPCs, EnsurePCs, UpdatePCs
  <1>7. UNCHANGED <<owner, profile, meddled>>
    BY DEF CheckUser
  <1>8. CASE ProfileEnds(h)
    BY <1>7, <1>8, EndServes
  <1>9. CASE ProfileTo(h, [c EXCEPT !.pc = "insert"])
    BY <1>1, <1>2, <1>6, <1>7, <1>9, OnToServes
       DEF ProfilePCs, MakingPCs, EnsurePCs, UpdatePCs
  <1> QED BY <1>1, <1>8, <1>9 DEF CheckUser

LEMMA CheckEmailServes ==
  ASSUME ProfilesInv, AccountsInv, NEW h \in ProfileCalls, CheckEmail(h)
  PROVE  AccountsInv'
  BY EndServes, OnToServes
     DEF CheckEmail, ProfileAt, ProfilePCs, MakingPCs, EnsurePCs, UpdatePCs

\* An address that had no account is in no profile.
LEMMA CreateUserServes ==
  ASSUME ProfilesInv, AccountsInv, NEW h \in ProfileCalls, CreateUser(h)
  PROVE  AccountsInv'
  <1>1. PICK c : c = profileCall[h]
    OBVIOUS
  <1>2. /\ c.pc = "createUser" /\ c.email \in Addresses /\ Serves(c)
        /\ c \in ProfileHandlers
    BY <1>1, RequestFields DEF CreateUser, ProfileAt, RequestInv, AccountsInv
  <1>3. UNCHANGED <<profile, meddled>>
    BY DEF CreateUser
  <1>4. CASE owner' = owner /\ ProfileEnds(h)
    BY <1>3, <1>4, EndServes
  <1>5. CASE owner[c.email] = "none"
    <2>1. owner' = [owner EXCEPT ![c.email] = "live"]
      BY <1>1, <1>5 DEF CreateUser
    <2>2. /\ owner'[c.email] = "live"
          /\ \A a \in Addresses : owner[a] # "none" => owner'[a] # "none"
      BY <1>2, <2>1 DEF ProfilesInv, ProfilesTypeOK
    <2>3. Steady
      BY <1>3, <2>2 DEF Steady, MadeProfiles
    <2>4. CASE ProfileEnds(h)
      BY <1>3, <2>3, <2>4, NoRequestServes, AccountsQuiet DEF ProfileEnds
    <2>5. CASE ProfileTo(h, [c EXCEPT !.pc = "insert", !.user = c.email])
      <3>1. PICK d : d = [c EXCEPT !.pc = "insert", !.user = c.email]
        OBVIOUS
      <3>2. /\ d.pc = "insert" /\ d.op = c.op /\ d.user = c.email
            /\ d.email = c.email /\ d.found = c.found
        BY <1>2, <3>1 DEF ProfileHandlers
      <3>3. Serves(d)'
        BY <1>2, <2>2, <3>2 DEF Serves, MakingPCs, EnsurePCs, UpdatePCs
      <3>4. Clear(d)'
        BY <1>3, <1>5, <3>2 DEF Clear, AccountsInv, AccountRows, Untouched,
                                LiveProfiles, MadeProfiles
      <3> QED BY <1>3, <2>3, <2>5, <3>1, <3>3, <3>4, AccountsQuiet
    <2>6. CASE /\ c.op = "purchase"
               /\ ProfileTo(h, [c EXCEPT !.pc = "number", !.parent = FALSE])
      <3>1. PICK d : d = [c EXCEPT !.pc = "number", !.parent = FALSE]
        OBVIOUS
      <3>2. /\ d.pc = "number" /\ d.op = c.op /\ d.user = c.user
            /\ d.email = c.email /\ d.found = c.found
        BY <1>2, <3>1 DEF ProfileHandlers
      <3>3. c.user # Nobody => MeddledWith({c.user, c.email})'
        BY <1>2, <1>3, <2>6 DEF Serves, MeddledWith
      <3>4. Serves(d)'
        BY <1>2, <2>6, <3>2, <3>3 DEF Serves, MakingPCs, EnsurePCs, UpdatePCs
      <3>5. c.user \notin Untouched'
        BY <3>3, ProfilesAssumption DEF Untouched, MeddledWith
      <3>6. Clear(d)'
        BY <3>2, <3>5 DEF Clear
      <3> QED BY <1>3, <2>3, <2>6, <3>1, <3>4, <3>6, AccountsQuiet
    <2> QED BY <1>1, <1>5, <2>4, <2>5, <2>6 DEF CreateUser
  <1> QED BY <1>1, <1>4, <1>5 DEF CreateUser

LEMMA EnsureUserServes ==
  ASSUME ProfilesInv, AccountsInv, NEW h \in ProfileCalls, EnsureUser(h)
  PROVE  AccountsInv'
  BY EndServes, OnToServes
     DEF EnsureUser, ProfileAt, ProfilePCs, MakingPCs, EnsurePCs, UpdatePCs

\* No profile has the address; or one has, and no user.
LEMMA EnsureEmailServes ==
  ASSUME ProfilesInv, AccountsInv, NEW h \in ProfileCalls, EnsureEmail(h)
  PROVE  AccountsInv'
  <1>1. PICK c : c = profileCall[h]
    OBVIOUS
  <1>2. PICK own : own = {p \in LiveProfiles : profile[p].email = c.email
                 \/ (profile[p].user = c.email /\ owner[c.email] = "live")}
    OBVIOUS
  <1>3. /\ c.pc = "ensureEmail" /\ c.op = "ensure" /\ c.user \in Addresses
        /\ c.email = c.user /\ c.found = 0 /\ Serves(c)
        /\ c \in ProfileHandlers
    BY <1>1, RequestFields
       DEF EnsureEmail, ProfileAt, AccountsInv, Serves, EnsurePCs
  <1>4. UNCHANGED <<owner, profile, meddled>>
    BY DEF EnsureEmail
  <1>5. CASE ProfileEnds(h)
    BY <1>4, <1>5, EndServes
  <1>6. CASE own = {} /\ ProfileTo(h, [c EXCEPT !.pc = "number"])
    <2>1. PICK d : d = [c EXCEPT !.pc = "number"]
      OBVIOUS
    <2>2. /\ d.pc = "number" /\ d.op = c.op /\ d.user = c.user
          /\ d.email = c.email /\ d.found = c.found
      BY <1>3, <2>1 DEF ProfileHandlers
    <2>3. Serves(d)'
      BY <1>3, <1>4, <2>2 DEF Serves, MakingPCs, EnsurePCs, UpdatePCs
    <2>4. Clear(d)'
      BY <1>2, <1>3, <1>4, <1>6, <2>2 DEF Clear, LiveProfiles
    <2> QED BY <1>4, <1>6, <2>1, <2>3, <2>4, SteadyMeans, AccountsQuiet
  <1>7. ASSUME NEW p \in own, profile[p].user = Nobody,
               ProfileTo(h, [c EXCEPT !.pc = "updateFind", !.found = p])
        PROVE  AccountsInv'
    <2>1. PICK d : d = [c EXCEPT !.pc = "updateFind", !.found = p]
      OBVIOUS
    <2>2. /\ d.pc = "updateFind" /\ d.op = c.op /\ d.user = c.user
          /\ d.email = c.email /\ d.found = p
      BY <1>3, <2>1 DEF ProfileHandlers
    <2>3. profile[p].email = c.user
      BY <1>2, <1>3, <1>7, ProfilesAssumption
    <2>4. Serves(d)' /\ Clear(d)'
      BY <1>3, <1>4, <2>2, <2>3
         DEF Serves, Clear, MakingPCs, EnsurePCs, UpdatePCs
    <2> QED BY <1>4, <1>7, <2>1, <2>4, SteadyMeans, AccountsQuiet
  <1> QED BY <1>1, <1>2, <1>5, <1>6, <1>7 DEF EnsureEmail

LEMMA UpdateFindProfileServes ==
  ASSUME ProfilesInv, AccountsInv, NEW h \in ProfileCalls, UpdateFindProfile(h)
  PROVE  AccountsInv'
  BY EndServes, OnToServes
     DEF UpdateFindProfile, ProfileAt, ProfilePCs, MakingPCs, EnsurePCs,
         UpdatePCs

LEMMA UpdateUserServes ==
  ASSUME ProfilesInv, AccountsInv, NEW h \in ProfileCalls, UpdateUser(h)
  PROVE  AccountsInv'
  BY EndServes, OnToServes
     DEF UpdateUser, ProfileAt, ProfilePCs, MakingPCs, EnsurePCs, UpdatePCs

\* A profile that is read is the only one with its address.
LEMMA UpdateReadServes ==
  ASSUME ProfilesInv, AccountsInv, NEW h \in ProfileCalls, UpdateRead(h)
  PROVE  AccountsInv'
  <1>1. PICK c : c = profileCall[h]
    OBVIOUS
  <1>2. /\ c.pc = "updateRead" /\ Serves(c) /\ c \in ProfileHandlers
        /\ c.found \in ProfileIds /\ profile[c.found] \in ProfileRows
    BY <1>1, RequestFields
       DEF UpdateRead, ProfileAt, RequestInv, AccountsInv, UpdatePCs,
           ProfilesInv, ProfilesTypeOK
  <1>3. UNCHANGED <<owner, profile, meddled>>
    BY DEF UpdateRead
  <1>4. CASE ProfileEnds(h)
    BY <1>3, <1>4, EndServes
  <1>5. CASE profile[c.found].state = "live"
    <2>1. PICK row : row = [profile[c.found] EXCEPT !.user = c.user]
      OBVIOUS
    <2>2. PICK d : d = [c EXCEPT !.pc = "updateSave", !.row = row]
      OBVIOUS
    <2>3. /\ d.pc = "updateSave" /\ d.op = c.op /\ d.user = c.user
          /\ d.email = c.email /\ d.found = c.found /\ d.row = row
      BY <1>2, <2>2 DEF ProfileHandlers
    <2>4. row.user = c.user /\ row.email = profile[c.found].email
      BY <1>2, <2>1 DEF ProfileRows
    <2>5. Serves(d)
      BY <1>2, <2>3, <2>4 DEF Serves, MakingPCs, EnsurePCs, UpdatePCs
    <2>6. Clear(d)
      <3>1. CASE c.op = "ensure"
        <4>1. profile[c.found].email = c.user
          BY <1>2, <3>1 DEF Serves, UpdatePCs
        <4> QED BY <1>2, <1>5, <2>3, <4>1
                DEF Clear, AccountsInv, AccountRows, LiveProfiles
      <3>2. CASE c.op # "ensure"
        BY <1>2, <2>3, <3>2, ProfilesAssumption
           DEF Clear, Serves, UpdatePCs, MeddledWith, Untouched
      <3> QED BY <3>1, <3>2
    <2>7. Serves(d)' /\ Clear(d)'
      BY <1>3, <2>5, <2>6 DEF Serves, Clear, Untouched, MeddledWith, LiveProfiles
    <2>8. ProfileTo(h, d)
      BY <1>1, <1>5, <2>1, <2>2 DEF UpdateRead
    <2> QED BY <1>3, <2>7, <2>8, SteadyMeans, AccountsQuiet
  <1> QED BY <1>1, <1>4, <1>5 DEF UpdateRead

-----------------------------------------------------------------------------
(***************************************************************************)
(* The steps that write a profile.                                         *)
(***************************************************************************)

\* Handlers with the same plans are as good as each other.
LEMMA AlikeServe ==
  ASSUME NEW c, NEW d, Serves(c), Clear(c), d.pc = c.pc, d.op = c.op,
         d.user = c.user, d.email = c.email, d.found = c.found, d.row = c.row
  PROVE  Serves(d) /\ Clear(d)
  BY DEF Serves, Clear

\* The new profile has its user's address, or one that staff meddled with.
LEMMA InsertProfileServes ==
  ASSUME ProfilesInv, AccountsInv, NEW h \in ProfileCalls, InsertProfile(h)
  PROVE  AccountsInv'
  <1>1. PICK c : c = profileCall[h]
    OBVIOUS
  <1>2. PICK p \in ProfileIds :
          /\ MadeProfiles = 1..(p - 1)
          /\ profile' = [profile EXCEPT ![p] =
                [state |-> "live", number |-> c.number, user |-> c.user,
                 email |-> c.email]]
    BY <1>1 DEF InsertProfile
  <1>3. /\ c.pc = "insert" /\ Serves(c) /\ Clear(c) /\ ~UserTaken(c.user)
        /\ c.found = 0 /\ c.user \in Owners /\ c.email \in Owners
        /\ owner' = owner /\ meddled' = meddled
    BY <1>1, RequestFields
       DEF InsertProfile, ProfileAt, AccountsInv, Serves, MakingPCs
  <1>4. /\ p \notin MadeProfiles /\ p # 0
        /\ profile'[p].state = "live" /\ profile'[p].user = c.user
        /\ profile'[p].email = c.email
        /\ \A q \in ProfileIds \ {p} : profile'[q] = profile[q]
    BY <1>2, ProfilesAssumption DEF ProfileIds, ProfilesInv, ProfilesTypeOK
  <1>5. MadeProfiles' = MadeProfiles \cup {p} /\ LiveProfiles' = LiveProfiles \cup {p}
    BY <1>4 DEF MadeProfiles, LiveProfiles
  <1>6. LiveProfiles \subseteq MadeProfiles /\ MadeProfiles \subseteq ProfileIds
    BY DEF LiveProfiles, MadeProfiles
  <1>7. Steady /\ Untouched' = Untouched
    BY <1>3, <1>4, <1>5, <1>6 DEF Steady, Untouched
  <1>8. ASSUME NEW a \in Untouched, a \in {c.user, c.email}
        PROVE  c.user = a /\ c.email = a /\ owner[a] # "none"
    BY <1>3, <1>8, ProfilesAssumption DEF Serves, MeddledWith, Untouched
  <1>9. KnownUsers'
    BY <1>3, <1>4, <1>5, <1>6 DEF AccountsInv, KnownUsers, UserTaken
  <1>10. ASSUME NEW a \in Untouched, NEW q \in LiveProfiles,
                profile[q].email = a
         PROVE  c.email # a
    <2>1. CASE c.email = a
      <3>1. c.user = a /\ a # Nobody
        BY <1>8, <2>1, ProfilesAssumption DEF Untouched
      <3>2. profile[q].user # a
        BY <1>3, <1>6, <3>1 DEF UserTaken
      <3>3. q # 0
        BY <1>6, ProfilesAssumption DEF ProfileIds
      <3> QED BY <1>3, <1>10, <3>1, <3>2, <3>3 DEF Clear
    <2> QED BY <2>1
  <1>11. AccountRows'
    <2> SUFFICES ASSUME NEW a \in Untouched
                 PROVE  /\ \A q \in MadeProfiles' :
                             /\ profile'[q].user = a => profile'[q].email = a
                             /\ profile'[q].email = a => owner'[a] # "none"
                        /\ \A q, r \in LiveProfiles' :
                             profile'[q].email = a /\ profile'[r].email = a
                                => q = r
      BY <1>7 DEF AccountRows
    <2>1. \A q \in MadeProfiles' :
             /\ profile'[q].user = a => profile'[q].email = a
             /\ profile'[q].email = a => owner'[a] # "none"
      BY <1>3, <1>4, <1>5, <1>6, <1>8 DEF AccountsInv, AccountRows
    <2>2. ASSUME NEW q \in LiveProfiles', NEW r \in LiveProfiles',
                 profile'[q].email = a, profile'[r].email = a
          PROVE  q = r
      BY <1>4, <1>5, <1>6, <1>10, <2>2 DEF AccountsInv, AccountRows
    <2> QED BY <2>1, <2>2
  <1>12. ASSUME NEW d, RequestInv(d), Serves(d), Clear(d)
         PROVE  Serves(d)' /\ Clear(d)'
    <2>1. Serves(d)'
      BY <1>7, <1>12, ServesStays DEF ProfilesInv
    <2>2. Clear(d)'
      BY <1>4, <1>5, <1>6, <1>7, <1>8, <1>12 DEF Clear
    <2> QED BY <2>1, <2>2
  <1>13. ASSUME NEW q \in ProfileCalls
         PROVE  Serves(profileCall[q])' /\ Clear(profileCall[q])'
    <2>1. PICK d : d = profileCall[q]
      OBVIOUS
    <2>2. RequestInv(d) /\ Serves(d) /\ Clear(d) /\ d \in ProfileHandlers
      BY <2>1, RequestFields DEF AccountsInv
    <2>3. PICK e : e = profileCall'[q]
      OBVIOUS
    <2>4. e \in {NoRequest, d, [d EXCEPT !.overtaken = TRUE]}
      BY <2>1, <2>3 DEF InsertProfile
    <2>5. Serves(e)' /\ Clear(e)'
      <3>1. CASE e = NoRequest
        BY <3>1, NoRequestServes DEF NoRequest, Serves, Clear, EnsurePCs,
                                     MakingPCs, UpdatePCs
      <3>2. CASE e = d
        BY <1>12, <2>2, <3>2
      <3>3. CASE e = [d EXCEPT !.overtaken = TRUE]
        <4>1. /\ e.pc = d.pc /\ e.op = d.op /\ e.user = d.user
              /\ e.email = d.email /\ e.found = d.found /\ e.row = d.row
              /\ e.number = d.number /\ e.parent = d.parent
          BY <2>2, <3>3 DEF ProfileHandlers
        <4>2. Serves(e) /\ Clear(e)
          BY <2>2, <4>1, AlikeServe
        <4>3. RequestInv(e)
          BY <2>2, <4>1 DEF RequestInv
        <4> QED BY <1>12, <4>2, <4>3
      <3> QED BY <2>4, <3>1, <3>2, <3>3
    <2>6. Serves(profileCall[q])'
      BY <2>3, <2>5 DEF Serves
    <2>7. Clear(profileCall[q])'
      BY <2>3, <2>5 DEF Clear
    <2> QED BY <2>6, <2>7
  <1> QED BY <1>9, <1>11, <1>13 DEF AccountsInv

LEMMA ProfileRefusedServes ==
  ASSUME ProfilesInv, AccountsInv, NEW h \in ProfileCalls, ProfileRefused(h)
  PROVE  AccountsInv'
  BY EndServes DEF ProfileRefused

LEMMA ProfileCallFailsServes ==
  ASSUME ProfilesInv, AccountsInv, NEW h \in ProfileCalls, ProfileCallFails(h)
  PROVE  AccountsInv'
  BY EndServes DEF ProfileCallFails

\* The user is the address of the profile, or staff meddled with both.  A user
\* that is taken off leaves whoever is served, or a profile brought back, to
\* the staff.
LEMMA UpdateSaveProfileServes ==
  ASSUME ProfilesInv, AccountsInv, NEW h \in ProfileCalls, UpdateSaveProfile(h)
  PROVE  AccountsInv'
  <1>1. PICK c, f, w : c = profileCall[h] /\ f = c.found /\ w = c.user
    OBVIOUS
  <1>2. /\ c.pc = "updateSave" /\ Serves(c) /\ Clear(c) /\ f \in ProfileIds
        /\ profile[f].state # "none" /\ c.row.state = "live"
        /\ w \in Owners /\ profile[f].email \in Owners
    BY <1>1, RequestFields
       DEF UpdateSaveProfile, ProfileAt, RequestInv, UpdatePCs, AccountsInv,
           ProfilesInv, ProfilesTypeOK, ProfileRows
  <1>3. c.row.email = profile[f].email /\ c.row.user = w
    BY <1>1, <1>2 DEF Serves
  <1>4. /\ profileCall'[h] = NoRequest
        /\ \A q \in ProfileCalls \ {h} : profileCall'[q] = profileCall[q]
        /\ owner' = owner
    BY NoRequestMeans, ProfileToMeans
       DEF UpdateSaveProfile, ProfileEnds, ProfilesInv
  <1>5. meddled \subseteq meddled'
    BY DEF UpdateSaveProfile
  <1>6. CASE profile' = profile
    <2>1. Steady
      BY <1>4, <1>5, <1>6, SteadyMeans
    <2>2. ProfileTo(h, NoRequest)
      BY DEF UpdateSaveProfile, ProfileEnds
    <2> QED BY <1>6, <2>1, <2>2, NoRequestServes, AccountsQuiet
  <1>7. CASE profile' # profile
    <2>1. /\ profile' = [profile EXCEPT ![f] = c.row]
          /\ w # Nobody => \A p \in MadeProfiles \ {f} : profile[p].user # w
      BY <1>1, <1>7 DEF UpdateSaveProfile
    <2>2. /\ profile'[f] = c.row
          /\ \A q \in ProfileIds \ {f} : profile'[q] = profile[q]
      BY <1>2, <2>1 DEF ProfilesInv, ProfilesTypeOK
    <2>3. /\ MadeProfiles' = MadeProfiles /\ LiveProfiles' = LiveProfiles \cup {f}
          /\ \A p \in ProfileIds : profile'[p].email = profile[p].email
          /\ f \in MadeProfiles /\ MadeProfiles \subseteq ProfileIds
          /\ LiveProfiles \subseteq MadeProfiles
      BY <1>2, <1>3, <2>2 DEF MadeProfiles, LiveProfiles
    <2>4. Steady /\ Untouched' \subseteq Untouched
      BY <1>4, <1>5, <2>3 DEF Steady, Untouched
    <2>5. ASSUME NEW a \in Untouched, w # Nobody,
                 a = w \/ a = profile[f].email
          PROVE  a = w /\ a = profile[f].email
      BY <1>1, <1>2, <2>5, ProfilesAssumption
         DEF Serves, MeddledWith, Untouched, UpdatePCs
    <2>6. ASSUME w = Nobody
          PROVE  /\ profile[f].state = "removed" =>
                       profile[f].email \notin Untouched'
                 /\ \A q \in ProfileCalls \ {h} :
                       profileCall[q].user \notin Untouched'
      <3>1. PICK served :
               served = UNION {{profileCall[q].user, profileCall[q].email} :
                                  q \in ProfileCalls \ {h}}
        OBVIOUS
      <3>2. PICK brought : brought = IF profile[f].state = "removed"
                                     THEN {c.row.email} ELSE {}
        OBVIOUS
      <3>3. meddled' = meddled \cup ((served \cup brought) \ {Nobody})
        BY <1>1, <2>6, <3>1, <3>2 DEF UpdateSaveProfile
      <3>4. \A q \in ProfileCalls \ {h} : profileCall[q].user \in served
        BY <3>1
      <3>5. \A a \in Untouched' : a \notin served \cup brought
        BY <3>3, ProfilesAssumption DEF Untouched
      <3> QED BY <1>3, <3>2, <3>4, <3>5
    <2>7. KnownUsers'
      BY <1>3, <2>1, <2>2, <2>3 DEF AccountsInv, KnownUsers
    <2>8. ASSUME NEW a \in Untouched', NEW q \in LiveProfiles \ {f},
                 profile[q].email = a
          PROVE  profile[f].email # a
      <3> SUFFICES ASSUME profile[f].email = a PROVE FALSE
        OBVIOUS
      <3>1. f \notin LiveProfiles
        BY <2>4, <2>8 DEF AccountsInv, AccountRows
      <3>2. profile[f].state = "removed"
        BY <1>2, <3>1
           DEF LiveProfiles, ProfilesInv, ProfilesTypeOK, ProfileRows
      <3>3. w = a
        BY <2>4, <2>5, <2>6, <3>2
      <3>4. profile[q].user = w
        BY <1>1, <1>2, <2>4, <2>8, <3>3 DEF Clear
      <3> QED BY <2>1, <2>3, <3>3, <3>4, ProfilesAssumption DEF Untouched
    <2>9. AccountRows'
      <3> SUFFICES ASSUME NEW a \in Untouched'
                   PROVE  /\ \A q \in MadeProfiles' :
                               /\ profile'[q].user = a => profile'[q].email = a
                               /\ profile'[q].email = a => owner'[a] # "none"
                          /\ \A q, r \in LiveProfiles' :
                               profile'[q].email = a /\ profile'[r].email = a
                                  => q = r
        BY DEF AccountRows
      <3>0. a \in Untouched /\ a # Nobody
        BY <2>4, ProfilesAssumption DEF Untouched
      <3>1. \A q \in MadeProfiles : profile[q].email = a => owner'[a] # "none"
        BY <1>4, <3>0 DEF AccountsInv, AccountRows
      <3>2. ASSUME NEW q \in MadeProfiles, profile'[q].user = a
            PROVE  profile'[q].email = a
        <4>1. CASE q = f
          BY <1>3, <2>2, <2>5, <3>0, <3>2, <4>1
        <4>2. CASE q # f
          BY <2>2, <2>3, <3>0, <3>2, <4>2 DEF AccountsInv, AccountRows
        <4> QED BY <4>1, <4>2
      <3>3. ASSUME NEW q \in LiveProfiles', NEW r \in LiveProfiles',
                   profile'[q].email = a, profile'[r].email = a
            PROVE  q = r
        <4>1. profile[q].email = a /\ profile[r].email = a
          BY <2>3, <3>3
        <4>2. CASE q = f \/ r = f
          BY <2>3, <2>8, <4>1, <4>2
        <4>3. CASE q # f /\ r # f
          BY <2>3, <3>0, <4>1, <4>3 DEF AccountsInv, AccountRows
        <4> QED BY <4>2, <4>3
      <3> QED BY <2>3, <3>1, <3>2, <3>3
    <2>10. ASSUME NEW q \in ProfileCalls
           PROVE  Serves(profileCall[q])' /\ Clear(profileCall[q])'
      <3>1. CASE q = h
        BY <1>4, <3>1 DEF NoRequest, Serves, Clear, EnsurePCs, MakingPCs,
                          UpdatePCs
      <3>2. CASE q # h
        <4>1. PICK d : d = profileCall[q]
          OBVIOUS
        <4>2. RequestInv(d) /\ Serves(d) /\ Clear(d) /\ profileCall'[q] = d
          BY <1>4, <3>2, <4>1, RequestFields DEF AccountsInv
        <4>3. Serves(d)'
          BY <2>4, <4>2, ServesStays DEF ProfilesInv
        <4>4. ASSUME d.user \in Untouched', NEW r \in LiveProfiles' \ {d.found},
                     d.pc \in {"number", "checkUser", "insert", "updateSave"},
                     profile'[r].email = d.user
              PROVE  profile'[r].user = d.user
          <5>1. CASE r = f
            <6>1. w # Nobody
              BY <2>6, <3>2, <4>1, <4>4
            <6> QED BY <1>3, <2>2, <2>4, <2>5, <4>4, <5>1, <6>1
          <5>2. CASE r # f
            BY <2>2, <2>3, <2>4, <4>2, <4>4, <5>2 DEF Clear
          <5> QED BY <5>1, <5>2
        <4>5. Clear(d)'
          BY <4>4 DEF Clear
        <4>6. Serves(profileCall[q])'
          BY <4>2, <4>3 DEF Serves
        <4>7. Clear(profileCall[q])'
          BY <4>2, <4>5 DEF Clear
        <4> QED BY <4>6, <4>7
      <3> QED BY <3>1, <3>2
    <2> QED BY <2>7, <2>9, <2>10 DEF AccountsInv
  <1> QED BY <1>6, <1>7

LEMMA RemoveProfileServes ==
  ASSUME ProfilesInv, AccountsInv, NEW p \in ProfileIds, RemoveProfile(p)
  PROVE  AccountsInv'
  <1>1. /\ profile[p].state = "live"
        /\ profile' = [profile EXCEPT ![p].state = "removed"]
        /\ UNCHANGED <<owner, profileCall, meddled>>
    BY DEF RemoveProfile
  <1>2. \A q \in ProfileIds : /\ profile'[q].user = profile[q].user
                              /\ profile'[q].email = profile[q].email
    BY <1>1 DEF ProfilesInv, ProfilesTypeOK, ProfileRows
  <1>3. /\ profile'[p].state = "removed"
        /\ \A q \in ProfileIds \ {p} : profile'[q] = profile[q]
    BY <1>1 DEF ProfilesInv, ProfilesTypeOK, ProfileRows
  <1>4. /\ MadeProfiles' = MadeProfiles /\ LiveProfiles' \subseteq LiveProfiles
        /\ MadeProfiles \subseteq ProfileIds /\ LiveProfiles \subseteq ProfileIds
        /\ Untouched' = Untouched
    BY <1>1, <1>3 DEF MadeProfiles, LiveProfiles, Untouched
  <1>5. Steady
    BY <1>1, <1>2, <1>4 DEF Steady
  <1>6. KnownUsers' /\ AccountRows'
    BY <1>1, <1>2, <1>4 DEF AccountsInv, KnownUsers, AccountRows
  <1>7. ASSUME NEW q \in ProfileCalls
        PROVE  Serves(profileCall[q])' /\ Clear(profileCall[q])'
    <2>1. PICK d : d = profileCall[q]
      OBVIOUS
    <2>2. RequestInv(d) /\ Serves(d) /\ Clear(d) /\ profileCall'[q] = d
      BY <1>1, <2>1, RequestFields DEF AccountsInv
    <2>3. Serves(d)'
      BY <1>5, <2>2, ServesStays DEF ProfilesInv
    <2>4. Clear(d)'
      BY <1>2, <1>4, <2>2 DEF Clear
    <2>5. Serves(profileCall[q])'
      BY <2>2, <2>3 DEF Serves
    <2>6. Clear(profileCall[q])'
      BY <2>2, <2>4 DEF Clear
    <2> QED BY <2>5, <2>6
  <1> QED BY <1>6, <1>7 DEF AccountsInv

\* Accounts are only marked as removed.
LEMMA AccountsOnlyServes ==
  ASSUME ProfilesInv, AccountsInv, UNCHANGED <<profile, profileCall, meddled>>,
         \A a \in Addresses : owner[a] # "none" => owner'[a] # "none"
  PROVE  AccountsInv'
  <1>1. Steady
    BY DEF Steady, MadeProfiles
  <1>2. ASSUME NEW q \in ProfileCalls
        PROVE  Serves(profileCall[q])' /\ Clear(profileCall[q])'
    <2>1. PICK d : d = profileCall[q]
      OBVIOUS
    <2>2. RequestInv(d) /\ Serves(d) /\ Clear(d) /\ profileCall'[q] = d
      BY <2>1, RequestFields DEF AccountsInv
    <2>3. Serves(d)' /\ Clear(d)'
      BY <1>1, <2>2, ServesStays, RowsStay DEF ProfilesInv
    <2>4. Serves(profileCall[q])'
      BY <2>2, <2>3 DEF Serves
    <2>5. Clear(profileCall[q])'
      BY <2>2, <2>3 DEF Clear
    <2> QED BY <2>4, <2>5
  <1> QED BY <1>1, <1>2, RowsStay DEF AccountsInv, ProfilesInv

LEMMA RemoveAccountServes ==
  ASSUME ProfilesInv, AccountsInv, NEW a \in Addresses, RemoveAccount(a)
  PROVE  AccountsInv'
  <1>1. \A b \in Addresses : owner[b] # "none" => owner'[b] # "none"
    BY DEF RemoveAccount, ProfilesInv, ProfilesTypeOK
  <1> QED BY <1>1, AccountsOnlyServes DEF RemoveAccount

LEMMA ProfilesInitServes == ASSUME ProfilesInit PROVE AccountsInv
  <1>1. MadeProfiles = {} /\ LiveProfiles = {}
    BY DEF ProfilesInit, MadeProfiles, LiveProfiles, NoProfile
  <1>2. \A h \in ProfileCalls : Serves(profileCall[h]) /\ Clear(profileCall[h])
    BY NoRequestServes DEF ProfilesInit
  <1> QED BY <1>1, <1>2 DEF AccountsInv, KnownUsers, AccountRows

LEMMA ProfilesNextServes ==
  ASSUME ProfilesInv, AccountsInv, [ProfilesNext]_profilesVars
  PROVE  AccountsInv'
  <1>1. CASE UNCHANGED profilesVars
    BY <1>1, AccountsOnlyServes DEF profilesVars
  <1>2. ASSUME NEW p \in ProfileIds, RemoveProfile(p) PROVE AccountsInv'
    BY <1>2, RemoveProfileServes
  <1>3. ASSUME NEW a \in Addresses, RemoveAccount(a) PROVE AccountsInv'
    BY <1>3, RemoveAccountServes
  <1>4. ASSUME NEW h \in ProfileCalls,
               \/ \E email, user \in Owners : StartCreateProfile(h, email, user)
               \/ \E a \in Addresses, op \in {"parent", "purchase"} :
                     StartRegisterParent(h, a, op)
               \/ GenerateStudentId(h) \/ CheckUser(h) \/ CheckEmail(h)
               \/ CreateUser(h) \/ InsertProfile(h) \/ ProfileRefused(h)
        PROVE  AccountsInv'
    BY <1>4, StartCreateProfileServes, StartRegisterParentServes,
       GenerateStudentIdServes, CheckUserServes, CheckEmailServes,
       CreateUserServes, InsertProfileServes, ProfileRefusedServes
  <1>5. ASSUME NEW h \in ProfileCalls,
               \/ \E a \in Addresses : StartEnsure(h, a)
               \/ EnsureUser(h) \/ EnsureEmail(h)
               \/ \E p \in ProfileIds, user \in Owners :
                     StartUpdateProfile(h, p, user)
               \/ UpdateFindProfile(h) \/ UpdateUser(h) \/ UpdateRead(h)
               \/ UpdateSaveProfile(h) \/ ProfileCallFails(h)
        PROVE  AccountsInv'
    BY <1>5, StartEnsureServes, EnsureUserServes, EnsureEmailServes,
       StartUpdateProfileServes, UpdateFindProfileServes, UpdateUserServes,
       UpdateReadServes, UpdateSaveProfileServes, ProfileCallFailsServes
  <1> QED BY <1>1, <1>2, <1>3, <1>4, <1>5 DEF ProfilesNext

(***************************************************************************)
(* An account that staff left alone has one live profile at most, by its   *)
(* user or by its address, however many requests ask for it at once        *)
(* (students.service.ts ensureStudentProfileForUser).                      *)
(***************************************************************************)
THEOREM OneProfile == ProfilesSpec => []OneProfilePerAccount
  <1>1. ASSUME ProfilesInv, AccountsInv PROVE OneProfilePerAccount
    <2> SUFFICES ASSUME NEW a \in Untouched,
                        NEW P, P = {p \in LiveProfiles :
                               a \in {profile[p].user, profile[p].email}}
                 PROVE  Cardinality(P) <= 1
      BY DEF OneProfilePerAccount, Untouched
    <2>1. \A p \in P : p \in LiveProfiles /\ profile[p].email = a
      BY <1>1 DEF AccountsInv, AccountRows, LiveProfiles, MadeProfiles
    <2>2. \A p, q \in P : p = q
      BY <1>1, <2>1 DEF AccountsInv, AccountRows
    <2>3. CASE P = {}
      BY <2>3, FS_EmptySet
    <2>4. CASE P # {}
      <3>1. PICK p : P = {p}
        BY <2>2, <2>4
      <3>2. Cardinality({p}) = 1
        BY FS_Singleton
      <3>3. Cardinality(P) = 1
        BY <3>1, <3>2, Zenon
      <3> QED BY <3>3
    <2> QED BY <2>3, <2>4
  <1>2. ProfilesSpec => []AccountsInv
    <2>1. ProfilesInit => AccountsInv
      BY ProfilesInitServes
    <2>2. ProfilesInv /\ AccountsInv /\ [ProfilesNext]_profilesVars => AccountsInv'
      BY ProfilesNextServes
    <2> QED BY <2>1, <2>2, ProfilesInvariance, PTL DEF ProfilesSpec
  <1> QED BY <1>1, <1>2, ProfilesInvariance, PTL

=============================================================================
