------------------------------- MODULE Profiles -------------------------------
(***************************************************************************)
(* The accounts of users and the profiles of students.  A profile is made  *)
(* by staff or by registration, with an account of its own when it has an  *)
(* address, or for a user who has none yet when that user first asks for   *)
(* it.  Addresses of accounts, users of profiles and student numbers are   *)
(* unique keys, of removed rows too: rows are only marked as removed.      *)
(* Each database round trip is a step; there is no transaction.            *)
(***************************************************************************)
EXTENDS Integers, FiniteSets

CONSTANTS
    Addresses,     \* e-mail addresses; an account is named by its own
    Nobody,        \* no address, no account
    MaxProfile,    \* bound: students ever made
    ProfileCalls   \* requests being handled at the same time

ASSUME ProfilesAssumption == MaxProfile \in Nat /\ Nobody \notin Addresses

VARIABLES
    owner,        \* table user
    profile,      \* table student, in the order of its ids
    profileCall,  \* the handlers in progress
    meddled,      \* history: addresses staff linked to a profile, took off
                  \* one while they were served, or off one that was removed
    removedFirst  \* history: profiles removed when no update had read the row

profilesVars == <<owner, profile, profileCall, meddled, removedFirst>>

ProfileIds == 1..MaxProfile
Owners == Addresses \cup {Nobody}
ProfileRows ==
    [state : {"none", "live", "removed"}, number : 0..(MaxProfile + 1),
     user : Owners, email : Owners]
NoProfile ==
    [state |-> "none", number |-> 0, user |-> Nobody, email |-> Nobody]

ProfileOps == {"create", "ensure", "update", "parent", "purchase"}
ProfilePCs ==
    {"idle", "number", "checkUser", "checkEmail", "createUser", "insert",
     "ensureUser", "ensureEmail", "updateFind", "updateUser", "updateRead",
     "updateSave"}

ProfileHandlers ==
    [pc : ProfilePCs, op : ProfileOps, user : Owners, email : Owners,
     number : 0..(MaxProfile + 1), found : 0..MaxProfile, row : ProfileRows,
     parent : BOOLEAN, behind : BOOLEAN, overtaken : BOOLEAN]
NoRequest ==
    [pc |-> "idle", op |-> "create", user |-> Nobody, email |-> Nobody,
     number |-> 0, found |-> 0, row |-> NoProfile, parent |-> FALSE,
     behind |-> FALSE, overtaken |-> FALSE]

ProfilesTypeOK ==
    /\ owner \in [Addresses -> {"none", "live", "removed"}]
    /\ profile \in [ProfileIds -> ProfileRows]
    /\ profileCall \in [ProfileCalls -> ProfileHandlers]
    /\ meddled \in SUBSET Addresses
    /\ removedFirst \in SUBSET ProfileIds

ProfilesInit ==
    /\ owner = [a \in Addresses |-> "none"]
    /\ profile = [p \in ProfileIds |-> NoProfile]
    /\ profileCall = [h \in ProfileCalls |-> NoRequest]
    /\ meddled = {} /\ removedFirst = {}

-----------------------------------------------------------------------------
ProfileAt(h, pc) == profileCall[h].pc = pc
ProfileTo(h, c) == profileCall' = [profileCall EXCEPT ![h] = c]
ProfileEnds(h) == ProfileTo(h, NoRequest)

MadeProfiles == {p \in ProfileIds : profile[p].state # "none"}
LiveProfiles == {p \in ProfileIds : profile[p].state = "live"}
NewestOf(P) == CHOOSE p \in P : \A q \in P : q <= p

NumberTaken(n) == \E p \in MadeProfiles : profile[p].number = n
UserTaken(a) == a # Nobody /\ \E p \in MadeProfiles : profile[p].user = a

-----------------------------------------------------------------------------
(***************************************************************************)
(* Creating a profile.                                                     *)
(***************************************************************************)

\* Staff, a registration or a checkout: for a user, or with an address.
StartCreateProfile(h, email, user) ==
    /\ ProfileAt(h, "idle")
    /\ ProfileTo(h, [NoRequest EXCEPT !.pc = "number", !.email = email,
                                     !.user = user])
    /\ meddled' = IF user = Nobody THEN meddled
                  ELSE meddled \cup ({user, email} \ {Nobody})
    /\ UNCHANGED <<owner, profile, removedFirst>>

\* A parent registers; or buys a class, for a student to be made with the
\* same address afterwards.
StartRegisterParent(h, email, op) ==
    /\ ProfileAt(h, "idle")
    /\ ProfileTo(h, [NoRequest EXCEPT !.pc = "checkEmail", !.email = email,
                                     !.op = op, !.parent = TRUE])
    /\ UNCHANGED <<owner, profile, meddled, removedFirst>>

\* MUTANT: the number is told from how many students there are.
GenerateByCount(h) ==
    LET c == profileCall[h] IN
    /\ ProfileAt(h, "number")
    /\ ProfileTo(h, [c EXCEPT
          !.number = Cardinality(LiveProfiles) + 1,
          !.behind = \E p \in MadeProfiles : \A q \in LiveProfiles : q < p,
          !.pc = IF c.user # Nobody THEN "checkUser"
                 ELSE IF c.email # Nobody THEN "checkEmail" ELSE "insert"])
    /\ UNCHANGED <<owner, profile, meddled, removedFirst>>

\* One more than the number of the newest student, the removed left aside.
GenerateStudentId(h) ==
    LET c == profileCall[h] IN
    /\ ProfileAt(h, "number")
    /\ ProfileTo(h, [c EXCEPT
          !.number = IF LiveProfiles = {} THEN 1
                     ELSE profile[NewestOf(LiveProfiles)].number + 1,
          !.behind = \E p \in MadeProfiles : \A q \in LiveProfiles : q < p,
          !.pc = IF c.user # Nobody THEN "checkUser"
                 ELSE IF c.email # Nobody THEN "checkEmail" ELSE "insert"])
    /\ UNCHANGED <<owner, profile, meddled, removedFirst>>

CheckUser(h) ==
    LET c == profileCall[h] IN
    /\ ProfileAt(h, "checkUser")
    /\ IF owner[c.user] = "live"
       THEN ProfileTo(h, [c EXCEPT !.pc = "insert"])
       ELSE ProfileEnds(h)
    /\ UNCHANGED <<owner, profile, meddled, removedFirst>>

CheckEmail(h) ==
    LET c == profileCall[h] IN
    /\ ProfileAt(h, "checkEmail")
    /\ IF owner[c.email] = "live" THEN ProfileEnds(h)
       ELSE ProfileTo(h, [c EXCEPT !.pc = "createUser"])
    /\ UNCHANGED <<owner, profile, meddled, removedFirst>>

\* The key refuses an address that an account has, or had.  Made, it is the
\* student's, whose row is next; or the parent's, and then there is no more to
\* do, or a student to be made.
CreateUser(h) ==
    LET c == profileCall[h] IN
    /\ ProfileAt(h, "createUser")
    /\ IF owner[c.email] = "none"
       THEN /\ owner' = [owner EXCEPT ![c.email] = "live"]
            /\ CASE ~c.parent -> ProfileTo(h, [c EXCEPT !.pc = "insert",
                                                        !.user = c.email])
                 [] c.parent /\ c.op = "purchase" ->
                      ProfileTo(h, [c EXCEPT !.pc = "number",
                                             !.parent = FALSE])
                 [] OTHER -> ProfileEnds(h)
       ELSE ProfileEnds(h) /\ UNCHANGED owner
    /\ UNCHANGED <<profile, meddled, removedFirst>>

InsertProfile(h) ==
    LET c == profileCall[h] IN
    /\ ProfileAt(h, "insert")
    /\ ~NumberTaken(c.number) /\ ~UserTaken(c.user)
    /\ \E p \in ProfileIds :
          /\ MadeProfiles = 1..(p - 1)
          /\ profile' = [profile EXCEPT ![p] =
                [state |-> "live", number |-> c.number, user |-> c.user,
                 email |-> c.email]]
    /\ profileCall' = [q \in ProfileCalls |->
          IF q = h THEN NoRequest
          ELSE IF profileCall[q].number # 0
          THEN [profileCall[q] EXCEPT !.overtaken = TRUE]
          ELSE profileCall[q]]
    /\ UNCHANGED <<owner, meddled, removedFirst>>

\* A key refuses the row; the account it was to have stays.
ProfileRefused(h) ==
    LET c == profileCall[h] IN
    /\ ProfileAt(h, "insert")
    /\ NumberTaken(c.number) \/ UserTaken(c.user)
    /\ ProfileEnds(h)
    /\ UNCHANGED <<owner, profile, meddled, removedFirst>>

-----------------------------------------------------------------------------
(***************************************************************************)
(* ensureStudentProfileForUser: when a user without a profile asks for it. *)
(***************************************************************************)
StartEnsure(h, a) ==
    /\ ProfileAt(h, "idle")
    /\ owner[a] = "live"
    /\ \A p \in LiveProfiles : profile[p].user # a
    /\ ProfileTo(h, [NoRequest EXCEPT !.pc = "ensureUser", !.op = "ensure",
                                     !.user = a, !.email = a])
    /\ UNCHANGED <<owner, profile, meddled, removedFirst>>

EnsureUser(h) ==
    LET c == profileCall[h] IN
    /\ ProfileAt(h, "ensureUser")
    /\ IF owner[c.user] = "live"
       THEN ProfileTo(h, [c EXCEPT !.pc = "ensureEmail"])
       ELSE ProfileEnds(h)
    /\ UNCHANGED <<owner, profile, meddled, removedFirst>>

\* MUTANT: the profiles are not searched by address.
EnsureByUserOnly(h) ==
    LET c == profileCall[h] IN
    /\ ProfileAt(h, "ensureEmail")
    /\ ProfileTo(h, [c EXCEPT !.pc = "number"])
    /\ UNCHANGED <<owner, profile, meddled, removedFirst>>

\* A profile with the address, or of the account with it, is linked unless it
\* has a user; without one, a profile is made.
EnsureEmail(h) ==
    LET c == profileCall[h]
        own == {p \in LiveProfiles : profile[p].email = c.email
                   \/ (profile[p].user = c.email /\ owner[c.email] = "live")}
    IN
    /\ ProfileAt(h, "ensureEmail")
    /\ \/ own = {} /\ ProfileTo(h, [c EXCEPT !.pc = "number"])
       \/ \E p \in own :
             IF profile[p].user = Nobody
             THEN ProfileTo(h, [c EXCEPT !.pc = "updateFind", !.found = p])
             ELSE ProfileEnds(h)
    /\ UNCHANGED <<owner, profile, meddled, removedFirst>>

-----------------------------------------------------------------------------
(***************************************************************************)
(* Updating and removing.                                                  *)
(***************************************************************************)

\* Staff's update; without a user in it, it takes the user off the profile.
StartUpdateProfile(h, p, user) ==
    /\ ProfileAt(h, "idle")
    /\ profile[p].state = "live"
    /\ ProfileTo(h, [NoRequest EXCEPT !.op = "update", !.found = p,
                       !.user = user,
                       !.pc = IF user = Nobody THEN "updateRead"
                              ELSE "updateUser"])
    /\ meddled' = IF user = Nobody THEN meddled
                  ELSE meddled \cup ({user, profile[p].user, profile[p].email}
                                        \ {Nobody})
    /\ UNCHANGED <<owner, profile, removedFirst>>

UpdateFindProfile(h) ==
    LET c == profileCall[h] IN
    /\ ProfileAt(h, "updateFind")
    /\ IF profile[c.found].state = "live"
       THEN ProfileTo(h, [c EXCEPT !.pc = "updateUser"])
       ELSE ProfileEnds(h)
    /\ UNCHANGED <<owner, profile, meddled, removedFirst>>

UpdateUser(h) ==
    LET c == profileCall[h] IN
    /\ ProfileAt(h, "updateUser")
    /\ IF owner[c.user] = "live"
       THEN ProfileTo(h, [c EXCEPT !.pc = "updateRead"])
       ELSE ProfileEnds(h)
    /\ UNCHANGED <<owner, profile, meddled, removedFirst>>

\* MUTANT: rows that are marked as removed are read too.
UpdateReadRemoved(h) ==
    LET c == profileCall[h] IN
    /\ ProfileAt(h, "updateRead")
    /\ ProfileTo(h, [c EXCEPT !.pc = "updateSave",
            !.row = [profile[c.found] EXCEPT !.user = c.user,
                                             !.state = "live"]])
    /\ UNCHANGED <<owner, profile, meddled, removedFirst>>

UpdateRead(h) ==
    LET c == profileCall[h] IN
    /\ ProfileAt(h, "updateRead")
    /\ IF profile[c.found].state = "live"
       THEN ProfileTo(h, [c EXCEPT !.pc = "updateSave",
                            !.row = [profile[c.found] EXCEPT !.user = c.user]])
       ELSE ProfileEnds(h)
    /\ UNCHANGED <<owner, profile, meddled, removedFirst>>

\* All of the row that was read is saved, its mark of removal included.
UpdateSaveProfile(h) ==
    LET c == profileCall[h]
        others == MadeProfiles \ {c.found}
        served == UNION {{profileCall[q].user, profileCall[q].email} :
                            q \in ProfileCalls \ {h}}
        brought == IF profile[c.found].state = "removed" THEN {c.row.email}
                   ELSE {}
    IN
    /\ ProfileAt(h, "updateSave")
    /\ IF c.user # Nobody /\ \E p \in others : profile[p].user = c.user
       THEN UNCHANGED profile
       ELSE profile' = [profile EXCEPT ![c.found] = c.row]
    /\ meddled' = IF c.user # Nobody THEN meddled
                  ELSE meddled \cup ((served \cup brought) \ {Nobody})
    /\ ProfileEnds(h)
    /\ UNCHANGED <<owner, removedFirst>>

RemoveProfile(p) ==
    /\ profile[p].state = "live"
    /\ profile' = [profile EXCEPT ![p].state = "removed"]
    /\ removedFirst' =
         IF \E h \in ProfileCalls :
               ProfileAt(h, "updateSave") /\ profileCall[h].found = p
         THEN removedFirst ELSE removedFirst \cup {p}
    /\ UNCHANGED <<owner, profileCall, meddled>>

RemoveAccount(a) ==
    /\ owner[a] = "live"
    /\ owner' = [owner EXCEPT ![a] = "removed"]
    /\ UNCHANGED <<profile, profileCall, meddled, removedFirst>>

\* A round trip fails or the process stops: what was written stays.
ProfileCallFails(h) ==
    /\ ~ProfileAt(h, "idle")
    /\ ProfileEnds(h)
    /\ UNCHANGED <<owner, profile, meddled, removedFirst>>

ProfilesNext ==
    \/ \E h \in ProfileCalls :
          \/ \E email, user \in Owners : StartCreateProfile(h, email, user)
          \/ \E a \in Addresses, op \in {"parent", "purchase"} :
                StartRegisterParent(h, a, op)
          \/ GenerateStudentId(h) \/ CheckUser(h) \/ CheckEmail(h)
          \/ CreateUser(h) \/ InsertProfile(h) \/ ProfileRefused(h)
          \/ \E a \in Addresses : StartEnsure(h, a)
          \/ EnsureUser(h) \/ EnsureEmail(h)
          \/ \E p \in ProfileIds, user \in Owners :
                StartUpdateProfile(h, p, user)
          \/ UpdateFindProfile(h) \/ UpdateUser(h) \/ UpdateRead(h)
          \/ UpdateSaveProfile(h) \/ ProfileCallFails(h)
    \/ \E p \in ProfileIds : RemoveProfile(p)
    \/ \E a \in Addresses : RemoveAccount(a)

ProfilesSpec == ProfilesInit /\ [][ProfilesNext]_profilesVars

-----------------------------------------------------------------------------
(***************************************************************************)
(* Properties.                                                             *)
(***************************************************************************)

\* A new student is refused for its number only when another one was made
\* since the number was generated, or when the newest student had been
\* removed: the number is looked for among the others but must differ from it.
RefusedOnlyBehindAnother ==
    \A h \in ProfileCalls :
        ProfileAt(h, "insert") /\ NumberTaken(profileCall[h].number)
            => profileCall[h].overtaken \/ profileCall[h].behind

\* However often a user asks for the profile at once, and whatever else is
\* made, fails and is removed meanwhile, an account or its address has one
\* profile at most, unless staff linked it to one, or took it off one while
\* it was being served or removed: a profile that lost its user is found again.
OneProfilePerAccount ==
    \A a \in Addresses \ meddled :
        Cardinality({p \in LiveProfiles : a \in {profile[p].user,
                                                 profile[p].email}}) <= 1

\* A student who was removed stays so, unless an update had read the row.
RemovedProfileStaysRemoved ==
    \A p \in removedFirst : profile[p].state = "removed"

\* What "create parent & student, enroll, generate invoice" says: a purchase
\* whose parent was just made goes on to make the student.  The code breaks
\* it: the parent's account has the address that the student's is to have.
PurchaseGoesOn ==
    \A h \in ProfileCalls :
        LET c == profileCall[h] IN
        c.op = "purchase" /\ ProfileAt(h, "checkEmail") /\ ~c.parent
            => owner[c.email] # "live"

=============================================================================
