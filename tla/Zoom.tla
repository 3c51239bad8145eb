-------------------------------- MODULE Zoom --------------------------------
(***************************************************************************)
(* One teacher's connection to Zoom and the meetings made through it.      *)
(* Zoom gives a pair of tokens for a code, and a new pair for the refresh  *)
(* token it gave last; the tokens are kept in a column of the credentials, *)
(* in the row that a findOne happens to return.  A meeting is first made   *)
(* at Zoom, with one retry after a refresh, and then recorded here.        *)
(***************************************************************************)
EXTENDS Integers, FiniteSets

CONSTANTS
    MaxCredential,  \* bound: rows of credentials
    MaxToken,       \* bound: refresh tokens that Zoom ever gives
    MaxMeeting,     \* bound: meetings ever made at Zoom
    Joiners,        \* participants whose address begins with a number
    NotANumber,     \* what parseInt makes of any other address
    ZoomCalls       \* requests being handled at the same time

ASSUME ZoomAssumption ==
    /\ MaxCredential \in Nat /\ MaxToken \in Nat /\ MaxMeeting \in Nat
    /\ NotANumber \notin Joiners

VARIABLES
    credential,    \* table zoom_credentials
    grant,         \* the refresh token that Zoom gave last: the one it takes
    onZoom,        \* how many meetings were made at Zoom
    meeting,       \* table zoom_meetings, by the meeting's id at Zoom
    zoomCall,      \* the handlers in progress
    blurred,       \* history: token writers overlapped, or one was cut short
    disconnected,  \* history: the teacher's last word was to disconnect
    revived,       \* history: that came while a handler was to save a row
    unrecorded,    \* history: meetings whose request failed after Zoom
    wantedMeeting, \* history: each meeting as the requests so far want it
    overlapped     \* history: meetings that overlapping requests wrote

connection == <<credential, grant, blurred, disconnected, revived>>
meetings == <<meeting, wantedMeeting, overlapped>>
posted == <<onZoom, unrecorded>>
zoomVars == <<connection, meetings, posted, zoomCall>>

CredentialIds == 1..MaxCredential
MeetingIds == 1..MaxMeeting
NoToken == 0   \* the column is empty, or holds a webhook secret

CredentialRows ==
    [state : {"none", "active", "inactive"}, token : 0..MaxToken]
MeetingStatus == {"scheduled", "active", "ended", "cancelled"}
MeetingRows ==
    [status : MeetingStatus \cup {"none"}, participants : SUBSET Joiners]

ZoomPCs == {"idle", "readTokens", "refreshRead", "refreshCall", "storeFind",
            "storeSave", "post", "record", "insertCredentials", "updateFind",
            "updateSave", "joinList", "joinFind", "joinSave"}
\* Between reading the connection and writing it.
ConnectionPCs == {"refreshRead", "refreshCall", "storeFind", "storeSave",
                  "insertCredentials", "updateFind", "updateSave"}

ZoomHandlers ==
    [pc : ZoomPCs, then : {"idle", "post"}, cred : 0..MaxCredential,
     token : 0..MaxToken, retried : BOOLEAN, class : BOOLEAN,
     secret : BOOLEAN, active : BOOLEAN, meeting : 0..MaxMeeting,
     who : Joiners \cup {NotANumber}, row : MeetingRows, alone : BOOLEAN]

NoMeeting == [status |-> "none", participants |-> {}]
IdleZoom ==
    [pc |-> "idle", then |-> "idle", cred |-> 0, token |-> NoToken,
     retried |-> FALSE, class |-> TRUE, secret |-> FALSE, active |-> TRUE,
     meeting |-> 0, who |-> NotANumber, row |-> NoMeeting, alone |-> TRUE]

ZoomTypeOK ==
    /\ credential \in [CredentialIds -> CredentialRows]
    /\ grant \in 0..MaxToken /\ onZoom \in 0..MaxMeeting
    /\ meeting \in [MeetingIds -> MeetingRows]
    /\ zoomCall \in [ZoomCalls -> ZoomHandlers]
    /\ blurred \in BOOLEAN /\ disconnected \in BOOLEAN /\ revived \in BOOLEAN
    /\ unrecorded \in 0..MaxMeeting
    /\ wantedMeeting \in [MeetingIds -> MeetingRows]
    /\ overlapped \in SUBSET MeetingIds

ZoomInit ==
    /\ credential = [c \in CredentialIds |->
                        [state |-> "none", token |-> NoToken]]
    /\ grant = NoToken /\ onZoom = 0 /\ unrecorded = 0
    /\ meeting = [m \in MeetingIds |-> NoMeeting] /\ wantedMeeting = meeting
    /\ zoomCall = [h \in ZoomCalls |-> IdleZoom]
    /\ blurred = FALSE /\ disconnected = FALSE /\ revived = FALSE
    /\ overlapped = {}

-----------------------------------------------------------------------------
ZoomAt(h, pc) == zoomCall[h].pc = pc
InConnection(h) == zoomCall[h].pc \in ConnectionPCs
ActiveRows == {c \in CredentialIds : credential[c].state = "active"}

ZoomTo(h, c) == zoomCall' = [zoomCall EXCEPT ![h] = c]
ZoomEnds(h) == ZoomTo(h, IdleZoom)

\* With the tokens stored, a meeting is made, or the request has ended.
ZoomGoesOn(h) ==
    IF zoomCall[h].then = "post"
    THEN ZoomTo(h, [zoomCall[h] EXCEPT !.pc = "post", !.cred = 0,
                                       !.token = NoToken, !.alone = TRUE])
    ELSE ZoomEnds(h)

\* From here on the handler carries what it read of the connection: whoever
\* does so at the same time may undo what it writes, and it theirs.
EnterConnection(h, c) ==
    zoomCall' =
        [q \in ZoomCalls |->
           IF q = h THEN [c EXCEPT !.alone =
                            \A p \in ZoomCalls \ {h} : ~InConnection(p)]
           ELSE IF InConnection(q) THEN [zoomCall[q] EXCEPT !.alone = FALSE]
           ELSE zoomCall[q]]

\* The serial id of a new row.
InsertCredential(row) ==
    \E c \in CredentialIds :
       /\ credential[c].state = "none"
       /\ \A d \in 1..(c - 1) : credential[d].state # "none"
       /\ credential' = [credential EXCEPT ![c] = row]

FreshToken ==
    /\ grant < MaxToken
    /\ grant' = grant + 1

-----------------------------------------------------------------------------
(***************************************************************************)
(* Credentials: created by hand, updated, switched off.                    *)
(***************************************************************************)
StartCreateCredentials(h) ==
    /\ ZoomAt(h, "idle")
    /\ ActiveRows = {}
    /\ EnterConnection(h, [IdleZoom EXCEPT !.pc = "insertCredentials"])
    /\ UNCHANGED <<connection, meetings, posted>>

CreateCredentials(h) ==
    /\ ZoomAt(h, "insertCredentials")
    /\ InsertCredential([state |-> "active", token |-> NoToken])
    /\ blurred' = (blurred \/ ~zoomCall[h].alone)
    /\ disconnected' = FALSE
    /\ ZoomEnds(h)
    /\ UNCHANGED <<grant, revived, meetings, posted>>

\* A webhook secret goes into the column that holds the tokens.
StartUpdateCredentials(h, secret, active) ==
    /\ ZoomAt(h, "idle")
    /\ ActiveRows # {}
    /\ EnterConnection(h, [IdleZoom EXCEPT !.pc = "updateFind",
                             !.secret = secret, !.active = active])
    /\ UNCHANGED <<connection, meetings, posted>>

UpdateFind(h) ==
    /\ ZoomAt(h, "updateFind")
    /\ \/ ActiveRows = {} /\ ZoomEnds(h)
       \/ \E c \in ActiveRows :
             ZoomTo(h, [zoomCall[h] EXCEPT !.pc = "updateSave", !.cred = c,
                                           !.token = credential[c].token])
    /\ UNCHANGED <<connection, meetings, posted>>

\* All of the row that was read is saved, with what was given.
UpdateSave(h) ==
    LET z == zoomCall[h] IN
    /\ ZoomAt(h, "updateSave")
    /\ credential' = [credential EXCEPT ![z.cred] =
           [state |-> IF z.active THEN "active" ELSE "inactive",
            token |-> IF z.secret THEN NoToken ELSE z.token]]
    /\ blurred' = (blurred \/ ~z.alone)
    /\ ZoomEnds(h)
    /\ UNCHANGED <<grant, disconnected, revived, meetings, posted>>

\* MUTANT: only the row that findByTeacherId returns is switched off, and
\* the tokens of one that is off are still found.
DeleteNewest ==
    /\ credential' = [c \in CredentialIds |->
                        IF c \in ActiveRows /\ \A d \in ActiveRows : d <= c
                        THEN [credential[c] EXCEPT !.state = "inactive"]
                        ELSE credential[c]]
    /\ disconnected' = TRUE
    /\ revived' = (revived \/ \E h \in ZoomCalls : InConnection(h))
    /\ UNCHANGED <<grant, blurred, meetings, posted, zoomCall>>

DeleteCredentials ==
    /\ credential' = [c \in CredentialIds |->
                        IF c \in ActiveRows
                        THEN [credential[c] EXCEPT !.state = "inactive"]
                        ELSE credential[c]]
    /\ disconnected' = TRUE
    /\ revived' = (revived \/ \E h \in ZoomCalls : InConnection(h))
    /\ UNCHANGED <<grant, blurred, meetings, posted, zoomCall>>

-----------------------------------------------------------------------------
(***************************************************************************)
(* Tokens.                                                                 *)
(***************************************************************************)

\* Zoom has answered the callback's code with tokens.
StartExchange(h) ==
    /\ ZoomAt(h, "idle")
    /\ FreshToken
    /\ EnterConnection(h, [IdleZoom EXCEPT !.pc = "storeFind",
                                           !.token = grant'])
    /\ UNCHANGED <<credential, blurred, disconnected, revived>>
    /\ UNCHANGED <<meetings, posted>>

ReadRefreshToken(h) ==
    /\ ZoomAt(h, "refreshRead")
    /\ \/ /\ \/ ActiveRows = {}
             \/ \E c \in ActiveRows : credential[c].token = NoToken
          /\ ZoomEnds(h)
       \/ \E c \in ActiveRows :
             /\ credential[c].token # NoToken
             /\ ZoomTo(h, [zoomCall[h] EXCEPT !.pc = "refreshCall",
                                              !.token = credential[c].token])
    /\ UNCHANGED <<connection, meetings, posted>>

\* Zoom takes the token it gave last, and gives another.
CallRefresh(h) ==
    /\ ZoomAt(h, "refreshCall")
    /\ IF zoomCall[h].token = grant
       THEN /\ FreshToken
            /\ \/ ZoomTo(h, [zoomCall[h] EXCEPT !.pc = "storeFind",
                                                !.token = grant'])
                  /\ UNCHANGED blurred
               \/ ZoomEnds(h) /\ blurred' = TRUE   \* the answer is lost
       ELSE ZoomEnds(h) /\ UNCHANGED <<grant, blurred>>
    /\ UNCHANGED <<credential, disconnected, revived, meetings, posted>>

StoreFind(h) ==
    /\ ZoomAt(h, "storeFind")
    /\ \/ /\ ActiveRows = {}
          /\ ZoomTo(h, [zoomCall[h] EXCEPT !.pc = "storeSave", !.cred = 0])
       \/ \E c \in ActiveRows :
             ZoomTo(h, [zoomCall[h] EXCEPT !.pc = "storeSave", !.cred = c])
    /\ UNCHANGED <<connection, meetings, posted>>

\* MUTANT: a refresh keeps the refresh token it was given for the code.
StoreSaveAccessOnly(h) ==
    LET z == zoomCall[h] IN
    /\ ZoomAt(h, "storeSave")
    /\ IF z.cred = 0
       THEN InsertCredential([state |-> "active", token |-> z.token])
       ELSE credential' = [credential EXCEPT ![z.cred].token =
                             IF z.then = "post" THEN @ ELSE z.token]
    /\ blurred' = (blurred \/ ~z.alone)
    /\ disconnected' = (disconnected /\ z.then = "post")
    /\ ZoomGoesOn(h)
    /\ UNCHANGED <<grant, revived, meetings, posted>>

\* The row that was found is saved, active as it was; or there is a new one.
StoreSave(h) ==
    LET z == zoomCall[h]
        row == [state |-> "active", token |-> z.token]
    IN
    /\ ZoomAt(h, "storeSave")
    /\ IF z.cred = 0 THEN InsertCredential(row)
       ELSE credential' = [credential EXCEPT ![z.cred] = row]
    /\ blurred' = (blurred \/ ~z.alone)
    /\ disconnected' = (disconnected /\ z.then = "post")
    /\ ZoomGoesOn(h)
    /\ UNCHANGED <<grant, revived, meetings, posted>>

-----------------------------------------------------------------------------
(***************************************************************************)
(* Making a meeting.                                                       *)
(***************************************************************************)
StartMeeting(h, class) ==
    /\ ZoomAt(h, "idle")
    /\ ActiveRows # {}
    /\ ZoomTo(h, [IdleZoom EXCEPT !.pc = "readTokens", !.then = "post",
                                  !.class = class])
    /\ UNCHANGED <<connection, meetings, posted>>

\* Without a token the answer asks the teacher to connect; a token that is
\* about to expire is refreshed.
ReadTokens(h) ==
    /\ ZoomAt(h, "readTokens")
    /\ \/ /\ \/ ActiveRows = {}
             \/ \E c \in ActiveRows : credential[c].token = NoToken
          /\ ZoomEnds(h)
       \/ \E c \in ActiveRows :
             /\ credential[c].token # NoToken
             /\ \/ ZoomTo(h, [zoomCall[h] EXCEPT !.pc = "post"])
                \/ EnterConnection(h,
                     [zoomCall[h] EXCEPT !.pc = "refreshRead"])
    /\ UNCHANGED <<connection, meetings, posted>>

MakeOnZoom == onZoom < MaxMeeting /\ onZoom' = onZoom + 1

\* MUTANT: whatever went wrong, the call is repeated with a new token.
PostRetryingAll(h) ==
    LET z == zoomCall[h] IN
    /\ ZoomAt(h, "post")
    /\ \/ /\ MakeOnZoom
          /\ ZoomTo(h, [z EXCEPT !.pc = "record", !.meeting = onZoom'])
          /\ UNCHANGED unrecorded
       \/ /\ ~z.retried
          /\ EnterConnection(h,
               [z EXCEPT !.pc = "refreshRead", !.retried = TRUE])
          /\ (MakeOnZoom \/ UNCHANGED onZoom)
          /\ UNCHANGED unrecorded
       \/ ZoomEnds(h) /\ UNCHANGED posted
    /\ UNCHANGED <<connection, meetings>>

\* The call succeeds; is refused with 401, and repeated once with a refreshed
\* token; fails; or succeeds without an answer.
Post(h) ==
    LET z == zoomCall[h] IN
    /\ ZoomAt(h, "post")
    /\ \/ /\ MakeOnZoom
          /\ ZoomTo(h, [z EXCEPT !.pc = "record", !.meeting = onZoom'])
          /\ UNCHANGED unrecorded
       \/ /\ ~z.retried
          /\ EnterConnection(h,
               [z EXCEPT !.pc = "refreshRead", !.retried = TRUE])
          /\ UNCHANGED posted
       \/ ZoomEnds(h) /\ UNCHANGED posted
       \/ MakeOnZoom /\ ZoomEnds(h) /\ unrecorded' = unrecorded + 1
    /\ UNCHANGED <<connection, meetings>>

\* A meeting for no class is recorded for class 0, which the key refuses.
RecordMeeting(h) ==
    LET z == zoomCall[h]
        row == [status |-> "scheduled", participants |-> {}]
    IN
    /\ ZoomAt(h, "record")
    /\ IF z.class
       THEN /\ meeting' = [meeting EXCEPT ![z.meeting] = row]
            /\ wantedMeeting' = [wantedMeeting EXCEPT ![z.meeting] = row]
            /\ UNCHANGED unrecorded
       ELSE /\ unrecorded' = unrecorded + 1
            /\ UNCHANGED <<meeting, wantedMeeting>>
    /\ ZoomEnds(h)
    /\ UNCHANGED <<connection, onZoom, overlapped>>

-----------------------------------------------------------------------------
(***************************************************************************)
(* Meetings that are recorded.                                             *)
(***************************************************************************)
Recorded(m) == meeting[m].status # "none"

\* A handler that holds a row it read before this write will undo it.
Outdate(m, pcs) ==
    [q \in ZoomCalls |->
       IF zoomCall[q].meeting = m /\ zoomCall[q].pc \in pcs
       THEN [zoomCall[q] EXCEPT !.alone = FALSE] ELSE zoomCall[q]]

\* startMeeting, endMeeting, cancelMeeting and updateMeeting write what they
\* are given, whatever the status was.
SetMeetingStatus(m, status) ==
    /\ Recorded(m)
    /\ meeting' = [meeting EXCEPT ![m].status = status]
    /\ wantedMeeting' = [wantedMeeting EXCEPT ![m].status = status]
    /\ zoomCall' = Outdate(m, {"joinSave"})
    /\ UNCHANGED <<overlapped, connection, posted>>

StartJoin(h, m, who) ==
    /\ ZoomAt(h, "idle")
    /\ meeting[m].status \in {"active", "scheduled"}
    /\ ZoomTo(h, [IdleZoom EXCEPT !.pc = "joinList", !.meeting = m,
                             !.who = who, !.row.status = meeting[m].status])
    /\ UNCHANGED <<connection, meetings, posted>>

JoinList(h) ==
    LET z == zoomCall[h] IN
    /\ ZoomAt(h, "joinList")
    /\ IF z.who \in meeting[z.meeting].participants THEN ZoomEnds(h)
       ELSE ZoomTo(h, [z EXCEPT !.pc = "joinFind",
                         !.row.participants = meeting[z.meeting].participants])
    /\ UNCHANGED <<connection, meetings, posted>>

\* MUTANT: the row that the join began with is the one it saves.
JoinFindNothing(h) ==
    /\ ZoomAt(h, "joinFind")
    /\ ZoomTo(h, [zoomCall[h] EXCEPT !.pc = "joinSave"])
    /\ UNCHANGED <<connection, meetings, posted>>

JoinFind(h) ==
    LET z == zoomCall[h] IN
    /\ ZoomAt(h, "joinFind")
    /\ ZoomTo(h, [z EXCEPT !.pc = "joinSave",
                           !.row.status = meeting[z.meeting].status])
    /\ UNCHANGED <<connection, meetings, posted>>

\* The list read first and the row read last are saved together; NaN is
\* no member that the column of integers takes.
JoinSave(h) ==
    LET z == zoomCall[h]  m == z.meeting IN
    /\ ZoomAt(h, "joinSave")
    /\ IF z.who = NotANumber THEN ZoomEnds(h) /\ UNCHANGED meetings
       ELSE /\ meeting' = [meeting EXCEPT ![m] =
                             [z.row EXCEPT !.participants = @ \cup {z.who}]]
            /\ wantedMeeting' =
                 [wantedMeeting EXCEPT ![m].participants = @ \cup {z.who}]
            /\ overlapped' = IF z.alone THEN overlapped
                             ELSE overlapped \cup {m}
            /\ zoomCall' = [Outdate(m, {"joinFind", "joinSave"})
                              EXCEPT ![h] = IdleZoom]
    /\ UNCHANGED <<connection, posted>>

\* A round trip fails, or the process stops: new tokens that were not stored
\* are lost, and so is the record of a meeting that was made.
ZoomCallFails(h) ==
    /\ ~ZoomAt(h, "idle")
    /\ blurred' = (blurred \/ zoomCall[h].pc \in {"storeFind", "storeSave"})
    /\ unrecorded' = IF ZoomAt(h, "record") THEN unrecorded + 1 ELSE unrecorded
    /\ ZoomEnds(h)
    /\ UNCHANGED <<credential, grant, disconnected, revived, meetings, onZoom>>

ZoomStep(h) ==
    \/ StartCreateCredentials(h) \/ CreateCredentials(h)
    \/ \E secret, active \in BOOLEAN :
          StartUpdateCredentials(h, secret, active)
    \/ UpdateFind(h) \/ UpdateSave(h)
    \/ StartExchange(h) \/ StoreFind(h) \/ StoreSave(h)
    \/ ReadRefreshToken(h) \/ CallRefresh(h)
    \/ \E class \in BOOLEAN : StartMeeting(h, class)
    \/ ReadTokens(h) \/ Post(h) \/ RecordMeeting(h)
    \/ \E m \in MeetingIds, who \in Joiners \cup {NotANumber} :
          StartJoin(h, m, who)
    \/ JoinList(h) \/ JoinFind(h) \/ JoinSave(h)
    \/ ZoomCallFails(h)

ZoomNext ==
    \/ \E h \in ZoomCalls : ZoomStep(h)
    \/ DeleteCredentials
    \/ \E m \in MeetingIds, status \in MeetingStatus :
          SetMeetingStatus(m, status)

ZoomSpec == ZoomInit /\ [][ZoomNext]_zoomVars

-----------------------------------------------------------------------------
(***************************************************************************)
(* Properties.                                                             *)
(***************************************************************************)

\* A teacher who connected need not connect again: whenever no request is
\* about to store new tokens, the refresh token in an active row is the one
\* Zoom takes, unless such requests overlapped or one was cut short.
StoredTokenIsCurrent ==
    (/\ ~blurred
     /\ \A h \in ZoomCalls : zoomCall[h].pc \notin {"storeFind", "storeSave"})
        => \A c \in ActiveRows : credential[c].token \in {NoToken, grant}

\* A teacher who disconnected stays so until connecting again: a meeting that
\* finds its token refused does not bring the connection back, unless it was
\* between reading the connection and saving it.
DisconnectedStaysSo == (disconnected /\ ~revived) => ActiveRows = {}

\* Every meeting made at Zoom is recorded here or about to be, unless its
\* request failed after that: one request makes one meeting, whatever it
\* retries.
EveryMeetingIsRecorded ==
    onZoom = Cardinality({m \in MeetingIds : Recorded(m)}) + unrecorded
             + Cardinality({h \in ZoomCalls : ZoomAt(h, "record")})

\* A meeting is as the requests so far want it: a join saves the whole row
\* after two reads, and only one that overlaps another write undoes it.
MeetingAsAsked ==
    \A m \in MeetingIds \ overlapped : meeting[m] = wantedMeeting[m]

=============================================================================
