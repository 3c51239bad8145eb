-------------------------------- MODULE Files --------------------------------
(***************************************************************************)
(* Uploaded files: an object in a store and a row that names it.  Which    *)
(* store is the file driver's business: the process keeps the driver it    *)
(* was configured with, loads it from the settings when it first needs it, *)
(* and loads it again when the settings are saved.                         *)
(*                                                                         *)
(* A step ends where the code awaits a database, a store or the settings.  *)
(* The calls that work on the local disk are synchronous: what follows an  *)
(* answer up to them is the same step.  The files are those of one         *)
(* context.  S3, B2 and their presigned variants take the same branches    *)
(* and are one driver; a driver that uploadFile does not know ends in      *)
(* FileCallFails.  What a request is refused for before it touches a file  *)
(* or a row (rights, size, type, use by a learning module) is left out.    *)
(***************************************************************************)
EXTENDS Integers

CONSTANTS
    EnvDriver,   \* the driver of the environment, until settings are read
    MaxFile,     \* bound: uploads ever begun
    FileCalls    \* requests being handled at the same time

Drivers == {"local", "s3"}

ASSUME FilesAssumption == EnvDriver \in Drivers /\ MaxFile \in Nat

VARIABLES
    savedDriver,   \* the settings' row
    fileDriver,    \* of the process: unset until it is first needed
    configLoaded,  \* of the process
    stored,        \* the stores that have an object at a path
    file,          \* table files, with the uploads on their way to it
    fileCall,      \* the handlers in progress
    misled,        \* history: the last load failed, or read older settings
    doomed         \* history: files whose deletion began

filesVars == <<savedDriver, fileDriver, configLoaded, stored, file, fileCall,
               misled, doomed>>
config == <<savedDriver, fileDriver, configLoaded, misled>>

FileIds == 1..MaxFile

\* `wanted' is history: the driver the settings name, when nothing disturbed
\* the configuration while the file was uploaded.
FileRows == [state : {"none", "coming", "there", "gone"},
             path : 0..MaxFile, wanted : Drivers \cup {"any"}]
NoFile == [state |-> "none", path |-> 0, wanted |-> "any"]

FilePCs == {"idle", "refresh", "load", "apply", "bucket", "put", "record",
            "rows"}
FileOps == {"upload", "again", "settings", "delete", "context"}
FileHandlers == [pc : FilePCs, op : FileOps, file : 0..MaxFile,
                 seen : Drivers \cup {"any"}]
IdleFile == [pc |-> "idle", op |-> "upload", file |-> 0, seen |-> "any"]

FilesTypeOK ==
    /\ savedDriver \in Drivers
    /\ fileDriver \in Drivers \cup {"unset"}
    /\ configLoaded \in BOOLEAN /\ misled \in BOOLEAN
    /\ stored \in [FileIds -> SUBSET Drivers]
    /\ file \in [FileIds -> FileRows]
    /\ fileCall \in [FileCalls -> FileHandlers]
    /\ doomed \in SUBSET FileIds

FilesInit ==
    /\ savedDriver \in Drivers
    /\ fileDriver = "unset"
    /\ configLoaded = FALSE /\ misled = FALSE
    /\ stored = [f \in FileIds |-> {}]
    /\ file = [f \in FileIds |-> NoFile]
    /\ fileCall = [h \in FileCalls |-> IdleFile]
    /\ doomed = {}

-----------------------------------------------------------------------------
FileAt(h, pc) == fileCall[h].pc = pc
FileTo(h, c) == fileCall' = [fileCall EXCEPT ![h] = c]
FileEnds(h) == FileTo(h, IdleFile)

IsNextFile(f) ==
    /\ file[f].state = "none"
    /\ \A g \in FileIds : g < f => file[g].state # "none"
ThereAre == {f \in FileIds : file[f].state = "there"}

\* No save of the settings is under way, and no load holds older ones.
Settled ==
    /\ ~misled
    /\ \A h \in FileCalls :
          /\ fileCall[h].op = "settings" => FileAt(h, "idle")
          /\ FileAt(h, "apply") => fileCall[h].seen = savedDriver

\* What happens to the configuration excuses the uploads on their way.
Excused ==
    [f \in FileIds |-> IF file[f].state = "coming"
                       THEN [file[f] EXCEPT !.wanted = "any"] ELSE file[f]]

-----------------------------------------------------------------------------
(***************************************************************************)
(* Uploads and the configuration.                                          *)
(***************************************************************************)

\* From the configuration to the next round trip.  The name is the time in
\* milliseconds and the file's own: another upload may get the same one.  The
\* disk takes the object at once; the other store's bucket is looked up first.
Place(h, c, rows, driver) ==
    \E p \in {c.file} \cup ({rows[f].path : f \in {g \in FileIds :
                                  rows[g].state = "coming"}} \ {0}) :
        /\ file' = [rows EXCEPT ![c.file].path = p]
        /\ stored' = IF driver = "local"
                     THEN [stored EXCEPT ![p] = @ \cup {"local"}]
                     ELSE stored
        /\ FileTo(h, [c EXCEPT
              !.pc = IF driver = "local" THEN "record" ELSE "bucket"])

\* Without a configuration yet, the environment's until the settings answer.
EnsureConfigLoaded(h, f) ==
    LET c == [IdleFile EXCEPT !.file = f]
        rows == [file EXCEPT ![f] =
                    [NoFile EXCEPT !.state = "coming",
                          !.wanted = IF Settled THEN savedDriver ELSE "any"]]
    IN
    IF configLoaded
    THEN Place(h, c, rows, fileDriver) /\ UNCHANGED fileDriver
    ELSE /\ fileDriver' = EnvDriver
         /\ file' = rows
         /\ FileTo(h, [c EXCEPT !.pc = "load"])
         /\ UNCHANGED stored

\* MUTANT: the configuration counts as loaded as soon as one upload loads it.
StartUploadLoadingOnce(h, f) ==
    /\ FileAt(h, "idle") /\ IsNextFile(f)
    /\ EnsureConfigLoaded(h, f)
    /\ configLoaded' = TRUE
    /\ UNCHANGED <<savedDriver, misled, doomed>>

StartUpload(h, f) ==
    /\ FileAt(h, "idle") /\ IsNextFile(f)
    /\ EnsureConfigLoaded(h, f)
    /\ UNCHANGED <<savedDriver, configLoaded, misled, doomed>>

ReadSettings(h) ==
    /\ FileAt(h, "load")
    /\ FileTo(h, [fileCall[h] EXCEPT !.pc = "apply", !.seen = savedDriver])
    /\ UNCHANGED <<config, stored, file, doomed>>

\* With a configuration an upload goes to its place, or on to the store it was
\* on its way to, and a save of the settings ends.
GoOn(h, c, rows, driver) ==
    \/ c.op = "upload" /\ Place(h, c, rows, driver)
    \/ /\ c.op = "again"
       /\ FileTo(h, [c EXCEPT !.op = "upload", !.pc = "put"])
       /\ file' = rows /\ UNCHANGED stored
    \/ /\ c.op = "settings"
       /\ FileEnds(h)
       /\ file' = rows /\ UNCHANGED stored

ApplyConfig(h) ==
    LET c == fileCall[h] IN
    /\ FileAt(h, "apply")
    /\ fileDriver' = c.seen /\ configLoaded' = TRUE
    /\ misled' = (c.seen # savedDriver)
    /\ GoOn(h, c, file, c.seen)
    /\ UNCHANGED <<savedDriver, doomed>>

\* The settings could not be read: what the driver is now is kept.
IgnoreSettings(h) ==
    LET c == fileCall[h] IN
    /\ FileAt(h, "load")
    /\ configLoaded' = TRUE /\ misled' = TRUE
    /\ GoOn(h, c, Excused, fileDriver)
    /\ UNCHANGED <<savedDriver, fileDriver, doomed>>

\* The driver is read again after the bucket was looked up, or made; and for
\* the other store the configuration is loaded again if a save took it away.
Bucket(h) ==
    LET c == fileCall[h]
        path == file[c.file].path
    IN
    /\ FileAt(h, "bucket")
    /\ \/ /\ fileDriver = "local"
          /\ stored' = [stored EXCEPT ![path] = @ \cup {"local"}]
          /\ FileTo(h, [c EXCEPT !.pc = "record"])
          /\ UNCHANGED fileDriver
       \/ /\ fileDriver # "local" /\ configLoaded
          /\ FileTo(h, [c EXCEPT !.pc = "put"])
          /\ UNCHANGED <<stored, fileDriver>>
       \/ /\ fileDriver # "local" /\ ~configLoaded
          /\ fileDriver' = EnvDriver
          /\ FileTo(h, [c EXCEPT !.op = "again", !.pc = "load"])
          /\ UNCHANGED stored
    /\ UNCHANGED <<savedDriver, configLoaded, misled, file, doomed>>

PutObject(h) ==
    LET c == fileCall[h] IN
    /\ FileAt(h, "put")
    /\ stored' = [stored EXCEPT ![file[c.file].path] = @ \cup {"s3"}]
    /\ FileTo(h, [c EXCEPT !.pc = "record"])
    /\ UNCHANGED <<config, file, doomed>>

RecordFile(h) ==
    /\ FileAt(h, "record")
    /\ file' = [file EXCEPT ![fileCall[h].file].state = "there"]
    /\ FileEnds(h)
    /\ UNCHANGED <<config, stored, doomed>>

-----------------------------------------------------------------------------
(***************************************************************************)
(* Saving the settings: the row, then the configuration of the process.    *)
(***************************************************************************)
SaveSettings(h, driver) ==
    /\ FileAt(h, "idle")
    /\ savedDriver' = driver
    /\ file' = Excused
    /\ FileTo(h, [IdleFile EXCEPT !.op = "settings", !.pc = "refresh"])
    /\ UNCHANGED <<fileDriver, configLoaded, misled, stored, doomed>>

RefreshConfig(h) ==
    /\ FileAt(h, "refresh")
    /\ fileDriver' = EnvDriver /\ configLoaded' = FALSE
    /\ file' = Excused
    /\ FileTo(h, [fileCall[h] EXCEPT !.pc = "load"])
    /\ UNCHANGED <<savedDriver, misled, stored, doomed>>

-----------------------------------------------------------------------------
(***************************************************************************)
(* Deletions: the object, where the driver can remove one, then the row.   *)
(* They do not load the configuration: until an upload did, nothing is     *)
(* removed from any store; and the code for the other store is not there.  *)
(***************************************************************************)
RemoveObjects(S) ==
    /\ stored' = IF fileDriver = "local"
                 THEN [p \in FileIds |-> IF \E f \in S : file[f].path = p
                                         THEN stored[p] \ {"local"}
                                         ELSE stored[p]]
                 ELSE stored
    /\ doomed' = doomed \cup S

DeleteFile(h, f) ==
    /\ FileAt(h, "idle") /\ f \in ThereAre
    /\ RemoveObjects({f})
    /\ FileTo(h, [IdleFile EXCEPT !.op = "delete", !.pc = "rows", !.file = f])
    /\ UNCHANGED <<config, file>>

DeleteFilesByContext(h) ==
    /\ FileAt(h, "idle")
    /\ RemoveObjects(ThereAre)
    /\ FileTo(h, [IdleFile EXCEPT !.op = "context", !.pc = "rows"])
    /\ UNCHANGED <<config, file>>

\* The rows of the context include those recorded since its files were read.
DeleteRows(h) ==
    LET c == fileCall[h]
        rows == IF c.op = "context" THEN ThereAre ELSE {c.file} \cap ThereAre
    IN
    /\ FileAt(h, "rows")
    /\ file' = [f \in FileIds |-> IF f \in rows
                                  THEN [file[f] EXCEPT !.state = "gone"]
                                  ELSE file[f]]
    /\ FileEnds(h)
    /\ UNCHANGED <<config, stored, doomed>>

-----------------------------------------------------------------------------
(***************************************************************************)
(* Errors and restarts.                                                    *)
(***************************************************************************)

\* MUTANT: the store's error is only logged, and the file recorded.
FileCallGoesOn(h) ==
    LET c == fileCall[h] IN
    /\ fileCall[h].pc \in {"bucket", "put", "record", "rows"}
    /\ file' = IF c.op = "upload" THEN [file EXCEPT ![c.file].state = "there"]
               ELSE file
    /\ FileEnds(h)
    /\ UNCHANGED <<config, stored, doomed>>

\* A store or the database refuses: the request ends there, and what it did
\* so far stays done.
FileCallFails(h) ==
    LET c == fileCall[h] IN
    /\ c.pc \in {"bucket", "put", "record", "rows"}
    /\ file' = IF c.op = "upload" THEN [file EXCEPT ![c.file].state = "gone"]
               ELSE file
    /\ FileEnds(h)
    /\ UNCHANGED <<config, stored, doomed>>

\* The process comes back without a configuration.
RestartFiles ==
    /\ fileDriver' = "unset" /\ configLoaded' = FALSE /\ misled' = FALSE
    /\ file' = [f \in FileIds |-> IF file[f].state = "coming"
                                  THEN [file[f] EXCEPT !.state = "gone"]
                                  ELSE file[f]]
    /\ fileCall' = [h \in FileCalls |-> IdleFile]
    /\ UNCHANGED <<savedDriver, stored, doomed>>

-----------------------------------------------------------------------------
FileStep(h) ==
    \/ \E f \in FileIds : StartUpload(h, f) \/ DeleteFile(h, f)
    \/ \E driver \in Drivers : SaveSettings(h, driver)
    \/ ReadSettings(h) \/ ApplyConfig(h) \/ IgnoreSettings(h)
    \/ Bucket(h) \/ PutObject(h) \/ RecordFile(h)
    \/ RefreshConfig(h)
    \/ DeleteFilesByContext(h) \/ DeleteRows(h) \/ FileCallFails(h)

FilesNext == (\E h \in FileCalls : FileStep(h)) \/ RestartFiles

FilesSpec == FilesInit /\ [][FilesNext]_filesVars

-----------------------------------------------------------------------------
(***************************************************************************)
(* Properties.                                                             *)
(***************************************************************************)

\* A file that has a row has an object in some store, whatever failed or was
\* restarted, unless its own deletion, or that of a file that got the same
\* name in the same millisecond, began.
RecordedFileIsStored ==
    \A f \in ThereAre :
        stored[file[f].path] # {}
        \/ \E g \in doomed : file[g].path = file[f].path

\* And it is in the store the settings name, however many uploads load the
\* configuration at once, unless the settings were saved, or could not be
\* read, while it was uploaded or at the last load before.
StoredAsConfigured ==
    \A f \in ThereAre :
        file[f].wanted \in stored[file[f].path]
        \/ file[f].wanted = "any"
        \/ \E g \in doomed : file[g].path = file[f].path

=============================================================================
