------------------------------ MODULE SyncFiles ------------------------------
(***************************************************************************)
(* What sync keeps on disk across launches of the application: the rows of *)
(* the users and of the pending file actions in the metadata Realm         *)
(* (ObjectStore/src/sync/impl/sync_metadata.cpp), the users' directories   *)
(* and the recovery copies (impl/sync_file.cpp).  SyncManager reads and    *)
(* cleans them when it is configured (sync_manager.cpp), SyncUser writes   *)
(* them (sync_user.cpp), SyncSession adds the file actions                 *)
(* (sync_session.cpp).                                                     *)
(*                                                                         *)
(* A write transaction of the metadata Realm is one step; the process may  *)
(* die between any two steps.  Each user opens one Realm, which stands for *)
(* its directory: directories are named by the local_uuid of a user's row, *)
(* a new one for every new row.  The lock file and the management directory *)
(* of a Realm go with the Realm.                                           *)
(***************************************************************************)
EXTENDS Integers, FiniteSets

CONSTANTS Users,
          Dirs,         \* bound: the local_uuids that can be given
          Names,        \* bound: the recovery files that can be named
          Tokens,       \* refresh tokens the server answers with
          MaxLogins,    \* bound: log ins
          MaxCrashes,   \* bound: deaths of the process
          MaxFailures   \* bound: file operations that fail

ASSUME SyncFilesAssumption ==
    /\ {MaxLogins, MaxCrashes, MaxFailures} \subseteq Nat
    /\ "none" \notin Users \cup Dirs \cup Names \cup Tokens

VARIABLES rows,    \* UserMetadata: users with a row, and its fields
          actions, \* FileActionMetadata, by the Realm's path
          file,    \* directories that hold a Realm
          copies,  \* recovery files: "none", "partial" or "full"
          proc,    \* "down", "launching" or "running"
          stage,   \* how far configure_file_system is
          waiting, done, \* file actions to run, and m completed_actions; then users
          acting,  \* the file action being run, by the launch or by the application
          mem,     \* SyncUser objects: state, token, directory
          op,      \* the log in whose second half is to come, per user
          was,     \* history: what the user should be at the next launch: logged "in" or
                   \* "out", "either" in the middle of a log in, "revived" by set_is_admin
          lost,    \* history: directories with files when the metadata were reset
          logins, crashes, failures

disk == <<rows, actions, file, copies>>
bounds == <<logins, crashes, failures>>
filesVars == <<disk, proc, stage, waiting, done, acting, mem, op, was, lost, bounds>>

NoRow == [marked |-> FALSE, token |-> "none", dir |-> "none"]
NoAction == [kind |-> "none", name |-> "none"]
NoUser == [st |-> "none", token |-> "none", dir |-> "none"]
NotActing == [dir |-> "none", name |-> "none", by |-> "none"]

HasRow(u) == rows[u] # NoRow
UsedDirs == {rows[u].dir : u \in Users} \cup {d \in Dirs : actions[d] # NoAction \/ d \in file}
                                        \cup {mem[u].dir : u \in Users}
Loaded == {u \in Users : HasRow(u) /\ ~rows[u].marked /\ rows[u].token # "none"}
Marked == {u \in Users : rows[u].marked}

\* The types of the metadata Realm, the files and the process; in particular a file
\* action names a copy exactly when it has to make one.
FilesTypeOK ==
    /\ rows \in [Users -> [marked : BOOLEAN, token : Tokens \cup {"none"}, dir : Dirs \cup {"none"}]]
    /\ actions \in [Dirs -> [kind : {"none", "delete", "backup"}, name : Names \cup {"none"}]]
    /\ \A d \in Dirs : actions[d].kind = "backup" <=> actions[d].name # "none"
    /\ file \subseteq Dirs /\ copies \in [Names -> {"none", "partial", "full"}]
    /\ proc \in {"down", "launching", "running"}
    /\ stage \in {"none", "actions", "forget", "users", "create"}
    /\ waiting \subseteq Users \cup Dirs /\ done \subseteq Users \cup Dirs
    /\ acting \in [dir : Dirs \cup {"none"}, name : Names \cup {"none"}, by : {"none", "launch", "app"}]
    /\ mem \in [Users -> [st : {"none", "active", "out", "error"}, token : Tokens \cup {"none"},
                          dir : Dirs \cup {"none"}]]
    /\ op \in [Users -> {"none", "token", "admin"}]
    /\ was \in [Users -> {"in", "out", "either", "revived"}] /\ lost \subseteq Dirs

FilesInit ==
    /\ rows = [u \in Users |-> NoRow] /\ actions = [d \in Dirs |-> NoAction]
    /\ file = {} /\ copies = [n \in Names |-> "none"]
    /\ proc = "down" /\ stage = "none" /\ waiting = {} /\ done = {} /\ acting = NotActing
    /\ mem = [u \in Users |-> NoUser] /\ op = [u \in Users |-> "none"]
    /\ was = [u \in Users |-> "out"] /\ lost = {}
    /\ logins = 0 /\ crashes = 0 /\ failures = 0

-----------------------------------------------------------------------------
(* configure_file_system.  The pending actions are run, then their rows are *)
(* removed; the users to create are read; the directories of the users     *)
(* marked for removal are removed, then their rows.                        *)

Launch ==
    /\ proc = "down" /\ proc' = "launching" /\ stage' = "actions"
    /\ waiting' = {d \in Dirs : actions[d] # NoAction} /\ done' = {}
    /\ UNCHANGED <<disk, acting, mem, op, was, lost, bounds>>

\* The metadata Realm cannot be opened: its file is removed and made again, without rows.
ResetMetadata ==
    /\ proc = "down" /\ proc' = "launching" /\ stage' = "actions"
    /\ failures < MaxFailures /\ failures' = failures + 1
    /\ rows' = [u \in Users |-> NoRow] /\ actions' = [d \in Dirs |-> NoAction]
    /\ waiting' = {} /\ done' = {}
    /\ was' = [u \in Users |-> "out"] /\ lost' = lost \cup file
    /\ UNCHANGED <<file, copies, acting, mem, op, logins, crashes>>

\* The application may run the action of one Realm itself.
ByLaunch(d) == stage = "actions" /\ d \in waiting /\ acting = NotActing
ByApp(d) == proc = "running" /\ actions[d] # NoAction /\ acting = NotActing

\* A completed action of the launch is forgotten later, one of the application at once.
Completed(d, by) ==
    /\ acting' = NotActing
    /\ IF by = "launch" THEN waiting' = waiting \ {d} /\ done' = done \cup {d} /\ UNCHANGED actions
       ELSE actions' = [actions EXCEPT ![d] = NoAction] /\ UNCHANGED <<waiting, done>>

\* run_file_action: the Realm is deleted, or is not there any more.
RunDelete(d, by) ==
    /\ actions[d].kind = "delete" \/ (actions[d].kind = "backup" /\ d \notin file)
    /\ file' = file \ {d} /\ Completed(d, by)
    /\ UNCHANGED <<rows, copies, proc, stage, mem, op, was, lost, bounds>>

\* copy_realm_file begins to write the recovery file.
CopyStarts(d, by) ==
    /\ actions[d].kind = "backup" /\ d \in file /\ copies[actions[d].name] = "none"
    /\ acting' = [dir |-> d, name |-> actions[d].name, by |-> by]
    /\ copies' = [copies EXCEPT ![actions[d].name] = "partial"]
    /\ UNCHANGED <<rows, actions, file, proc, stage, waiting, done, mem, op, was, lost, bounds>>

\* The recovery file exists already: the action stays for the next launch.
CopyRefused(d, by) ==
    /\ actions[d].kind = "backup" /\ d \in file /\ copies[actions[d].name] # "none"
    /\ by = "launch" /\ waiting' = waiting \ {d}
    /\ UNCHANGED <<disk, proc, stage, done, acting, mem, op, was, lost, bounds>>

RunAction(d) == \E by \in {"launch", "app"} :
                   /\ IF by = "launch" THEN ByLaunch(d) ELSE ByApp(d)
                   /\ RunDelete(d, by) \/ CopyStarts(d, by) \/ CopyRefused(d, by)

CopyEnds ==
    /\ acting # NotActing /\ copies[acting.name] = "partial"
    /\ copies' = [copies EXCEPT ![acting.name] = "full"]
    /\ UNCHANGED <<rows, actions, file, proc, stage, waiting, done, acting, mem, op, was, lost, bounds>>

\* Mutant: whether the copy was made is not asked
CopyFailsDeletes ==
    /\ acting # NotActing /\ copies[acting.name] = "partial" /\ failures < MaxFailures
    /\ failures' = failures + 1
    /\ file' = file \ {acting.dir} /\ Completed(acting.dir, acting.by)
    /\ UNCHANGED <<rows, copies, proc, stage, mem, op, was, lost, logins, crashes>>

\* The copy fails, for want of space or of access.
CopyFails ==
    /\ acting # NotActing /\ copies[acting.name] = "partial" /\ failures < MaxFailures
    /\ failures' = failures + 1 /\ acting' = NotActing
    /\ waiting' = IF acting.by = "launch" THEN waiting \ {acting.dir} ELSE waiting
    /\ UNCHANGED <<disk, proc, stage, done, mem, op, was, lost, logins, crashes>>

\* remove_realm, of the Realm that was copied.
RemoveOriginal ==
    /\ acting # NotActing /\ copies[acting.name] = "full"
    /\ file' = file \ {acting.dir} /\ Completed(acting.dir, acting.by)
    /\ UNCHANGED <<rows, copies, proc, stage, mem, op, was, lost, bounds>>

EndActions ==
    /\ stage = "actions" /\ waiting = {} /\ acting = NotActing /\ stage' = "forget"
    /\ UNCHANGED <<disk, proc, waiting, done, acting, mem, op, was, lost, bounds>>

\* SyncFileActionMetadata::remove
ForgetAction ==
    /\ stage = "forget"
    /\ \E d \in done : actions' = [actions EXCEPT ![d] = NoAction] /\ done' = done \ {d}
    /\ UNCHANGED <<rows, file, copies, proc, stage, waiting, acting, mem, op, was, lost, bounds>>

\* The users that will be created are read here, before the dead ones are removed.
ReadUsers ==
    /\ stage = "forget" /\ done = {} /\ stage' = "users" /\ waiting' = Marked
    /\ UNCHANGED <<disk, proc, done, acting, mem, op, was, lost, bounds>>

\* remove_user_directory
RemoveDirectory ==
    /\ stage = "users"
    /\ \E u \in waiting : /\ file' = file \ {rows[u].dir} /\ waiting' = waiting \ {u} /\ done' = done \cup {u}
    /\ UNCHANGED <<rows, actions, copies, proc, stage, acting, mem, op, was, lost, bounds>>

\* Mutant: the row of a user is removed although its directory could not be
RemoveFailsForgets ==
    /\ stage = "users" /\ failures < MaxFailures /\ failures' = failures + 1
    /\ \E u \in waiting : waiting' = waiting \ {u} /\ done' = done \cup {u}
    /\ UNCHANGED <<disk, proc, stage, acting, mem, op, was, lost, logins, crashes>>

\* File::AccessError: the user is left for the next launch.
RemoveFails ==
    /\ stage = "users" /\ failures < MaxFailures /\ failures' = failures + 1
    /\ \E u \in waiting : waiting' = waiting \ {u}
    /\ UNCHANGED <<disk, proc, stage, done, acting, mem, op, was, lost, logins, crashes>>

\* SyncUserMetadata::remove
RemoveRow ==
    /\ stage = "users" /\ waiting = {}
    /\ \E u \in done : rows' = [rows EXCEPT ![u] = NoRow] /\ done' = done \ {u}
    /\ UNCHANGED <<actions, file, copies, proc, stage, waiting, acting, mem, op, was, lost, bounds>>

\* The users read are created; each writes the token of its row again.
CreateUsers ==
    /\ stage = "users" /\ waiting = {} /\ done = {}
    /\ stage' = "none" /\ proc' = "running"
    /\ mem' = [u \in Users |-> IF u \in Loaded
                              THEN [st |-> "active", token |-> rows[u].token, dir |-> rows[u].dir]
                              ELSE NoUser]
    /\ was' = [u \in Users |-> IF u \in Loaded THEN "in" ELSE "out"]
    /\ UNCHANGED <<disk, lost, waiting, done, acting, op, bounds>>

-----------------------------------------------------------------------------
(* Users                                                                   *)

\* get_or_make_user_metadata, make_if_absent: the row is made or revived.
RowMade(u, dir) ==
    rows' = [rows EXCEPT ![u] = IF HasRow(u) THEN [@ EXCEPT !.marked = FALSE]
                                ELSE [marked |-> FALSE, token |-> "none", dir |-> dir]]

Writing == \E u \in Users : op[u] = "token"

\* The answer to a log in: SyncManager::get_user makes the user or gives it its token;
\* its row is made or revived, then the token is written.
LogIn(u, t) ==
    /\ proc = "running" /\ ~Writing /\ op[u] = "none" /\ mem[u].st # "error" /\ logins < MaxLogins
    /\ logins' = logins + 1
    /\ \E d \in Dirs \ UsedDirs :
         /\ RowMade(u, d)
         /\ mem' = [mem EXCEPT ![u] = [st |-> "active", token |-> t,
                                        dir |-> IF HasRow(u) THEN rows[u].dir ELSE d]]
    /\ op' = [op EXCEPT ![u] = "token"] /\ was' = [was EXCEPT ![u] = "either"]
    /\ UNCHANGED <<lost, actions, file, copies, proc, stage, waiting, done, acting, crashes, failures>>

\* set_user_token
SetToken(u) ==
    /\ op[u] = "token"
    /\ rows' = [rows EXCEPT ![u].token = mem[u].token]
    /\ op' = [op EXCEPT ![u] = "admin"] /\ was' = [was EXCEPT ![u] = "in"]
    /\ UNCHANGED <<lost, actions, file, copies, proc, stage, waiting, done, acting, mem, bounds>>

\* set_is_admin, the last thing a log in does; it revives the row too, even of a user
\* that was logged out since its token was written.
SetIsAdmin(u) ==
    /\ op[u] = "admin" /\ ~Writing
    /\ RowMade(u, rows[u].dir)
    /\ op' = [op EXCEPT ![u] = "none"]
    /\ was' = [was EXCEPT ![u] = IF @ = "out" THEN "revived" ELSE @]
    /\ UNCHANGED <<lost, actions, file, copies, proc, stage, waiting, done, acting, mem, bounds>>

\* Mutant: the row is only marked when the user was active
LogOutActive(u) ==
    /\ proc = "running" /\ ~Writing /\ mem[u].st \in {"active", "error"}
    /\ mem' = [mem EXCEPT ![u].st = "out"]
    /\ rows' = IF HasRow(u) /\ mem[u].st = "active" THEN [rows EXCEPT ![u].marked = TRUE] ELSE rows
    /\ was' = [was EXCEPT ![u] = "out"]
    /\ UNCHANGED <<lost, actions, file, copies, proc, stage, waiting, done, acting, op, bounds>>

LogOut(u) ==
    /\ proc = "running" /\ ~Writing /\ mem[u].st \in {"active", "error"}
    /\ mem' = [mem EXCEPT ![u].st = "out"]
    /\ rows' = IF HasRow(u) THEN [rows EXCEPT ![u].marked = TRUE] ELSE rows
    /\ was' = [was EXCEPT ![u] = "out"]
    /\ UNCHANGED <<lost, actions, file, copies, proc, stage, waiting, done, acting, op, bounds>>

\* The server refuses the user's token: SyncUser::invalidate.
InvalidateUser(u) ==
    /\ proc = "running" /\ mem[u].st = "active" /\ op[u] # "token"
    /\ mem' = [mem EXCEPT ![u].st = "error"]
    /\ UNCHANGED <<disk, proc, stage, waiting, done, acting, op, was, lost, bounds>>

-----------------------------------------------------------------------------
(* Realms                                                                  *)

\* A Realm of an active user is opened; it is created or downloaded.
OpenRealm(u) ==
    /\ proc = "running" /\ mem[u].st = "active" /\ op[u] # "token"
    /\ file' = file \cup {mem[u].dir}
    /\ UNCHANGED <<rows, actions, copies, proc, stage, waiting, done, acting, mem, op, was, lost, bounds>>

\* update_error_and_mark_file_for_deletion, after an error of the Realm's session.  A
\* Realm has one action: a later error's replaces it.  The name of the recovery file is that
\* of no file there is; the file is not made yet, so that another action may have this name.
FreeNames == {n \in Names : copies[n] = "none"}

\* Mutant: the recovery file's name is not recorded
SessionErrorUnnamed(u, kind) ==
    /\ proc = "running" /\ ~Writing /\ mem[u].st = "active" /\ mem[u].dir \in file
    /\ actions' = [actions EXCEPT ![mem[u].dir] = [kind |-> kind, name |-> "none"]]
    /\ UNCHANGED <<rows, file, copies, proc, stage, waiting, done, acting, mem, op, was, lost, bounds>>

SessionError(u, kind) ==
    /\ proc = "running" /\ ~Writing /\ mem[u].st = "active" /\ mem[u].dir \in file
    /\ \E n \in IF kind = "backup" THEN FreeNames ELSE {"none"} :
         actions' = [actions EXCEPT ![mem[u].dir] = [kind |-> kind, name |-> n]]
    /\ UNCHANGED <<rows, file, copies, proc, stage, waiting, done, acting, mem, op, was, lost, bounds>>

-----------------------------------------------------------------------------
\* The process dies, or is ended.
Crash ==
    /\ proc # "down" /\ crashes < MaxCrashes /\ crashes' = crashes + 1
    /\ proc' = "down" /\ stage' = "none" /\ waiting' = {} /\ done' = {} /\ acting' = NotActing
    /\ mem' = [u \in Users |-> NoUser] /\ op' = [u \in Users |-> "none"]
    /\ UNCHANGED <<disk, was, lost, logins, failures>>

FilesNext ==
    \/ Launch \/ ResetMetadata \/ CopyEnds \/ CopyFails \/ RemoveOriginal \/ EndActions \/ ForgetAction
    \/ ReadUsers \/ RemoveDirectory \/ RemoveFails \/ RemoveRow \/ CreateUsers \/ Crash
    \/ \E d \in Dirs : RunAction(d)
    \/ \E u \in Users : \/ SetToken(u) \/ SetIsAdmin(u) \/ LogOut(u) \/ InvalidateUser(u) \/ OpenRealm(u)
                        \/ \E t \in Tokens : LogIn(u, t)
                        \/ \E kind \in {"delete", "backup"} : SessionError(u, kind)

FilesSpec == FilesInit /\ [][FilesNext]_filesVars

-----------------------------------------------------------------------------
(* Properties                                                              *)

\* A Realm is only removed from the disk when its user was logged out before this launch,
\* when the server denied the user access to it, or when a whole copy of it is in the
\* recovery directory, however often the process died before.
NothingLost ==
    [][\A d \in file \ file' : \/ proc = "launching" /\ \E u \in Marked : rows[u].dir = d
                               \/ actions[d].kind = "delete"
                               \/ acting.dir = d /\ copies[acting.name] = "full"]_filesVars

\* The row of a user that is logged in says so and has its last token and its directory,
\* from the end of the log in's write transactions on.
RowIsOfUser ==
    \A u \in Users : (mem[u].st \in {"active", "error"} /\ op[u] # "token")
                      => rows[u] = [marked |-> FALSE, token |-> mem[u].token, dir |-> mem[u].dir]

\* A launch brings back the users that were logged in when the process ended, and none
\* that had been logged out, nor any of those the reset metadata forgot; but for one that was
\* logged out before the last step of its log in, set_is_admin, which unmarks its row.
LaunchRestores ==
    [][CreateUsers => \A u \in Users : /\ was[u] = "in" => mem'[u].st = "active"
                                       /\ was[u] = "out" => mem'[u].st # "active"]_filesVars

\* Every Realm on disk is in the directory of a user with a row, so that a launch can
\* remove it once the user is logged out; but for those a reset of the metadata left behind.
NoOrphans == \A d \in file \ lost : \E u \in Users : rows[u].dir = d

\* The two together: rows and directories fit the users they belong to.
FilesAreOwned == RowIsOfUser /\ NoOrphans

=============================================================================
