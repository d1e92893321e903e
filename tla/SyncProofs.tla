----------------------------- MODULE SyncProofs -----------------------------
(***************************************************************************)
(* Proofs about the synchronization of a Realm.  SyncFiles: the rows, the  *)
(* directories and the recovery copies fit together however often the      *)
(* process dies and whichever file operations fail, for any number of users,*)
(* directories and launches.  SyncSession: what the sessions of a Realm file*)
(* keep, for any stop policy and any number of threads, handlers, sessions *)
(* and commits.                                                            *)
(***************************************************************************)
EXTENDS SyncFiles, SyncSession, SequenceTheorems, TLAPS

\* Nobody is logged in, and nothing is half written, while the process is down or
\* being configured; configure_file_system has a stage only then.
LaunchIsAlone ==
    /\ proc # "running" => \A u \in Users : mem[u].st = "none" /\ op[u] = "none"
    /\ stage # "none" => proc = "launching"

\* Between the two transactions of a log in the row is there, revived, and the user is active.
HalfLogIn ==
    \A u \in Users : op[u] = "token" =>
        /\ mem[u].st = "active" /\ mem[u].token # "none"
        /\ rows[u].marked = FALSE /\ rows[u].dir = mem[u].dir

\* The launch removes marked users; the directories of those done are gone.
RemovalsAreMarked ==
    stage = "users" => /\ \A u \in waiting : u \in Users /\ rows[u].marked = TRUE
                       /\ \A u \in done : u \in Users /\ rows[u].marked = TRUE /\ rows[u].dir \notin file

\* A user has a token and a directory while it is active, a row that can be loaded when it
\* should be logged in at the next launch, and none when it should not; rows have directories.
TokensAreKept ==
    \A u \in Users :
        /\ mem[u].st \in {"active", "error"} => mem[u].token # "none" /\ mem[u].dir # "none"
        /\ rows[u] # NoRow => rows[u].dir # "none"
        /\ was[u] = "in" => rows[u].marked = FALSE /\ rows[u].token # "none"
        /\ was[u] = "out" => rows[u].marked = TRUE \/ rows[u].token = "none"

\* The file action being run is one of the launch's or of the application's, with a copy to make.
ActingIsWhole ==
    acting # NotActing => /\ acting.dir \in Dirs /\ acting.name \in Names
                     /\ \/ acting.by = "launch" /\ stage = "actions"
                        \/ acting.by = "app" /\ proc = "running"

FilesInv == /\ FilesTypeOK /\ LaunchIsAlone /\ HalfLogIn /\ RemovalsAreMarked /\ TokensAreKept
          /\ ActingIsWhole /\ RowIsOfUser /\ NoOrphans

\* A row of the metadata Realm
Row == [marked : BOOLEAN, token : Tokens \cup {"none"}, dir : Dirs \cup {"none"}]

-----------------------------------------------------------------------------
USE SyncFilesAssumption

LEMMA RowWith == ASSUME NEW r \in Row, NEW b \in BOOLEAN, NEW t \in Tokens \cup {"none"}
  PROVE  /\ [r EXCEPT !.marked = b] \in Row /\ [r EXCEPT !.token = t] \in Row
         /\ [r EXCEPT !.marked = b].marked = b /\ [r EXCEPT !.token = t].marked = r.marked
         /\ [r EXCEPT !.marked = b].token = r.token /\ [r EXCEPT !.token = t].token = t
         /\ [r EXCEPT !.marked = b].dir = r.dir /\ [r EXCEPT !.token = t].dir = r.dir
  BY DEF Row

LEMMA RowIs == ASSUME NEW r \in Row PROVE r = [marked |-> r.marked, token |-> r.token, dir |-> r.dir]
  BY DEF Row

LEMMA NewRow == ASSUME NEW d \in Dirs \cup {"none"} PROVE [marked |-> FALSE, token |-> "none", dir |-> d] \in Row
  BY DEF Row

LEMMA NoRowIsBlank == NoRow.token = "none"
  BY DEF NoRow

LEMMA RowsTyped == FilesTypeOK => rows \in [Users -> Row]
  BY DEF FilesTypeOK, Row

\* What get_or_make_user_metadata does to the rows
LEMMA RowMadeIs ==
  ASSUME NEW u \in Users, NEW d \in Dirs \cup {"none"}, rows \in [Users -> Row], RowMade(u, d)
  PROVE  /\ rows' \in [Users -> Row] /\ \A v \in Users \ {u} : rows'[v] = rows[v]
         /\ rows'[u].marked = FALSE /\ rows'[u].token = rows[u].token
         /\ HasRow(u) => rows'[u].dir = rows[u].dir
         /\ ~HasRow(u) => rows'[u].dir = d /\ rows[u].dir = "none"
  <1>1. CASE HasRow(u)
    <2>1. rows' = [rows EXCEPT ![u] = [rows[u] EXCEPT !.marked = FALSE]]
      BY <1>1 DEF RowMade
    <2>2. [rows[u] EXCEPT !.marked = FALSE] \in Row
      BY RowWith
    <2>3. rows'[u] = [rows[u] EXCEPT !.marked = FALSE]
      BY <2>1
    <2>4. rows'[u].marked = FALSE /\ rows'[u].token = rows[u].token /\ rows'[u].dir = rows[u].dir
      BY <2>3, RowWith
    <2>5. QED
      BY <1>1, <2>1, <2>2, <2>4
  <1>2. CASE ~HasRow(u)
    BY <1>2, NewRow DEF RowMade, HasRow, NoRow
  <1>3. QED
    BY <1>1, <1>2

LEMMA FilesInitInv == FilesInit => FilesInv
  BY DEF FilesInit, disk, bounds, FilesInv, FilesTypeOK, LaunchIsAlone, HalfLogIn, RemovalsAreMarked,
         TokensAreKept, ActingIsWhole, RowIsOfUser, NoOrphans, NoRow, NoAction, NoUser, NotActing

-----------------------------------------------------------------------------
(* The launch                                                               *)

LEMMA LaunchStep == ASSUME Launch, FilesInv PROVE FilesInv'
  BY DEF Launch, disk, bounds, FilesInv, FilesTypeOK, LaunchIsAlone, HalfLogIn, RemovalsAreMarked,
         TokensAreKept, ActingIsWhole, RowIsOfUser, NoOrphans, NoRow, NoAction, NoUser, NotActing

LEMMA ResetMetadataStep == ASSUME ResetMetadata, FilesInv PROVE FilesInv'
  <1>1. FilesTypeOK'
    BY DEF ResetMetadata, FilesInv, FilesTypeOK, NoRow, NoAction
  <1>2. /\ \A u \in Users : rows'[u] = NoRow /\ was'[u] = "out" /\ mem'[u] = mem[u] /\ op'[u] = op[u]
        /\ \A u \in Users : mem[u].st = "none" /\ op[u] = "none"
    BY DEF ResetMetadata, FilesInv, LaunchIsAlone
  <1>3. LaunchIsAlone' /\ RowIsOfUser' /\ HalfLogIn'
    BY <1>2 DEF ResetMetadata, LaunchIsAlone, RowIsOfUser, HalfLogIn
  <1>4. TokensAreKept'
    BY <1>2, NoRowIsBlank DEF TokensAreKept
  <1>5. RemovalsAreMarked' /\ ActingIsWhole'
    BY DEF ResetMetadata, FilesInv, LaunchIsAlone, RemovalsAreMarked, ActingIsWhole
  <1>6. NoOrphans'
    BY DEF ResetMetadata, FilesInv, NoOrphans
  <1>7. QED
    BY <1>1, <1>3, <1>4, <1>5, <1>6 DEF FilesInv

LEMMA RunDeleteStep ==
  ASSUME NEW d \in Dirs, NEW by \in {"launch", "app"},
           IF by = "launch" THEN ByLaunch(d) ELSE ByApp(d), RunDelete(d, by), FilesInv
  PROVE  FilesInv'
  <1>1. FilesTypeOK'
    <2>1. actions' \in [Dirs -> [kind : {"none", "delete", "backup"}, name : Names \cup {"none"}]]
      BY DEF RunDelete, Completed, FilesInv, FilesTypeOK, NoAction, disk
    <2>2. \A e \in Dirs : actions'[e].kind = "backup" <=> actions'[e].name # "none"
      BY DEF RunDelete, Completed, FilesInv, FilesTypeOK, NoAction, disk
    <2>3. waiting' \subseteq Users \cup Dirs /\ done' \subseteq Users \cup Dirs
      BY DEF RunDelete, Completed, FilesInv, FilesTypeOK, ActingIsWhole
    <2>4. acting' \in [dir : Dirs \cup {"none"}, name : Names \cup {"none"}, by : {"none", "launch", "app"}]
      BY DEF RunDelete, Completed, NotActing
    <2>5. QED
      BY <2>1, <2>2, <2>3, <2>4 DEF RunDelete, FilesInv, FilesTypeOK
  <1>2. stage # "users"
    BY DEF RunDelete, ByLaunch, ByApp, FilesInv, LaunchIsAlone, ActingIsWhole
  <1>3. LaunchIsAlone' /\ HalfLogIn' /\ RemovalsAreMarked' /\ TokensAreKept' /\ ActingIsWhole'
    BY <1>2 DEF RunDelete, Completed, FilesInv, LaunchIsAlone, HalfLogIn, RemovalsAreMarked, TokensAreKept,
                ActingIsWhole, NotActing
  <1>4. RowIsOfUser' /\ NoOrphans'
    BY DEF RunDelete, FilesInv, RowIsOfUser, NoOrphans
  <1>5. QED
    BY <1>1, <1>3, <1>4 DEF FilesInv

LEMMA CopyStartsStep ==
  ASSUME NEW d \in Dirs, NEW by \in {"launch", "app"},
           IF by = "launch" THEN ByLaunch(d) ELSE ByApp(d), CopyStarts(d, by), FilesInv
  PROVE  FilesInv'
  BY DEF CopyStarts, ByLaunch, ByApp, disk, bounds, FilesInv, FilesTypeOK, LaunchIsAlone, HalfLogIn, RemovalsAreMarked,
         TokensAreKept, ActingIsWhole, RowIsOfUser, NoOrphans, NoRow, NoAction, NoUser, NotActing

LEMMA CopyRefusedStep ==
  ASSUME NEW d \in Dirs, NEW by \in {"launch", "app"},
           IF by = "launch" THEN ByLaunch(d) ELSE ByApp(d), CopyRefused(d, by), FilesInv
  PROVE  FilesInv'
  BY DEF CopyRefused, ByLaunch, ByApp, disk, bounds, FilesInv, FilesTypeOK, LaunchIsAlone, HalfLogIn, RemovalsAreMarked,
         TokensAreKept, ActingIsWhole, RowIsOfUser, NoOrphans, NoRow, NoAction, NoUser, NotActing

LEMMA CopyEndsStep == ASSUME CopyEnds, FilesInv PROVE FilesInv'
  <1>1. acting.name \in Names
    BY DEF CopyEnds, FilesInv, ActingIsWhole
  <1>2. QED
    BY <1>1 DEF CopyEnds, FilesInv, FilesTypeOK, LaunchIsAlone, HalfLogIn, RemovalsAreMarked,
           TokensAreKept, ActingIsWhole, RowIsOfUser, NoOrphans

LEMMA CopyFailsStep == ASSUME CopyFails, FilesInv PROVE FilesInv'
  BY DEF CopyFails, disk, bounds, FilesInv, FilesTypeOK, LaunchIsAlone, HalfLogIn, RemovalsAreMarked,
         TokensAreKept, ActingIsWhole, RowIsOfUser, NoOrphans, NoRow, NoAction, NoUser, NotActing

LEMMA RemoveOriginalStep == ASSUME RemoveOriginal, FilesInv PROVE FilesInv'
  <1>1. FilesTypeOK'
    <2>1. actions' \in [Dirs -> [kind : {"none", "delete", "backup"}, name : Names \cup {"none"}]]
      BY DEF RemoveOriginal, Completed, FilesInv, FilesTypeOK, NoAction, disk
    <2>2. \A e \in Dirs : actions'[e].kind = "backup" <=> actions'[e].name # "none"
      BY DEF RemoveOriginal, Completed, FilesInv, FilesTypeOK, NoAction, disk
    <2>3. waiting' \subseteq Users \cup Dirs /\ done' \subseteq Users \cup Dirs
      BY DEF RemoveOriginal, Completed, FilesInv, FilesTypeOK, ActingIsWhole
    <2>4. acting' \in [dir : Dirs \cup {"none"}, name : Names \cup {"none"}, by : {"none", "launch", "app"}]
      BY DEF RemoveOriginal, Completed, NotActing
    <2>5. QED
      BY <2>1, <2>2, <2>3, <2>4 DEF RemoveOriginal, FilesInv, FilesTypeOK
  <1>2. stage # "users"
    BY DEF RemoveOriginal, FilesInv, LaunchIsAlone, ActingIsWhole
  <1>3. LaunchIsAlone' /\ HalfLogIn' /\ RemovalsAreMarked' /\ TokensAreKept' /\ ActingIsWhole'
    BY <1>2 DEF RemoveOriginal, Completed, FilesInv, LaunchIsAlone, HalfLogIn, RemovalsAreMarked, TokensAreKept,
                ActingIsWhole, NotActing
  <1>4. RowIsOfUser' /\ NoOrphans'
    BY DEF RemoveOriginal, FilesInv, RowIsOfUser, NoOrphans
  <1>5. QED
    BY <1>1, <1>3, <1>4 DEF FilesInv

LEMMA EndActionsStep == ASSUME EndActions, FilesInv PROVE FilesInv'
  BY DEF EndActions, disk, bounds, FilesInv, FilesTypeOK, LaunchIsAlone, HalfLogIn, RemovalsAreMarked,
         TokensAreKept, ActingIsWhole, RowIsOfUser, NoOrphans, NoRow, NoAction, NoUser, NotActing

LEMMA ForgetActionStep == ASSUME ForgetAction, FilesInv PROVE FilesInv'
  <1>0. PICK d \in done : actions' = [actions EXCEPT ![d] = NoAction] /\ done' = done \ {d}
    BY DEF ForgetAction
  <1>1. actions' \in [Dirs -> [kind : {"none", "delete", "backup"}, name : Names \cup {"none"}]]
    BY <1>0 DEF FilesInv, FilesTypeOK, NoAction
  <1>2. \A e \in Dirs : actions'[e].kind = "backup" <=> actions'[e].name # "none"
    BY <1>0 DEF FilesInv, FilesTypeOK, NoAction
  <1>3. FilesTypeOK'
    BY <1>0, <1>1, <1>2 DEF ForgetAction, bounds, FilesInv, FilesTypeOK
  <1>4. QED
    BY <1>3 DEF ForgetAction, FilesInv, FilesTypeOK, LaunchIsAlone, HalfLogIn, RemovalsAreMarked,
           TokensAreKept, ActingIsWhole, RowIsOfUser, NoOrphans

LEMMA ReadUsersStep == ASSUME ReadUsers, FilesInv PROVE FilesInv'
  BY DEF ReadUsers, Marked, disk, bounds, FilesInv, FilesTypeOK, LaunchIsAlone, HalfLogIn, RemovalsAreMarked,
         TokensAreKept, ActingIsWhole, RowIsOfUser, NoOrphans, NoRow, NoAction, NoUser, NotActing

LEMMA RemoveDirectoryStep == ASSUME RemoveDirectory, FilesInv PROVE FilesInv'
  BY DEF RemoveDirectory, disk, bounds, FilesInv, FilesTypeOK, LaunchIsAlone, HalfLogIn, RemovalsAreMarked,
         TokensAreKept, ActingIsWhole, RowIsOfUser, NoOrphans, NoRow, NoAction, NoUser, NotActing

LEMMA RemoveFailsStep == ASSUME RemoveFails, FilesInv PROVE FilesInv'
  BY DEF RemoveFails, disk, bounds, FilesInv, FilesTypeOK, LaunchIsAlone, HalfLogIn, RemovalsAreMarked,
         TokensAreKept, ActingIsWhole, RowIsOfUser, NoOrphans, NoRow, NoAction, NoUser, NotActing

LEMMA RemoveRowStep == ASSUME RemoveRow, FilesInv PROVE FilesInv'
  BY DEF RemoveRow, disk, bounds, FilesInv, FilesTypeOK, LaunchIsAlone, HalfLogIn, RemovalsAreMarked,
         TokensAreKept, ActingIsWhole, RowIsOfUser, NoOrphans, NoRow, NoAction, NoUser, NotActing

LEMMA CreateUsersStep == ASSUME CreateUsers, FilesInv PROVE FilesInv'
  BY DEF CreateUsers, Loaded, HasRow, disk, bounds, FilesInv, FilesTypeOK, LaunchIsAlone, HalfLogIn, RemovalsAreMarked,
         TokensAreKept, ActingIsWhole, RowIsOfUser, NoOrphans, NoRow, NoAction, NoUser, NotActing

LEMMA CrashStep == ASSUME Crash, FilesInv PROVE FilesInv'
  BY DEF Crash, disk, bounds, FilesInv, FilesTypeOK, LaunchIsAlone, HalfLogIn, RemovalsAreMarked,
         TokensAreKept, ActingIsWhole, RowIsOfUser, NoOrphans, NoRow, NoAction, NoUser, NotActing

-----------------------------------------------------------------------------
(* The application                                                          *)

LEMMA LogInStep == ASSUME NEW u \in Users, NEW t \in Tokens, LogIn(u, t), FilesInv PROVE FilesInv'
  <1> PICK d \in Dirs \ UsedDirs :
         /\ RowMade(u, d)
         /\ mem' = [mem EXCEPT ![u] = [st |-> "active", token |-> t, dir |-> IF HasRow(u) THEN rows[u].dir ELSE d]]
    BY DEF LogIn
  <1>1. /\ rows' \in [Users -> Row] /\ \A v \in Users \ {u} : rows'[v] = rows[v]
        /\ rows'[u].marked = FALSE /\ rows'[u].token = rows[u].token
        /\ HasRow(u) => rows'[u].dir = rows[u].dir
        /\ ~HasRow(u) => rows'[u].dir = d /\ rows[u].dir = "none"
    BY RowMadeIs, RowsTyped DEF FilesInv
  <1>2. \A v \in Users \ {u} : mem'[v] = mem[v] /\ op'[v] = op[v] /\ was'[v] = was[v]
    BY DEF LogIn, FilesInv, FilesTypeOK
  <1>3. mem'[u].dir = rows'[u].dir /\ mem'[u].st = "active" /\ mem'[u].token = t
        /\ op'[u] = "token" /\ was'[u] = "either" /\ mem'[u].dir \in Dirs
    BY <1>1 DEF LogIn, HasRow, NoRow, FilesInv, FilesTypeOK, TokensAreKept
  <1>4. FilesTypeOK'
    <2>1. mem' \in [Users -> [st : {"none", "active", "out", "error"}, token : Tokens \cup {"none"},
                              dir : Dirs \cup {"none"}]]
      BY DEF FilesInv, FilesTypeOK
    <2>2. op' \in [Users -> {"none", "token", "admin"}]
          /\ was' \in [Users -> {"in", "out", "either", "revived"}]
      BY DEF LogIn, FilesInv, FilesTypeOK
    <2>3. UNCHANGED <<actions, file, copies, proc, stage, waiting, done, acting, lost>>
      BY DEF LogIn
    <2>4. rows' \in [Users -> Row]
      BY <1>1
    <2>5. QED
      BY <2>1, <2>2, <2>3, <2>4 DEF FilesInv, FilesTypeOK, Row
  <1>5. RowIsOfUser'
    <2>1. ASSUME NEW v \in Users \ {u}, mem'[v].st \in {"active", "error"}, op'[v] # "token"
          PROVE  rows'[v] = [marked |-> FALSE, token |-> mem'[v].token, dir |-> mem'[v].dir]
      <3>1. mem'[v] = mem[v] /\ op'[v] = op[v] /\ rows'[v] = rows[v]
        BY <1>1, <1>2
      <3>2. rows[v] = [marked |-> FALSE, token |-> mem[v].token, dir |-> mem[v].dir]
        BY <2>1, <3>1 DEF FilesInv, RowIsOfUser
      <3>3. QED
        BY <3>1, <3>2
    <2>2. QED
      BY <2>1, <1>3 DEF RowIsOfUser
  <1>6. NoOrphans'
    <2>1. file' = file /\ lost' = lost
      BY DEF LogIn
    <2>2. ASSUME NEW e \in file \ lost PROVE \E v \in Users : rows'[v].dir = e
      <3>1. PICK v \in Users : rows[v].dir = e
        BY DEF FilesInv, NoOrphans
      <3>2. e # "none"
        BY DEF FilesInv, FilesTypeOK
      <3>3. v = u => rows'[v].dir = rows[v].dir
        BY <1>1, <3>1, <3>2
      <3>4. QED
        BY <1>1, <3>1, <3>3
    <2>3. QED
      BY <2>1, <2>2 DEF NoOrphans
  <1>7. LaunchIsAlone' /\ RemovalsAreMarked' /\ ActingIsWhole'
    BY DEF LogIn, FilesInv, LaunchIsAlone, RemovalsAreMarked, ActingIsWhole
  <1>8. HalfLogIn' /\ TokensAreKept'
    BY <1>1, <1>2, <1>3 DEF LogIn, FilesInv, HalfLogIn, TokensAreKept
  <1>9. QED
    BY <1>4, <1>5, <1>6, <1>7, <1>8 DEF FilesInv

LEMMA SetTokenStep == ASSUME NEW u \in Users, SetToken(u), FilesInv PROVE FilesInv'
  <1>1. mem[u].token \in Tokens \cup {"none"}
    BY DEF FilesInv, FilesTypeOK
  <1>2. rows' = [rows EXCEPT ![u] = [rows[u] EXCEPT !.token = mem[u].token]]
    BY DEF SetToken
  <1>3. rows[u] \in Row /\ [rows[u] EXCEPT !.token = mem[u].token] \in Row
    BY <1>1, RowWith, RowsTyped DEF FilesInv
  <1>4. rows' \in [Users -> Row] /\ \A v \in Users \ {u} : rows'[v] = rows[v]
    <2> DEFINE x == [rows[u] EXCEPT !.token = mem[u].token]
    <2>1. x \in Row /\ rows' = [rows EXCEPT ![u] = x] /\ rows \in [Users -> Row]
      BY <1>2, <1>3, RowsTyped DEF FilesInv
    <2> HIDE DEF x
    <2>2. QED
      BY <2>1
  <1>5. rows'[u] = [rows[u] EXCEPT !.token = mem[u].token]
    BY <1>2, RowsTyped DEF FilesInv
  <1>6. rows'[u].marked = rows[u].marked /\ rows'[u].token = mem[u].token /\ rows'[u].dir = rows[u].dir
    BY <1>1, <1>3, <1>5, RowWith
  <1>7. rows'[u].marked = FALSE /\ rows'[u].dir = mem[u].dir
    BY <1>6 DEF SetToken, FilesInv, HalfLogIn
  <1>8. FilesTypeOK'
    BY <1>4 DEF SetToken, bounds, FilesInv, FilesTypeOK, Row
  <1>9. RowIsOfUser'
    <2>1. rows'[u] = [marked |-> FALSE, token |-> mem[u].token, dir |-> mem[u].dir]
      BY <1>4, <1>6, <1>7, RowIs
    <2>2. mem' = mem /\ op'[u] = "admin" /\ \A v \in Users \ {u} : op'[v] = op[v]
      BY DEF SetToken, FilesInv, FilesTypeOK
    <2>3. QED
      BY <1>4, <2>1, <2>2 DEF FilesInv, RowIsOfUser
  <1>10. LaunchIsAlone' /\ RemovalsAreMarked' /\ ActingIsWhole'
    BY DEF SetToken, FilesInv, LaunchIsAlone, RemovalsAreMarked, ActingIsWhole
  <1>11. HalfLogIn' /\ TokensAreKept' /\ NoOrphans'
    <2>1. /\ mem[u].token # "none" /\ mem[u].dir # "none"
          /\ mem' = mem /\ file' = file /\ lost' = lost
      BY DEF SetToken, FilesInv, HalfLogIn, TokensAreKept
    <2>2. /\ op'[u] = "admin" /\ was'[u] = "in"
          /\ \A v \in Users \ {u} : op'[v] = op[v] /\ was'[v] = was[v]
      BY DEF SetToken, FilesInv, FilesTypeOK
    <2>3. HalfLogIn'
      BY <1>4, <2>1, <2>2 DEF FilesInv, HalfLogIn
    <2>4. TokensAreKept'
      BY <1>4, <1>6, <1>7, <2>1, <2>2 DEF FilesInv, TokensAreKept
    <2>5. NoOrphans'
      BY <1>4, <1>6, <2>1 DEF FilesInv, NoOrphans
    <2>6. QED
      BY <2>3, <2>4, <2>5
  <1>12. QED
    BY <1>8, <1>9, <1>10, <1>11 DEF FilesInv

LEMMA SetIsAdminStep == ASSUME NEW u \in Users, SetIsAdmin(u), FilesInv PROVE FilesInv'
  <1>1. rows[u].dir \in Dirs \cup {"none"}
    BY DEF FilesInv, FilesTypeOK
  <1>2. /\ rows' \in [Users -> Row] /\ \A v \in Users \ {u} : rows'[v] = rows[v]
        /\ rows'[u].marked = FALSE /\ rows'[u].token = rows[u].token /\ rows'[u].dir = rows[u].dir
    BY <1>1, RowMadeIs, RowsTyped DEF SetIsAdmin, FilesInv
  <1>3. FilesTypeOK'
    BY <1>2 DEF SetIsAdmin, bounds, FilesInv, FilesTypeOK, Row
  <1>4. RowIsOfUser'
    <2>1. ASSUME mem[u].st \in {"active", "error"} PROVE rows'[u] = rows[u]
      <3>1. rows[u] = [marked |-> FALSE, token |-> mem[u].token, dir |-> mem[u].dir]
        BY <2>1 DEF SetIsAdmin, FilesInv, RowIsOfUser
      <3>2. rows'[u] = [marked |-> FALSE, token |-> rows[u].token, dir |-> rows[u].dir]
        BY <1>2, RowIs
      <3>3. QED
        BY <3>1, <3>2
    <2>2. mem' = mem /\ \A v \in Users \ {u} : op'[v] = op[v]
      BY DEF SetIsAdmin, FilesInv, FilesTypeOK
    <2>3. op[u] # "token"
      BY DEF SetIsAdmin
    <2>4. QED
      BY <1>2, <2>1, <2>2, <2>3 DEF FilesInv, RowIsOfUser
  <1>5. LaunchIsAlone' /\ ActingIsWhole'
    BY DEF SetIsAdmin, FilesInv, FilesTypeOK, LaunchIsAlone, ActingIsWhole
  <1>6. RemovalsAreMarked'
    BY DEF SetIsAdmin, FilesInv, LaunchIsAlone, RemovalsAreMarked
  <1>7. HalfLogIn' /\ NoOrphans'
    BY <1>2 DEF SetIsAdmin, Writing, FilesInv, FilesTypeOK, HalfLogIn, NoOrphans
  <1>8. TokensAreKept'
    <2>1. rows[u] # NoRow => rows[u].dir # "none"
      BY DEF FilesInv, TokensAreKept
    <2>2. rows'[u] # NoRow => rows'[u].dir # "none"
      BY <1>2, <2>1, RowIs DEF NoRow
    <2>3. \A v \in Users \ {u} : was'[v] = was[v] /\ mem'[v] = mem[v]
      BY DEF SetIsAdmin, FilesInv, FilesTypeOK
    <2>4. mem'[u] = mem[u] /\ was'[u] # "out" /\ (was'[u] = "in" => was[u] = "in")
      BY DEF SetIsAdmin, FilesInv, FilesTypeOK
    <2>5. QED
      BY <1>2, <2>2, <2>3, <2>4 DEF FilesInv, TokensAreKept
  <1>9. QED
    BY <1>3, <1>4, <1>5, <1>6, <1>7, <1>8 DEF FilesInv

LEMMA LogOutStep == ASSUME NEW u \in Users, LogOut(u), FilesInv PROVE FilesInv'
  <1>1. rows \in [Users -> Row] /\ [rows[u] EXCEPT !.marked = TRUE] \in Row
        /\ [rows[u] EXCEPT !.marked = TRUE].marked = TRUE
        /\ [rows[u] EXCEPT !.marked = TRUE].token = rows[u].token
        /\ [rows[u] EXCEPT !.marked = TRUE].dir = rows[u].dir
    BY RowsTyped, RowWith DEF FilesInv
  <1>2. rows' = IF HasRow(u) THEN [rows EXCEPT ![u] = [rows[u] EXCEPT !.marked = TRUE]] ELSE rows
    BY DEF LogOut
  <1>3. /\ rows' \in [Users -> Row] /\ \A v \in Users \ {u} : rows'[v] = rows[v]
        /\ rows'[u].token = rows[u].token /\ rows'[u].dir = rows[u].dir
        /\ rows'[u].marked = TRUE \/ rows'[u].token = "none"
        /\ rows'[u] # NoRow => rows'[u].dir # "none"
    <2>1. rows[u] # NoRow => rows[u].dir # "none"
      BY DEF FilesInv, TokensAreKept
    <2>2. CASE HasRow(u)
      <3>1. rows'[u] = [rows[u] EXCEPT !.marked = TRUE]
        BY <1>1, <1>2, <2>2
      <3>2. QED
        BY <1>1, <1>2, <2>1, <2>2, <3>1 DEF HasRow
    <2>3. CASE ~HasRow(u)
      BY <1>1, <1>2, <2>1, <2>3 DEF HasRow, NoRow
    <2>4. QED
      BY <2>2, <2>3
  <1>4. /\ mem' = [mem EXCEPT ![u] = [mem[u] EXCEPT !.st = "out"]] /\ was' = [was EXCEPT ![u] = "out"]
        /\ op' = op /\ file' = file /\ lost' = lost
    BY DEF LogOut
  <1>5. /\ mem' \in [Users -> [st : {"none", "active", "out", "error"}, token : Tokens \cup {"none"},
                               dir : Dirs \cup {"none"}]]
        /\ mem'[u].st = "out" /\ was'[u] = "out"
        /\ \A v \in Users \ {u} : mem'[v] = mem[v] /\ was'[v] = was[v]
    <2>1. mem[u] \in [st : {"none", "active", "out", "error"}, token : Tokens \cup {"none"},
                     dir : Dirs \cup {"none"}]
      BY DEF FilesInv, FilesTypeOK
    <2>2. [mem[u] EXCEPT !.st = "out"] \in [st : {"none", "active", "out", "error"}, token : Tokens \cup {"none"},
                                          dir : Dirs \cup {"none"}]
          /\ [mem[u] EXCEPT !.st = "out"].st = "out"
      BY <2>1
    <2>3. QED
      BY <1>4, <2>2 DEF FilesInv, FilesTypeOK
  <1>6. FilesTypeOK'
    BY <1>3, <1>4, <1>5 DEF LogOut, bounds, FilesInv, FilesTypeOK, Row
  <1>7. RowIsOfUser'
    <2>1. ASSUME NEW v \in Users, mem'[v].st \in {"active", "error"}, op'[v] # "token"
          PROVE  rows'[v] = [marked |-> FALSE, token |-> mem'[v].token, dir |-> mem'[v].dir]
      <3>1. v # u
        BY <1>5, <2>1
      <3>2. rows'[v] = rows[v] /\ mem'[v] = mem[v] /\ op'[v] = op[v]
        BY <1>3, <1>4, <1>5, <3>1
      <3>3. QED
        BY <2>1, <3>2 DEF FilesInv, RowIsOfUser
    <2>2. QED
      BY <2>1 DEF RowIsOfUser
  <1>8. LaunchIsAlone' /\ RemovalsAreMarked' /\ ActingIsWhole'
    BY DEF LogOut, FilesInv, LaunchIsAlone, RemovalsAreMarked, ActingIsWhole
  <1>9. HalfLogIn' /\ TokensAreKept'
    BY <1>3, <1>4, <1>5 DEF LogOut, Writing, FilesInv, HalfLogIn, TokensAreKept
  <1>10. NoOrphans'
    BY <1>3, <1>4 DEF FilesInv, NoOrphans
  <1>11. QED
    BY <1>6, <1>7, <1>8, <1>9, <1>10 DEF FilesInv

LEMMA InvalidateUserStep == ASSUME NEW u \in Users, InvalidateUser(u), FilesInv PROVE FilesInv'
  BY DEF InvalidateUser, disk, bounds, FilesInv, FilesTypeOK, LaunchIsAlone, HalfLogIn, RemovalsAreMarked,
         TokensAreKept, ActingIsWhole, RowIsOfUser, NoOrphans, NoRow, NoAction, NoUser, NotActing

LEMMA OpenRealmStep == ASSUME NEW u \in Users, OpenRealm(u), FilesInv PROVE FilesInv'
  <1>1. mem[u].dir \in Dirs /\ rows[u].dir = mem[u].dir
    BY DEF OpenRealm, FilesInv, FilesTypeOK, RowIsOfUser, TokensAreKept
  <1>2. FilesTypeOK'
    BY <1>1 DEF OpenRealm, bounds, FilesInv, FilesTypeOK
  <1>3. NoOrphans'
    BY <1>1 DEF OpenRealm, FilesInv, NoOrphans
  <1>4. LaunchIsAlone' /\ HalfLogIn' /\ RemovalsAreMarked' /\ TokensAreKept' /\ ActingIsWhole' /\ RowIsOfUser'
    BY DEF OpenRealm, FilesInv, FilesTypeOK, LaunchIsAlone, HalfLogIn, RemovalsAreMarked,
           TokensAreKept, ActingIsWhole, RowIsOfUser, NoOrphans
  <1>5. QED
    BY <1>2, <1>3, <1>4 DEF FilesInv

LEMMA SessionErrorStep ==
  ASSUME NEW u \in Users, NEW kind \in {"delete", "backup"}, SessionError(u, kind), FilesInv
  PROVE  FilesInv'
  BY DEF SessionError, Writing, FreeNames, disk, bounds, FilesInv, FilesTypeOK, LaunchIsAlone, HalfLogIn, RemovalsAreMarked,
         TokensAreKept, ActingIsWhole, RowIsOfUser, NoOrphans, NoRow, NoAction, NoUser, NotActing

-----------------------------------------------------------------------------
LEMMA StutterStep == ASSUME UNCHANGED filesVars, FilesInv PROVE FilesInv'
  BY DEF filesVars, disk, bounds, FilesInv, FilesTypeOK, LaunchIsAlone, HalfLogIn, RemovalsAreMarked,
         TokensAreKept, ActingIsWhole, RowIsOfUser, NoOrphans

LEMMA RunActionStep == ASSUME NEW d \in Dirs, RunAction(d), FilesInv PROVE FilesInv'
  BY RunDeleteStep, CopyStartsStep, CopyRefusedStep DEF RunAction

LEMMA FilesNextInv == FilesInv /\ [FilesNext]_filesVars => FilesInv'
  BY LaunchStep, ResetMetadataStep, CopyEndsStep, CopyFailsStep, RemoveOriginalStep, EndActionsStep, ForgetActionStep,
     ReadUsersStep, RemoveDirectoryStep, RemoveFailsStep, RemoveRowStep, CreateUsersStep, CrashStep,
     RunActionStep, SetTokenStep, SetIsAdminStep, LogOutStep, InvalidateUserStep, OpenRealmStep,
     LogInStep, SessionErrorStep, StutterStep DEF FilesNext

-----------------------------------------------------------------------------
(* Results                                                                  *)

(* The rows, the files and the users in memory stay in step.                *)
THEOREM FilesInvariance == FilesSpec => []FilesInv
  BY FilesInitInv, FilesNextInv, PTL DEF FilesSpec

(* Every variable keeps its type; a file action has a recovery file's name  *)
(* exactly when it makes a recovery copy.                                   *)
THEOREM FilesTypeCorrect == FilesSpec => []FilesTypeOK
  <1>1. FilesInv => FilesTypeOK
    BY DEF FilesInv
  <1>2. QED
    BY <1>1, FilesInvariance, PTL

(* The row of a user that is logged in is its own, and every Realm on disk  *)
(* is some user's (SyncUser, SyncUserMetadata, configure_file_system).      *)
THEOREM FilesStayOwned == FilesSpec => []FilesAreOwned
  <1>1. FilesInv => FilesAreOwned
    BY DEF FilesInv, FilesAreOwned
  <1>2. QED
    BY <1>1, FilesInvariance, PTL

(* A Realm only leaves the disk when its user was logged out, when access   *)
(* to it was denied or when a whole copy of it was made: every step of the  *)
(* launch, of run_file_action and of the application.                       *)
THEOREM NothingIsLost == FilesSpec => NothingLost
  <1> DEFINE Excused(d) == \/ proc = "launching" /\ \E u \in Marked : rows[u].dir = d
                           \/ actions[d].kind = "delete"
                           \/ acting.dir = d /\ copies[acting.name] = "full"
  <1>1. ASSUME FilesInv, NEW d \in file, d \notin file', FilesNext PROVE Excused(d)
    <2>1. CASE RemoveDirectory
      <3>1. PICK u \in waiting : file' = file \ {rows[u].dir}
        BY <2>1 DEF RemoveDirectory
      <3>2. u \in Marked /\ rows[u].dir = d /\ proc = "launching"
        BY <1>1, <2>1, <3>1 DEF RemoveDirectory, FilesInv, RemovalsAreMarked, LaunchIsAlone, Marked
      <3>3. QED
        BY <3>2
    <2>2. CASE RemoveOriginal
      BY <1>1, <2>2 DEF RemoveOriginal
    <2>3. CASE \E e \in Dirs : RunAction(e)
      <3>1. PICK e \in Dirs, by \in {"launch", "app"} : RunDelete(e, by) \/ CopyStarts(e, by) \/ CopyRefused(e, by)
        BY <2>3 DEF RunAction
      <3>2. RunDelete(e, by) /\ d = e
        BY <1>1, <3>1 DEF RunDelete, CopyStarts, CopyRefused, disk
      <3>3. QED
        BY <3>2 DEF RunDelete
    <2>4. CASE \/ Launch \/ ResetMetadata \/ CopyEnds \/ CopyFails \/ EndActions \/ ForgetAction
               \/ ReadUsers \/ RemoveFails \/ RemoveRow \/ CreateUsers \/ Crash
      BY <1>1, <2>4 DEF Launch, ResetMetadata, CopyEnds, CopyFails, EndActions, ForgetAction, ReadUsers,
                        RemoveFails, RemoveRow, CreateUsers, Crash, disk
    <2>5. CASE \E u \in Users : \/ SetToken(u) \/ SetIsAdmin(u) \/ LogOut(u) \/ InvalidateUser(u) \/ OpenRealm(u)
                                \/ \E t \in Tokens : LogIn(u, t)
                                \/ \E kind \in {"delete", "backup"} : SessionError(u, kind)
      BY <1>1, <2>5 DEF SetToken, SetIsAdmin, LogOut, InvalidateUser, OpenRealm, LogIn, SessionError, disk
    <2>6. QED
      BY <1>1, <2>1, <2>2, <2>3, <2>4, <2>5 DEF FilesNext
  <1>2. FilesInv /\ [FilesNext]_filesVars => [\A d \in file \ file' : Excused(d)]_filesVars
    BY <1>1
  <1>3. QED
    BY <1>2, FilesInvariance, PTL DEF FilesSpec, NothingLost

(* A launch brings back who was logged in and nobody who was logged out     *)
(* (SyncManager::configure_file_system, SyncUser::log_out).                 *)
THEOREM LaunchesRestore == FilesSpec => LaunchRestores
  <1> DEFINE Restored == \A u \in Users : /\ was[u] = "in" => mem'[u].st = "active"
                                          /\ was[u] = "out" => mem'[u].st # "active"
  <1>1. ASSUME FilesInv, CreateUsers, NEW u \in Users
        PROVE  (was[u] = "in" => mem'[u].st = "active") /\ (was[u] = "out" => mem'[u].st # "active")
    <2>1. mem'[u].st = "active" <=> u \in Loaded
      BY <1>1 DEF CreateUsers, NoUser
    <2>2. was[u] = "in" => u \in Loaded
      BY <1>1, NoRowIsBlank DEF FilesInv, TokensAreKept, Loaded, HasRow
    <2>3. was[u] = "out" => u \notin Loaded
      BY <1>1 DEF FilesInv, TokensAreKept, Loaded
    <2>4. QED
      BY <2>1, <2>2, <2>3
  <1>2. FilesInv /\ [FilesNext]_filesVars => [CreateUsers => Restored]_filesVars
    BY <1>1
  <1>3. QED
    BY <1>2, FilesInvariance, PTL DEF FilesSpec, LaunchRestores

-----------------------------------------------------------------------------
Session == [st : States, raw : BOOLEAN, close : BOOLEAN, commit : BOOLEAN,
            death : Nat, diedAt : Nat, queue : SUBSET Handlers, given : SUBSET Handlers,
            uploads : SUBSET [death : Nat, v : Nat]]

\* The items of todo.  Those of Global ops may name no session; only Calling ones
\* carry handlers to call.
Global == {"loggedOut", "dropHandle", "invalidate", "logOutUser", "refused"}
Calling == {"unregister", "cancel"}
Local == {"register", "reference", "unlock", "release", "bind", "dropped", "revive", "logOut",
          "token_expired", "bad_authentication", "permission_denied", "fatal"}
Items == [op : Global \cup Calling \cup Local, s : 0..MaxSessions, arg : SUBSET Handlers]

Of(q) == {q[i] : i \in 1..Len(q)}
Pending(t) == IF Idle(t) THEN {} ELSE todo[t][1].arg
Called == {h \in Handlers : called[h] # 0}
Kept(s) == sess[s].queue \cup sess[s].given

-----------------------------------------------------------------------------
(* The inductive invariant                                                 *)

\* Everything but the sessions and todo: sessions are numbered as they are made, and
\* nothing refers to one to come.
NumbersFit ==
    /\ made \in 0..MaxSessions /\ reg \in 0..made
    /\ refs \in [Apps -> 0..made] /\ tmp \in [Threads -> 0..made]
    /\ user \in [st : {"active", "loggedOut", "error"}, mine : 0..made, wait : 0..made]
    /\ handle \in [s : 0..made, phase : {"none", "asking", "timer"}, strong : BOOLEAN]
    /\ handle.strong => handle.s # 0
    /\ userM \in Threads \cup {Nobody} /\ sessM \in Threads \cup {Nobody}
    /\ ver \in 0..MaxCommits /\ called \in [Handlers -> Nat]
    /\ owed \subseteq Handlers /\ failed \in BOOLEAN

RefersTo(x, last) == /\ x \in Items /\ x.s <= last
                     /\ x.op \notin Global => x.s # 0
                     /\ x.op \notin Calling => x.arg = {}

\* Handlers a thread has to call are in the item it does next.
TodoFits ==
    /\ todo \in [Threads -> Seq(Items)]
    /\ \A t \in Threads : /\ \A x \in Of(todo[t]) : RefersTo(x, made)
                          /\ \A i \in 2..Len(todo[t]) : todo[t][i].arg = {}

\* What holds of a session whether or not anybody refers to it: a session that has or
\* had a token holds nothing back, and the upload wait of its last death, and no
\* other, covers the version at which it began to die.
Good(r) ==
    /\ r \in Session
    /\ r.st \in {"active", "dying"} => r.raw /\ r.queue = {} /\ ~r.commit
    /\ \A u \in r.uploads : u.death <= r.death /\ (u.death = r.death => u.v = r.diedAt)

Watched(r) == r.st = "dying" => \E u \in r.uploads : u.death = r.death

SessionsFit ==
    /\ sess \in [Sess -> Session]
    /\ \A s \in Sess : /\ Good(sess[s])
                       /\ Alive(s) => Watched(sess[s])
                       /\ s > made => sess[s] = Fresh

\* A handler is in one place: queued in a session, given to its sync::Session, about
\* to be called by a thread, owed by a destroyed sync::Session, or called.
Apart ==
    /\ \A h \in Handlers : called[h] <= 1
    /\ owed \cap Called = {}
    /\ \A s \in Sess : /\ sess[s].queue \cap sess[s].given = {}
                       /\ Kept(s) \cap (owed \cup Called) = {}
                       /\ \A r \in Sess \ {s} : Kept(s) \cap Kept(r) = {}
                       /\ \A t \in Threads : Kept(s) \cap Pending(t) = {}
    /\ \A t \in Threads : /\ Pending(t) \cap (owed \cup Called) = {}
                          /\ \A u \in Threads \ {t} : Pending(t) \cap Pending(u) = {}

IndInv == NumbersFit /\ TodoFits /\ SessionsFit /\ Apart

USE SyncSessionAssumption

-----------------------------------------------------------------------------
(* Todo                                                                    *)

LEMMA ItemFacts ==
  ASSUME NEW doing \in Global \cup Calling \cup Local, NEW s \in 0..MaxSessions
  PROVE  Item(doing, s) \in Items /\ Item(doing, s).op = doing /\ Item(doing, s).s = s /\ Item(doing, s).arg = {}
  BY DEF Item, Items

LEMMA OfFacts ==
  /\ Of(<<>>) = {}
  /\ \A x : Of(<<x>>) = {x}
  /\ \A x, y : Of(<<x, y>>) = {x, y}
  /\ \A x, y, z : Of(<<x, y, z>>) = {x, y, z}
  BY DEF Of

\* What a step of thread t that puts the items of new first does to todo.
Does(t, new) ==
    /\ todo' \in [Threads -> Seq(Items)]
    /\ \A u \in Threads \ {t} : todo'[u] = todo[u]
    /\ Of(todo'[t]) \subseteq Of(new) \cup Of(todo[t])
    /\ \A i \in 2..Len(todo'[t]) : todo'[t][i].arg = {}

LEMMA ThenDoes ==
  ASSUME TodoFits, NEW t \in Threads, todo[t] # <<>>, NEW new \in Seq(Items), Then(t, new),
         \A i \in 2..Len(new) : new[i].arg = {}
  PROVE  Does(t, new) /\ Pending(t)' = IF new = <<>> THEN {} ELSE new[1].arg
  <1> DEFINE q == todo[t]
  <1>1. q \in Seq(Items) /\ q # <<>> /\ Len(q) \in Nat \ {0} /\ todo \in [Threads -> Seq(Items)]
    BY DEF TodoFits
  <1>2. Tail(q) \in Seq(Items) /\ Len(Tail(q)) = Len(q) - 1
        /\ \A i \in 1..Len(Tail(q)) : Tail(q)[i] = q[i + 1]
    BY <1>1
  <1>3. \A i \in 2..Len(q) : q[i].arg = {}
    BY DEF TodoFits
  <1> HIDE DEF q
  <1> DEFINE n == new \o Tail(q)
  <1>4. n \in Seq(Items) /\ Len(n) = Len(new) + Len(Tail(q))
    BY <1>2
  <1>5. \A i \in 1..Len(n) : n[i] = IF i <= Len(new) THEN new[i] ELSE Tail(q)[i - Len(new)]
    BY <1>2
  <1>6. ASSUME NEW i \in 1..Len(n), i > Len(new)
        PROVE  \E j \in 2..Len(q) : n[i] = q[j]
    <2>1. Len(new) \in Nat
      OBVIOUS
    <2>2. i - Len(new) \in 1..Len(Tail(q))
      BY <1>1, <1>2, <1>4, <1>6, <2>1
    <2>3. n[i] = q[i - Len(new) + 1]
      BY <1>2, <1>5, <1>6, <2>1, <2>2
    <2>4. i - Len(new) + 1 \in 2..Len(q)
      BY <1>1, <1>2, <2>1, <2>2
    <2>5. QED
      BY <2>3, <2>4
  <1>7. todo' = [todo EXCEPT ![t] = n]
    BY DEF Then, q
  <1>8. todo' \in [Threads -> Seq(Items)] /\ todo'[t] = n /\ \A u \in Threads \ {t} : todo'[u] = todo[u]
    BY <1>1, <1>4, <1>7
  <1>9. Len(new) \in Nat /\ (new = <<>> <=> Len(new) = 0)
    OBVIOUS
  <1> HIDE DEF n
  <1>10. Of(n) \subseteq Of(new) \cup Of(q)
    <2>1. ASSUME NEW i \in 1..Len(n) PROVE n[i] \in Of(new) \cup Of(q)
      <3>1. CASE i <= Len(new)
        <4>1. i \in 1..Len(new) /\ n[i] = new[i]
          BY <1>4, <1>5, <1>9, <3>1
        <4>2. n[i] \in Of(new)
          BY <4>1 DEF Of
        <4>3. QED
          BY <4>2
      <3>2. CASE i > Len(new)
        <4>1. PICK j \in 2..Len(q) : n[i] = q[j]
          BY <1>6, <3>2
        <4>2. j \in 1..Len(q)
          OBVIOUS
        <4>3. n[i] \in Of(q)
          BY <4>1, <4>2 DEF Of
        <4>4. QED
          BY <4>3
      <3>3. i \in Nat
        OBVIOUS
      <3>4. QED
        BY <1>9, <3>1, <3>2, <3>3
    <2>2. QED
      BY <2>1 DEF Of
  <1>11. \A i \in 2..Len(n) : n[i].arg = {}
    <2>1. ASSUME NEW i \in 2..Len(n), i <= Len(new) PROVE n[i] = new[i] /\ i \in 2..Len(new) /\ i \in 1..Len(n)
      BY <2>1, <1>4, <1>5, <1>9
    <2>2. ASSUME NEW i \in 2..Len(n), i > Len(new) PROVE \E j \in 2..Len(q) : n[i] = q[j]
      BY <2>2, <1>4, <1>6, <1>9
    <2>3. ASSUME NEW i \in 2..Len(n) PROVE n[i].arg = {}
      <3>1. i \in Nat
        OBVIOUS
      <3>2. CASE i <= Len(new)
        <4>1. n[i] = new[i] /\ i \in 2..Len(new)
          BY <2>1, <3>2
        <4>2. QED
          BY <4>1
      <3>3. CASE i > Len(new)
        <4>1. PICK j \in 2..Len(q) : n[i] = q[j]
          BY <2>2, <3>3
        <4>2. QED
          BY <1>3, <4>1
      <3>4. QED
        BY <1>9, <3>1, <3>2, <3>3
    <2>4. QED
      BY <2>3
  <1>12. n = <<>> <=> Len(n) = 0
    BY <1>4
  <1>13. ASSUME new = <<>>, n # <<>> PROVE n[1].arg = {}
    BY <1>3, <1>4, <1>6, <1>9, <1>12, <1>13
  <1>14. ASSUME new # <<>> PROVE n # <<>> /\ n[1] = new[1]
    BY <1>1, <1>2, <1>4, <1>5, <1>9, <1>12, <1>14
  <1>15. Pending(t)' = IF new = <<>> THEN {} ELSE new[1].arg
    BY <1>8, <1>13, <1>14 DEF Pending, Idle
  <1>16. QED
    BY <1>8, <1>10, <1>11, <1>15 DEF Does, q

LEMMA StartsDoes ==
  ASSUME TodoFits, NEW t \in Threads, NEW new \in Seq(Items), Starts(t, new), new # <<>>,
         \A i \in 2..Len(new) : new[i].arg = {}
  PROVE  Does(t, new) /\ Pending(t) = {} /\ Pending(t)' = new[1].arg
  <1>1. todo' = [todo EXCEPT ![t] = new] /\ todo[t] = <<>> /\ todo \in [Threads -> Seq(Items)]
    BY DEF Starts, Idle, TodoFits
  <1>2. todo' \in [Threads -> Seq(Items)] /\ todo'[t] = new /\ \A u \in Threads \ {t} : todo'[u] = todo[u]
    BY <1>1
  <1>3. QED
    BY <1>1, <1>2 DEF Does, Pending, Idle

LEMMA SameDoes ==
  ASSUME TodoFits, NEW t \in Threads, UNCHANGED todo
  PROVE  Does(t, <<>>) /\ Pending(t)' = Pending(t)
  BY DEF Does, TodoFits, Pending, Idle

\* The new items refer to sessions made by then, and to no session that only they keep.
LEMMA TodoStep ==
  ASSUME TodoFits, NEW t \in Threads, NEW new, Does(t, new), made \in Nat, made' \in Nat, made <= made',
         \A x \in Of(new) : RefersTo(x, made') /\ (x.s \in 1..made => Alive(x.s)),
         \A s \in 1..made : reg' = s \/ Referenced(s)' \/ (handle'.strong /\ handle'.s = s) => Alive(s)
  PROVE  TodoFits' /\ \A s \in 1..made : Alive(s)' => Alive(s)
  <1>1. ASSUME NEW u \in Threads, NEW x \in Of(todo'[u])
        PROVE  x \in Of(todo[u]) \/ x \in Of(new)
    <2>1. CASE u = t
      BY <1>1, <2>1 DEF Does
    <2>2. CASE u # t
      BY <1>1, <2>2 DEF Does
    <2>3. QED
      BY <2>1, <2>2
  <1>2. ASSUME NEW u \in Threads, NEW x \in Of(todo[u]) PROVE RefersTo(x, made')
    <2>1. RefersTo(x, made) /\ x.s \in Nat
      BY <1>2 DEF TodoFits, RefersTo, Items
    <2>2. QED
      BY <2>1 DEF RefersTo
  <1>3. ASSUME NEW u \in Threads PROVE \A i \in 2..Len(todo'[u]) : todo'[u][i].arg = {}
    BY <1>3 DEF Does, TodoFits
  <1>4. TodoFits'
    BY <1>1, <1>2, <1>3 DEF Does, TodoFits
  <1>5. ASSUME NEW s \in 1..made, Alive(s)' PROVE Alive(s)
    <2>1. CASE reg' = s \/ Referenced(s)' \/ (handle'.strong /\ handle'.s = s)
      BY <2>1
    <2>2. ASSUME NEW u \in Threads, NEW i \in 1..Len(todo'[u]), todo'[u][i].s = s PROVE Alive(s)
      <3>1. todo'[u][i] \in Of(todo'[u])
        BY DEF Of
      <3>2. CASE todo'[u][i] \in Of(todo[u])
        <4>1. PICK j \in 1..Len(todo[u]) : todo'[u][i] = todo[u][j]
          BY <3>2 DEF Of
        <4>2. todo[u][j].s = s /\ s # 0
          BY <2>2, <4>1
        <4>3. QED
          BY <4>2 DEF Alive
      <3>3. CASE todo'[u][i] \in Of(new)
        BY <2>2, <3>3
      <3>4. QED
        BY <1>1, <3>1, <3>2, <3>3
    <2>3. QED
      BY <1>5, <2>1, <2>2 DEF Alive
  <1>6. QED
    BY <1>4, <1>5

\* The subject of the item a thread does next.
LEMMA SubjectFacts ==
  ASSUME TodoFits, NEW t \in Threads, NEW doing, Head1(t, doing), made \in 0..MaxSessions
  PROVE  /\ todo[t] # <<>> /\ RefersTo(todo[t][1], made) /\ Subject(t) \in 0..made
         /\ doing \notin Global => Subject(t) \in 1..made /\ Subject(t) \in Sess /\ Alive(Subject(t))
         /\ doing \notin Calling => Pending(t) = {}
  <1>1. todo[t] \in Seq(Items) /\ todo[t] # <<>> /\ todo[t][1].op = doing
    BY DEF TodoFits, Head1, Idle
  <1>2. 1 \in 1..Len(todo[t])
    BY <1>1
  <1>3. RefersTo(todo[t][1], made)
    BY <1>2 DEF TodoFits, Of
  <1>4. Subject(t) \in 0..made /\ (doing \notin Global => Subject(t) # 0)
    BY <1>1, <1>3 DEF RefersTo, Items, Subject
  <1>5. doing \notin Global => Alive(Subject(t))
    BY <1>2, <1>4 DEF Alive, Subject
  <1>6. doing \notin Calling => Pending(t) = {}
    BY <1>1, <1>3 DEF RefersTo, Pending
  <1>7. QED
    BY <1>1, <1>3, <1>4, <1>5, <1>6 DEF Sess

-----------------------------------------------------------------------------
(* Sessions                                                                *)

LEMMA FreshIsGood == Good(Fresh) /\ Watched(Fresh)
  BY DEF Good, Watched, Fresh, Session, States

LEMMA InactiveIsGood ==
  ASSUME NEW r, Good(r)
  PROVE  /\ Good(IntoInactive(r)) /\ Watched(IntoInactive(r)) /\ IntoInactive(r).st = "inactive"
         /\ IntoInactive(r).queue = {} /\ IntoInactive(r).given = {}
  BY DEF Good, Watched, IntoInactive, Session, States

LEMMA DyingIsGood ==
  ASSUME NEW r, Good(r), r.st = "active", ver \in Nat
  PROVE  /\ Good(IntoDying(r)) /\ Watched(IntoDying(r))
         /\ IntoDying(r).queue = r.queue /\ IntoDying(r).given = r.given
  <1> DEFINE u == [death |-> r.death + 1, v |-> ver]
             x == [r EXCEPT !.st = "dying", !.death = @ + 1, !.diedAt = ver, !.uploads = @ \cup {u}]
  <1>1. r \in Session /\ r.death \in Nat /\ r.uploads \subseteq [death : Nat, v : Nat]
    BY DEF Good, Session
  <1>2. u \in [death : Nat, v : Nat] /\ u.death = r.death + 1 /\ u.v = ver
    BY <1>1
  <1> HIDE DEF u
  <1>3. /\ x \in Session /\ x.st = "dying" /\ x.death = r.death + 1 /\ x.diedAt = ver
        /\ x.uploads = r.uploads \cup {u} /\ x.queue = r.queue /\ x.given = r.given
        /\ x.raw = r.raw /\ x.commit = r.commit
    BY <1>1, <1>2 DEF Session, States
  <1> HIDE DEF x
  <1>4. \A w \in x.uploads : w.death <= x.death /\ (w.death = x.death => w.v = x.diedAt)
    BY <1>1, <1>2, <1>3 DEF Good
  <1>5. Good(x) /\ Watched(x)
    BY <1>2, <1>3, <1>4 DEF Good, Watched
  <1>6. IntoDying(r) = x
    BY DEF IntoDying, x, u
  <1>7. QED
    BY <1>3, <1>5, <1>6

LEMMA ClosedIsGood ==
  ASSUME NEW r, Good(r), ver \in Nat
  PROVE  /\ Good(Closed(r)) /\ (Watched(r) => Watched(Closed(r)))
         /\ Closed(r).queue = r.queue /\ Closed(r).given = r.given
  <1> DEFINE x == [r EXCEPT !.close = TRUE]
  <1>1. /\ x \in Session /\ x.queue = r.queue /\ x.given = r.given /\ x.st = r.st /\ x.raw = r.raw
        /\ x.commit = r.commit /\ x.uploads = r.uploads /\ x.death = r.death /\ x.diedAt = r.diedAt
    BY DEF Good, Session
  <1> HIDE DEF x
  <1>2. Good(x) /\ (Watched(r) => Watched(x))
    BY <1>1 DEF Good, Watched
  <1>3. CASE Closed(r) = x
    BY <1>1, <1>2, <1>3
  <1>4. CASE r.st = "active" /\ Closed(r) = IntoDying(r)
    BY <1>4, DyingIsGood
  <1>5. CASE Closed(r) = r
    BY <1>5
  <1>6. QED
    BY <1>3, <1>4, <1>5 DEF Closed, x

LEMMA RefreshedIsGood ==
  ASSUME NEW r, Good(r), r.st = "waiting", ver \in Nat
  PROVE  /\ Good(Refreshed(r)) /\ Watched(Refreshed(r))
         /\ Refreshed(r).queue = {} /\ Refreshed(r).given = r.given \cup r.queue
  <1> DEFINE x == [r EXCEPT !.raw = TRUE, !.given = @ \cup r.queue, !.queue = {},
                            !.commit = FALSE, !.st = "active"]
  <1>1. /\ x \in Session /\ x.queue = {} /\ x.given = r.given \cup r.queue /\ x.st = "active" /\ x.raw
        /\ ~x.commit /\ x.uploads = r.uploads /\ x.death = r.death /\ x.diedAt = r.diedAt
    BY DEF Good, Session, States
  <1>2. Refreshed(r) = IF r.close THEN Closed(x) ELSE x
    BY DEF Refreshed
  <1> HIDE DEF x
  <1>3. Good(x) /\ Watched(x)
    BY <1>1 DEF Good, Watched
  <1>4. QED
    BY <1>1, <1>2, <1>3, ClosedIsGood

LEMMA WaitingIsGood ==
  ASSUME NEW r, Good(r)
  PROVE  /\ Good(IntoWaiting(r)) /\ Watched(IntoWaiting(r))
         /\ IntoWaiting(r).queue = r.queue /\ IntoWaiting(r).given = r.given
  BY DEF Good, Watched, IntoWaiting, Session, States

\* Nothing that lives begins to live by a step, and no session changes.
LEMMA SessionsKept ==
  ASSUME SessionsFit, UNCHANGED sess, made \in Nat, made' \in Nat, made <= made',
         \A s \in 1..made : Alive(s)' => Alive(s)
  PROVE  SessionsFit'
  <1>1. ASSUME NEW s \in Sess
        PROVE  /\ Good(sess[s])' /\ (Alive(s)' => Watched(sess[s])')
               /\ (s > made)' => (sess[s] = Fresh)'
    <2>1. CASE s \in 1..made
      BY <2>1 DEF SessionsFit
    <2>2. CASE s > made
      BY <2>2, FreshIsGood DEF SessionsFit
    <2>3. QED
      BY <2>1, <2>2 DEF Sess
  <1>2. sess' \in [Sess -> Session]
    BY DEF SessionsFit
  <1>3. QED
    BY <1>1, <1>2, Zenon DEF SessionsFit

\* One session changes.
LEMMA SessionChanged ==
  ASSUME SessionsFit, NEW s \in 1..made, s \in Sess, NEW r, SetSession(s, r), Good(r),
         Alive(s) => Watched(r), made \in Nat, UNCHANGED made, \A x \in 1..made : Alive(x)' => Alive(x)
  PROVE  SessionsFit' /\ sess'[s] = r /\ \A x \in Sess \ {s} : sess'[x] = sess[x]
  <1>1. sess' = [sess EXCEPT ![s] = r] /\ sess \in [Sess -> Session] /\ r \in Session
    BY DEF SetSession, SessionsFit, Good
  <1>2. sess' \in [Sess -> Session] /\ sess'[s] = r /\ \A x \in Sess \ {s} : sess'[x] = sess[x]
    BY <1>1
  <1>3. ASSUME NEW x \in Sess
        PROVE  /\ Good(sess[x])' /\ (Alive(x)' => Watched(sess[x])')
               /\ (x > made)' => (sess[x] = Fresh)'
    <2>1. CASE x = s
      BY <1>2, <2>1
    <2>2. CASE x # s /\ x \in 1..made
      BY <1>2, <2>2 DEF SessionsFit
    <2>3. CASE x # s /\ x > made
      BY <1>2, <2>3, FreshIsGood DEF SessionsFit
    <2>4. QED
      BY <2>1, <2>2, <2>3 DEF Sess
  <1>4. QED
    BY <1>2, <1>3, Zenon DEF SessionsFit

-----------------------------------------------------------------------------
(* The places of the handlers                                              *)

LEMMA OthersPending ==
  ASSUME NEW t \in Threads, NEW new, Does(t, new), NEW u \in Threads \ {t}
  PROVE  Pending(u)' = Pending(u)
  BY DEF Does, Pending, Idle

\* No handler leaves the session or the thread that has it.
LEMMA ApartKept ==
  ASSUME Apart, UNCHANGED <<called, owed>>,
         \A s \in Sess : Kept(s)' = Kept(s) /\ sess'[s].queue \cap sess'[s].given = {},
         \A t \in Threads : Pending(t)' = Pending(t)
  PROVE  Apart'
  <1>1. Called' = Called
    BY DEF Called
  <1>2. QED
    BY <1>1 DEF Apart

\* The sync::Session of s is destroyed: it owes the handlers it was given, and the
\* thread will call those that were queued.
LEMMA ApartDeactivated ==
  ASSUME Apart, NEW t \in Threads, NEW s \in Sess, Pending(t) = {}, Pending(t)' = sess[s].queue,
         \A u \in Threads \ {t} : Pending(u)' = Pending(u),
         owed' = owed \cup sess[s].given, UNCHANGED called,
         sess'[s].queue = {}, sess'[s].given = {}, \A x \in Sess \ {s} : sess'[x] = sess[x]
  PROVE  Apart'
  <1>1. Called' = Called
    BY DEF Called
  <1>2. Kept(s)' = {} /\ \A x \in Sess \ {s} : Kept(x)' = Kept(x) /\ sess'[x].queue \cap sess'[x].given = {}
    BY DEF Kept, Apart
  <1>3. sess[s].queue \subseteq Kept(s) /\ sess[s].given \subseteq Kept(s)
        /\ sess[s].queue \cap sess[s].given = {}
    BY DEF Kept, Apart
  <1>4. owed' \cap Called' = {}
    BY <1>1, <1>3 DEF Apart
  <1>5. ASSUME NEW x \in Sess
        PROVE  /\ sess'[x].queue \cap sess'[x].given = {} /\ Kept(x)' \cap (owed' \cup Called') = {}
               /\ \A r \in Sess \ {x} : Kept(x)' \cap Kept(r)' = {}
               /\ \A u \in Threads : Kept(x)' \cap Pending(u)' = {}
    <2>1. CASE x = s
      BY <1>2, <2>1
    <2>2. CASE x # s
      <3>1. Kept(x) \cap Kept(s) = {} /\ Kept(x)' = Kept(x)
        BY <1>2, <2>2 DEF Apart
      <3>2. Kept(x)' \cap (owed' \cup Called') = {}
        BY <1>1, <1>3, <3>1 DEF Apart
      <3>3. \A r \in Sess \ {x} : Kept(x)' \cap Kept(r)' = {}
        BY <1>2, <3>1 DEF Apart
      <3>4. \A u \in Threads : Kept(x)' \cap Pending(u)' = {}
        BY <1>3, <3>1 DEF Apart
      <3>5. QED
        BY <1>2, <2>2, <3>2, <3>3, <3>4
    <2>3. QED
      BY <2>1, <2>2
  <1>6. ASSUME NEW u \in Threads PROVE Pending(u)' \cap (owed' \cup Called') = {}
    <2>1. CASE u = t
      BY <1>1, <1>3, <2>1 DEF Apart
    <2>2. CASE u # t
      BY <1>1, <1>3, <2>2 DEF Apart
    <2>3. QED
      BY <2>1, <2>2
  <1>7. ASSUME NEW u \in Threads, NEW w \in Threads \ {u} PROVE Pending(u)' \cap Pending(w)' = {}
    BY <1>3 DEF Apart
  <1>8. QED
    BY <1>4, <1>5, <1>6, <1>7 DEF Apart

\* A thread calls the handlers it has.
LEMMA ApartCalled ==
  ASSUME Apart, called \in [Handlers -> Nat], NEW t \in Threads, Pending(t) \subseteq Handlers,
         CallAll(Pending(t)), Pending(t)' = {}, \A u \in Threads \ {t} : Pending(u)' = Pending(u),
         UNCHANGED <<sess, owed>>
  PROVE  Apart' /\ called' \in [Handlers -> Nat]
  <1>1. \A h \in Handlers : called'[h] = called[h] + IF h \in Pending(t) THEN 1 ELSE 0
    BY DEF CallAll
  <1>2. \A h \in Pending(t) : called[h] = 0
    BY DEF Apart, Called
  <1>3. called' \in [Handlers -> Nat] /\ \A h \in Handlers : called'[h] <= 1
    <2>1. \A h \in Handlers : called'[h] \in Nat /\ called'[h] <= 1
      BY <1>1, <1>2 DEF Apart
    <2>2. QED
      BY <2>1 DEF CallAll
  <1>4. Called' = Called \cup Pending(t)
    BY <1>1, <1>2 DEF Called
  <1>5. \A s \in Sess : Kept(s)' = Kept(s)
    BY DEF Kept
  <1>6. QED
    BY <1>3, <1>4, <1>5 DEF Apart

-----------------------------------------------------------------------------
(* Steps by what they change                                               *)

\* What thread t puts in todo fits the sessions there are, and what refers to a session
\* after the step, but for todo, did not revive it.
Fits(new) == \A x \in Of(new) : RefersTo(x, made') /\ (x.s \in 1..made => Alive(x.s))
NoneRevived == \A s \in 1..made : reg' = s \/ Referenced(s)' \/ (handle'.strong /\ handle'.s = s) => Alive(s)

LEMMA SameHolders == ASSUME UNCHANGED <<reg, refs, tmp, handle>> PROVE NoneRevived
  BY DEF NoneRevived, Referenced, Alive

LEMMA MadeFacts == ASSUME NumbersFit PROVE made \in Nat /\ 1..made \subseteq Sess /\ ver \in Nat
  BY DEF NumbersFit, Sess

LEMMA QuietStep ==
  ASSUME IndInv, NumbersFit', NEW t \in Threads, NEW new, Does(t, new), Pending(t)' = Pending(t),
         Fits(new), NoneRevived, made <= made', UNCHANGED <<sess, called, owed>>
  PROVE  IndInv'
  <1>1. made \in Nat /\ made' \in Nat
    BY DEF IndInv, NumbersFit
  <1>2. TodoFits' /\ \A s \in 1..made : Alive(s)' => Alive(s)
    BY <1>1, TodoStep DEF IndInv, Fits, NoneRevived
  <1>3. SessionsFit'
    BY <1>1, <1>2, SessionsKept DEF IndInv
  <1>4. \A u \in Threads : Pending(u)' = Pending(u)
    BY OthersPending
  <1>5. \A s \in Sess : Kept(s)' = Kept(s) /\ sess'[s].queue \cap sess'[s].given = {}
    BY DEF IndInv, Apart, Kept
  <1>6. Apart'
    BY <1>4, <1>5, ApartKept DEF IndInv
  <1>7. QED
    BY <1>2, <1>3, <1>6 DEF IndInv

LEMMA OneSessionStep ==
  ASSUME IndInv, NumbersFit', NEW t \in Threads, NEW new, Does(t, new), Pending(t)' = Pending(t),
         Fits(new), NoneRevived, UNCHANGED <<made, called, owed>>,
         NEW s \in 1..made, NEW r, SetSession(s, r), Good(r), Alive(s) => Watched(r),
         r.queue \cup r.given = Kept(s), r.queue \cap r.given = {}
  PROVE  IndInv'
  <1>1. made \in Nat /\ made' \in Nat /\ made <= made' /\ s \in Sess
    BY MadeFacts DEF IndInv
  <1>2. TodoFits' /\ \A x \in 1..made : Alive(x)' => Alive(x)
    BY <1>1, TodoStep DEF IndInv, Fits, NoneRevived
  <1>3. SessionsFit' /\ sess'[s] = r /\ \A x \in Sess \ {s} : sess'[x] = sess[x]
    BY <1>1, <1>2, SessionChanged DEF IndInv
  <1>4. \A u \in Threads : Pending(u)' = Pending(u)
    BY OthersPending
  <1>5. \A x \in Sess : Kept(x)' = Kept(x) /\ sess'[x].queue \cap sess'[x].given = {}
    BY <1>3 DEF IndInv, Apart, Kept
  <1>6. Apart'
    BY <1>4, <1>5, ApartKept DEF IndInv
  <1>7. QED
    BY <1>2, <1>3, <1>6 DEF IndInv

LEMMA DeactivateStep ==
  ASSUME IndInv, NumbersFit', NEW t \in Threads, NEW new, Does(t, new), Pending(t) = {},
         NEW s \in 1..made, Pending(t)' = sess[s].queue,
         Fits(new), NoneRevived, UNCHANGED <<made, called>>, owed' = owed \cup sess[s].given,
         NEW r, SetSession(s, r), Good(r), Watched(r), r.queue = {}, r.given = {}
  PROVE  IndInv'
  <1>1. made \in Nat /\ made' \in Nat /\ made <= made' /\ s \in Sess
    BY MadeFacts DEF IndInv
  <1>2. TodoFits' /\ \A x \in 1..made : Alive(x)' => Alive(x)
    BY <1>1, TodoStep DEF IndInv, Fits, NoneRevived
  <1>3. SessionsFit' /\ sess'[s] = r /\ \A x \in Sess \ {s} : sess'[x] = sess[x]
    BY <1>1, <1>2, SessionChanged DEF IndInv
  <1>4. \A u \in Threads \ {t} : Pending(u)' = Pending(u)
    BY OthersPending
  <1>5. Apart'
    BY <1>1, <1>3, <1>4, ApartDeactivated DEF IndInv
  <1>6. QED
    BY <1>2, <1>3, <1>5 DEF IndInv

\* The items a step adds, by their number.
LEMMA NoNew == <<>> \in Seq(Items) /\ Fits(<<>>) /\ \A i \in 2..Len(<<>>) : <<>>[i].arg = {}
  BY OfFacts DEF Fits

LEMMA OneNew ==
  ASSUME NEW x, RefersTo(x, made'), x.s \in 1..made => Alive(x.s)
  PROVE  /\ <<x>> \in Seq(Items) /\ <<x>> # <<>> /\ <<x>>[1] = x /\ Fits(<<x>>)
         /\ \A i \in 2..Len(<<x>>) : <<x>>[i].arg = {}
  <1>1. x \in Items
    BY DEF RefersTo
  <1>2. QED
    BY <1>1, OfFacts DEF Fits

LEMMA TwoNew ==
  ASSUME NEW x, RefersTo(x, made'), x.s \in 1..made => Alive(x.s),
         NEW y, RefersTo(y, made'), y.s \in 1..made => Alive(y.s), y.arg = {}
  PROVE  /\ <<x, y>> \in Seq(Items) /\ <<x, y>> # <<>> /\ <<x, y>>[1] = x /\ Fits(<<x, y>>)
         /\ \A i \in 2..Len(<<x, y>>) : <<x, y>>[i].arg = {}
  <1>1. x \in Items /\ y \in Items
    BY DEF RefersTo
  <1>2. QED
    BY <1>1, OfFacts DEF Fits

LEMMA ThreeNew ==
  ASSUME NEW x, RefersTo(x, made'), x.s \in 1..made => Alive(x.s),
         NEW y, RefersTo(y, made'), y.s \in 1..made => Alive(y.s), y.arg = {},
         NEW z, RefersTo(z, made'), z.s \in 1..made => Alive(z.s), z.arg = {}
  PROVE  /\ <<x, y, z>> \in Seq(Items) /\ <<x, y, z>> # <<>> /\ <<x, y, z>>[1] = x /\ Fits(<<x, y, z>>)
         /\ \A i \in 2..Len(<<x, y, z>>) : <<x, y, z>>[i].arg = {}
  <1>1. x \in Items /\ y \in Items /\ z \in Items
    BY DEF RefersTo
  <1>2. QED
    BY <1>1, OfFacts DEF Fits

LEMMA ItemFits ==
  ASSUME NEW doing \in Global \cup Calling \cup Local, NEW s \in 0..MaxSessions, s <= made', doing \notin Global => s # 0
  PROVE  RefersTo(Item(doing, s), made') /\ Item(doing, s).s = s /\ Item(doing, s).arg = {}
  BY ItemFacts DEF RefersTo

LEMMA AfterInactiveFits ==
  ASSUME NEW s \in 1..made, made \in 0..MaxSessions, UNCHANGED made, Alive(s),
         NEW r, r.queue \subseteq Handlers
  PROVE  LET x == [op |-> "unregister", s |-> s, arg |-> r.queue] IN
         AfterInactive(s, r) = <<x>> /\ RefersTo(x, made') /\ (x.s \in 1..made => Alive(x.s)) /\ x.arg = r.queue
  BY DEF AfterInactive, RefersTo, Items, Global, Calling, Local

LEMMA ThreadsAre == Apps \subseteq Threads /\ {"auth", "client", "net", "reach", "main"} \subseteq Threads
  BY DEF Threads

\* A thread does its next item, and no session changes.
LEMMA PopStep ==
  ASSUME IndInv, NumbersFit', NEW t \in Threads, NEW doing, doing \notin Calling, Head1(t, doing), Then(t, <<>>),
         NoneRevived, UNCHANGED <<sess, made, called, owed>>
  PROVE  IndInv'
  <1>1. TodoFits /\ made \in 0..MaxSessions /\ made <= made'
    BY DEF IndInv, NumbersFit
  <1>2. todo[t] # <<>> /\ Pending(t) = {}
    BY <1>1, SubjectFacts
  <1>3. Does(t, <<>>) /\ Pending(t)' = {}
    BY <1>1, <1>2, NoNew, ThenDoes
  <1>4. QED
    BY <1>1, <1>2, <1>3, NoNew, QuietStep

LEMMA PushStep ==
  ASSUME IndInv, NumbersFit', NEW t \in Threads, NEW doing, doing \notin Calling, Head1(t, doing),
         NEW x, Then(t, <<x>>), RefersTo(x, made'), x.s \in 1..made => Alive(x.s), x.arg = {},
         NoneRevived, UNCHANGED <<sess, made, called, owed>>
  PROVE  IndInv'
  <1>1. TodoFits /\ made \in 0..MaxSessions /\ made <= made'
    BY DEF IndInv, NumbersFit
  <1>2. todo[t] # <<>> /\ Pending(t) = {}
    BY <1>1, SubjectFacts
  <1>3. <<x>> \in Seq(Items) /\ <<x>> # <<>> /\ <<x>>[1] = x /\ Fits(<<x>>) /\ \A i \in 2..Len(<<x>>) : <<x>>[i].arg = {}
    BY OneNew
  <1>4. Does(t, <<x>>) /\ Pending(t)' = {}
    BY <1>1, <1>2, <1>3, ThenDoes
  <1>5. QED
    BY <1>1, <1>2, <1>3, <1>4, QuietStep

\* A step that leaves todo and the sessions alone.
LEMMA AsideStep ==
  ASSUME IndInv, NumbersFit', NoneRevived, UNCHANGED <<todo, sess, made, called, owed>>
  PROVE  IndInv'
  <1>1. TodoFits /\ made <= made' /\ "auth" \in Threads
    BY DEF IndInv, NumbersFit, Threads
  <1>2. Does("auth", <<>>) /\ Pending("auth")' = Pending("auth")
    BY <1>1, SameDoes
  <1>3. QED
    BY <1>1, <1>2, NoNew, QuietStep

-----------------------------------------------------------------------------
(* SyncManager                                                             *)

LEMMA GetSessionStep == ASSUME IndInv, NEW a \in Apps, GetSession(a) PROVE IndInv'
  <1>1. a \in Threads /\ TodoFits /\ made \in 0..MaxSessions /\ made \in Nat /\ MaxSessions \in Nat
    BY ThreadsAre DEF IndInv, NumbersFit
  <1>2. CASE reg # 0
    <2> DEFINE x == Item("register", reg)
               y == Item("reference", reg)
    <2>1. Starts(a, <<x, y>>) /\ UNCHANGED <<sess, made, reg, refs, tmp, handle, called, owed>>
      BY <1>2 DEF GetSession
    <2>2. reg \in 1..made /\ reg \in 0..MaxSessions /\ Alive(reg)
      BY <1>1, <1>2 DEF IndInv, NumbersFit, Alive
    <2>3. RefersTo(x, made') /\ x.s = reg /\ x.arg = {} /\ RefersTo(y, made') /\ y.s = reg /\ y.arg = {}
      BY <2>1, <2>2, ItemFits DEF Global, Calling, Local
    <2>4. NumbersFit'
      BY <1>1, <1>2 DEF GetSession, IndInv, NumbersFit
    <2> HIDE DEF x, y
    <2>5. /\ <<x, y>> \in Seq(Items) /\ <<x, y>> # <<>> /\ <<x, y>>[1] = x /\ Fits(<<x, y>>)
          /\ \A i \in 2..Len(<<x, y>>) : <<x, y>>[i].arg = {}
      BY <2>2, <2>3, TwoNew
    <2>6. Does(a, <<x, y>>) /\ Pending(a) = {} /\ Pending(a)' = {}
      BY <1>1, <2>1, <2>3, <2>5, StartsDoes
    <2>7. NoneRevived /\ made <= made'
      BY <1>1, <2>1, SameHolders
    <2>8. QED
      BY <1>1, <2>1, <2>4, <2>5, <2>6, <2>7, QuietStep
  <1>3. CASE reg = 0
    <2> DEFINE n == made + 1
               x == Item("register", n)
               y == Item("unlock", n)
    <2>1. /\ Starts(a, <<x, y>>) /\ made < MaxSessions /\ made' = n /\ reg' = n
          /\ refs' = [refs EXCEPT ![a] = n] /\ UNCHANGED <<sess, tmp, handle, called, owed>>
      BY <1>3 DEF GetSession
    <2>2. n \in 0..MaxSessions /\ n # 0 /\ n \notin 1..made /\ made <= made' /\ n <= made'
      BY <1>1, <2>1
    <2>3. RefersTo(x, made') /\ x.s = n /\ x.arg = {} /\ RefersTo(y, made') /\ y.s = n /\ y.arg = {}
      BY <2>2, ItemFits DEF Global, Calling, Local
    <2> HIDE DEF x, y
    <2>4. NumbersFit'
      <3>1. 0..made \subseteq 0..n /\ n \in 0..n
        BY <1>1, <2>2
      <3> HIDE DEF n
      <3>2. refs' \in [Apps -> 0..n] /\ tmp' \in [Threads -> 0..n]
        BY <2>1, <3>1 DEF IndInv, NumbersFit
      <3>3. /\ user' \in [st : {"active", "loggedOut", "error"}, mine : 0..n, wait : 0..n]
            /\ handle' \in [s : 0..n, phase : {"none", "asking", "timer"}, strong : BOOLEAN]
            /\ handle'.strong => handle'.s # 0
        BY <3>1 DEF IndInv, NumbersFit, GetSession
      <3>4. QED
        BY <1>1, <1>3, <2>1, <2>2, <3>1, <3>2, <3>3 DEF GetSession, IndInv, NumbersFit
    <2>5. /\ <<x, y>> \in Seq(Items) /\ <<x, y>> # <<>> /\ <<x, y>>[1] = x /\ Fits(<<x, y>>)
          /\ \A i \in 2..Len(<<x, y>>) : <<x, y>>[i].arg = {}
      BY <2>2, <2>3, TwoNew
    <2>6. Does(a, <<x, y>>) /\ Pending(a) = {} /\ Pending(a)' = {}
      BY <1>1, <2>1, <2>3, <2>5, StartsDoes
    <2>7. NoneRevived
      <3>1. \A b \in Apps : refs'[b] = refs[b] \/ refs'[b] = n
        BY <2>1 DEF IndInv, NumbersFit
      <3>2. QED
        BY <2>1, <2>2, <3>1 DEF NoneRevived, Referenced, Alive
    <2>8. QED
      BY <1>1, <2>1, <2>2, <2>4, <2>5, <2>6, <2>7, QuietStep
  <1>4. QED
    BY <1>2, <1>3

LEMMA ReferenceStep == ASSUME IndInv, NEW a \in Apps, Reference(a) PROVE IndInv'
  <1>1. a \in Threads /\ TodoFits /\ made \in 0..MaxSessions
    BY ThreadsAre DEF IndInv, NumbersFit
  <1>2. Subject(a) \in 1..made /\ Alive(Subject(a))
    BY <1>1, SubjectFacts DEF Reference, Global
  <1>3. NumbersFit'
    BY <1>2, SMTT(40) DEF Reference, IndInv, NumbersFit
  <1>4. NoneRevived
    <2>1. /\ UNCHANGED <<reg, tmp, handle>> /\ Alive(Subject(a))
          /\ \A b \in Apps : refs'[b] = refs[b] \/ refs'[b] = Subject(a)
      BY <1>2 DEF Reference, IndInv, NumbersFit
    <2>2. ASSUME NEW s \in 1..made, Referenced(s)' PROVE Referenced(s) \/ s = Subject(a)
      BY <2>1, <2>2 DEF Referenced
    <2>3. QED
      BY <2>1, <2>2 DEF NoneRevived, Alive
  <1>5. QED
    BY <1>1, <1>3, <1>4, PopStep DEF Reference, Calling

LEMMA UnlockStep == ASSUME IndInv, NEW t \in Threads, UnlockSessions(t) PROVE IndInv'
  <1>1. NumbersFit' /\ NoneRevived
    BY SameHolders DEF UnlockSessions, IndInv, NumbersFit
  <1>2. QED
    BY <1>1, PopStep DEF UnlockSessions, Calling

LEMMA ReleaseTestStep == ASSUME IndInv, NEW t \in Threads, ReleaseTest(t) PROVE IndInv'
  <1>1. TodoFits /\ made \in 0..MaxSessions
    BY DEF IndInv, NumbersFit
  <1>2. Subject(t) \in 1..made /\ Subject(t) \in 0..MaxSessions /\ Alive(Subject(t)) /\ Head1(t, "release")
    BY <1>1, SubjectFacts DEF ReleaseTest, Global
  <1>3. NumbersFit'
    BY SMTT(40) DEF ReleaseTest, IndInv, NumbersFit
  <1>4. NoneRevived
    BY DEF ReleaseTest, IndInv, NumbersFit, NoneRevived, Referenced, Alive
  <1>5. UNCHANGED <<sess, made, called, owed>>
    BY DEF ReleaseTest
  <1>6. CASE Then(t, <<>>)
    BY <1>2, <1>3, <1>4, <1>5, <1>6, PopStep DEF Calling
  <1>7. CASE Then(t, <<Item("dropped", Subject(t))>>)
    <2> DEFINE x == Item("dropped", Subject(t))
    <2>1. RefersTo(x, made') /\ x.s = Subject(t) /\ x.arg = {}
      BY <1>2, <1>5, ItemFits DEF Global, Local
    <2> HIDE DEF x
    <2>2. QED
      BY <1>2, <1>3, <1>4, <1>5, <1>7, <2>1, PushStep DEF Calling, x
  <1>8. QED
    BY <1>6, <1>7 DEF ReleaseTest

LEMMA UnregisterStep == ASSUME IndInv, NEW t \in Threads, UnregisterSession(t) PROVE IndInv'
  <1>1. TodoFits /\ made \in 0..MaxSessions /\ made \in Nat
    BY DEF IndInv, NumbersFit
  <1>2. todo[t] # <<>> /\ Pending(t) = todo[t][1].arg /\ Pending(t) \subseteq Handlers
    BY <1>1, SubjectFacts DEF UnregisterSession, Head1, Pending, Idle, RefersTo, Items
  <1>3. UNCHANGED <<sess, made, refs, user, handle, userM, ver, owed>> /\ CallAll(Pending(t))
    BY <1>2 DEF UnregisterSession
  <1>4. /\ reg' \in 0..made /\ tmp' \in [Threads -> 0..made] /\ sessM' \in Threads \cup {Nobody} /\ failed' \in BOOLEAN
        /\ NoneRevived /\ \E new : Does(t, new) /\ Fits(new) /\ Pending(t)' = {}
    <2>1. CASE Then(t, <<>>)
      <3>1. Does(t, <<>>) /\ Fits(<<>>) /\ Pending(t)' = {}
        BY <1>1, <1>2, <2>1, NoNew, ThenDoes
      <3>2. CASE reg = 0
        BY <1>3, <3>1, <3>2, SameHolders DEF UnregisterSession, IndInv, NumbersFit
      <3>3. CASE reg # 0 /\ ~Referenced(reg)
        <4>1. reg' = 0 /\ UNCHANGED <<refs, tmp, handle, sessM, failed>>
          BY <3>3 DEF UnregisterSession
        <4>2. NoneRevived
          BY <4>1 DEF NoneRevived, Referenced, Alive
        <4>3. QED
          BY <3>1, <4>1, <4>2 DEF IndInv, NumbersFit
      <3>4. CASE reg # 0 /\ Referenced(reg)
        <4>1. tmp' = [tmp EXCEPT ![t] = reg] /\ UNCHANGED <<reg, failed>> /\ sessM' = t
          BY <3>4 DEF UnregisterSession
        <4>2. NoneRevived
          BY <1>3, <4>1 DEF IndInv, NumbersFit, NoneRevived, Referenced, Alive
        <4>3. QED
          BY <3>1, <4>1, <4>2 DEF IndInv, NumbersFit
      <3>5. QED
        BY <3>2, <3>3, <3>4
    <2>2. CASE /\ reg # 0 /\ tmp' = [tmp EXCEPT ![t] = reg] /\ sessM' = t /\ UNCHANGED <<reg, failed>>
               /\ Then(t, <<Item("release", reg), Item("unlock", reg)>>)
      <3> DEFINE x == Item("release", reg)
                 y == Item("unlock", reg)
      <3>1. reg \in 1..made /\ reg \in 0..MaxSessions /\ Alive(reg) /\ reg <= made' /\ reg # 0
        BY <1>1, <1>3, <2>2 DEF IndInv, NumbersFit, Alive
      <3>2. RefersTo(x, made') /\ x.s = reg /\ x.arg = {} /\ RefersTo(y, made') /\ y.s = reg /\ y.arg = {}
        BY <3>1, ItemFits DEF Global, Local
      <3>3. Then(t, <<x, y>>)
        BY <2>2
      <3> HIDE DEF x, y
      <3>4. /\ <<x, y>> \in Seq(Items) /\ <<x, y>> # <<>> /\ <<x, y>>[1] = x /\ Fits(<<x, y>>)
            /\ \A i \in 2..Len(<<x, y>>) : <<x, y>>[i].arg = {}
        BY <3>1, <3>2, TwoNew
      <3>5. Does(t, <<x, y>>) /\ Pending(t)' = {}
        BY <1>1, <1>2, <3>2, <3>3, <3>4, ThenDoes
      <3>6. NoneRevived
        BY <1>3, <2>2, <3>1 DEF IndInv, NumbersFit, NoneRevived, Referenced, Alive
      <3>7. QED
        BY <2>2, <3>4, <3>5, <3>6 DEF IndInv, NumbersFit
    <2>3. QED
      BY <2>1, <2>2 DEF UnregisterSession
  <1>5. PICK new : Does(t, new) /\ Fits(new) /\ Pending(t)' = {}
    BY <1>4
  <1>6. \A u \in Threads \ {t} : Pending(u)' = Pending(u)
    BY <1>5, OthersPending
  <1>7. Apart' /\ called' \in [Handlers -> Nat]
    BY <1>2, <1>3, <1>5, <1>6, ApartCalled DEF IndInv, NumbersFit
  <1>8. NumbersFit'
    BY <1>3, <1>4, <1>7 DEF IndInv, NumbersFit
  <1>9. TodoFits' /\ \A s \in 1..made : Alive(s)' => Alive(s)
    BY <1>1, <1>3, <1>4, <1>5, TodoStep DEF Fits, NoneRevived
  <1>10. SessionsFit'
    BY <1>1, <1>3, <1>9, SessionsKept DEF IndInv
  <1>11. QED
    BY <1>7, <1>8, <1>9, <1>10 DEF IndInv

-----------------------------------------------------------------------------
(* Steps of SyncSession and SyncUser: what they put in todo                 *)

\* Thread t puts new items first: in the place of the one it does, or as it starts.
LEMMA PutDoes ==
  ASSUME IndInv, NEW t \in Threads, NEW new \in Seq(Items), new # <<>>, new[1].arg \subseteq Handlers,
         \A i \in 2..Len(new) : new[i].arg = {},
         \/ Starts(t, new)
         \/ (\E doing \in Global \cup Local : Head1(t, doing)) /\ Then(t, new)
  PROVE  Does(t, new) /\ Pending(t) = {} /\ Pending(t)' = new[1].arg
  <1>1. TodoFits /\ made \in 0..MaxSessions
    BY DEF IndInv, NumbersFit
  <1>2. CASE Starts(t, new)
    BY <1>1, <1>2, StartsDoes
  <1>3. ASSUME NEW doing \in Global \cup Local, Head1(t, doing), Then(t, new)
        PROVE  Does(t, new) /\ Pending(t) = {} /\ Pending(t)' = new[1].arg
    <2>1. doing \notin Calling
      BY DEF Global, Local, Calling
    <2>2. todo[t] # <<>> /\ Pending(t) = {}
      BY <1>1, <1>3, <2>1, SubjectFacts
    <2>3. QED
      BY <1>1, <1>3, <2>2, ThenDoes
  <1>4. QED
    BY <1>2, <1>3

\* ... and no session changes.
LEMMA PutStep ==
  ASSUME IndInv, NumbersFit', NEW t \in Threads, NEW new \in Seq(Items), new # <<>>, new[1].arg = {},
         \A i \in 2..Len(new) : new[i].arg = {}, Fits(new),
         \/ Starts(t, new)
         \/ (\E doing \in Global \cup Local : Head1(t, doing)) /\ Then(t, new),
         NoneRevived, UNCHANGED <<sess, made, called, owed>>
  PROVE  IndInv'
  <1>1. Does(t, new) /\ Pending(t) = {} /\ Pending(t)' = {}
    BY PutDoes
  <1>2. made <= made' /\ Pending(t)' = Pending(t)
    BY <1>1, MadeFacts DEF IndInv
  <1>3. QED
    BY <1>1, <1>2, QuietStep

\* A session ends: its thread goes on to unregister it.
LEMMA EndStep ==
  ASSUME IndInv, NumbersFit', NEW t \in Threads, NEW s \in 1..made, Alive(s),
         NEW r, Good(r), r.queue = sess[s].queue, r.given = sess[s].given,
         \/ Starts(t, AfterInactive(s, r))
         \/ (\E doing \in Global \cup Local : Head1(t, doing)) /\ Then(t, AfterInactive(s, r)),
         SetSession(s, IntoInactive(r)), owed' = owed \cup r.given,
         NoneRevived, UNCHANGED <<made, called>>
  PROVE  IndInv'
  <1> DEFINE x == [op |-> "unregister", s |-> s, arg |-> r.queue]
  <1>1. made \in 0..MaxSessions /\ r.queue \subseteq Handlers
    BY DEF IndInv, NumbersFit, Good, Session
  <1>2. AfterInactive(s, r) = <<x>> /\ RefersTo(x, made') /\ (x.s \in 1..made => Alive(x.s)) /\ x.arg = r.queue
    BY <1>1, AfterInactiveFits
  <1> HIDE DEF x
  <1>3. <<x>> \in Seq(Items) /\ <<x>> # <<>> /\ <<x>>[1] = x /\ Fits(<<x>>) /\ \A i \in 2..Len(<<x>>) : <<x>>[i].arg = {}
    BY <1>2, OneNew
  <1>4. Does(t, <<x>>) /\ Pending(t) = {} /\ Pending(t)' = sess[s].queue
    BY <1>1, <1>2, <1>3, PutDoes
  <1> DEFINE y == IntoInactive(r)
  <1>5. Good(y) /\ Watched(y) /\ y.queue = {} /\ y.given = {}
    BY InactiveIsGood
  <1> HIDE DEF y
  <1>6. SetSession(s, y)
    BY DEF y
  <1>7. QED
    BY <1>3, <1>4, <1>5, <1>6, DeactivateStep

\* The thread does its item, which changes the session but moves no handler.
LEMMA TurnStep ==
  ASSUME IndInv, NumbersFit', NEW t \in Threads, NEW doing \in Global \cup Local, Head1(t, doing),
         NEW s \in 1..made, NEW r, SetSession(s, r), Good(r), Alive(s) => Watched(r),
         r.queue = sess[s].queue, r.given = sess[s].given, Then(t, <<>>),
         NoneRevived, UNCHANGED <<made, called, owed>>
  PROVE  IndInv'
  <1>1. TodoFits /\ made \in 0..MaxSessions /\ doing \notin Calling /\ s \in Sess
    BY MadeFacts DEF IndInv, NumbersFit, Global, Local, Calling
  <1>2. todo[t] # <<>> /\ Pending(t) = {}
    BY <1>1, SubjectFacts
  <1>3. Does(t, <<>>) /\ Pending(t)' = {}
    BY <1>1, <1>2, NoNew, ThenDoes
  <1>4. r.queue \cup r.given = Kept(s) /\ r.queue \cap r.given = {}
    BY <1>1 DEF IndInv, Apart, Kept
  <1>5. QED
    BY <1>2, <1>3, <1>4, NoNew, OneSessionStep

LEMMA TurnAndGoOnStep ==
  ASSUME IndInv, NumbersFit', NEW t \in Threads, NEW doing \in Global \cup Local, Head1(t, doing),
         NEW s \in 1..made, NEW r, SetSession(s, r), Good(r), Alive(s) => Watched(r),
         r.queue = sess[s].queue, r.given = sess[s].given,
         NEW x, Then(t, <<x>>), RefersTo(x, made'), x.s \in 1..made => Alive(x.s), x.arg = {},
         NoneRevived, UNCHANGED <<made, called, owed>>
  PROVE  IndInv'
  <1>1. s \in Sess
    BY MadeFacts DEF IndInv
  <1>2. <<x>> \in Seq(Items) /\ <<x>> # <<>> /\ <<x>>[1] = x /\ Fits(<<x>>) /\ \A i \in 2..Len(<<x>>) : <<x>>[i].arg = {}
    BY OneNew
  <1>3. Does(t, <<x>>) /\ Pending(t) = {} /\ Pending(t)' = {}
    BY <1>2, PutDoes
  <1>4. r.queue \cup r.given = Kept(s) /\ r.queue \cap r.given = {}
    BY <1>1 DEF IndInv, Apart, Kept
  <1>5. QED
    BY <1>2, <1>3, <1>4, OneSessionStep

\* What is known of the session an item is about.
LEMMA SubjectIsFit ==
  ASSUME IndInv, NEW t \in Threads, NEW doing \in Local, Head1(t, doing)
  PROVE  /\ Subject(t) \in 1..made /\ Subject(t) \in 0..MaxSessions /\ Subject(t) # 0 /\ Alive(Subject(t))
         /\ Good(sess[Subject(t)]) /\ Watched(sess[Subject(t)])
  <1>1. TodoFits /\ made \in 0..MaxSessions
    BY DEF IndInv, NumbersFit
  <1>2. Subject(t) \in 1..made /\ Subject(t) \in Sess /\ Alive(Subject(t))
    BY <1>1, SubjectFacts DEF Global, Local
  <1>3. QED
    BY <1>1, <1>2 DEF IndInv, SessionsFit

LEMMA ReconnectStep == ASSUME IndInv, Reconnect PROVE IndInv'
  <1>1. NumbersFit' /\ NoneRevived /\ UNCHANGED <<sess, made, called, owed>>
    BY SameHolders, ThreadsAre DEF Reconnect, IndInv, NumbersFit
  <1>2. CASE UNCHANGED todo
    BY <1>1, <1>2, AsideStep
  <1>3. CASE Starts("reach", <<Item("bind", reg), Item("unlock", reg)>>)
    <2> DEFINE x == Item("bind", reg)
               y == Item("unlock", reg)
    <2>1. reg \in 1..made /\ reg \in 0..MaxSessions /\ Alive(reg) /\ reg <= made' /\ reg # 0
      BY <1>1 DEF Reconnect, IndInv, NumbersFit, Alive
    <2>2. RefersTo(x, made') /\ x.s = reg /\ x.arg = {} /\ RefersTo(y, made') /\ y.s = reg /\ y.arg = {}
      BY <2>1, ItemFits DEF Global, Local
    <2>3. Starts("reach", <<x, y>>)
      BY <1>3
    <2> HIDE DEF x, y
    <2>4. /\ <<x, y>> \in Seq(Items) /\ <<x, y>> # <<>> /\ <<x, y>>[1] = x /\ Fits(<<x, y>>)
          /\ \A i \in 2..Len(<<x, y>>) : <<x, y>>[i].arg = {}
      BY <2>1, <2>2, TwoNew
    <2>5. QED
      BY <1>1, <2>2, <2>3, <2>4, ThreadsAre, PutStep
  <1>4. QED
    BY <1>2, <1>3 DEF Reconnect

-----------------------------------------------------------------------------
(* SyncSession, called by the application                                  *)

LEMMA DropReferenceStep == ASSUME IndInv, NEW a \in Apps, DropReference(a) PROVE IndInv'
  <1>1. UNCHANGED <<sess, made, called, owed>> /\ made \in 0..MaxSessions /\ a \in Threads
    BY ThreadsAre DEF DropReference, IndInv, NumbersFit
  <1>2. NumbersFit' /\ NoneRevived
    BY DEF DropReference, IndInv, NumbersFit, NoneRevived, Referenced, Alive
  <1>3. CASE UNCHANGED todo
    BY <1>1, <1>2, <1>3, AsideStep
  <1>4. CASE Starts(a, <<Item("dropped", refs[a])>>)
    <2> DEFINE x == Item("dropped", refs[a])
    <2>1. /\ refs[a] \in 1..made /\ refs[a] \in 0..MaxSessions /\ Alive(refs[a])
          /\ refs[a] <= made' /\ refs[a] # 0
      BY <1>1 DEF DropReference, IndInv, NumbersFit, Alive, Referenced
    <2>2. RefersTo(x, made') /\ x.s = refs[a] /\ x.arg = {}
      BY <2>1, ItemFits DEF Global, Local
    <2>3. Starts(a, <<x>>)
      BY <1>4
    <2> HIDE DEF x
    <2>4. <<x>> \in Seq(Items) /\ <<x>> # <<>> /\ <<x>>[1] = x /\ Fits(<<x>>) /\ \A i \in 2..Len(<<x>>) : <<x>>[i].arg = {}
      BY <2>1, <2>2, OneNew
    <2>5. QED
      BY <1>1, <1>2, <2>2, <2>3, <2>4, PutStep
  <1>5. QED
    BY <1>3, <1>4 DEF DropReference

LEMMA DidDropReferenceStep == ASSUME IndInv, NEW t \in Threads, DidDropReference(t) PROVE IndInv'
  <1> DEFINE s == Subject(t)
  <1>1. Head1(t, "dropped") /\ "dropped" \in Local /\ "dropped" \notin Calling
    BY DEF DidDropReference, Local, Calling
  <1>2. s \in 1..made /\ Alive(s) /\ Good(sess[s]) /\ Watched(sess[s])
    BY <1>1, SubjectIsFit
  <1>3. NoneRevived /\ UNCHANGED <<made, called>> /\ UNCHANGED <<reg, refs, tmp, user, handle, userM, sessM, ver, failed>>
    BY SameHolders DEF DidDropReference
  <1>4. owed' \subseteq Handlers
    BY <1>2 DEF DidDropReference, Deactivate, Good, Session, IndInv, NumbersFit
  <1>5. NumbersFit'
    BY <1>3, <1>4 DEF IndInv, NumbersFit
  <1>6. CASE Then(t, <<>>) /\ UNCHANGED <<sess, owed>>
    BY <1>1, <1>3, <1>5, <1>6, PopStep
  <1>7. CASE Deactivate(s) /\ Then(t, AfterInactive(s, sess[s]))
    BY <1>1, <1>2, <1>3, <1>5, <1>7, EndStep DEF Deactivate
  <1>8. CASE SetSession(s, Closed(sess[s])) /\ Then(t, <<>>) /\ UNCHANGED owed
    <2> DEFINE r == Closed(sess[s])
    <2>1. Good(r) /\ Watched(r) /\ r.queue = sess[s].queue /\ r.given = sess[s].given
      BY <1>2, ClosedIsGood, MadeFacts DEF IndInv
    <2> HIDE DEF r
    <2>2. SetSession(s, r)
      BY <1>8 DEF r
    <2>3. QED
      BY <1>1, <1>2, <1>3, <1>5, <1>8, <2>1, <2>2, TurnStep
  <1>9. QED
    BY <1>6, <1>7, <1>8 DEF DidDropReference

LEMMA CommitStep == ASSUME IndInv, NEW a \in Apps, Commit(a) PROVE IndInv'
  <1> DEFINE s == refs[a]
             r == IF sess[s].st = "waiting" THEN [sess[s] EXCEPT !.commit = TRUE] ELSE sess[s]
  <1>1. s \in 1..made /\ s \in Sess /\ made \in Nat
    BY MadeFacts DEF Commit, IndInv, NumbersFit
  <1>2. NumbersFit'
    BY DEF Commit, IndInv, NumbersFit
  <1>3. NoneRevived /\ UNCHANGED <<todo, made, called, owed>>
    BY SameHolders DEF Commit
  <1>4. Good(sess[s]) /\ (Alive(s) => Watched(sess[s]))
    BY <1>1 DEF IndInv, SessionsFit
  <1>5. Good(r) /\ (Alive(s) => Watched(r)) /\ r.queue = sess[s].queue /\ r.given = sess[s].given
    BY <1>4 DEF Good, Watched, Session
  <1>6. SetSession(s, r)
    BY <1>1 DEF Commit, SetSession, IndInv, SessionsFit
  <1> HIDE DEF r
  <1>7. r.queue \cup r.given = Kept(s) /\ r.queue \cap r.given = {}
    BY <1>1, <1>5 DEF IndInv, Apart, Kept
  <1>8. Does("auth", <<>>) /\ Pending("auth")' = Pending("auth") /\ "auth" \in Threads
    BY <1>3, ThreadsAre, SameDoes DEF IndInv
  <1>9. QED
    BY <1>1, <1>2, <1>3, <1>5, <1>6, <1>7, <1>8, NoNew, OneSessionStep

\* A handler nobody had is registered with a session.
LEMMA WaitForCompletionStep ==
  ASSUME IndInv, NEW a \in Apps, NEW h \in Handlers, WaitForCompletion(a, h)
  PROVE  IndInv'
  <1> DEFINE s == refs[a]
             r == IF sess[s].st \in {"waiting", "inactive"}
                  THEN [sess[s] EXCEPT !.queue = @ \cup {h}]
                  ELSE [sess[s] EXCEPT !.given = @ \cup {h}]
  <1>1. s \in 1..made /\ s \in Sess /\ made \in Nat
    BY MadeFacts DEF WaitForCompletion, IndInv, NumbersFit
  <1>2. NumbersFit'
    BY DEF WaitForCompletion, IndInv, NumbersFit
  <1>3. NoneRevived /\ UNCHANGED <<todo, made, called, owed>>
    BY SameHolders DEF WaitForCompletion
  <1>4. Good(sess[s]) /\ (Alive(s) => Watched(sess[s])) /\ sess[s] \in Session
    BY <1>1 DEF IndInv, SessionsFit
  <1>5. /\ Good(r) /\ (Alive(s) => Watched(r))
        /\ \/ r.queue = sess[s].queue /\ r.given = sess[s].given \cup {h}
           \/ r.given = sess[s].given /\ r.queue = sess[s].queue \cup {h}
    <2>1. CASE sess[s].st \in {"waiting", "inactive"}
      <3>1. r = [sess[s] EXCEPT !.queue = @ \cup {h}]
        BY <2>1
      <3> HIDE DEF r, s
      <3>2. r \in Session /\ r.st \notin {"active", "dying"}
        BY <1>4, <2>1, <3>1 DEF Session
      <3>3. QED
        BY <1>4, <3>1, <3>2 DEF Good, Watched, Session
    <2>2. CASE sess[s].st \notin {"waiting", "inactive"}
      <3>1. r = [sess[s] EXCEPT !.given = @ \cup {h}]
        BY <2>2
      <3> HIDE DEF r, s
      <3>2. r \in Session /\ r.queue = sess[s].queue
        BY <1>4, <3>1 DEF Session
      <3>3. QED
        BY <1>4, <3>1, <3>2 DEF Good, Watched, Session
    <2>3. QED
      BY <2>1, <2>2
  <1>6. SetSession(s, r)
    BY <1>1 DEF WaitForCompletion, SetSession, IndInv, SessionsFit
  <1> HIDE DEF r
  <1>7. Does("auth", <<>>) /\ "auth" \in Threads /\ \A t \in Threads : Pending(t)' = Pending(t)
    BY <1>3, ThreadsAre, SameDoes DEF IndInv
  <1>8. TodoFits' /\ \A x \in 1..made : Alive(x)' => Alive(x)
    BY <1>1, <1>3, <1>7, NoNew, TodoStep DEF IndInv, Fits, NoneRevived
  <1>9. SessionsFit' /\ sess'[s] = r /\ \A x \in Sess \ {s} : sess'[x] = sess[x]
    BY <1>1, <1>3, <1>5, <1>6, <1>8, SessionChanged DEF IndInv
  <1>10. /\ h \notin owed \cup Called /\ (\A x \in Sess : h \notin Kept(x))
         /\ \A t \in Threads : h \notin Pending(t)
    <2>1. ~Registered(h)
      BY DEF WaitForCompletion
    <2>2. h \notin owed \cup Called /\ \A x \in Sess : h \notin Kept(x)
      BY <2>1 DEF Registered, Called, Kept, IndInv, NumbersFit
    <2>3. ASSUME NEW t \in Threads, h \in Pending(t) PROVE FALSE
      <3>1. todo[t] # <<>> /\ todo[t] \in Seq(Items) /\ h \in todo[t][1].arg
        BY <2>3 DEF Pending, Idle, IndInv, TodoFits
      <3>2. 1 \in 1..Len(todo[t])
        BY <3>1
      <3>3. QED
        BY <2>1, <3>1, <3>2 DEF Registered
    <2>4. QED
      BY <2>2, <2>3
  <1>11. Apart'
    <2>1. Called' = Called
      BY <1>3 DEF Called
    <2>2. \A x \in Sess : Kept(x)' = IF x = s THEN Kept(x) \cup {h} ELSE Kept(x)
      <3>1. r.queue \cup r.given = Kept(s) \cup {h}
        BY <1>5 DEF Kept
      <3>2. ASSUME NEW x \in Sess PROVE Kept(x)' = IF x = s THEN Kept(x) \cup {h} ELSE Kept(x)
        <4>1. CASE x = s
          BY <1>9, <3>1, <4>1 DEF Kept
        <4>2. CASE x # s
          BY <1>9, <4>2 DEF Kept
        <4>3. QED
          BY <4>1, <4>2
      <3>3. QED
        BY <3>2
    <2>3. \A x \in Sess : sess'[x].queue \cap sess'[x].given = {}
      BY <1>1, <1>5, <1>9, <1>10 DEF Kept, IndInv, Apart
    <2> DEFINE K(x) == Kept(x)'
    <2>4. ASSUME NEW x \in Sess
          PROVE  /\ K(x) \cap (owed \cup Called) = {}
                 /\ \A y \in Sess \ {x} : K(x) \cap K(y) = {}
                 /\ \A t \in Threads : K(x) \cap Pending(t) = {}
      <3>1. K(x) \subseteq Kept(x) \cup {h} /\ (h \in K(x) => x = s)
        BY <1>10, <2>2
      <3>2. \A y \in Sess : K(y) \subseteq Kept(y) \cup {h} /\ (h \in K(y) => y = s)
        BY <1>10, <2>2
      <3>3. K(x) \cap (owed \cup Called) = {} /\ \A t \in Threads : K(x) \cap Pending(t) = {}
        BY <1>10, <3>1 DEF IndInv, Apart
      <3>4. \A y \in Sess \ {x} : K(x) \cap K(y) = {}
        BY <1>10, <3>1, <3>2 DEF IndInv, Apart
      <3>5. QED
        BY <3>3, <3>4
    <2>5. QED
      BY <1>3, <1>7, <2>1, <2>3, <2>4 DEF IndInv, Apart
  <1>12. QED
    BY <1>2, <1>8, <1>9, <1>11 DEF IndInv

LEMMA ReviveIfNeededStep == ASSUME IndInv, NEW t \in Threads, ReviveIfNeeded(t) PROVE IndInv'
  <1> DEFINE s == Subject(t)
             r == CASE sess[s].st = "inactive" -> IntoWaiting(sess[s])
                    [] sess[s].st = "dying"    -> [sess[s] EXCEPT !.st = "active"]
                    [] sess[s].st = "waiting"  -> [sess[s] EXCEPT !.close = FALSE]
                    [] OTHER -> sess[s]
             x == Item("bind", s)
  <1>1. Head1(t, "revive") /\ "revive" \in Local
    BY DEF ReviveIfNeeded, Local
  <1>2. s \in 1..made /\ s \in 0..MaxSessions /\ s # 0 /\ Alive(s) /\ Good(sess[s]) /\ Watched(sess[s])
    BY <1>1, SubjectIsFit
  <1>3. NumbersFit'
    BY DEF ReviveIfNeeded, IndInv, NumbersFit
  <1>4. NoneRevived /\ UNCHANGED <<made, called, owed>>
    BY SameHolders DEF ReviveIfNeeded
  <1>5. Good(r) /\ Watched(r) /\ r.queue = sess[s].queue /\ r.given = sess[s].given
    <2>1. CASE sess[s].st = "inactive"
      BY <1>2, <2>1, WaitingIsGood
    <2>2. CASE sess[s].st # "inactive"
      BY <1>2, <2>2 DEF Good, Watched, Session, States
    <2>3. QED
      BY <2>1, <2>2
  <1>6. SetSession(s, r) /\ (Then(t, <<x>>) \/ Then(t, <<>>))
    BY DEF ReviveIfNeeded
  <1>7. RefersTo(x, made') /\ x.s = s /\ x.arg = {}
    <2>1. s <= made'
      BY <1>2, <1>4
    <2>2. QED
      BY <1>2, <2>1, ItemFits DEF Global, Local
  <1> HIDE DEF r, x
  <1>8. CASE Then(t, <<x>>)
    BY <1>1, <1>2, <1>3, <1>4, <1>5, <1>6, <1>7, <1>8, TurnAndGoOnStep
  <1>9. CASE Then(t, <<>>)
    BY <1>1, <1>2, <1>3, <1>4, <1>5, <1>6, <1>9, TurnStep
  <1>10. QED
    BY <1>6, <1>8, <1>9

LEMMA LogOutSessionStep == ASSUME IndInv, NEW t \in Threads, LogOutSession(t) PROVE IndInv'
  <1> DEFINE s == Subject(t)
  <1>1. Head1(t, "logOut") /\ "logOut" \in Local /\ "logOut" \notin Calling
    BY DEF LogOutSession, Local, Calling
  <1>2. s \in 1..made /\ Alive(s) /\ Good(sess[s]) /\ Watched(sess[s])
    BY <1>1, SubjectIsFit
  <1>3. NoneRevived /\ UNCHANGED <<made, called, reg, refs, tmp, user, handle, userM, sessM, ver, failed>>
    BY SameHolders DEF LogOutSession
  <1>4. owed' \subseteq Handlers
    BY <1>2 DEF LogOutSession, Deactivate, Good, Session, IndInv, NumbersFit
  <1>5. NumbersFit'
    BY <1>3, <1>4 DEF IndInv, NumbersFit
  <1>6. CASE Then(t, <<>>) /\ UNCHANGED <<sess, owed>>
    BY <1>1, <1>3, <1>5, <1>6, PopStep
  <1>7. CASE Deactivate(s) /\ Then(t, AfterInactive(s, sess[s]))
    BY <1>1, <1>2, <1>3, <1>5, <1>7, EndStep DEF Deactivate
  <1>8. QED
    BY <1>6, <1>7 DEF LogOutSession

LEMMA CallCancelledStep == ASSUME IndInv, NEW t \in Threads, CallCancelled(t) PROVE IndInv'
  <1>1. TodoFits /\ made \in 0..MaxSessions /\ made \in Nat
    BY DEF IndInv, NumbersFit
  <1>2. todo[t] # <<>> /\ Pending(t) = todo[t][1].arg /\ Pending(t) \subseteq Handlers
    BY <1>1, SubjectFacts DEF CallCancelled, Head1, Pending, Idle, RefersTo, Items
  <1>3. UNCHANGED <<sess, made, reg, refs, tmp, user, handle, userM, sessM, ver, owed, failed>>
        /\ CallAll(Pending(t)) /\ Then(t, <<>>) /\ NoneRevived
    BY <1>2, SameHolders DEF CallCancelled
  <1>4. Does(t, <<>>) /\ Pending(t)' = {}
    BY <1>1, <1>2, <1>3, NoNew, ThenDoes
  <1>5. \A u \in Threads \ {t} : Pending(u)' = Pending(u)
    BY <1>4, OthersPending
  <1>6. Apart' /\ called' \in [Handlers -> Nat]
    BY <1>2, <1>3, <1>4, <1>5, ApartCalled DEF IndInv, NumbersFit
  <1>7. NumbersFit'
    BY <1>3, <1>6 DEF IndInv, NumbersFit
  <1>8. TodoFits' /\ \A s \in 1..made : Alive(s)' => Alive(s)
    BY <1>1, <1>3, <1>4, NoNew, TodoStep DEF Fits, NoneRevived
  <1>9. SessionsFit'
    BY <1>1, <1>3, <1>8, SessionsKept DEF IndInv
  <1>10. QED
    BY <1>6, <1>7, <1>8, <1>9 DEF IndInv

-----------------------------------------------------------------------------
(* SyncUser                                                                *)

LEMMA RegisterSessionStep == ASSUME IndInv, NEW t \in Threads, RegisterSession(t) PROVE IndInv'
  <1> DEFINE s == Subject(t)
             x == Item("revive", s)
  <1>1. Head1(t, "register") /\ "register" \in Local /\ "register" \notin Calling
    BY DEF RegisterSession, Local, Calling
  <1>2. s \in 1..made /\ s \in 0..MaxSessions /\ s # 0 /\ Alive(s)
    BY <1>1, SubjectIsFit
  <1>3. NoneRevived /\ UNCHANGED <<sess, made, called, owed>>
    BY SameHolders DEF RegisterSession
  <1>4. NumbersFit'
    <2>1. NumbersFit /\ s \in 0..made
      BY <1>2 DEF IndInv
    <2>2. UNCHANGED <<sess, made, reg, refs, tmp, handle, userM, sessM, ver, called, owed, failed>>
          /\ (user' = user \/ user' = [user EXCEPT !.mine = s] \/ user' = [user EXCEPT !.wait = s])
      BY DEF RegisterSession
    <2> HIDE DEF s
    <2>3. user' \in [st : {"active", "loggedOut", "error"}, mine : 0..made, wait : 0..made]
      BY <2>1, <2>2 DEF NumbersFit
    <2>4. QED
      BY <2>1, <2>2, <2>3 DEF NumbersFit
  <1>5. RefersTo(x, made') /\ x.s = s /\ x.arg = {}
    <2>1. s <= made'
      BY <1>2, <1>3
    <2>2. QED
      BY <1>2, <2>1, ItemFits DEF Global, Local
  <1>6. Then(t, <<x>>) \/ Then(t, <<>>)
    BY DEF RegisterSession
  <1> HIDE DEF x
  <1>7. CASE Then(t, <<>>)
    BY <1>1, <1>3, <1>4, <1>7, PopStep
  <1>8. CASE Then(t, <<x>>)
    BY <1>1, <1>2, <1>3, <1>4, <1>5, <1>8, PushStep
  <1>9. QED
    BY <1>6, <1>7, <1>8

\* The items of a log out are about the user's session, if it lives.
LEMMA LogOutItemsFit ==
  ASSUME IndInv, UNCHANGED made
  PROVE  /\ LogOutItems \in Seq(Items) /\ LogOutItems # <<>> /\ LogOutItems[1].arg = {}
         /\ \A i \in 2..Len(LogOutItems) : LogOutItems[i].arg = {}
         /\ Fits(LogOutItems)
  <1> DEFINE m == user.mine
             x == Item("logOut", m)
             y == Item("loggedOut", m)
             o == Item("loggedOut", 0)
             z == Item("dropHandle", 0)
  <1>1. m \in 0..made /\ made \in Nat /\ made <= MaxSessions /\ made' = made /\ m <= made' /\ 0 <= made'
        /\ MaxSessions \in Nat
    BY DEF IndInv, NumbersFit
  <1>2. m \in 0..MaxSessions /\ 0 \in 0..MaxSessions
    BY <1>1
  <1>3. RefersTo(o, made') /\ o.s = 0 /\ o.arg = {} /\ RefersTo(z, made') /\ z.s = 0 /\ z.arg = {}
    BY <1>1, <1>2, ItemFits DEF Global
  <1>4. ASSUME Alive(m)
        PROVE  RefersTo(x, made') /\ x.s = m /\ x.arg = {} /\ RefersTo(y, made') /\ y.s = m /\ y.arg = {}
    BY <1>1, <1>2, <1>4, ItemFits DEF Alive, Global, Local
  <1>5. LogOutItems = IF Alive(m) THEN <<x, y, z>> ELSE <<o, z>>
    BY DEF LogOutItems
  <1>6. 0 \notin 1..made
    BY <1>1
  <1> HIDE DEF m, x, y, o, z
  <1>7. CASE Alive(m)
    <2>1. LogOutItems = <<x, y, z>>
      BY <1>5, <1>7
    <2>2. /\ <<x, y, z>> \in Seq(Items) /\ <<x, y, z>> # <<>> /\ <<x, y, z>>[1] = x /\ Fits(<<x, y, z>>)
          /\ \A i \in 2..Len(<<x, y, z>>) : <<x, y, z>>[i].arg = {}
      BY <1>3, <1>4, <1>6, <1>7, ThreeNew
    <2>3. QED
      BY <1>4, <1>7, <2>1, <2>2
  <1>8. CASE ~Alive(m)
    <2>1. LogOutItems = <<o, z>>
      BY <1>5, <1>8
    <2>2. /\ <<o, z>> \in Seq(Items) /\ <<o, z>> # <<>> /\ <<o, z>>[1] = o /\ Fits(<<o, z>>)
          /\ \A i \in 2..Len(<<o, z>>) : <<o, z>>[i].arg = {}
      BY <1>3, <1>6, TwoNew
    <2>3. QED
      BY <1>3, <2>1, <2>2
  <1>9. QED
    BY <1>7, <1>8

LEMMA LogOutUserStep == ASSUME IndInv, LogOutUser PROVE IndInv'
  <1>1. NumbersFit' /\ NoneRevived /\ UNCHANGED <<sess, made, called, owed>> /\ "auth" \in Threads
    BY SameHolders, ThreadsAre DEF LogOutUser, IndInv, NumbersFit
  <1> DEFINE new == LogOutItems
  <1>2. /\ new \in Seq(Items) /\ new # <<>> /\ new[1].arg = {} /\ \A i \in 2..Len(new) : new[i].arg = {}
        /\ Fits(new)
    BY <1>1, LogOutItemsFit
  <1>3. Starts("auth", new)
    BY DEF LogOutUser
  <1> HIDE DEF new
  <1>4. QED
    BY <1>1, <1>2, <1>3, PutStep

LEMMA LogOutByHandleStep == ASSUME IndInv, LogOutByHandle PROVE IndInv'
  <1>1. NumbersFit' /\ NoneRevived /\ UNCHANGED <<sess, made, called, owed>> /\ "net" \in Threads
    BY SameHolders, ThreadsAre DEF LogOutByHandle, IndInv, NumbersFit
  <1>2. Head1("net", "logOutUser") /\ "logOutUser" \in Global /\ "logOutUser" \notin Calling
    BY DEF LogOutByHandle, Global, Calling
  <1>3. CASE Then("net", <<Item("dropHandle", 0)>>)
    <2> DEFINE x == Item("dropHandle", 0)
    <2>1. 0 \in 0..MaxSessions /\ 0 <= made' /\ 0 \notin 1..made
      BY <1>1 DEF IndInv, NumbersFit
    <2>2. RefersTo(x, made') /\ x.s = 0 /\ x.arg = {}
      BY <2>1, ItemFits DEF Global
    <2> HIDE DEF x
    <2>3. QED
      BY <1>1, <1>2, <1>3, <2>1, <2>2, PushStep DEF x
  <1>4. CASE Then("net", LogOutItems)
    <2> DEFINE new == LogOutItems
    <2>1. /\ new \in Seq(Items) /\ new # <<>> /\ new[1].arg = {} /\ \A i \in 2..Len(new) : new[i].arg = {}
          /\ Fits(new)
      BY <1>1, LogOutItemsFit
    <2>2. Then("net", new)
      BY <1>4
    <2> HIDE DEF new
    <2>3. QED
      BY <1>1, <1>2, <2>1, <2>2, PutStep
  <1>5. QED
    BY <1>3, <1>4 DEF LogOutByHandle

LEMMA FinishLogOutStep == ASSUME IndInv, NEW t \in Threads, FinishLogOut(t) PROVE IndInv'
  <1>1. Subject(t) \in 0..made /\ Head1(t, "loggedOut") /\ Then(t, <<>>)
    BY SubjectFacts DEF FinishLogOut, IndInv, NumbersFit
  <1>2. NumbersFit'
    <2> DEFINE w == IF Subject(t) # 0 THEN Subject(t) ELSE user.wait
    <2>1. w \in 0..made /\ 0 \in 0..made
      BY <1>1 DEF IndInv, NumbersFit
    <2>2. user' = [user EXCEPT !.mine = 0, !.wait = w]
      BY DEF FinishLogOut
    <2> HIDE DEF w
    <2>3. user' \in [st : {"active", "loggedOut", "error"}, mine : 0..made, wait : 0..made]
      BY <2>1, <2>2 DEF IndInv, NumbersFit
    <2>4. QED
      BY <2>3 DEF FinishLogOut, IndInv, NumbersFit
  <1>3. NoneRevived /\ UNCHANGED <<sess, made, called, owed>>
    BY SameHolders DEF FinishLogOut
  <1>4. QED
    BY <1>1, <1>2, <1>3, PopStep DEF Calling

LEMMA LogInUserStep == ASSUME IndInv, LogInUser PROVE IndInv'
  <1>1. NumbersFit' /\ NoneRevived /\ UNCHANGED <<sess, made, called, owed>> /\ "auth" \in Threads
    <2>1. /\ 0 \in 0..made /\ user.wait \in 0..made
          /\ user \in [st : {"active", "loggedOut", "error"}, mine : 0..made, wait : 0..made]
      BY DEF IndInv, NumbersFit
    <2>2. \/ user' = [st |-> "active", mine |-> user.wait, wait |-> 0]
          \/ user' = [user EXCEPT !.st = "active", !.wait = 0]
      BY DEF LogInUser
    <2>3. user' \in [st : {"active", "loggedOut", "error"}, mine : 0..made, wait : 0..made]
      <3> DEFINE M == 0..made
      <3> HIDE DEF M
      <3>1. 0 \in M /\ user.wait \in M /\ user \in [st : {"active", "loggedOut", "error"}, mine : M, wait : M]
        BY <2>1 DEF M
      <3>2. user' \in [st : {"active", "loggedOut", "error"}, mine : M, wait : M]
        <4>1. CASE user' = [st |-> "active", mine |-> user.wait, wait |-> 0]
          BY <3>1, <4>1
        <4>2. CASE user' = [user EXCEPT !.st = "active", !.wait = 0]
          BY <3>1, <4>2
        <4>3. QED
          BY <2>2, <4>1, <4>2
      <3>3. QED
        BY <3>2 DEF M
    <2>4. made' = made
      BY DEF LogInUser
    <2>5. QED
      BY <2>3, <2>4, SameHolders, ThreadsAre DEF LogInUser, IndInv, NumbersFit
  <1>2. CASE UNCHANGED todo
    BY <1>1, <1>2, AsideStep
  <1>3. CASE Alive(user.wait) /\ Starts("auth", <<Item("revive", user.wait)>>)
    <2> DEFINE x == Item("revive", user.wait)
    <2>1. user.wait \in 0..MaxSessions /\ user.wait <= made' /\ user.wait # 0
      BY <1>1, <1>3 DEF IndInv, NumbersFit, Alive
    <2>2. RefersTo(x, made') /\ x.s = user.wait /\ x.arg = {}
      BY <2>1, ItemFits DEF Global, Local
    <2>3. Starts("auth", <<x>>)
      BY <1>3
    <2> HIDE DEF x
    <2>4. <<x>> \in Seq(Items) /\ <<x>> # <<>> /\ <<x>>[1] = x /\ Fits(<<x>>) /\ \A i \in 2..Len(<<x>>) : <<x>>[i].arg = {}
      BY <1>3, <2>2, OneNew
    <2>5. QED
      BY <1>1, <2>2, <2>3, <2>4, PutStep
  <1>4. QED
    BY <1>2, <1>3 DEF LogInUser

LEMMA InvalidateStep == ASSUME IndInv, NEW t \in Threads, Invalidate(t) PROVE IndInv'
  <1>1. NumbersFit' /\ NoneRevived
    BY SameHolders DEF Invalidate, IndInv, NumbersFit
  <1>2. QED
    BY <1>1, PopStep DEF Invalidate, Calling

LEMMA JoinFacts ==
  ASSUME NEW x \in Items, NEW y \in Items, NEW z \in Items
  PROVE  /\ <<x>> \o <<>> = <<x>> /\ <<x>> \o <<y>> = <<x, y>>
         /\ <<>> \o <<y, z>> = <<y, z>> /\ <<x>> \o <<y, z>> = <<x, y, z>>
  <1>1. /\ <<x>> \in Seq(Items) /\ Len(<<x>>) = 1 /\ <<x>>[1] = x
        /\ <<y>> \in Seq(Items) /\ Len(<<y>>) = 1 /\ <<y>>[1] = y
        /\ <<x, y>> \in Seq(Items) /\ Len(<<x, y>>) = 2 /\ <<x, y>>[1] = x /\ <<x, y>>[2] = y
        /\ <<y, z>> \in Seq(Items) /\ Len(<<y, z>>) = 2 /\ <<y, z>>[1] = y /\ <<y, z>>[2] = z
        /\ <<x, y, z>> \in Seq(Items) /\ Len(<<x, y, z>>) = 3
        /\ <<x, y, z>>[1] = x /\ <<x, y, z>>[2] = y /\ <<x, y, z>>[3] = z
    OBVIOUS
  <1>2. <<x>> \o <<>> = <<x>> /\ <<>> \o <<y, z>> = <<y, z>>
    BY <1>1
  <1>3. <<x>> \o <<y>> = <<x, y>>
    <2> DEFINE a == <<x>>  b == <<y>>  c == <<x, y>>
    <2>1. a \in Seq(Items) /\ b \in Seq(Items) /\ c \in Seq(Items) /\ Len(a) = 1 /\ Len(b) = 1 /\ Len(c) = 2
          /\ a[1] = x /\ b[1] = y /\ c[1] = x /\ c[2] = y
      BY <1>1
    <2> HIDE DEF a, b, c
    <2>2. /\ a \o b \in Seq(Items) /\ Len(a \o b) = Len(a) + Len(b)
          /\ \A i \in 1..Len(a) + Len(b) : (a \o b)[i] = IF i <= Len(a) THEN a[i] ELSE b[i - Len(a)]
      BY <2>1, ConcatProperties, ZenonT(60)
    <2>3. /\ a \o b \in Seq(Items) /\ Len(a \o b) = 2 /\ (a \o b)[1] = x
          /\ \A i \in 1..2 : (a \o b)[i] = c[i]
      BY <2>1, <2>2
    <2>4. a \o b = c
      BY <2>1, <2>3, SeqEqual
    <2>5. QED
      BY <2>4 DEF a, b, c
  <1>4. <<x>> \o <<y, z>> = <<x, y, z>>
    <2> DEFINE a == <<x>>  b == <<y, z>>  c == <<x, y, z>>
    <2>1. a \in Seq(Items) /\ b \in Seq(Items) /\ c \in Seq(Items) /\ Len(a) = 1 /\ Len(b) = 2 /\ Len(c) = 3
          /\ a[1] = x /\ b[1] = y /\ b[2] = z /\ c[1] = x /\ c[2] = y /\ c[3] = z
      BY <1>1
    <2> HIDE DEF a, b, c
    <2>2. /\ a \o b \in Seq(Items) /\ Len(a \o b) = Len(a) + Len(b)
          /\ \A i \in 1..Len(a) + Len(b) : (a \o b)[i] = IF i <= Len(a) THEN a[i] ELSE b[i - Len(a)]
      BY <2>1, ConcatProperties, ZenonT(60)
    <2>3. /\ a \o b \in Seq(Items) /\ Len(a \o b) = 3
          /\ \A i \in 1..3 : (a \o b)[i] = c[i]
      BY <2>1, <2>2
    <2>4. a \o b = c
      BY <2>1, <2>3, SeqEqual
    <2>5. QED
      BY <2>4 DEF a, b, c
  <1>5. QED
    BY <1>2, <1>3, <1>4

-----------------------------------------------------------------------------
(* The sync client's event loop                                            *)

LEMMA AliveIsMade == ASSUME NumbersFit, TodoFits, NEW s \in Sess, Alive(s) PROVE s \in 1..made
  <1>1. made \in Nat /\ s \in Nat /\ s # 0
    BY DEF NumbersFit, Sess
  <1>2. ASSUME NEW t \in Threads, NEW i \in 1..Len(todo[t]), todo[t][i].s = s PROVE s <= made
    BY <1>2 DEF TodoFits, RefersTo, Of
  <1>3. CASE reg = s \/ Referenced(s) \/ handle.s = s
    BY <1>1, <1>3 DEF NumbersFit, Referenced
  <1>4. QED
    BY <1>1, <1>2, <1>3 DEF Alive

\* A session changes and todo does not.
LEMMA SessionStep ==
  ASSUME IndInv, NumbersFit', NEW s \in 1..made, NEW r, SetSession(s, r), Good(r), Alive(s) => Watched(r),
         r.queue \cup r.given = Kept(s), r.queue \cap r.given = {},
         NoneRevived, UNCHANGED <<todo, made, called, owed>>
  PROVE  IndInv'
  <1>1. Does("auth", <<>>) /\ Pending("auth")' = Pending("auth") /\ "auth" \in Threads
    BY ThreadsAre, SameDoes DEF IndInv
  <1>2. QED
    BY <1>1, NoNew, OneSessionStep

LEMMA UploadAnsweredStep ==
  ASSUME IndInv, NEW s \in Sess, NEW u \in sess[s].uploads, UploadAnswered(s, u)
  PROVE  IndInv'
  <1> DEFINE r == [sess[s] EXCEPT !.uploads = @ \ {u}]
  <1>1. Good(sess[s]) /\ (Alive(s) => Watched(sess[s])) /\ (s > made => sess[s] = Fresh) /\ made \in Nat
    BY MadeFacts DEF IndInv, SessionsFit
  <1>2. s \in 1..made
    BY <1>1 DEF Fresh, Sess
  <1>3. /\ r \in Session /\ r.uploads = sess[s].uploads \ {u} /\ r.queue = sess[s].queue
        /\ r.given = sess[s].given /\ r.st = sess[s].st /\ r.death = sess[s].death
        /\ r.diedAt = sess[s].diedAt /\ r.raw = sess[s].raw /\ r.commit = sess[s].commit
    BY <1>1 DEF Good, Session
  <1>4. NoneRevived /\ UNCHANGED <<made, called, reg, refs, tmp, user, handle, userM, sessM, ver, failed>>
    BY SameHolders DEF UploadAnswered
  <1>5. CASE Alive(s) /\ r.st = "dying" /\ r.death = u.death
    <2>1. SetSession(s, IntoInactive(r)) /\ owed' = owed \cup r.given /\ Starts("client", AfterInactive(s, r))
      BY <1>5 DEF UploadAnswered
    <2> HIDE DEF r
    <2>2. Good(r)
      BY <1>1, <1>3 DEF Good
    <2>3. NumbersFit'
      BY <1>3, <1>4, <2>1 DEF IndInv, NumbersFit, Session
    <2>4. QED
      BY <1>2, <1>3, <1>4, <1>5, <2>1, <2>2, <2>3, ThreadsAre, EndStep
  <1>6. CASE ~(Alive(s) /\ r.st = "dying" /\ r.death = u.death)
    <2>1. SetSession(s, r) /\ UNCHANGED <<owed, todo>>
      BY <1>6 DEF UploadAnswered
    <2> HIDE DEF r
    <2>2. Good(r) /\ (Alive(s) => Watched(r))
      BY <1>1, <1>3, <1>6 DEF Good, Watched
    <2>3. NumbersFit'
      BY <1>4, <2>1 DEF IndInv, NumbersFit
    <2>4. r.queue \cup r.given = Kept(s) /\ r.queue \cap r.given = {}
      BY <1>3 DEF IndInv, Apart, Kept
    <2>5. QED
      BY <1>2, <1>4, <2>1, <2>2, <2>3, <2>4, SessionStep
  <1>7. QED
    BY <1>5, <1>6

LEMMA HandlerAnsweredStep == ASSUME IndInv, NEW h \in Handlers, HandlerAnswered(h) PROVE IndInv'
  <1>1. UNCHANGED <<made, reg, refs, tmp, user, handle, userM, sessM, todo, ver, failed>>
        /\ owed' = owed \ {h} /\ called' = [called EXCEPT ![h] = @ + 1]
        /\ sess' = [s \in Sess |-> [sess[s] EXCEPT !.given = @ \ {h}]]
    BY DEF HandlerAnswered
  <1>2. /\ \A s \in Sess : h \notin sess[s].queue
        /\ h \notin Called /\ called[h] = 0 /\ \A t \in Threads : h \notin Pending(t)
    <2>1. CASE h \in owed
      BY <2>1 DEF IndInv, Apart, Kept, Called
    <2>2. ASSUME NEW s \in Sess, h \in sess[s].given
          PROVE  /\ \A x \in Sess : h \notin sess[x].queue
                 /\ h \notin Called /\ called[h] = 0 /\ \A t \in Threads : h \notin Pending(t)
      <3>1. h \in Kept(s) /\ h \notin sess[s].queue
        BY <2>2 DEF Kept, IndInv, Apart
      <3>2. \A x \in Sess \ {s} : h \notin Kept(x)
        BY <3>1 DEF IndInv, Apart
      <3>3. h \notin Called /\ \A t \in Threads : h \notin Pending(t)
        BY <3>1 DEF IndInv, Apart
      <3>4. QED
        BY <3>1, <3>2, <3>3 DEF Kept, Called
    <2>3. QED
      BY <2>1, <2>2 DEF HandlerAnswered
  <1>3. called' \in [Handlers -> Nat] /\ \A x \in Handlers : called'[x] = IF x = h THEN 1 ELSE called[x]
    BY <1>1, <1>2 DEF IndInv, NumbersFit
  <1>4. NumbersFit'
    BY <1>1, <1>3 DEF IndInv, NumbersFit
  <1>5. Does("auth", <<>>) /\ "auth" \in Threads /\ \A t \in Threads : Pending(t)' = Pending(t)
    BY <1>1, ThreadsAre, SameDoes DEF IndInv
  <1>6. TodoFits' /\ \A x \in 1..made : Alive(x)' => Alive(x)
    BY <1>1, <1>5, NoNew, TodoStep, SameHolders, MadeFacts DEF IndInv, Fits, NoneRevived
  <1>7. ASSUME NEW s \in Sess
        PROVE  /\ sess'[s] \in Session /\ sess'[s].queue = sess[s].queue /\ sess'[s].given = sess[s].given \ {h}
               /\ Good(sess'[s]) /\ (Alive(s)' => Watched(sess'[s])) /\ (s > made' => sess'[s] = Fresh)
    <2> DEFINE r == [sess[s] EXCEPT !.given = @ \ {h}]
    <2>1. sess'[s] = r /\ Good(sess[s]) /\ (Alive(s) => Watched(sess[s])) /\ (s > made => sess[s] = Fresh)
      BY <1>1 DEF IndInv, SessionsFit
    <2>2. r \in Session /\ r.queue = sess[s].queue /\ r.given = sess[s].given \ {h} /\ Good(r)
          /\ (Watched(sess[s]) => Watched(r))
      BY <2>1 DEF Good, Session, Watched
    <2>3. s > made => r = Fresh /\ Watched(r)
      BY <2>1, FreshIsGood DEF Fresh
    <2> HIDE DEF r
    <2>4. Alive(s)' => Watched(r)
      <3>1. CASE s \in 1..made
        BY <1>6, <2>1, <2>2, <3>1
      <3>2. CASE s \notin 1..made
        BY <1>1, <2>3, <3>2, MadeFacts DEF IndInv, Sess
      <3>3. QED
        BY <3>1, <3>2
    <2>5. QED
      BY <1>1, <2>1, <2>2, <2>3, <2>4
  <1>8. SessionsFit'
    <2>1. sess' \in [Sess -> Session]
      BY <1>1, <1>7
    <2>2. QED
      BY <1>7, <2>1 DEF SessionsFit
  <1>9. Apart'
    <2>1. Called' = Called \cup {h}
      BY <1>3 DEF Called
    <2>2. \A s \in Sess : Kept(s)' = Kept(s) \ {h}
      BY <1>2, <1>7 DEF Kept
    <2>3. \A s \in Sess : sess'[s].queue \cap sess'[s].given = {}
      BY <1>7 DEF IndInv, Apart
    <2>4. \A x \in Handlers : called'[x] <= 1
      BY <1>3 DEF IndInv, Apart
    <2>5. QED
      BY <1>1, <1>2, <1>5, <2>1, <2>2, <2>3, <2>4 DEF IndInv, Apart
  <1>10. QED
    BY <1>4, <1>6, <1>8, <1>9 DEF IndInv

LEMMA HandleErrorStep == ASSUME IndInv, NEW s \in Sess, NEW k \in ErrorKinds, HandleError(s, k) PROVE IndInv'
  <1>1. s \in 1..made /\ Alive(s) /\ Good(sess[s])
    BY AliveIsMade DEF HandleError, IndInv, SessionsFit
  <1>2. NoneRevived /\ UNCHANGED <<made, called, reg, refs, tmp, user, handle, userM, sessM, ver, failed>>
    BY SameHolders DEF HandleError
  <1>3. owed' \subseteq Handlers
    BY <1>1 DEF HandleError, Deactivate, Good, Session, IndInv, NumbersFit
  <1>4. NumbersFit'
    BY <1>2, <1>3 DEF IndInv, NumbersFit
  <1>5. CASE UNCHANGED <<sess, owed, todo>>
    BY <1>2, <1>4, <1>5, AsideStep
  <1>6. CASE Deactivate(s) /\ Starts("client", AfterInactive(s, sess[s]))
    BY <1>1, <1>2, <1>4, <1>6, ThreadsAre, EndStep DEF Deactivate
  <1>7. CASE Starts("client", <<Item(k, s)>>) /\ UNCHANGED <<sess, owed>>
    <2> DEFINE x == Item(k, s)
    <2>1. k \in Local /\ k \notin Global /\ s \in 0..MaxSessions /\ s <= made' /\ s # 0
      BY <1>1, <1>2, MadeFacts DEF ErrorKinds, Local, Global, IndInv, NumbersFit
    <2>2. RefersTo(x, made') /\ x.s = s /\ x.arg = {}
      BY <2>1, ItemFits
    <2>3. Starts("client", <<x>>)
      BY <1>7
    <2> HIDE DEF x
    <2>4. <<x>> \in Seq(Items) /\ <<x>> # <<>> /\ <<x>>[1] = x /\ Fits(<<x>>) /\ \A i \in 2..Len(<<x>>) : <<x>>[i].arg = {}
      BY <1>1, <2>2, OneNew
    <2>5. QED
      BY <1>2, <1>4, <1>7, <2>2, <2>3, <2>4, ThreadsAre, PutStep
  <1>8. QED
    BY <1>5, <1>6, <1>7 DEF HandleError

LEMMA TokenExpiredStep == ASSUME IndInv, TokenExpired PROVE IndInv'
  <1> DEFINE s == Subject("client")
             r == IntoWaiting(sess[s])
             x == Item("bind", s)
  <1>1. Head1("client", "token_expired") /\ "token_expired" \in Local /\ "token_expired" \notin Calling
        /\ "client" \in Threads
    BY ThreadsAre DEF TokenExpired, Local, Calling
  <1>2. s \in 1..made /\ s \in 0..MaxSessions /\ s # 0 /\ Alive(s) /\ Good(sess[s])
    BY <1>1, SubjectIsFit
  <1>3. NumbersFit' /\ NoneRevived /\ UNCHANGED <<made, called, owed>>
    BY SameHolders DEF TokenExpired, IndInv, NumbersFit
  <1>4. CASE Then("client", <<>>) /\ UNCHANGED sess
    BY <1>1, <1>3, <1>4, PopStep
  <1>5. CASE SetSession(s, r) /\ Then("client", <<x>>)
    <2>1. Good(r) /\ Watched(r) /\ r.queue = sess[s].queue /\ r.given = sess[s].given
      BY <1>2, WaitingIsGood
    <2>2. s <= made'
      BY <1>2, <1>3
    <2>3. RefersTo(x, made') /\ x.s = s /\ x.arg = {}
      BY <1>2, <2>2, ItemFits DEF Global, Local
    <2> HIDE DEF r, x
    <2>4. QED
      BY <1>1, <1>2, <1>3, <1>5, <2>1, <2>3, TurnAndGoOnStep
  <1>6. QED
    BY <1>4, <1>5 DEF TokenExpired

\* The handlers queued in s are handed to a thread, those given stay.
LEMMA ApartCancelled ==
  ASSUME Apart, NEW t \in Threads, NEW s \in Sess, Pending(t) = {}, Pending(t)' = sess[s].queue,
         \A u \in Threads \ {t} : Pending(u)' = Pending(u), UNCHANGED <<owed, called>>,
         sess'[s].queue = {}, sess'[s].given = sess[s].given, \A x \in Sess \ {s} : sess'[x] = sess[x]
  PROVE  Apart'
  <1>1. Called' = Called
    BY DEF Called
  <1>2. /\ Kept(s)' = sess[s].given /\ \A x \in Sess \ {s} : Kept(x)' = Kept(x)
        /\ \A x \in Sess : sess'[x].queue \cap sess'[x].given = {}
    BY DEF Kept, Apart
  <1>3. sess[s].queue \subseteq Kept(s) /\ sess[s].given \subseteq Kept(s)
        /\ sess[s].queue \cap sess[s].given = {}
    BY DEF Kept, Apart
  <1>4. \A x \in Sess : Kept(x)' \subseteq Kept(x)
    BY <1>2, <1>3
  <1>5. ASSUME NEW x \in Sess
        PROVE  /\ Kept(x)' \cap (owed' \cup Called') = {}
               /\ \A r \in Sess \ {x} : Kept(x)' \cap Kept(r)' = {}
    BY <1>1, <1>4 DEF Apart
  <1>6. ASSUME NEW x \in Sess, NEW u \in Threads PROVE Kept(x)' \cap Pending(u)' = {}
    <2>1. CASE u # t
      BY <1>4, <2>1 DEF Apart
    <2>2. CASE u = t /\ x = s
      BY <1>2, <1>3, <2>2
    <2>3. CASE u = t /\ x # s
      BY <1>2, <1>3, <2>3 DEF Apart
    <2>4. QED
      BY <2>1, <2>2, <2>3
  <1>7. ASSUME NEW u \in Threads
        PROVE  Pending(u)' \cap (owed' \cup Called') = {} /\ \A w \in Threads \ {u} : Pending(u)' \cap Pending(w)' = {}
    BY <1>1, <1>3 DEF Apart
  <1>8. QED
    BY <1>1, <1>2, <1>5, <1>6, <1>7 DEF Apart

LEMMA CancelPendingWaitsStep == ASSUME IndInv, CancelPendingWaits PROVE IndInv'
  <1> DEFINE t == "client"
             s == Subject(t)
             r == [sess[s] EXCEPT !.queue = {}]
             x == [op |-> "cancel", s |-> s, arg |-> sess[s].queue]
             y == Item("invalidate", 0)
  <1>1. t \in Threads /\ \E doing \in Local : Head1(t, doing)
    BY ThreadsAre DEF CancelPendingWaits, Local
  <1>2. s \in 1..made /\ s \in 0..MaxSessions /\ s # 0 /\ Alive(s) /\ Good(sess[s]) /\ Watched(sess[s])
    BY <1>1, SubjectIsFit
  <1>3. NumbersFit' /\ NoneRevived /\ UNCHANGED <<made, called, owed>> /\ SetSession(s, r)
    BY SameHolders DEF CancelPendingWaits, IndInv, NumbersFit
  <1>4. Good(r) /\ Watched(r) /\ r.queue = {} /\ r.given = sess[s].given
    BY <1>2 DEF Good, Watched, Session
  <1>5. RefersTo(x, made') /\ x.s = s /\ x.arg = sess[s].queue /\ x.arg \subseteq Handlers
    <2>1. s <= made' /\ sess[s].queue \subseteq Handlers
      BY <1>2, <1>3 DEF Good, Session
    <2>2. QED
      BY <1>2, <2>1 DEF RefersTo, Items, Calling, Global
  <1>6. RefersTo(y, made') /\ y.s = 0 /\ y.arg = {} /\ 0 \notin 1..made
    <2>1. 0 \in 0..MaxSessions /\ 0 <= made' /\ 0 \notin 1..made
      BY <1>3, MadeFacts DEF IndInv, NumbersFit
    <2>2. QED
      BY <2>1, ItemFits DEF Global
  <1>7. Then(t, <<x>> \o IF Head1("client", "fatal") THEN <<>> ELSE <<y>>)
    BY DEF CancelPendingWaits
  <1> HIDE DEF r, x, y
  <1>8. <<x>> \o <<>> = <<x>> /\ <<x>> \o <<y>> = <<x, y>>
    BY JoinFacts, <1>5, <1>6 DEF RefersTo
  <1>9. \E new : Does(t, new) /\ Fits(new) /\ Pending(t) = {} /\ Pending(t)' = sess[s].queue
    <2>1. CASE Then(t, <<x>>)
      <3>1. <<x>> \in Seq(Items) /\ <<x>> # <<>> /\ <<x>>[1] = x /\ Fits(<<x>>) /\ \A i \in 2..Len(<<x>>) : <<x>>[i].arg = {}
        BY <1>2, <1>5, OneNew
      <3>2. QED
        BY <1>1, <1>5, <2>1, <3>1, PutDoes
    <2>2. CASE Then(t, <<x, y>>)
      <3>1. /\ <<x, y>> \in Seq(Items) /\ <<x, y>> # <<>> /\ <<x, y>>[1] = x /\ Fits(<<x, y>>)
            /\ \A i \in 2..Len(<<x, y>>) : <<x, y>>[i].arg = {}
        BY <1>2, <1>5, <1>6, TwoNew
      <3>2. QED
        BY <1>1, <1>5, <2>2, <3>1, PutDoes
    <2>3. QED
      BY <1>7, <1>8, <2>1, <2>2
  <1>10. PICK new : Does(t, new) /\ Fits(new) /\ Pending(t) = {} /\ Pending(t)' = sess[s].queue
    BY <1>9
  <1>11. made \in Nat /\ s \in Sess
    BY <1>2, MadeFacts DEF IndInv
  <1>12. TodoFits' /\ \A z \in 1..made : Alive(z)' => Alive(z)
    BY <1>1, <1>3, <1>10, <1>11, TodoStep DEF IndInv, Fits, NoneRevived
  <1>13. SessionsFit' /\ sess'[s] = r /\ \A z \in Sess \ {s} : sess'[z] = sess[z]
    BY <1>2, <1>3, <1>4, <1>11, <1>12, SessionChanged DEF IndInv
  <1>14. \A u \in Threads \ {t} : Pending(u)' = Pending(u)
    BY <1>1, <1>10, OthersPending
  <1>15. Apart'
    BY <1>1, <1>3, <1>4, <1>10, <1>11, <1>13, <1>14, ApartCancelled DEF IndInv
  <1>16. QED
    BY <1>3, <1>12, <1>13, <1>15 DEF IndInv

LEMMA PermissionDeniedStep == ASSUME IndInv, PermissionDenied PROVE IndInv'
  <1> DEFINE s == Subject("client")
  <1>1. Head1("client", "permission_denied") /\ "permission_denied" \in Local /\ "permission_denied" \notin Calling
        /\ "client" \in Threads
    BY ThreadsAre DEF PermissionDenied, Local, Calling
  <1>2. s \in 1..made /\ Alive(s) /\ Good(sess[s])
    BY <1>1, SubjectIsFit
  <1>3. NoneRevived /\ UNCHANGED <<made, called, reg, refs, tmp, user, handle, userM, sessM, ver>>
    BY SameHolders DEF PermissionDenied
  <1>4. owed' \subseteq Handlers /\ failed' \in BOOLEAN
    BY <1>2 DEF PermissionDenied, Deactivate, Good, Session, IndInv, NumbersFit
  <1>5. NumbersFit'
    BY <1>3, <1>4 DEF IndInv, NumbersFit
  <1>6. CASE Then("client", <<>>) /\ UNCHANGED <<sess, owed>>
    BY <1>1, <1>3, <1>5, <1>6, PopStep
  <1>7. CASE Deactivate(s) /\ Then("client", AfterInactive(s, sess[s]))
    BY <1>1, <1>2, <1>3, <1>5, <1>7, EndStep DEF Deactivate
  <1>8. QED
    BY <1>6, <1>7 DEF PermissionDenied

-----------------------------------------------------------------------------
(* The binding's refresh handle                                            *)

\* The refresh handle changes, and holds no session it did not hold.
LEMMA HandleChanged ==
  ASSUME IndInv, UNCHANGED <<made, reg, refs, tmp>>,
         \/ handle' = NoHandle
         \/ \E p \in {"none", "timer"} : handle' = [handle EXCEPT !.phase = p, !.strong = FALSE]
         \/ \E p \in {"none", "asking"} : handle' = [handle EXCEPT !.phase = p]
  PROVE  /\ handle' \in [s : 0..made, phase : {"none", "asking", "timer"}, strong : BOOLEAN]
         /\ (handle'.strong => handle'.s # 0) /\ NoneRevived
  <1> DEFINE M == 0..made
             H == [s : M, phase : {"none", "asking", "timer"}, strong : BOOLEAN]
  <1>1. handle \in H /\ 0 \in M /\ (handle.strong => handle.s # 0)
    BY DEF IndInv, NumbersFit
  <1> HIDE DEF M
  <1>2. CASE handle' = NoHandle
    <2>1. handle'.s = 0 /\ handle'.phase = "none" /\ handle'.strong = FALSE /\ handle' \in H
      BY <1>1, <1>2 DEF NoHandle
    <2>2. QED
      BY <2>1 DEF NoneRevived, Referenced, Alive, M
  <1>3. ASSUME NEW p \in {"none", "timer"}, handle' = [handle EXCEPT !.phase = p, !.strong = FALSE]
        PROVE  handle' \in H /\ (handle'.strong => handle'.s # 0) /\ NoneRevived
    <2>1. handle' \in H /\ handle'.strong = FALSE
      BY <1>1, <1>3
    <2>2. QED
      BY <2>1 DEF NoneRevived, Referenced, Alive, M
  <1>4. ASSUME NEW p \in {"none", "asking"}, handle' = [handle EXCEPT !.phase = p]
        PROVE  handle' \in H /\ (handle'.strong => handle'.s # 0) /\ NoneRevived
    <2>1. handle' \in H /\ handle'.strong = handle.strong /\ handle'.s = handle.s
      BY <1>1, <1>4
    <2>2. QED
      BY <1>1, <2>1 DEF NoneRevived, Referenced, Alive
  <1>5. QED
    BY <1>2, <1>3, <1>4 DEF M

LEMMA BindSessionStep == ASSUME IndInv, NEW t \in Threads, BindSession(t) PROVE IndInv'
  <1>1. Head1(t, "bind") /\ "bind" \in Local /\ "bind" \notin Calling
    BY DEF BindSession, Local, Calling
  <1>2. Subject(t) \in 1..made /\ Subject(t) # 0 /\ Alive(Subject(t))
    BY <1>1, SubjectIsFit
  <1>3. NumbersFit'
    BY <1>2, SMTT(40) DEF BindSession, IndInv, NumbersFit
  <1>4. NoneRevived /\ UNCHANGED <<sess, made, called, owed>> /\ Then(t, <<>>)
    BY <1>2 DEF BindSession, NoneRevived, Referenced, Alive
  <1>5. QED
    BY <1>1, <1>3, <1>4, PopStep

\* The handle is dropped on the main queue when its token is about to expire.
LEMMA DropLater ==
  ASSUME IndInv, UNCHANGED made, Starts("main", <<Item("dropHandle", 0)>>)
  PROVE  \E new \in Seq(Items) : /\ new # <<>> /\ new[1].arg = {} /\ Fits(new) /\ Starts("main", new)
                               /\ \A i \in 2..Len(new) : new[i].arg = {}
  <1> DEFINE x == Item("dropHandle", 0)
  <1>1. 0 \in 0..MaxSessions /\ 0 <= made' /\ 0 \notin 1..made
    BY MadeFacts DEF IndInv, NumbersFit
  <1>2. RefersTo(x, made') /\ x.s = 0 /\ x.arg = {} /\ Starts("main", <<x>>)
    BY <1>1, ItemFits DEF Global
  <1> HIDE DEF x
  <1>3. /\ <<x>> \in Seq(Items) /\ <<x>> # <<>> /\ <<x>>[1] = x /\ Fits(<<x>>)
        /\ \A i \in 2..Len(<<x>>) : <<x>>[i].arg = {}
    BY <1>1, <1>2, OneNew
  <1>4. QED
    BY <1>2, <1>3

LEMMA TokenAnsweredStep == ASSUME IndInv, NEW next \in BOOLEAN, TokenAnswered(next) PROVE IndInv'
  <1> DEFINE s == handle.s
  <1>1. /\ UNCHANGED <<made, reg, refs, tmp, user, userM, sessM, ver, called, owed, failed>>
        /\ \/ handle' = NoHandle
           \/ \E p \in {"none", "timer"} : handle' = [handle EXCEPT !.phase = p, !.strong = FALSE]
        /\ UNCHANGED todo \/ Starts("main", <<Item("dropHandle", 0)>>)
    BY DEF TokenAnswered
  <1>2. /\ handle' \in [s : 0..made, phase : {"none", "asking", "timer"}, strong : BOOLEAN]
        /\ (handle'.strong => handle'.s # 0) /\ NoneRevived
    BY <1>1, HandleChanged
  <1>3. NumbersFit' /\ "main" \in Threads
    BY <1>1, <1>2, ThreadsAre DEF IndInv, NumbersFit
  <1>4. CASE UNCHANGED sess
    <2>1. CASE UNCHANGED todo
      <3>1. UNCHANGED <<todo, sess, made, called, owed>>
        BY <1>1, <1>4, <2>1
      <3>2. QED
        BY <1>2, <1>3, <3>1, AsideStep
    <2>2. CASE Starts("main", <<Item("dropHandle", 0)>>)
      <3>1. PICK new \in Seq(Items) : /\ new # <<>> /\ new[1].arg = {} /\ Fits(new) /\ Starts("main", new)
                                      /\ \A i \in 2..Len(new) : new[i].arg = {}
        BY <1>1, <2>2, DropLater
      <3>2. QED
        BY <1>1, <1>2, <1>3, <1>4, <3>1, PutStep
    <2>3. QED
      BY <1>1, <2>1, <2>2
  <1>5. CASE Alive(s) /\ sess[s].st = "waiting" /\ sess' = [sess EXCEPT ![s] = Refreshed(@)]
    <2>1. s \in 1..made /\ s \in Sess
      BY <1>5, MadeFacts, SMTT(40) DEF Alive, IndInv, NumbersFit
    <2>2. Good(sess[s]) /\ sess[s].queue \cap sess[s].given = {}
      BY <2>1 DEF IndInv, SessionsFit, Apart
    <2> DEFINE x == Refreshed(sess[s])
    <2>3. Good(x) /\ Watched(x) /\ x.queue = {} /\ x.given = sess[s].given \cup sess[s].queue
      BY <1>5, <2>2, RefreshedIsGood, MadeFacts DEF IndInv
    <2>4. SetSession(s, x)
      BY <1>5, <2>1 DEF SetSession, IndInv, SessionsFit
    <2> HIDE DEF x
    <2>5. x.queue \cup x.given = Kept(s) /\ x.queue \cap x.given = {}
      BY <2>3 DEF Kept
    <2>6. CASE UNCHANGED todo
      BY <1>1, <1>2, <1>3, <2>1, <2>3, <2>4, <2>5, <2>6, SessionStep
    <2>7. CASE Starts("main", <<Item("dropHandle", 0)>>)
      <3>1. PICK new \in Seq(Items) : /\ new # <<>> /\ new[1].arg = {} /\ Fits(new) /\ Starts("main", new)
                                      /\ \A i \in 2..Len(new) : new[i].arg = {}
        BY <1>1, <2>7, DropLater
      <3>2. Does("main", new) /\ Pending("main") = {} /\ Pending("main")' = {}
        BY <1>3, <3>1, PutDoes
      <3>3. QED
        BY <1>1, <1>2, <1>3, <2>1, <2>3, <2>4, <2>5, <3>1, <3>2, OneSessionStep
    <2>8. QED
      BY <1>1, <2>6, <2>7
  <1>6. QED
    BY <1>4, <1>5 DEF TokenAnswered

LEMMA TokenUnreachableStep == ASSUME IndInv, TokenUnreachable PROVE IndInv'
  <1>1. NumbersFit' /\ NoneRevived
    BY HandleChanged DEF TokenUnreachable, IndInv, NumbersFit
  <1>2. QED
    BY <1>1, AsideStep DEF TokenUnreachable

LEMMA TokenRefusedStep == ASSUME IndInv, NEW reported \in BOOLEAN, TokenRefused(reported) PROVE IndInv'
  <1> DEFINE x == Item("logOutUser", 0)
             y == Item("refused", 0)
             z == Item("dropHandle", 0)
  <1>1. NumbersFit' /\ NoneRevived /\ UNCHANGED <<sess, made, called, owed>> /\ "net" \in Threads
    BY HandleChanged, ThreadsAre DEF TokenRefused, IndInv, NumbersFit
  <1>2. 0 \in 0..MaxSessions /\ 0 <= made' /\ 0 \notin 1..made
    BY <1>1, MadeFacts DEF IndInv, NumbersFit
  <1>3. /\ RefersTo(x, made') /\ x.s = 0 /\ x.arg = {} /\ RefersTo(y, made') /\ y.s = 0 /\ y.arg = {}
        /\ RefersTo(z, made') /\ z.s = 0 /\ z.arg = {}
    BY <1>2, ItemFits DEF Global
  <1>4. Starts("net", (IF reported THEN <<x>> ELSE <<>>) \o <<y, z>>)
    BY DEF TokenRefused
  <1> HIDE DEF x, y, z
  <1>5. <<x>> \o <<y, z>> = <<x, y, z>> /\ <<>> \o <<y, z>> = <<y, z>>
    BY <1>3, JoinFacts DEF RefersTo
  <1>6. CASE Starts("net", <<x, y, z>>)
    <2>1. /\ <<x, y, z>> \in Seq(Items) /\ <<x, y, z>> # <<>> /\ <<x, y, z>>[1] = x /\ Fits(<<x, y, z>>)
          /\ \A i \in 2..Len(<<x, y, z>>) : <<x, y, z>>[i].arg = {}
      BY <1>2, <1>3, ThreeNew
    <2>2. QED
      BY <1>1, <1>3, <1>6, <2>1, PutStep
  <1>7. CASE Starts("net", <<y, z>>)
    <2>1. /\ <<y, z>> \in Seq(Items) /\ <<y, z>> # <<>> /\ <<y, z>>[1] = y /\ Fits(<<y, z>>)
          /\ \A i \in 2..Len(<<y, z>>) : <<y, z>>[i].arg = {}
      BY <1>2, <1>3, TwoNew
    <2>2. QED
      BY <1>1, <1>3, <1>7, <2>1, PutStep
  <1>8. QED
    BY <1>4, <1>5, <1>6, <1>7

LEMMA RefusedFirstBindStep == ASSUME IndInv, RefusedFirstBind PROVE IndInv'
  <1>1. NumbersFit' /\ NoneRevived /\ UNCHANGED <<sess, made, called, owed>> /\ "net" \in Threads
    BY SameHolders, ThreadsAre DEF RefusedFirstBind, IndInv, NumbersFit
  <1>2. Head1("net", "refused") /\ "refused" \notin Calling
    BY DEF RefusedFirstBind, Calling
  <1>3. CASE Then("net", <<>>)
    BY <1>1, <1>2, <1>3, PopStep
  <1>4. CASE handle.strong /\ Then("net", <<Item("logOut", handle.s)>>)
    <2> DEFINE x == Item("logOut", handle.s)
    <2>1. handle.s \in 0..MaxSessions /\ handle.s <= made' /\ handle.s # 0 /\ Alive(handle.s)
      BY <1>1, <1>4 DEF IndInv, NumbersFit, Alive
    <2>2. RefersTo(x, made') /\ x.s = handle.s /\ x.arg = {}
      BY <2>1, ItemFits DEF Global, Local
    <2>3. Then("net", <<x>>)
      BY <1>4
    <2> HIDE DEF x
    <2>4. QED
      BY <1>1, <1>2, <2>1, <2>2, <2>3, PushStep
  <1>5. QED
    BY <1>3, <1>4 DEF RefusedFirstBind

LEMMA TokenMalformedStep == ASSUME IndInv, TokenMalformed PROVE IndInv'
  <1>1. NumbersFit' /\ NoneRevived
    BY DEF TokenMalformed, NoHandle, IndInv, NumbersFit, NoneRevived, Referenced, Alive
  <1>2. QED
    BY <1>1, AsideStep DEF TokenMalformed

LEMMA DropHandleStep == ASSUME IndInv, NEW t \in Threads, DropHandle(t) PROVE IndInv'
  <1>1. NumbersFit' /\ NoneRevived
    BY DEF DropHandle, NoHandle, IndInv, NumbersFit, NoneRevived, Referenced, Alive
  <1>2. QED
    BY <1>1, PopStep DEF DropHandle, Calling

LEMMA TimerFiredStep == ASSUME IndInv, TimerFired PROVE IndInv'
  <1>1. NumbersFit' /\ NoneRevived
    BY HandleChanged DEF TimerFired, IndInv, NumbersFit
  <1>2. QED
    BY <1>1, AsideStep DEF TimerFired

-----------------------------------------------------------------------------
(* The invariant                                                           *)

LEMMA InitIsFit == Init => IndInv
  <1> SUFFICES ASSUME Init PROVE IndInv
    OBVIOUS
  <1>1. NumbersFit
    <2>1. made = 0 /\ 0 \in 0..MaxSessions /\ 0 \in 0..made /\ 0 \in 0..MaxCommits
      BY DEF Init
    <2>2. user \in [st : {"active", "loggedOut", "error"}, mine : 0..made, wait : 0..made]
      BY <2>1 DEF Init
    <2>3. /\ handle \in [s : 0..made, phase : {"none", "asking", "timer"}, strong : BOOLEAN]
          /\ handle.strong => handle.s # 0
      BY <2>1 DEF Init, NoHandle
    <2>4. QED
      BY <2>1, <2>2, <2>3 DEF Init, NumbersFit
  <1>2. TodoFits
    BY DEF Init, TodoFits, Of
  <1>3. SessionsFit
    <2>1. \A s \in Sess : sess[s] = Fresh
      BY DEF Init
    <2>2. sess \in [Sess -> Session]
      BY FreshIsGood DEF Init, Good
    <2>3. QED
      BY <2>1, <2>2, FreshIsGood DEF SessionsFit
  <1>4. Apart
    <2>1. \A s \in Sess : sess[s].queue = {} /\ sess[s].given = {}
      BY DEF Init, Fresh
    <2>2. \A t \in Threads : Pending(t) = {}
      BY DEF Init, Pending, Idle
    <2>3. Called = {} /\ owed = {} /\ \A h \in Handlers : called[h] <= 1
      BY DEF Init, Called
    <2>4. QED
      BY <2>1, <2>2, <2>3 DEF Apart, Kept
  <1>5. QED
    BY <1>1, <1>2, <1>3, <1>4 DEF IndInv

LEMMA UnchangedIsFit == ASSUME IndInv, UNCHANGED vars PROVE IndInv'
  <1>1. NumbersFit' /\ NoneRevived
    BY SameHolders DEF vars, IndInv, NumbersFit
  <1>2. QED
    BY <1>1, AsideStep DEF vars

LEMMA ContinueStep == ASSUME IndInv, NEW t \in Threads, Continue(t) PROVE IndInv'
  <1>1. CASE UnlockSessions(t) \/ UnregisterSession(t) \/ ReleaseTest(t) \/ (t \in Apps /\ Reference(t))
    BY <1>1, UnlockStep, UnregisterStep, ReleaseTestStep, ReferenceStep
  <1>2. CASE DidDropReference(t) \/ ReviveIfNeeded(t) \/ LogOutSession(t) \/ CallCancelled(t)
    BY <1>2, DidDropReferenceStep, ReviveIfNeededStep, LogOutSessionStep, CallCancelledStep
  <1>3. CASE RegisterSession(t) \/ FinishLogOut(t) \/ Invalidate(t)
    BY <1>3, RegisterSessionStep, FinishLogOutStep, InvalidateStep
  <1>4. CASE BindSession(t) \/ DropHandle(t) \/ RefusedFirstBind \/ LogOutByHandle
    BY <1>4, BindSessionStep, DropHandleStep, RefusedFirstBindStep, LogOutByHandleStep
  <1>5. CASE TokenExpired \/ CancelPendingWaits \/ PermissionDenied
    BY <1>5, TokenExpiredStep, CancelPendingWaitsStep, PermissionDeniedStep
  <1>6. QED
    BY <1>1, <1>2, <1>3, <1>4, <1>5 DEF Continue

LEMMA NextIsFit == IndInv /\ [Next]_vars => IndInv'
  <1> SUFFICES ASSUME IndInv, [Next]_vars PROVE IndInv'
    OBVIOUS
  <1>1. CASE UNCHANGED vars
    BY <1>1, UnchangedIsFit
  <1>2. CASE \E t \in Threads : Continue(t)
    BY <1>2, ContinueStep
  <1>3. CASE \E a \in Apps : \/ GetSession(a) \/ DropReference(a) \/ Commit(a)
                             \/ \E h \in Handlers : WaitForCompletion(a, h)
    BY <1>3, GetSessionStep, DropReferenceStep, CommitStep, WaitForCompletionStep
  <1>4. CASE Reconnect \/ LogOutUser \/ LogInUser
    BY <1>4, ReconnectStep, LogOutUserStep, LogInUserStep
  <1>5. CASE \E s \in Sess : \/ \E u \in sess[s].uploads : UploadAnswered(s, u)
                             \/ \E k \in ErrorKinds : HandleError(s, k)
    BY <1>5, UploadAnsweredStep, HandleErrorStep
  <1>6. CASE \E h \in Handlers : HandlerAnswered(h)
    BY <1>6, HandlerAnsweredStep
  <1>7. CASE (\E b \in BOOLEAN : TokenAnswered(b) \/ TokenRefused(b)) \/ TokenUnreachable \/ TokenMalformed \/ TimerFired
    BY <1>7, TokenAnsweredStep, TokenRefusedStep, TokenUnreachableStep, TokenMalformedStep, TimerFiredStep
  <1>8. QED
    BY <1>1, <1>2, <1>3, <1>4, <1>5, <1>6, <1>7 DEF Next

\* Whatever threads, handlers, stop policy and bounds: sessions, todo and the places of
\* the handlers stay as the inductive invariant says.
THEOREM Invariance == Spec => []IndInv
  <1>1. QED
    BY InitIsFit, NextIsFit, PTL DEF Spec

-----------------------------------------------------------------------------
(* What follows                                                            *)

\* The state has its type in every behaviour: nothing the threads do in between makes
\* the tables of the manager, the user or the handle name a session that was not made.
THEOREM TypeCorrect == Spec => []TypeOK
  <1>1. IndInv => TypeOK
    <2> SUFFICES ASSUME IndInv PROVE TypeOK
      OBVIOUS
    <2>1. made \in 0..MaxSessions /\ 0..made \subseteq 0..MaxSessions
      BY DEF IndInv, NumbersFit
    <2>2. refs \in [Apps -> 0..MaxSessions] /\ tmp \in [Threads -> 0..MaxSessions] /\ reg \in 0..MaxSessions
      BY <2>1 DEF IndInv, NumbersFit
    <2>3. /\ user \in [st : {"active", "loggedOut", "error"}, mine : 0..MaxSessions, wait : 0..MaxSessions]
          /\ handle \in [s : 0..MaxSessions, phase : {"none", "asking", "timer"}, strong : BOOLEAN]
      BY <2>1 DEF IndInv, NumbersFit
    <2>4. sess \in [Sess -> Session]
      BY DEF IndInv, SessionsFit
    <2>5. QED
      BY <2>1, <2>2, <2>3, <2>4 DEF IndInv, NumbersFit, TypeOK, Session
  <1>2. QED
    BY <1>1, Invariance, PTL

\* A session that dies can still end, no completion handler is called twice, and an
\* active session holds nothing back: for any stop policy, whichever of the token, an
\* error, a log out and the answers of the event loop come first.
THEOREM SessionIsSafe == Spec => []SessionSafe
  <1>1. IndInv => SessionSafe
    <2> SUFFICES ASSUME IndInv PROVE SessionSafe
      OBVIOUS
    <2>1. DyingIsWatched
      BY DEF IndInv, SessionsFit, Watched, DyingIsWatched
    <2>2. HandlerCalledOnce
      BY DEF IndInv, Apart, HandlerCalledOnce
    <2>3. ActiveHoldsNothingBack
      BY DEF IndInv, SessionsFit, Good, ActiveHoldsNothingBack
    <2>4. QED
      BY <2>1, <2>2, <2>3 DEF SessionSafe
  <1>2. QED
    BY <1>1, Invariance, PTL

\* A dying session that ends on the answer of an upload wait had everything uploaded
\* that was committed before it began to die, however often it died and was revived.
THEOREM DeathIsUploaded == Spec => UploadedBeforeDeath
  <1> DEFINE A(s, u) == (UploadAnswered(s, u) /\ sess[s].st = "dying" /\ sess'[s].st = "inactive")
                           => u.v = sess[s].diedAt
  <1>1. ASSUME IndInv, NEW s \in Sess, NEW u \in sess[s].uploads PROVE A(s, u)
    <2> DEFINE r == [sess[s] EXCEPT !.uploads = @ \ {u}]
    <2> SUFFICES ASSUME UploadAnswered(s, u), sess[s].st = "dying", sess'[s].st = "inactive"
                 PROVE  u.v = sess[s].diedAt
      OBVIOUS
    <2>1. sess \in [Sess -> Session] /\ Good(sess[s])
      BY <1>1 DEF IndInv, SessionsFit
    <2>2. r.st = sess[s].st /\ r.death = sess[s].death
      BY <2>1 DEF Good, Session
    <2>3. CASE Alive(s) /\ r.st = "dying" /\ r.death = u.death
      BY <2>1, <2>2, <2>3 DEF Good
    <2>4. CASE ~(Alive(s) /\ r.st = "dying" /\ r.death = u.death)
      <3>1. sess' = [sess EXCEPT ![s] = r]
        BY <2>4 DEF UploadAnswered, SetSession
      <3>2. QED
        BY <2>1, <2>2, <3>1
    <2>5. QED
      BY <2>3, <2>4
  <1>2. IndInv => [\A s \in Sess : \A u \in sess[s].uploads : A(s, u)]_vars
    BY <1>1
  <1>3. QED
    BY <1>2, Invariance, PTL DEF UploadedBeforeDeath

=============================================================================
