---------------------------- MODULE SyncSession ----------------------------
(***************************************************************************)
(* The life of the sync sessions of one Realm file: SyncSession and its    *)
(* four states (ObjectStore/src/sync/sync_session.cpp), the user that owns *)
(* them (sync_user.cpp), the manager's table of sessions (sync_manager.cpp) *)
(* and the binding's token refresh handle (RLMSyncSessionRefreshHandle.mm).*)
(*                                                                         *)
(* A session's state mutex is never held while another mutex is taken, so  *)
(* a critical section of it is one step here.  The mutexes of the user and *)
(* of the manager are held across calls: they are the variables userM and  *)
(* sessM.  What a thread still has to do after it released the state mutex *)
(* is the sequence todo[t]; every other thread may run between two of its  *)
(* items.                                                                  *)
(***************************************************************************)
EXTENDS Integers, Sequences, FiniteSets

CONSTANTS Apps,        \* threads that open and close the Realm
          Handlers,    \* completion handlers the application registers
          Policy,      \* SyncConfig::stop_policy
          MaxSessions, \* bound: SyncSession objects ever created
          MaxOpens,    \* bound: openings of the Realm
          MaxCommits,  \* bound: commits
          MaxEvents    \* bound: log outs, log ins, errors of the sync client, refused or
                       \* failed token requests and reconnections, together

Policies == {"Immediately", "LiveIndefinitely", "AfterChangesUploaded"}

ASSUME SyncSessionAssumption ==
    /\ Policy \in Policies
    /\ Apps \cap {"auth", "client", "net", "reach", "main"} = {}
    /\ {MaxSessions, MaxOpens, MaxCommits, MaxEvents} \subseteq Nat

VARIABLES sess,   \* [1..MaxSessions -> the fields of a SyncSession]
          made,   \* number of SyncSession objects created so far
          reg,    \* SyncManager::m_sessions[path], 0 when there is no entry
          refs,   \* the session each app thread holds an external reference to
          tmp,    \* the reference a thread holds for the time of one test
          user,   \* the SyncUser: its state and its two tables of sessions
          handle, \* the refresh handle registered for the path
          userM, sessM,  \* owners of SyncUser::m_mutex, SyncManager::m_session_mutex
          todo,   \* what each thread still has to do
          ver,    \* version of the Realm file: number of local commits
          called, \* how often each completion handler was called
          owed,   \* handlers of a destroyed sync::Session, still to be called
          failed, \* a REALM_ASSERT did not hold
          opens, events  \* openings and events so far, for the bounds

vars == <<sess, made, reg, refs, tmp, user, handle, userM, sessM, todo, ver,
          called, owed, failed, opens, events>>

Sess == 1..MaxSessions
Threads == Apps \cup {"auth", "client", "net", "reach", "main"}
Nobody == "nobody"

States == {"inactive", "waiting", "active", "dying"}
ErrorKinds == {"token_expired", "bad_authentication", "permission_denied", "fatal"}

\* m_state, m_session (raw), m_deferred_close, m_deferred_commit_notification,
\* m_death_count, m_completion_wait_packages (queue), the handlers given to the
\* sync::Session (given), and the upload waits it was given by dying states: the
\* death they belong to and the version they cover.  diedAt is history: the file's
\* version when the session last began to die.
Fresh == [st |-> "inactive", raw |-> FALSE, close |-> FALSE, commit |-> FALSE,
          death |-> 0, diedAt |-> 0, queue |-> {}, given |-> {}, uploads |-> {}]

NoHandle == [s |-> 0, phase |-> "none", strong |-> FALSE]

Referenced(s) == (\E a \in Apps : refs[a] = s) \/ (\E t \in Threads : tmp[t] = s)

Alive(s) == /\ s # 0
            /\ \/ reg = s \/ Referenced(s)
               \/ handle.strong /\ handle.s = s
               \/ \E t \in Threads : \E i \in 1..Len(todo[t]) : todo[t][i].s = s

Item(op, s) == [op |-> op, s |-> s, arg |-> {}]

-----------------------------------------------------------------------------
(* The states.  Each operator gives the session's fields after the call.   *)

\* Inactive::enter_state, up to the release of the lock.
IntoInactive(r) == [r EXCEPT !.st = "inactive", !.raw = FALSE, !.queue = {}, !.given = {}]

\* What follows the release: unregistering, then calling the cancelled handlers.
AfterInactive(s, r) == <<[op |-> "unregister", s |-> s, arg |-> r.queue]>>

\* Mutant: the death count goes the wrong way
IntoDyingCountsDown(r) == [r EXCEPT !.st = "dying", !.death = @ - 1, !.diedAt = ver,
                                    !.uploads = @ \cup {[death |-> 0, v |-> ver]}]

\* Mutant: only the first death asks to be told of the upload
IntoDyingAsksOnce(r) == [r EXCEPT !.st = "dying", !.death = @ + 1, !.diedAt = ver,
                                  !.uploads = IF r.death = 0 THEN {[death |-> 1, v |-> ver]} ELSE @]

\* Dying::enter_state when there is a sync::Session.
IntoDying(r) == [r EXCEPT !.st = "dying", !.death = @ + 1, !.diedAt = ver,
                          !.uploads = @ \cup {[death |-> r.death + 1, v |-> ver]}]

IntoWaiting(r) == [r EXCEPT !.st = "waiting", !.close = FALSE]

\* State::close: the state after it; every state it can lead to but inactive.
Closed(r) ==
    CASE r.st = "waiting" /\ Policy # "Immediately"        -> [r EXCEPT !.close = TRUE]
      [] r.st = "active" /\ Policy = "AfterChangesUploaded" -> IntoDying(r)
      [] OTHER -> r

ClosesAtOnce(r) == r.st \in {"waiting", "active"} /\ Policy = "Immediately"

\* WaitingForAccessToken::refresh_access_token; the session may be closed at once.
Refreshed(r) ==
    LET bound == [r EXCEPT !.raw = TRUE, !.given = @ \cup r.queue, !.queue = {},
                           !.commit = FALSE, !.st = "active"]
    IN IF r.close THEN Closed(bound) ELSE bound

-----------------------------------------------------------------------------

\* The types of the sessions, the user, the refresh handle and the lock holders.
TypeOK ==
    /\ sess \in [Sess -> [st : States, raw : BOOLEAN, close : BOOLEAN, commit : BOOLEAN,
                          death : Nat, diedAt : Nat, queue : SUBSET Handlers, given : SUBSET Handlers,
                          uploads : SUBSET [death : Nat, v : Nat]]]
    /\ made \in 0..MaxSessions /\ reg \in 0..MaxSessions
    /\ refs \in [Apps -> 0..MaxSessions] /\ tmp \in [Threads -> 0..MaxSessions]
    /\ user \in [st : {"active", "loggedOut", "error"}, mine : 0..MaxSessions, wait : 0..MaxSessions]
    /\ handle \in [s : 0..MaxSessions, phase : {"none", "asking", "timer"}, strong : BOOLEAN]
    /\ userM \in Threads \cup {Nobody} /\ sessM \in Threads \cup {Nobody}
    /\ ver \in 0..MaxCommits /\ called \in [Handlers -> Nat]
    /\ owed \subseteq Handlers /\ failed \in BOOLEAN

Init ==
    /\ sess = [s \in Sess |-> Fresh] /\ made = 0 /\ reg = 0
    /\ refs = [a \in Apps |-> 0] /\ tmp = [t \in Threads |-> 0]
    /\ user = [st |-> "active", mine |-> 0, wait |-> 0]
    /\ handle = NoHandle /\ userM = Nobody /\ sessM = Nobody
    /\ todo = [t \in Threads |-> <<>>]
    /\ ver = 0 /\ called = [h \in Handlers |-> 0] /\ owed = {} /\ failed = FALSE
    /\ opens = 0 /\ events = 0

Idle(t) == todo[t] = <<>>
Head1(t, op) == ~Idle(t) /\ todo[t][1].op = op
Subject(t) == todo[t][1].s
Then(t, more) == todo' = [todo EXCEPT ![t] = more \o Tail(@)]
Starts(t, items) == Idle(t) /\ todo' = [todo EXCEPT ![t] = items]
Event == events < MaxEvents /\ events' = events + 1 /\ opens' = opens
CallAll(hs) == called' = [h \in Handlers |-> called[h] + IF h \in hs THEN 1 ELSE 0]
SetSession(s, r) == sess' = [sess EXCEPT ![s] = r]

\* Moves s to inactive under its lock; the sync::Session it destroys will call
\* the handlers it was given with an error.
Deactivate(s) == /\ SetSession(s, IntoInactive(sess[s]))
                 /\ owed' = owed \cup sess[s].given

-----------------------------------------------------------------------------
(* SyncManager                                                             *)

\* get_session up to register_session: the manager's mutex stays held.
GetSession(a) ==
    /\ refs[a] = 0 /\ sessM = Nobody /\ opens < MaxOpens /\ opens' = opens + 1 /\ events' = events
    /\ sessM' = a
    /\ IF reg # 0
       THEN /\ Starts(a, <<Item("register", reg), Item("reference", reg)>>)
            /\ UNCHANGED <<made, reg, refs>>
       ELSE /\ made < MaxSessions
            /\ made' = made + 1 /\ reg' = made + 1
            /\ refs' = [refs EXCEPT ![a] = made + 1]
            /\ Starts(a, <<Item("register", made + 1), Item("unlock", made + 1)>>)
    /\ UNCHANGED <<sess, tmp, user, handle, userM, ver, called, owed, failed>>

\* external_reference() of a session that was already in the table, and return.
Reference(a) ==
    /\ Head1(a, "reference")
    /\ refs' = [refs EXCEPT ![a] = Subject(a)] /\ sessM' = Nobody
    /\ Then(a, <<>>)
    /\ UNCHANGED <<sess, made, reg, tmp, user, handle, userM, ver, called, owed, failed, opens, events>>

UnlockSessions(t) ==
    /\ Head1(t, "unlock")
    /\ sessM' = Nobody /\ Then(t, <<>>)
    /\ UNCHANGED <<sess, made, reg, refs, tmp, user, handle, userM, ver, called, owed, failed, opens, events>>

\* unregister_session: the entry stays while an external reference exists, and
\* the test for one holds such a reference itself.
UnregisterSession(t) ==
    /\ Head1(t, "unregister") /\ sessM = Nobody
    /\ IF reg = 0
       THEN failed' = TRUE /\ Then(t, <<>>) /\ UNCHANGED <<reg, tmp, sessM>>
       ELSE /\ UNCHANGED failed
            /\ IF Referenced(reg)
               THEN /\ tmp' = [tmp EXCEPT ![t] = reg] /\ sessM' = t
                    /\ Then(t, <<Item("release", reg), Item("unlock", reg)>>)
                    /\ UNCHANGED reg
               ELSE reg' = 0 /\ Then(t, <<>>) /\ UNCHANGED <<tmp, sessM>>
    /\ CallAll(todo[t][1].arg)
    /\ UNCHANGED <<sess, made, refs, user, handle, userM, ver, owed, opens, events>>

\* The reference taken for the test goes away; it may have become the last one.
ReleaseTest(t) ==
    /\ Head1(t, "release")
    /\ tmp' = [tmp EXCEPT ![t] = 0]
    /\ Then(t, IF \E a \in Apps : refs[a] = Subject(t) \/ \E u \in Threads \ {t} : tmp[u] = Subject(t)
               THEN <<>> ELSE <<Item("dropped", Subject(t))>>)
    /\ UNCHANGED <<sess, made, reg, refs, user, handle, userM, sessM, ver, called, owed, failed, opens, events>>

\* reconnect() asks every registered session, holding the manager's mutex.
Reconnect ==
    /\ sessM = Nobody /\ reg # 0 /\ Event
    /\ IF sess[reg].st = "waiting"
       THEN Starts("reach", <<Item("bind", reg), Item("unlock", reg)>>) /\ sessM' = "reach"
       ELSE Idle("reach") /\ UNCHANGED <<todo, sessM>>
    /\ UNCHANGED <<sess, made, reg, refs, tmp, user, handle, userM, ver, called, owed, failed>>

-----------------------------------------------------------------------------
(* SyncSession, called by the application                                  *)

\* The last owner of the external reference runs its destructor.
DropReference(a) ==
    /\ refs[a] # 0 /\ Idle(a)
    /\ refs' = [refs EXCEPT ![a] = 0]
    /\ IF (\E b \in Apps \ {a} : refs[b] = refs[a]) \/ (\E t \in Threads : tmp[t] = refs[a])
       THEN UNCHANGED todo
       ELSE Starts(a, <<Item("dropped", refs[a])>>)
    /\ UNCHANGED <<sess, made, reg, tmp, user, handle, userM, sessM, ver, called, owed, failed, opens, events>>

\* did_drop_external_reference
DidDropReference(t) ==
    LET s == Subject(t) IN
    /\ Head1(t, "dropped")
    /\ IF Referenced(s)
       THEN Then(t, <<>>) /\ UNCHANGED <<sess, owed>>
       ELSE IF ClosesAtOnce(sess[s])
            THEN Deactivate(s) /\ Then(t, AfterInactive(s, sess[s]))
            ELSE SetSession(s, Closed(sess[s])) /\ Then(t, <<>>) /\ UNCHANGED owed
    /\ UNCHANGED <<made, reg, refs, tmp, user, handle, userM, sessM, ver, called, failed, opens, events>>

\* A commit on the open Realm, and nonsync_transact_notify.
Commit(a) ==
    LET s == refs[a] IN
    /\ s # 0 /\ Idle(a) /\ ver < MaxCommits
    /\ ver' = ver + 1
    /\ sess' = IF sess[s].st = "waiting" THEN [sess EXCEPT ![s].commit = TRUE] ELSE sess
    /\ UNCHANGED <<made, reg, refs, tmp, user, handle, userM, sessM, todo, called, owed, failed, opens, events>>

Registered(h) == called[h] > 0 \/ h \in owed \/ (\E s \in Sess : h \in sess[s].queue \cup sess[s].given)
                 \/ \E t \in Threads : \E i \in 1..Len(todo[t]) : h \in todo[t][i].arg

\* wait_for_upload_completion, wait_for_download_completion
WaitForCompletion(a, h) ==
    LET s == refs[a] IN
    /\ s # 0 /\ Idle(a) /\ ~Registered(h)
    /\ sess' = IF sess[s].st \in {"waiting", "inactive"}
               THEN [sess EXCEPT ![s].queue = @ \cup {h}]
               ELSE [sess EXCEPT ![s].given = @ \cup {h}]
    /\ UNCHANGED <<made, reg, refs, tmp, user, handle, userM, sessM, todo, ver, called, owed, failed, opens, events>>

ReviveIfNeeded(t) ==
    LET s == Subject(t) r == sess[s] IN
    /\ Head1(t, "revive")
    /\ SetSession(s, CASE r.st = "inactive" -> IntoWaiting(r)
                       [] r.st = "dying"    -> [r EXCEPT !.st = "active"]
                       [] r.st = "waiting"  -> [r EXCEPT !.close = FALSE]
                       [] OTHER -> r)
    /\ Then(t, IF r.st = "inactive" THEN <<Item("bind", s)>> ELSE <<>>)
    /\ UNCHANGED <<made, reg, refs, tmp, user, handle, userM, sessM, ver, called, owed, failed, opens, events>>

\* SyncSession::log_out
LogOutSession(t) ==
    LET s == Subject(t) IN
    /\ Head1(t, "logOut")
    /\ IF sess[s].st = "inactive"
       THEN Then(t, <<>>) /\ UNCHANGED <<sess, owed>>
       ELSE Deactivate(s) /\ Then(t, AfterInactive(s, sess[s]))
    /\ UNCHANGED <<made, reg, refs, tmp, user, handle, userM, sessM, ver, called, failed, opens, events>>

\* Handlers taken out of the queue are called once the lock is released.
CallCancelled(t) ==
    /\ Head1(t, "cancel")
    /\ CallAll(todo[t][1].arg) /\ Then(t, <<>>)
    /\ UNCHANGED <<sess, made, reg, refs, tmp, user, handle, userM, sessM, ver, owed, failed, opens, events>>

-----------------------------------------------------------------------------
(* SyncUser                                                                *)

RegisterSession(t) ==
    LET s == Subject(t) IN
    /\ Head1(t, "register") /\ userM = Nobody
    /\ CASE user.st = "active"    -> user' = [user EXCEPT !.mine = s] /\ Then(t, <<Item("revive", s)>>)
         [] user.st = "loggedOut" -> user' = [user EXCEPT !.wait = s] /\ Then(t, <<>>)
         [] OTHER -> UNCHANGED user /\ Then(t, <<>>)
    /\ UNCHANGED <<sess, made, reg, refs, tmp, handle, userM, sessM, ver, called, owed, failed, opens, events>>

\* log_out: the session is logged out while the user's mutex is held.  The
\* binding drops its handles afterwards.
LogOutItems == IF Alive(user.mine)
               THEN <<Item("logOut", user.mine), Item("loggedOut", user.mine), Item("dropHandle", 0)>>
               ELSE <<Item("loggedOut", 0), Item("dropHandle", 0)>>

LogOutUser ==
    /\ user.st # "loggedOut" /\ userM = Nobody /\ Event
    /\ userM' = "auth" /\ user' = [user EXCEPT !.st = "loggedOut"]
    /\ Starts("auth", LogOutItems)
    /\ UNCHANGED <<sess, made, reg, refs, tmp, handle, sessM, ver, called, owed, failed>>

\* The same, from the handle that reports an invalid token to the application.
LogOutByHandle ==
    /\ Head1("net", "logOutUser")
    /\ IF user.st = "loggedOut"
       THEN Then("net", <<Item("dropHandle", 0)>>) /\ UNCHANGED <<user, userM>>
       ELSE /\ userM = Nobody /\ userM' = "net" /\ user' = [user EXCEPT !.st = "loggedOut"]
            /\ Then("net", LogOutItems)
    /\ UNCHANGED <<sess, made, reg, refs, tmp, handle, sessM, ver, called, owed, failed, opens, events>>

FinishLogOut(t) ==
    /\ Head1(t, "loggedOut")
    /\ user' = [user EXCEPT !.mine = 0, !.wait = IF Subject(t) # 0 THEN Subject(t) ELSE @]
    /\ userM' = Nobody /\ Then(t, <<>>)
    /\ UNCHANGED <<sess, made, reg, refs, tmp, handle, sessM, ver, called, owed, failed, opens, events>>

\* update_refresh_token of a user that is logged out: it logs in again.
LogInUser ==
    /\ user.st = "loggedOut" /\ userM = Nobody /\ Event
    /\ IF Alive(user.wait)
       THEN /\ user' = [st |-> "active", mine |-> user.wait, wait |-> 0]
            /\ Starts("auth", <<Item("revive", user.wait)>>)
       ELSE /\ user' = [user EXCEPT !.st = "active", !.wait = 0]
            /\ Idle("auth") /\ UNCHANGED todo
    /\ UNCHANGED <<sess, made, reg, refs, tmp, handle, userM, sessM, ver, called, owed, failed>>

Invalidate(t) ==
    /\ Head1(t, "invalidate") /\ userM = Nobody
    /\ user' = [user EXCEPT !.st = "error"] /\ Then(t, <<>>)
    /\ UNCHANGED <<sess, made, reg, refs, tmp, handle, userM, sessM, ver, called, owed, failed, opens, events>>

-----------------------------------------------------------------------------
(* The sync client's event loop                                            *)

\* Mutant: the answer does not compare the death it belongs to
UploadAnsweredAnyDeath(s, u) ==
    /\ u \in sess[s].uploads
    /\ LET r == [sess[s] EXCEPT !.uploads = @ \ {u}] IN
       IF Alive(s) /\ r.st = "dying"
       THEN /\ SetSession(s, IntoInactive(r)) /\ owed' = owed \cup r.given
            /\ Starts("client", AfterInactive(s, r))
       ELSE SetSession(s, r) /\ Idle("client") /\ UNCHANGED <<owed, todo>>
    /\ UNCHANGED <<made, reg, refs, tmp, user, handle, userM, sessM, ver, called, failed, opens, events>>

\* An upload wait of a dying state is answered, with success or because its
\* sync::Session is gone.
UploadAnswered(s, u) ==
    /\ u \in sess[s].uploads
    /\ LET r == [sess[s] EXCEPT !.uploads = @ \ {u}] IN
       IF Alive(s) /\ r.st = "dying" /\ r.death = u.death
       THEN /\ SetSession(s, IntoInactive(r)) /\ owed' = owed \cup r.given
            /\ Starts("client", AfterInactive(s, r))
       ELSE SetSession(s, r) /\ Idle("client") /\ UNCHANGED <<owed, todo>>
    /\ UNCHANGED <<made, reg, refs, tmp, user, handle, userM, sessM, ver, called, failed, opens, events>>

\* A completion handler is called: its wait ended, or it was aborted.
HandlerAnswered(h) ==
    /\ Idle("client")
    /\ h \in owed \/ \E s \in Sess : h \in sess[s].given
    /\ owed' = owed \ {h}
    /\ sess' = [s \in Sess |-> [sess[s] EXCEPT !.given = @ \ {h}]]
    /\ called' = [called EXCEPT ![h] = @ + 1]
    /\ UNCHANGED <<made, reg, refs, tmp, user, handle, userM, sessM, todo, ver, failed, opens, events>>

\* handle_error, first half: the dying state handles errors itself.
HandleError(s, k) ==
    LET r == sess[s] IN
    /\ r.raw /\ Alive(s) /\ Event
    /\ IF r.st = "dying"
       THEN IF k = "token_expired"
            THEN Idle("client") /\ UNCHANGED <<sess, owed, todo>>
            ELSE Deactivate(s) /\ Starts("client", AfterInactive(s, r))
       ELSE Starts("client", <<Item(k, s)>>) /\ UNCHANGED <<sess, owed>>
    /\ UNCHANGED <<made, reg, refs, tmp, user, handle, userM, sessM, ver, called, failed>>

\* handle_error, second half, after the lock was released once.
TokenExpired ==
    LET s == Subject("client") IN
    /\ Head1("client", "token_expired")
    /\ IF sess[s].st = "active"
       THEN SetSession(s, IntoWaiting(sess[s])) /\ Then("client", <<Item("bind", s)>>)
       ELSE Then("client", <<>>) /\ UNCHANGED sess
    /\ UNCHANGED <<made, reg, refs, tmp, user, handle, userM, sessM, ver, called, owed, failed, opens, events>>

CancelPendingWaits ==
    LET s == Subject("client") IN
    /\ Head1("client", "fatal") \/ Head1("client", "bad_authentication")
    /\ SetSession(s, [sess[s] EXCEPT !.queue = {}])
    /\ Then("client", <<[op |-> "cancel", s |-> s, arg |-> sess[s].queue]>>
                      \o IF Head1("client", "fatal") THEN <<>> ELSE <<Item("invalidate", 0)>>)
    /\ UNCHANGED <<made, reg, refs, tmp, user, handle, userM, sessM, ver, called, owed, failed, opens, events>>

PermissionDenied ==
    LET s == Subject("client") IN
    /\ Head1("client", "permission_denied")
    /\ IF sess[s].st = "inactive"
       THEN failed' = TRUE /\ Then("client", <<>>) /\ UNCHANGED <<sess, owed>>
       ELSE Deactivate(s) /\ Then("client", AfterInactive(s, sess[s])) /\ UNCHANGED failed
    /\ UNCHANGED <<made, reg, refs, tmp, user, handle, userM, sessM, ver, called, opens, events>>

-----------------------------------------------------------------------------
(* The binding's refresh handle                                            *)

\* bind_session_handler: a new handle replaces the registered one, whose answer
\* is dropped with it, and asks for a token.
BindSession(t) ==
    /\ Head1(t, "bind") /\ userM = Nobody
    /\ handle' = [s |-> Subject(t), phase |-> "asking", strong |-> TRUE]
    /\ Then(t, <<>>)
    /\ UNCHANGED <<sess, made, reg, refs, tmp, user, userM, sessM, ver, called, owed, failed, opens, events>>

Asking == handle.phase = "asking" /\ Idle("net")

\* _handleSuccessfulRequest: the token reaches the session, if it still lives.  The
\* main queue schedules the next refresh, or, of a token about to expire, drops the
\* handle that is registered when it comes to it.
TokenAnswered(next) ==
    LET s == handle.s IN
    /\ Asking
    /\ IF Alive(s)
       THEN /\ sess' = IF sess[s].st = "waiting" THEN [sess EXCEPT ![s] = Refreshed(@)] ELSE sess
            /\ handle' = [handle EXCEPT !.phase = IF next THEN "timer" ELSE "none", !.strong = FALSE]
            /\ IF next THEN UNCHANGED todo ELSE Starts("main", <<Item("dropHandle", 0)>>)
       ELSE handle' = NoHandle /\ UNCHANGED <<sess, todo>>
    /\ UNCHANGED <<made, reg, refs, tmp, user, userM, sessM, ver, called, owed, failed, opens, events>>

\* _handleFailedRequest on a network failure: try again later.
TokenUnreachable ==
    /\ Asking /\ Event
    /\ handle' = [handle EXCEPT !.phase = "timer", !.strong = FALSE]
    /\ UNCHANGED <<sess, made, reg, refs, tmp, user, userM, sessM, todo, ver, called, owed, failed>>

\* _handleFailedRequest on any other error: the user may be logged out by the
\* application's error handler, then the session of a first bind is.
TokenRefused(reported) ==
    /\ Asking /\ Event
    /\ Starts("net", (IF reported THEN <<Item("logOutUser", 0)>> ELSE <<>>)
                     \o <<Item("refused", 0), Item("dropHandle", 0)>>)
    /\ handle' = [handle EXCEPT !.phase = "none"]
    /\ UNCHANGED <<sess, made, reg, refs, tmp, user, userM, sessM, ver, called, owed, failed>>

\* A handle that was replaced meanwhile was invalidated, and holds no session.
RefusedFirstBind ==
    /\ Head1("net", "refused")
    /\ Then("net", IF handle.phase = "none" /\ handle.strong
                   THEN <<Item("logOut", handle.s)>> ELSE <<>>)
    /\ UNCHANGED <<sess, made, reg, refs, tmp, user, handle, userM, sessM, ver, called, owed, failed, opens, events>>

\* A reply that does not parse: the handle is dropped and nothing else happens.
TokenMalformed ==
    /\ Asking /\ Event
    /\ handle' = NoHandle
    /\ UNCHANGED <<sess, made, reg, refs, tmp, user, userM, sessM, todo, ver, called, owed, failed>>

\* unregister_refresh_handle and invalidate_all_handles: by path, whichever
\* handle is registered now.
DropHandle(t) ==
    /\ Head1(t, "dropHandle")
    /\ handle' = NoHandle /\ Then(t, <<>>)
    /\ UNCHANGED <<sess, made, reg, refs, tmp, user, userM, sessM, ver, called, owed, failed, opens, events>>

TimerFired ==
    /\ handle.phase = "timer" /\ userM = Nobody
    /\ handle' = [handle EXCEPT !.phase = "asking"]
    /\ UNCHANGED <<sess, made, reg, refs, tmp, user, userM, sessM, todo, ver, called, owed, failed, opens, events>>

-----------------------------------------------------------------------------
Continue(t) ==
    \/ UnlockSessions(t) \/ UnregisterSession(t) \/ ReleaseTest(t) \/ DidDropReference(t)
    \/ ReviveIfNeeded(t) \/ LogOutSession(t) \/ CallCancelled(t) \/ RegisterSession(t)
    \/ FinishLogOut(t) \/ Invalidate(t) \/ BindSession(t) \/ DropHandle(t)
    \/ t \in Apps /\ Reference(t)
    \/ t = "client" /\ (TokenExpired \/ CancelPendingWaits \/ PermissionDenied)
    \/ t = "net" /\ (RefusedFirstBind \/ LogOutByHandle)

Next ==
    /\ ~failed
    /\ \/ \E t \in Threads : Continue(t)
       \/ \E a \in Apps : \/ GetSession(a) \/ DropReference(a) \/ Commit(a)
                          \/ \E h \in Handlers : WaitForCompletion(a, h)
       \/ Reconnect \/ LogOutUser \/ LogInUser
       \/ \E s \in Sess : \/ \E u \in sess[s].uploads : UploadAnswered(s, u)
                          \/ \E k \in ErrorKinds : HandleError(s, k)
       \/ \E h \in Handlers : HandlerAnswered(h)
       \/ \E b \in BOOLEAN : TokenAnswered(b) \/ TokenRefused(b)
       \/ TokenUnreachable \/ TokenMalformed \/ TimerFired

\* Threads that are not blocked run; the event loop answers what it was asked, and
\* the authentication server hands out tokens.
Fairness ==
    /\ \A t \in Threads : WF_vars(Continue(t))
    /\ WF_vars(\E s \in Sess : \E u \in sess[s].uploads : UploadAnswered(s, u))
    /\ \A h \in Handlers : WF_vars(HandlerAnswered(h))
    /\ WF_vars(TokenAnswered(TRUE)) /\ WF_vars(TimerFired)

Spec == Init /\ [][Next]_vars /\ Fairness

-----------------------------------------------------------------------------
(* Properties                                                              *)

\* A dying session always has the upload wait of its present death pending, so
\* it can still end: Dying::enter_state registers one wait per death, and an
\* answer of an earlier death must not use it up.
DyingIsWatched ==
    \A s \in Sess : Alive(s) /\ sess[s].st = "dying" => \E u \in sess[s].uploads : u.death = sess[s].death

\* No completion handler is called twice, whichever of the token, an error, a
\* log out and the event loop come first: it is in one queue at a time.
HandlerCalledOnce == \A h \in Handlers : called[h] <= 1

\* An active session holds nothing back: the handlers and the commit that were
\* queued while it waited for a token have been passed on.
ActiveHoldsNothingBack ==
    \A s \in Sess : sess[s].st = "active" => /\ sess[s].raw /\ sess[s].queue = {} /\ ~sess[s].commit

\* A dying session ends by itself only when the changes made before it began to
\* die are uploaded.  A session may be revived, written to and die again, so the
\* answer of an earlier death must not end it.
UploadedBeforeDeath ==
    [][\A s \in Sess : \A u \in sess[s].uploads :
         (UploadAnswered(s, u) /\ sess[s].st = "dying" /\ sess'[s].st = "inactive")
           => u.v = sess[s].diedAt]_vars

\* A session as a whole: it can end when it dies, calls nobody twice and, once it is
\* active, keeps nothing for itself.
SessionSafe == DyingIsWatched /\ HandlerCalledOnce /\ ActiveHoldsNothingBack

\* log_out: "Log the user out and mark it as such. This will also close its associated
\* Sessions." (sync_user.hpp:92): whoever logs the user out comes to its end, unless an
\* assertion stops the process.
LogOutEnds == \A t \in {"auth", "net"} : (userM = t) ~> (userM # t \/ failed)

=============================================================================
