-------------------------------- MODULE Accounts --------------------------------
(***************************************************************************)
(* Accounts, sessions and onboarding answers: app/routers/auth.py, user.py *)
(* and onboarding.py with the rows they share in users and                 *)
(* onboarding_profiles, and scripts/cleanup_stale_onboarding.py.           *)
(*                                                                         *)
(* A call is one request.  As in Analysis, a step ends at a round trip     *)
(* whose answer another request can invalidate.  An account is named by    *)
(* the call that inserts it.  JWTs are stateless: what the server keeps of *)
(* them is token_version, so a refresh or reset token is its account with  *)
(* the version it was issued at.                                           *)
(***************************************************************************)
EXTENDS Naturals, FiniteSets

CONSTANTS
    Call,               \* the requests that take several round trips
    First,              \* an account that is already there
    Email, Sub, Orid,   \* email addresses, Google subjects, OpenReview ids
    Answer,             \* onboarding rows, the ids that uuid4 will give out
    None

Acct == Call \cup {First}

User == [email : Email, password : BOOLEAN, sub : Sub \cup {None},
         orid : Orid \cup {None}, ver : Nat]

ASSUME AccountConstants ==
    /\ First \notin Call
    /\ None \notin Acct \cup Email \cup Sub \cup Orid \cup Answer \cup User

VARIABLES
    users,              \* the users rows, None where there is none
    owner,              \* user_id column of each onboarding row
    row,                \* whether that row is there, and how old it is
    tokens,             \* refresh and reset tokens ever handed out
    pc,
    arg,                \* what the call was sent, and what it has read
    \* History, read by the properties alone:
    killed,             \* tokens some committed revocation was to end
    raced               \* accounts whose version was written over unseen

vars == <<users, owner, row, tokens, pc, arg, killed, raced>>
answerVars == <<owner, row>>
history == <<killed, raced>>

Token == [kind : {"refresh", "reset"}, acct : Acct, ver : Nat]

Pc == {"idle", "signup", "find", "link", "byEmail", "glink", "ginsert", "issue",
       "logout", "reset", "update", "delete", "upsert", "save",
       "answered", "refused", "failed"}

\* gate: the invitation and the consent that came with the call are good;
\* who: the account loaded; seen: its version then.  orid None means a placeholder
\* "pending:<uuid>", which is different for every account.
Arg == [gate : BOOLEAN, email : Email \cup {None}, sub : Sub \cup {None}, orid : Orid \cup {None},
        answer : Answer \cup {None}, who : Acct \cup {None}, seen : Nat]

NoArg == [gate |-> FALSE, email |-> None, sub |-> None, orid |-> None, answer |-> None,
          who |-> None, seen |-> 0]

TypeOK ==
    /\ users \in [Acct -> User \cup {None}]
    /\ owner \in [Answer -> Acct \cup {None}]
    /\ row \in [Answer -> {"unborn", "new", "old", "gone"}]
    /\ tokens \subseteq Token
    /\ pc \in [Call -> Pc]
    /\ arg \in [Call -> Arg]
    /\ killed \subseteq tokens
    /\ raced \subseteq Acct

Init ==
    /\ \E e \in Email :
          users = [a \in Acct |-> IF a # First THEN None
                                  ELSE [email |-> e, password |-> TRUE, sub |-> None,
                                        orid |-> None, ver |-> 0]]
    /\ owner = [n \in Answer |-> None]
    /\ row = [n \in Answer |-> "unborn"]
    /\ tokens = {}
    /\ pc = [c \in Call |-> "idle"]
    /\ arg = [c \in Call |-> NoArg]
    /\ killed = {}
    /\ raced = {}

--------------------------------------------------------------------------------
There   == {a \in Acct : users[a] # None}
Present == {n \in Answer : row[n] \in {"new", "old"}}
ByEmail(e) == {a \in There : users[a].email = e}
BySub(s)   == {a \in There : users[a].sub = s /\ s # None}
ByOrid(o)  == {a \in There : users[a].orid = o /\ o # None}
AnswersOf(a) == {n \in Present : owner[n] = a}

Goto(c, to) == pc' = [pc EXCEPT ![c] = to]
Issue(kind, a) == tokens' = tokens \cup {[kind |-> kind, acct |-> a, ver |-> users[a].ver]}

\* What POST /refresh and POST /password/reset ask of a token.
Accepted(t) == t.acct \in There /\ t.ver = users[t.acct].ver

\* The three unique columns, as an INSERT meets them.
Taken(e, s, o) == ByEmail(e) \cup BySub(s) \cup ByOrid(o) # {}

NewUser(e, pw, s, o) ==
    [email |-> e, password |-> pw, sub |-> s, orid |-> o, ver |-> 0]

--------------------------------------------------------------------------------
(* POST /signup.                                                           *)

\* _require_invite and _require_consent, then the SELECT by email.
SignupCheck(c, g, e, o, n) ==
    /\ pc[c] = "idle"
    /\ Goto(c, IF g /\ ByEmail(e) = {} THEN "signup" ELSE "refused")
    /\ arg' = [arg EXCEPT ![c] = [NoArg EXCEPT !.gate = g, !.email = e, !.orid = o,
                                               !.answer = n]]
    /\ UNCHANGED <<users, answerVars, tokens, history>>

\* INSERT and COMMIT: an IntegrityError of any unique column is a 409.
Insert(c, pw, next) ==
    LET x == arg[c] IN
    \/ /\ ~Taken(x.email, x.sub, x.orid)
       /\ users' = [users EXCEPT ![c] = NewUser(x.email, pw, x.sub, x.orid)]
       /\ Goto(c, next)
    \/ /\ Taken(x.email, x.sub, x.orid)
       /\ Goto(c, "refused")
       /\ UNCHANGED users

SignupInsert(c) ==
    /\ pc[c] = "signup"
    /\ Insert(c, TRUE, IF arg[c].answer = None THEN "answered" ELSE "find")
    /\ UNCHANGED <<answerVars, tokens, arg, history>>

\* db.refresh of the new row, then db.get of the answers: linked ones and missing
\* ones are passed over.
SignupFind(c) ==
    /\ pc[c] = "find"
    /\ Goto(c, IF c \notin There THEN "failed"
               ELSE IF arg[c].answer \in Present /\ owner[arg[c].answer] = None THEN "link"
               ELSE "answered")
    /\ UNCHANGED <<users, answerVars, tokens, arg, history>>

\* The UPDATE by primary key writes over whatever owner the row has by now.  The row
\* gone (StaleDataError), the account gone (foreign key) or already with answers
\* (unique): a 500, although the account is there.
SignupLink(c) ==
    LET n == arg[c].answer IN
    /\ pc[c] = "link"
    /\ \/ /\ n \in Present
          /\ c \in There
          /\ AnswersOf(c) \subseteq {n}
          /\ owner' = [owner EXCEPT ![n] = c]
          /\ Goto(c, "answered")
       \/ /\ n \notin Present \/ c \notin There \/ ~(AnswersOf(c) \subseteq {n})
          /\ Goto(c, "failed")
          /\ UNCHANGED owner
    /\ UNCHANGED <<users, row, tokens, arg, history>>

--------------------------------------------------------------------------------
(* POST /google.  A token with an unverified email is refused first, and   *)
(* changes nothing.                                                        *)

\* The account with this google_sub, or on to the look-up by email.
GoogleBySub(c, g, s, e, o) ==
    /\ pc[c] = "idle"
    /\ \/ \E a \in BySub(s) : Issue("refresh", a) /\ Goto(c, "answered")
       \/ /\ BySub(s) = {}
          /\ Goto(c, "byEmail")
          /\ UNCHANGED tokens
    /\ arg' = [arg EXCEPT ![c] = [NoArg EXCEPT !.gate = g, !.email = e, !.sub = s, !.orid = o]]
    /\ UNCHANGED <<users, answerVars, history>>

\* Variant: a first Google login needs neither invitation nor consent.
GoogleByEmailUngated(c) ==
    /\ pc[c] = "byEmail"
    /\ \/ \E a \in ByEmail(arg[c].email) :
             /\ arg' = [arg EXCEPT ![c].who = a]
             /\ Goto(c, "glink")
       \/ /\ ByEmail(arg[c].email) = {}
          /\ Goto(c, "ginsert")
          /\ UNCHANGED arg
    /\ UNCHANGED <<users, answerVars, tokens, history>>

\* Variant: an account is made without an email.
GoogleByEmailNoAddress(c) ==
    /\ pc[c] = "byEmail"
    /\ ByEmail(arg[c].email) = {}
    /\ arg[c].gate
    /\ Goto(c, "ginsert")
    /\ UNCHANGED <<users, answerVars, tokens, arg, history>>

\* An account with the email is to be linked; a new one needs the gate and an email.
GoogleByEmail(c) ==
    /\ pc[c] = "byEmail"
    /\ \/ \E a \in ByEmail(arg[c].email) :
             /\ arg' = [arg EXCEPT ![c].who = a]
             /\ Goto(c, "glink")
       \/ /\ ByEmail(arg[c].email) = {}
          /\ Goto(c, IF arg[c].gate /\ arg[c].email # None THEN "ginsert" ELSE "refused")
          /\ UNCHANGED arg
    /\ UNCHANGED <<users, answerVars, tokens, history>>

\* Variant: google_sub is not unique.
GoogleLinkUnchecked(c) ==
    /\ pc[c] = "glink"
    /\ arg[c].who \in There
    /\ users' = [users EXCEPT ![arg[c].who].sub = arg[c].sub]
    /\ Goto(c, "issue")
    /\ UNCHANGED <<answerVars, tokens, arg, history>>

\* The COMMIT of the link, over any google_sub the account has.  Nothing catches the
\* IntegrityError of a subject that another account took meanwhile.
GoogleLink(c) ==
    LET a == arg[c].who IN
    /\ pc[c] = "glink"
    /\ \/ /\ a \in There
          /\ BySub(arg[c].sub) \subseteq {a}
          /\ users' = [users EXCEPT ![a].sub = arg[c].sub]
          /\ Goto(c, "issue")
       \/ /\ a \notin There \/ ~(BySub(arg[c].sub) \subseteq {a})
          /\ Goto(c, "failed")
          /\ UNCHANGED users
    /\ UNCHANGED <<answerVars, tokens, arg, history>>

GoogleInsert(c) ==
    /\ pc[c] = "ginsert"
    /\ Insert(c, FALSE, "issue")
    /\ arg' = [arg EXCEPT ![c].who = c]
    /\ UNCHANGED <<answerVars, tokens, history>>

\* The row is read again after the commit, and the token made from that.
GoogleIssue(c) ==
    LET a == arg[c].who IN
    /\ pc[c] = "issue"
    /\ \/ a \in There /\ Issue("refresh", a) /\ Goto(c, "answered")
       \/ a \notin There /\ Goto(c, "failed") /\ UNCHANGED tokens
    /\ UNCHANGED <<users, answerVars, arg, history>>

--------------------------------------------------------------------------------
(* Requests of one round trip, and the database's own doing.               *)

\* POST /login with the right password; a wrong one and a missing account are a 401.
Login(a) ==
    /\ a \in There
    /\ users[a].password
    /\ Issue("refresh", a)
    /\ UNCHANGED <<users, answerVars, pc, arg, history>>

\* POST /refresh: an accepted token is answered with one of the same version.
Refresh(t) ==
    /\ t.kind = "refresh"
    /\ Accepted(t)
    /\ Issue("refresh", t.acct)
    /\ UNCHANGED <<users, answerVars, pc, arg, history>>

\* POST /password/forgot: only an account with a password is sent a token.
Forgot(a) ==
    /\ a \in There
    /\ users[a].password
    /\ Issue("reset", a)
    /\ UNCHANGED <<users, answerVars, pc, arg, history>>

\* POST /api/onboarding, without an account.
CreateOnboarding(n) ==
    /\ row[n] = "unborn"
    /\ row' = [row EXCEPT ![n] = "new"]
    /\ UNCHANGED <<users, owner, tokens, pc, arg, history>>

\* Variant: rows are cleaned up by age alone.
CleanupByAge ==
    /\ row' = [n \in Answer |-> IF row[n] = "old" THEN "gone" ELSE row[n]]
    /\ UNCHANGED <<users, owner, tokens, pc, arg, history>>

\* cleanup_stale_onboarding: one DELETE, whose WHERE the database evaluates.
Cleanup ==
    /\ row' = [n \in Answer |-> IF row[n] = "old" /\ owner[n] = None THEN "gone" ELSE row[n]]
    /\ UNCHANGED <<users, owner, tokens, pc, arg, history>>

AnswerAges(n) ==
    /\ row[n] = "new"
    /\ row' = [row EXCEPT ![n] = "old"]
    /\ UNCHANGED <<users, owner, tokens, pc, arg, history>>

--------------------------------------------------------------------------------
(* Requests with an access token, which outlives any revocation:           *)
(* get_current_user asks only that the account is there.                   *)

HasSession(a) == \E t \in tokens : t.kind = "refresh" /\ t.acct = a

\* get_current_user loads the row; what the handler asks of it comes with it: a
\* password to change (update) or to confirm with (delete).
Enter(c, a, kind, o) ==
    /\ pc[c] = "idle"
    /\ a \in There
    /\ HasSession(a)
    /\ Goto(c, kind)
    /\ arg' = [arg EXCEPT ![c] = [NoArg EXCEPT !.who = a, !.seen = users[a].ver, !.orid = o]]
    /\ UNCHANGED <<users, answerVars, tokens, history>>

\* Variant: reset and password change leave the version.
RaiseVersionNot(a, seen) == users[a].ver

\* token_version += 1 on the loaded object writes the number loaded plus one.
RaiseVersion(a, seen) == seen + 1

\* A commit that is to end every session and reset link of the account.
Revoke(c, new) ==
    LET a == arg[c].who IN
    /\ users' = [users EXCEPT ![a] = [new EXCEPT !.ver = RaiseVersion(a, arg[c].seen)]]
    /\ killed' = killed \cup {t \in tokens : t.acct = a}
    /\ raced' = IF users[a].ver = arg[c].seen THEN raced ELSE raced \cup {a}

\* A row deleted meanwhile matches nothing: StaleDataError, a 500.
Missing(c) ==
    /\ arg[c].who \notin There
    /\ Goto(c, "failed")
    /\ UNCHANGED <<users, killed, raced>>

Logout(c) ==
    /\ pc[c] = "logout"
    /\ \/ Missing(c)
       \/ /\ arg[c].who \in There
          /\ Revoke(c, users[arg[c].who])
          /\ Goto(c, "answered")
    /\ UNCHANGED <<answerVars, tokens, arg>>

\* POST /password/reset up to the hashing: type, account, version and a password.
ResetCheck(c, t) ==
    /\ pc[c] = "idle"
    /\ t.kind = "reset"
    /\ Goto(c, IF Accepted(t) /\ users[t.acct].password THEN "reset" ELSE "refused")
    /\ arg' = [arg EXCEPT ![c] = [NoArg EXCEPT !.who = t.acct, !.seen = t.ver]]
    /\ UNCHANGED <<users, answerVars, tokens, history>>

Reset(c) ==
    /\ pc[c] = "reset"
    /\ \/ Missing(c)
       \/ /\ arg[c].who \in There
          /\ Revoke(c, [users[arg[c].who] EXCEPT !.password = TRUE])
          /\ Goto(c, "answered")
    /\ UNCHANGED <<answerVars, tokens, arg>>

\* PATCH /me: a new password, a new OpenReview id, or both.  The id is checked by the
\* unique column alone, which rolls both back.
Update(c) ==
    LET a == arg[c].who
        o == arg[c].orid
        new == [users[a] EXCEPT !.orid = IF o = None THEN @ ELSE o] IN
    /\ pc[c] = "update"
    /\ \/ Missing(c)
       \/ /\ a \in There
          /\ ~(ByOrid(o) \subseteq {a})
          /\ Goto(c, "refused")
          /\ UNCHANGED <<users, killed, raced>>
       \/ /\ a \in There
          /\ ByOrid(o) \subseteq {a}
          /\ \/ users[a].password /\ Revoke(c, new)
             \/ users' = [users EXCEPT ![a] = new] /\ UNCHANGED <<killed, raced>>
          /\ Goto(c, "answered")
    /\ UNCHANGED <<answerVars, tokens, arg>>

\* DELETE /me.  The cascade takes the answers; a row already gone is no error.
DeleteAccount(c) ==
    LET a == arg[c].who IN
    /\ pc[c] = "delete"
    /\ users' = [users EXCEPT ![a] = None]
    /\ row' = [n \in Answer |-> IF n \in AnswersOf(a) THEN "gone" ELSE row[n]]
    /\ Goto(c, "answered")
    /\ UNCHANGED <<owner, tokens, arg, history>>

\* PATCH /me/onboarding: the SELECT by user_id, and a fresh id if there is no row.
UpsertFind(c) ==
    /\ pc[c] = "upsert"
    /\ \/ \E n \in AnswersOf(arg[c].who) : arg' = [arg EXCEPT ![c].answer = n]
       \/ AnswersOf(arg[c].who) = {} /\ UNCHANGED arg
    /\ Goto(c, "save")
    /\ UNCHANGED <<users, answerVars, tokens, history>>

\* Variant: user_id is not unique.
UpsertSaveUnchecked(c) ==
    /\ pc[c] = "save"
    /\ arg[c].who \in There
    /\ \E n \in Answer :
          /\ row[n] = "unborn"
          /\ row' = [row EXCEPT ![n] = "new"]
          /\ owner' = [owner EXCEPT ![n] = arg[c].who]
    /\ Goto(c, "answered")
    /\ UNCHANGED <<users, tokens, arg, history>>

\* The COMMIT: an UPDATE of the row found, or an INSERT that the foreign key and the
\* unique user_id may refuse; nothing catches that.
UpsertSave(c) ==
    LET a == arg[c].who IN
    /\ pc[c] = "save"
    /\ \/ /\ arg[c].answer \in Present
          /\ Goto(c, "answered")
          /\ UNCHANGED answerVars
       \/ /\ arg[c].answer = None
          /\ a \in There
          /\ AnswersOf(a) = {}
          /\ \E n \in Answer :
                /\ row[n] = "unborn"
                /\ row' = [row EXCEPT ![n] = "new"]
                /\ owner' = [owner EXCEPT ![n] = a]
          /\ Goto(c, "answered")
       \/ /\ \/ arg[c].answer \in Answer \ Present
             \/ arg[c].answer = None /\ (a \notin There \/ AnswersOf(a) # {})
          /\ Goto(c, "failed")
          /\ UNCHANGED answerVars
    /\ UNCHANGED <<users, tokens, arg, history>>

--------------------------------------------------------------------------------
SignupStep(c) ==
    \/ \E g \in BOOLEAN, e \in Email, o \in Orid \cup {None}, n \in Answer \cup {None} :
          SignupCheck(c, g, e, o, n)
    \/ SignupInsert(c) \/ SignupFind(c) \/ SignupLink(c)

GoogleStep(c) ==
    \/ \E g \in BOOLEAN, s \in Sub, e \in Email \cup {None}, o \in Orid \cup {None} :
          GoogleBySub(c, g, s, e, o)
    \/ GoogleByEmail(c) \/ GoogleLink(c) \/ GoogleInsert(c) \/ GoogleIssue(c)

SessionStep(c) ==
    \/ \E a \in Acct, k \in {"logout", "delete", "upsert"} : Enter(c, a, k, None)
    \/ \E a \in Acct, o \in Orid \cup {None} : Enter(c, a, "update", o)
    \/ \E t \in tokens : ResetCheck(c, t)
    \/ Logout(c) \/ Reset(c) \/ Update(c) \/ DeleteAccount(c)
    \/ UpsertFind(c) \/ UpsertSave(c)

OneTrip ==
    \/ \E a \in Acct : Login(a) \/ Forgot(a)
    \/ \E t \in tokens : Refresh(t)
    \/ \E n \in Answer : CreateOnboarding(n) \/ AnswerAges(n)
    \/ Cleanup

Next == OneTrip \/ \E c \in Call : SignupStep(c) \/ GoogleStep(c) \/ SessionStep(c)

Spec == Init /\ [][Next]_vars

--------------------------------------------------------------------------------
(* Properties.                                                             *)

\* The comments of logout, update_me and reset_password: a commit of theirs ends every
\* refresh and reset token handed out before.  It does, except for an account whose
\* version some commit wrote over without having read it: the slow one of two writes
\* puts back a version that is already in use.
KilledStayDead == \A t \in killed : Accepted(t) => t.acct \in raced

\* No two accounts share an email, a Google subject or an OpenReview id, however
\* sign-ups, first Google logins and links of existing accounts interleave.
OneAccountPerIdentity ==
    \A a, b \in There : a # b =>
        /\ users[a].email # users[b].email
        /\ users[a].sub # None => users[a].sub # users[b].sub
        /\ users[a].orid # None => users[a].orid # users[b].orid

\* An account has one set of answers at most, and answers with an owner have an
\* account: sign-up, the upsert, the deletion of accounts and two links of the same
\* answers race for that.
AnswersBelong ==
    \A m, n \in Present : owner[n] # None =>
        /\ owner[n] \in There
        /\ owner[m] = owner[n] => m = n

\* _require_invite and _require_consent: there are two ways to make an account, and
\* no account is made by a call that did not bring both.
AccountsCameThroughTheGate == \A c \in Call \cap There : arg[c].gate

\* Answers stay with their account: no clean-up, no upsert and no sign-up with the same
\* onboarding_id takes them, until the account goes.  The exception is a sign-up that
\* looked them up before they were linked.
LinkedAnswersStay ==
    [][\A n \in Present : owner[n] # None =>
          \/ row'[n] # "gone" /\ owner'[n] = owner[n]
          \/ users'[owner[n]] = None
          \/ \E c \in Call : pc[c] = "link" /\ arg[c].answer = n /\ owner'[n] = c]_vars

\* Docstring of reset_password: after a reset, no session and no reset link of before
\* is good any more.
RevokedStayRevoked == \A t \in killed : ~Accepted(t)
================================================================================
