---------------------------- MODULE AccountsProofs ----------------------------
(***************************************************************************)
(* Proofs about Accounts, for any number of requests, addresses, subjects, *)
(* OpenReview ids and answers.                                             *)
(***************************************************************************)
EXTENDS Accounts, TLAPS

--------------------------------------------------------------------------------
(* The inductive invariant.                                                *)

\* A call about to insert an account brought an address, an invitation and a consent.
InsertersReady ==
    \A c \in Call : pc[c] \in {"signup", "ginsert"} => arg[c].gate /\ arg[c].email # None

\* Until a call has inserted its account nobody can hold a token of it.
NotThereYet ==
    \A c \in Call : pc[c] \in {"idle", "signup", "byEmail", "ginsert"} =>
        /\ c \notin There
        /\ \A t \in tokens : t.acct # c

UnbornUnowned == \A n \in Answer : row[n] = "unborn" => owner[n] = None

\* Where no version was written over unseen, tokens carry no version of the future, and
\* the ended ones only versions of the past.
VersionsBehind ==
    \A a \in There \ raced : \A t \in tokens : t.acct = a =>
        /\ t.ver <= users[a].ver
        /\ t \in killed => t.ver < users[a].ver

IInv ==
    /\ TypeOK
    /\ InsertersReady
    /\ NotThereYet
    /\ UnbornUnowned
    /\ VersionsBehind
    /\ OneAccountPerIdentity
    /\ AnswersBelong
    /\ AccountsCameThroughTheGate

USE AccountConstants DEF AccountConstants

LEMMA InitIInv == Init => IInv
<1> SUFFICES ASSUME Init PROVE IInv OBVIOUS
<1> USE DEF Init
<1>1. TypeOK
  BY DEF TypeOK, Acct, User, Token, Pc, Arg, NoArg
<1>2. InsertersReady /\ NotThereYet /\ UnbornUnowned
  BY DEF InsertersReady, NotThereYet, UnbornUnowned, There, Acct
<1>3. VersionsBehind /\ OneAccountPerIdentity
  BY DEF VersionsBehind, OneAccountPerIdentity, There, Acct
<1>4. AnswersBelong /\ AccountsCameThroughTheGate
  BY DEF AnswersBelong, AccountsCameThroughTheGate, There, Present, Acct
<1> QED BY <1>1, <1>2, <1>3, <1>4 DEF IInv

(* A step that writes neither accounts nor answers nor tokens: what is left *)
(* to show is about its own call.                                           *)
LEMMA OnlyCallMoves ==
    ASSUME IInv, UNCHANGED <<users, answerVars, tokens, history>>,
           NEW c \in Call, pc' = [pc EXCEPT ![c] = pc'[c]], arg' = [arg EXCEPT ![c] = arg'[c]],
           pc'[c] \in Pc, arg'[c] \in Arg,
           pc'[c] \in {"signup", "ginsert"} => arg'[c].gate /\ arg'[c].email # None,
           pc'[c] \in {"idle", "signup", "byEmail", "ginsert"} =>
               pc[c] \in {"idle", "signup", "byEmail", "ginsert"},
           c \in There => arg'[c].gate
    PROVE  IInv'
<1> USE DEF answerVars, history, There
<1>1. TypeOK'
  BY DEF IInv, TypeOK
<1>2. InsertersReady' /\ NotThereYet' /\ UnbornUnowned'
  BY DEF IInv, TypeOK, InsertersReady, NotThereYet, UnbornUnowned
<1>3. VersionsBehind' /\ OneAccountPerIdentity'
  BY DEF IInv, VersionsBehind, OneAccountPerIdentity
<1>4. AnswersBelong' /\ AccountsCameThroughTheGate'
  BY DEF IInv, TypeOK, AnswersBelong, AccountsCameThroughTheGate, Present
<1> QED BY <1>1, <1>2, <1>3, <1>4 DEF IInv

(* A token handed out carries the version of a row that is there.           *)
LEMMA TokenIssued ==
    ASSUME IInv, NEW a \in There, NEW kind \in {"refresh", "reset"}, Issue(kind, a),
           UNCHANGED <<users, answerVars, history>>
    PROVE  /\ tokens' \subseteq Token
           /\ killed \subseteq tokens'
           /\ VersionsBehind'
           /\ \A t \in tokens' : t \in tokens \/ t.acct = a
<1> USE DEF answerVars, history, There, Issue
<1> DEFINE new == [kind |-> kind, acct |-> a, ver |-> users[a].ver]
<1>1. a \in Acct /\ users[a] \in User
  BY DEF IInv, TypeOK
<1>2. new \in Token /\ tokens' = tokens \cup {new}
  BY <1>1 DEF Token, User
<1>3. tokens' \subseteq Token /\ killed \subseteq tokens'
  BY <1>2 DEF IInv, TypeOK
<1>4. new \in killed => new \in tokens
  BY DEF IInv, TypeOK
<1>5. new.acct = a /\ new.ver = users[a].ver /\ users[a].ver \in Nat
  BY <1>1 DEF User
<1>6. VersionsBehind'
  <2> SUFFICES ASSUME NEW b \in There' \ raced', NEW t \in tokens', t.acct = b
               PROVE  t.ver <= users[b].ver /\ (t \in killed => t.ver < users[b].ver)
    BY DEF VersionsBehind
  <2>1. CASE t \in tokens
    BY <2>1 DEF IInv, VersionsBehind
  <2>2. CASE t \notin tokens
    BY <2>2, <1>2, <1>4, <1>5
  <2> QED BY <2>1, <2>2
<1>7. \A t \in tokens' : t \in tokens \/ t.acct = a
  BY <1>2
<1> QED BY <1>3, <1>6, <1>7

(* Tokens of rows that are there are no tokens of calls that have yet to    *)
(* insert theirs.                                                           *)
LEMMA IssueIInv ==
    ASSUME IInv, NEW a \in There, NEW kind \in {"refresh", "reset"}, Issue(kind, a),
           UNCHANGED <<users, answerVars, history>>,
           \/ UNCHANGED <<pc, arg>>
           \/ \E c \in Call : /\ pc' = [pc EXCEPT ![c] = "answered"]
                              /\ arg' = [arg EXCEPT ![c] = arg'[c]]
                              /\ arg'[c] \in Arg
                              /\ c \in There => arg'[c].gate
    PROVE  IInv'
<1> USE DEF answerVars, history, There
<1>1. TypeOK'
  BY TokenIssued DEF IInv, TypeOK, Pc
<1>2. InsertersReady' /\ UnbornUnowned'
  BY DEF IInv, TypeOK, InsertersReady, UnbornUnowned
<1>3. NotThereYet'
  BY TokenIssued DEF IInv, TypeOK, NotThereYet
<1>4. OneAccountPerIdentity' /\ VersionsBehind'
  BY TokenIssued DEF IInv, OneAccountPerIdentity
<1>5. AnswersBelong' /\ AccountsCameThroughTheGate'
  BY DEF IInv, TypeOK, AnswersBelong, AccountsCameThroughTheGate, Present
<1> QED BY <1>1, <1>2, <1>3, <1>4, <1>5 DEF IInv

(* Steps that write onboarding rows alone.                                  *)
LEMMA AnswersIInv ==
    ASSUME IInv, UNCHANGED <<users, tokens, arg, history>>,
           \/ UNCHANGED pc
           \/ \E c \in Call : pc' = [pc EXCEPT ![c] = "answered"],
           owner' \in [Answer -> Acct \cup {None}],
           row' \in [Answer -> {"unborn", "new", "old", "gone"}],
           UnbornUnowned', AnswersBelong'
    PROVE  IInv'
<1> USE DEF history, There
<1>1. TypeOK'
  BY DEF IInv, TypeOK, Pc
<1>2. InsertersReady' /\ NotThereYet'
  BY DEF IInv, TypeOK, InsertersReady, NotThereYet
<1>3. OneAccountPerIdentity' /\ VersionsBehind' /\ AccountsCameThroughTheGate'
  BY DEF IInv, OneAccountPerIdentity, VersionsBehind, AccountsCameThroughTheGate
<1> QED BY <1>1, <1>2, <1>3 DEF IInv

(* The INSERT of an account, which the unique columns let through or not.   *)
LEMMA InsertIInv ==
    ASSUME IInv, NEW c \in Call, pc[c] \in {"signup", "ginsert"},
           NEW pw \in BOOLEAN, NEW next \in {"answered", "find", "issue"}, Insert(c, pw, next),
           arg' \in {arg, [arg EXCEPT ![c].who = c]},
           UNCHANGED <<answerVars, tokens, history>>
    PROVE  IInv'
<1> USE DEF answerVars, history, There
<1> DEFINE x == arg[c]
           new == NewUser(x.email, pw, x.sub, x.orid)
<1>1. x \in Arg /\ x.gate /\ x.email \in Email
  BY DEF IInv, TypeOK, InsertersReady, Arg
<1>2. new \in User /\ new # None /\ new.ver = 0
  BY <1>1 DEF NewUser, User, Arg
<1>3. c \notin There /\ \A t \in tokens : t.acct # c
  BY DEF IInv, NotThereYet
<1>4. arg' \in [Call -> Arg] /\ arg'[c].gate /\ \A d \in Call : arg'[d].gate = arg[d].gate
                                                  /\ arg'[d].email = arg[d].email
  BY <1>1 DEF IInv, TypeOK, Arg, Acct
<1>5. CASE Taken(x.email, x.sub, x.orid) /\ pc' = [pc EXCEPT ![c] = "refused"] /\ users' = users
  <2>1. arg' = [arg EXCEPT ![c] = arg'[c]] /\ arg'[c] \in Arg
    BY <1>1, <1>4 DEF IInv, TypeOK
  <2>2. pc'[c] = "refused" /\ pc' = [pc EXCEPT ![c] = pc'[c]] /\ "refused" \in Pc
    BY <1>5 DEF IInv, TypeOK, Pc
  <2> QED BY <1>5, <1>3, <2>1, <2>2, OnlyCallMoves
<1>6. CASE /\ ~Taken(x.email, x.sub, x.orid)
           /\ users' = [users EXCEPT ![c] = new]
           /\ pc' = [pc EXCEPT ![c] = next]
  <2>1. c \in Acct /\ There' = There \cup {c}
    BY <1>2, <1>6 DEF IInv, TypeOK, Acct
  <2>2. TypeOK'
    BY <1>2, <1>4, <1>6, <2>1 DEF IInv, TypeOK, Pc
  <2>3. InsertersReady' /\ UnbornUnowned'
    BY <1>4, <1>6 DEF IInv, TypeOK, InsertersReady, UnbornUnowned
  <2>4. NotThereYet'
    BY <1>6, <2>1 DEF IInv, TypeOK, NotThereYet
  <2>5. VersionsBehind'
    BY <1>3, <1>6, <2>1 DEF IInv, TypeOK, VersionsBehind
  <2>6. OneAccountPerIdentity'
    <3>1. \A a \in There : /\ users[a].email # new.email
                           /\ new.sub # None => users[a].sub # new.sub
                           /\ new.orid # None => users[a].orid # new.orid
      BY <1>6 DEF Taken, ByEmail, BySub, ByOrid, NewUser
    <3> QED BY <1>3, <1>6, <2>1, <3>1 DEF IInv, TypeOK, OneAccountPerIdentity
  <2>7. AnswersBelong' /\ AccountsCameThroughTheGate'
    BY <1>4, <2>1 DEF IInv, AnswersBelong, AccountsCameThroughTheGate, Present
  <2> QED BY <2>2, <2>3, <2>4, <2>5, <2>6, <2>7 DEF IInv
<1> QED BY <1>5, <1>6 DEF Insert, Goto

(* An UPDATE of an account that keeps its address, its subject and          *)
(* OpenReview id free of clashes, and tokens behind its version.            *)
LEMMA UpdateIInv ==
    ASSUME IInv, NEW c \in Call, NEW a \in There, NEW new \in User,
           users' = [users EXCEPT ![a] = new],
           new.email = users[a].email, BySub(new.sub) \subseteq {a}, ByOrid(new.orid) \subseteq {a},
           NEW next \in {"answered", "issue"}, pc' = [pc EXCEPT ![c] = next],
           UNCHANGED <<answerVars, tokens, arg>>,
           killed' \subseteq tokens, raced' \subseteq Acct, VersionsBehind'
    PROVE  IInv'
<1> USE DEF answerVars, There
<1>1. a \in Acct /\ There' = There
  BY DEF IInv, TypeOK
<1>2. TypeOK'
  BY <1>1 DEF IInv, TypeOK, Pc
<1>3. InsertersReady' /\ UnbornUnowned'
  BY DEF IInv, TypeOK, InsertersReady, UnbornUnowned
<1>4. NotThereYet'
  BY <1>1 DEF IInv, TypeOK, NotThereYet
<1>5. OneAccountPerIdentity'
  <2>1. \A b \in There \ {a} : /\ new.sub # None => users[b].sub # new.sub
                               /\ new.orid # None => users[b].orid # new.orid
    BY DEF BySub, ByOrid
  <2> QED BY <1>1, <2>1 DEF IInv, TypeOK, OneAccountPerIdentity
<1>6. AnswersBelong' /\ AccountsCameThroughTheGate'
  BY <1>1 DEF IInv, AnswersBelong, AccountsCameThroughTheGate, Present
<1> QED BY <1>2, <1>3, <1>4, <1>5, <1>6 DEF IInv

(* The commit of a revocation: unless the version it read is no longer the  *)
(* one in the row, every token so far stays behind.                         *)
LEMMA RevokeIInv ==
    ASSUME IInv, NEW c \in Call, arg[c].who \in There,
           NEW new \in User, new.email = users[arg[c].who].email,
           BySub(new.sub) \subseteq {arg[c].who}, ByOrid(new.orid) \subseteq {arg[c].who},
           Revoke(c, new), pc' = [pc EXCEPT ![c] = "answered"],
           UNCHANGED <<answerVars, tokens, arg>>
    PROVE  IInv'
<1> DEFINE a == arg[c].who
           seen == arg[c].seen
           raised == [new EXCEPT !.ver = seen + 1]
<1>1. seen \in Nat /\ a \in Acct /\ users[a] \in User
  BY DEF IInv, TypeOK, Arg, There
<1>2. raised \in User /\ raised.email = users[a].email /\ raised.sub = new.sub
        /\ raised.orid = new.orid /\ raised.ver = seen + 1
  BY <1>1 DEF User
<1>3. users' = [users EXCEPT ![a] = raised]
  BY DEF Revoke, RaiseVersion
<1>4. killed' = killed \cup {t \in tokens : t.acct = a} /\ killed' \subseteq tokens
  BY DEF Revoke, IInv, TypeOK
<1>5. raced' = (IF users[a].ver = seen THEN raced ELSE raced \cup {a}) /\ raced' \subseteq Acct
  BY <1>1 DEF Revoke, IInv, TypeOK
<1>6. VersionsBehind'
  <2> SUFFICES ASSUME NEW b \in There' \ raced', NEW t \in tokens, t.acct = b
               PROVE  t.ver <= users'[b].ver /\ (t \in killed' => t.ver < users'[b].ver)
    BY DEF VersionsBehind
  <2>1. b \in There \ raced /\ b \in Acct /\ t.ver \in Nat
    BY <1>1, <1>2, <1>3, <1>5 DEF There, IInv, TypeOK, Token
  <2>2. t.ver <= users[b].ver /\ (t \in killed => t.ver < users[b].ver)
    BY <2>1 DEF IInv, VersionsBehind
  <2>3. CASE b = a
    <3>1. users[a].ver = seen /\ users'[a].ver = seen + 1
      BY <1>1, <1>2, <1>3, <1>5, <2>3 DEF IInv, TypeOK
    <3> QED BY <1>1, <2>1, <2>2, <2>3, <3>1
  <2>4. CASE b # a
    BY <1>3, <1>4, <2>1, <2>2, <2>4 DEF IInv, TypeOK
  <2> QED BY <2>3, <2>4
<1> QED BY <1>2, <1>3, <1>4, <1>5, <1>6, UpdateIInv

--------------------------------------------------------------------------------
(* One lemma per group of actions.                                          *)

LEMMA SignupIInv ==
    ASSUME IInv, NEW c \in Call, SignupStep(c)
    PROVE  IInv'
<1>1. ASSUME NEW g \in BOOLEAN, NEW e \in Email, NEW o \in Orid \cup {None},
             NEW n \in Answer \cup {None}, SignupCheck(c, g, e, o, n)
      PROVE  IInv'
  <2> DEFINE x == [NoArg EXCEPT !.gate = g, !.email = e, !.orid = o, !.answer = n]
  <2>1. x \in Arg /\ x.gate = g /\ x.email = e /\ e # None
    BY DEF Arg, NoArg
  <2>2. arg' = [arg EXCEPT ![c] = x] /\ arg'[c] = x
    BY <1>1 DEF SignupCheck, IInv, TypeOK
  <2>3. /\ pc' = [pc EXCEPT ![c] = pc'[c]] /\ pc'[c] \in {"signup", "refused"}
        /\ pc'[c] = "signup" => g
    BY <1>1 DEF SignupCheck, Goto, IInv, TypeOK
  <2>4. pc[c] = "idle" /\ c \notin There
    BY <1>1 DEF SignupCheck, IInv, NotThereYet
  <2> QED BY <1>1, <2>1, <2>2, <2>3, <2>4, OnlyCallMoves DEF SignupCheck, Pc
<1>2. CASE SignupInsert(c)
  <2> DEFINE next == IF arg[c].answer = None THEN "answered" ELSE "find"
  <2>1. Insert(c, TRUE, next) /\ next \in {"answered", "find", "issue"}
    BY <1>2 DEF SignupInsert
  <2> QED BY <1>2, <2>1, InsertIInv DEF SignupInsert
<1>3. CASE SignupFind(c)
  <2>1. pc'[c] \in {"failed", "link", "answered"} /\ pc' = [pc EXCEPT ![c] = pc'[c]]
    BY <1>3 DEF SignupFind, Goto, IInv, TypeOK
  <2>2. arg'[c] \in Arg /\ arg' = [arg EXCEPT ![c] = arg'[c]] /\ (c \in There => arg'[c].gate)
    BY <1>3 DEF SignupFind, IInv, TypeOK, AccountsCameThroughTheGate
  <2> QED BY <1>3, <2>1, <2>2, OnlyCallMoves DEF SignupFind, Pc
<1>4. CASE SignupLink(c)
  <2> DEFINE n == arg[c].answer
  <2>1. CASE n \in Present /\ c \in There /\ AnswersOf(c) \subseteq {n} /\ owner' = [owner EXCEPT ![n] = c]
               /\ Goto(c, "answered")
    <3>1. owner' \in [Answer -> Acct \cup {None}] /\ row' = row
      BY <1>4, <2>1 DEF SignupLink, IInv, TypeOK, Acct
    <3>2. UnbornUnowned'
      BY <2>1, <3>1 DEF IInv, TypeOK, UnbornUnowned, Present
    <3>3. AnswersBelong'
      BY <1>4, <2>1, <3>1 DEF SignupLink, IInv, TypeOK, AnswersBelong, AnswersOf, Present, There
    <3> QED BY <1>4, <2>1, <3>1, <3>2, <3>3, AnswersIInv DEF SignupLink, Goto, IInv, TypeOK
  <2>2. CASE Goto(c, "failed") /\ UNCHANGED owner
    <3>1. pc'[c] = "failed" /\ pc' = [pc EXCEPT ![c] = pc'[c]]
      BY <2>2 DEF Goto, IInv, TypeOK
    <3>2. arg'[c] \in Arg /\ arg' = [arg EXCEPT ![c] = arg'[c]] /\ (c \in There => arg'[c].gate)
      BY <1>4 DEF SignupLink, IInv, TypeOK, AccountsCameThroughTheGate
    <3> QED BY <1>4, <2>2, <3>1, <3>2, OnlyCallMoves DEF SignupLink, Pc, answerVars
  <2> QED BY <1>4, <2>1, <2>2 DEF SignupLink
<1> QED BY <1>1, <1>2, <1>3, <1>4 DEF SignupStep

LEMMA GoogleIInv ==
    ASSUME IInv, NEW c \in Call, GoogleStep(c)
    PROVE  IInv'
<1>1. ASSUME NEW g \in BOOLEAN, NEW s \in Sub, NEW e \in Email \cup {None},
             NEW o \in Orid \cup {None}, GoogleBySub(c, g, s, e, o)
      PROVE  IInv'
  <2> DEFINE x == [NoArg EXCEPT !.gate = g, !.email = e, !.sub = s, !.orid = o]
  <2>1. x \in Arg
    BY DEF Arg, NoArg
  <2>2. arg' = [arg EXCEPT ![c] = x] /\ arg'[c] = x
    BY <1>1 DEF GoogleBySub, IInv, TypeOK
  <2>3. pc[c] = "idle" /\ c \notin There
    BY <1>1 DEF GoogleBySub, IInv, NotThereYet
  <2>4. ASSUME NEW a \in BySub(s), Issue("refresh", a), Goto(c, "answered") PROVE IInv'
    <3>1. a \in There
      BY DEF BySub
    <3>2. arg' = [arg EXCEPT ![c] = arg'[c]] /\ arg'[c] \in Arg
      BY <2>1, <2>2
    <3> QED BY <1>1, <2>3, <2>4, <3>1, <3>2, IssueIInv DEF GoogleBySub, Goto
  <2>5. CASE BySub(s) = {} /\ Goto(c, "byEmail") /\ UNCHANGED tokens
    <3>1. pc'[c] = "byEmail" /\ pc' = [pc EXCEPT ![c] = pc'[c]]
      BY <2>5 DEF Goto, IInv, TypeOK
    <3> QED BY <1>1, <2>1, <2>2, <2>3, <2>5, <3>1, OnlyCallMoves DEF GoogleBySub, Pc
  <2> QED BY <1>1, <2>4, <2>5 DEF GoogleBySub
<1>2. CASE GoogleByEmail(c)
  <2>1. pc[c] = "byEmail" /\ c \notin There
    BY <1>2 DEF GoogleByEmail, IInv, NotThereYet
  <2>2. arg[c] \in Arg
    BY DEF IInv, TypeOK
  <2>3. ASSUME NEW a \in ByEmail(arg[c].email), arg' = [arg EXCEPT ![c].who = a], Goto(c, "glink")
        PROVE  IInv'
    <3>1. a \in Acct
      BY DEF ByEmail, There
    <3>2. arg'[c] \in Arg /\ arg' = [arg EXCEPT ![c] = arg'[c]]
      BY <2>2, <2>3, <3>1 DEF IInv, TypeOK, Arg
    <3>3. pc'[c] = "glink" /\ pc' = [pc EXCEPT ![c] = pc'[c]]
      BY <2>3 DEF Goto, IInv, TypeOK
    <3> QED BY <1>2, <2>1, <3>2, <3>3, OnlyCallMoves DEF GoogleByEmail, Pc
  <2>4. CASE /\ Goto(c, IF arg[c].gate /\ arg[c].email # None THEN "ginsert" ELSE "refused")
             /\ UNCHANGED arg
    <3>1. /\ pc'[c] \in {"ginsert", "refused"} /\ pc' = [pc EXCEPT ![c] = pc'[c]]
          /\ pc'[c] = "ginsert" => arg[c].gate /\ arg[c].email # None
      BY <2>4 DEF Goto, IInv, TypeOK
    <3>2. arg'[c] = arg[c] /\ arg' = [arg EXCEPT ![c] = arg'[c]]
      BY <2>4 DEF IInv, TypeOK
    <3> QED BY <1>2, <2>1, <2>2, <2>4, <3>1, <3>2, OnlyCallMoves DEF GoogleByEmail, Pc
  <2> QED BY <1>2, <2>3, <2>4 DEF GoogleByEmail
<1>3. CASE GoogleLink(c)
  <2> DEFINE a == arg[c].who
             new == [users[a] EXCEPT !.sub = arg[c].sub]
  <2>1. CASE a \in There /\ BySub(arg[c].sub) \subseteq {a} /\ Goto(c, "issue")
               /\ users' = [users EXCEPT ![a].sub = arg[c].sub]
    <3>1. users[a] \in User /\ a \in Acct /\ arg[c].sub \in Sub \cup {None}
      BY <2>1 DEF IInv, TypeOK, There, Arg
    <3>2. /\ new \in User /\ new.email = users[a].email /\ new.sub = arg[c].sub
          /\ new.orid = users[a].orid /\ new.ver = users[a].ver /\ users' = [users EXCEPT ![a] = new]
      BY <2>1, <3>1 DEF User
    <3>3. ByOrid(new.orid) \subseteq {a}
      BY <2>1, <3>2 DEF IInv, OneAccountPerIdentity, ByOrid
    <3>4. VersionsBehind'
      BY <1>3, <3>1, <3>2 DEF GoogleLink, IInv, TypeOK, VersionsBehind, There, history
    <3>5. killed' \subseteq tokens /\ raced' \subseteq Acct
      BY <1>3 DEF GoogleLink, history, IInv, TypeOK
    <3> QED BY <1>3, <2>1, <3>2, <3>3, <3>4, <3>5, UpdateIInv DEF GoogleLink, Goto
  <2>2. CASE Goto(c, "failed") /\ UNCHANGED users
    <3>1. pc'[c] = "failed" /\ pc' = [pc EXCEPT ![c] = pc'[c]]
      BY <2>2 DEF Goto, IInv, TypeOK
    <3>2. arg'[c] \in Arg /\ arg' = [arg EXCEPT ![c] = arg'[c]] /\ (c \in There => arg'[c].gate)
      BY <1>3 DEF GoogleLink, IInv, TypeOK, AccountsCameThroughTheGate
    <3> QED BY <1>3, <2>2, <3>1, <3>2, OnlyCallMoves DEF GoogleLink, Pc
  <2> QED BY <1>3, <2>1, <2>2 DEF GoogleLink
<1>4. CASE GoogleInsert(c)
  BY <1>4, InsertIInv DEF GoogleInsert
<1>5. CASE GoogleIssue(c)
  <2>1. arg'[c] \in Arg /\ arg' = [arg EXCEPT ![c] = arg'[c]] /\ (c \in There => arg'[c].gate)
    BY <1>5 DEF GoogleIssue, IInv, TypeOK, AccountsCameThroughTheGate
  <2>2. CASE arg[c].who \in There /\ Issue("refresh", arg[c].who) /\ Goto(c, "answered")
    BY <1>5, <2>1, <2>2, IssueIInv DEF GoogleIssue, Goto
  <2>3. CASE Goto(c, "failed") /\ UNCHANGED tokens
    <3>1. pc'[c] = "failed" /\ pc' = [pc EXCEPT ![c] = pc'[c]]
      BY <2>3 DEF Goto, IInv, TypeOK
    <3> QED BY <1>5, <2>1, <2>3, <3>1, OnlyCallMoves DEF GoogleIssue, Pc
  <2> QED BY <1>5, <2>2, <2>3 DEF GoogleIssue
<1> QED BY <1>1, <1>2, <1>3, <1>4, <1>5 DEF GoogleStep

LEMMA SessionIInv ==
    ASSUME IInv, NEW c \in Call, SessionStep(c)
    PROVE  IInv'
<1>0. /\ arg[c] \in Arg /\ arg[c].who \in Acct \cup {None}
      /\ arg[c].who \in There => users[arg[c].who] \in User
  BY DEF IInv, TypeOK, Arg, There
<1>1. ASSUME NEW a \in Acct, NEW k \in {"logout", "delete", "upsert", "update"},
             NEW o \in Orid \cup {None}, Enter(c, a, k, o)
      PROVE  IInv'
  <2> DEFINE x == [NoArg EXCEPT !.who = a, !.seen = users[a].ver, !.orid = o]
  <2>1. users[a].ver \in Nat
    BY <1>1 DEF Enter, There, IInv, TypeOK, User
  <2>2. x \in Arg
    BY <2>1 DEF Arg, NoArg
  <2>3. arg'[c] = x /\ arg' = [arg EXCEPT ![c] = arg'[c]]
    BY <1>1 DEF Enter, IInv, TypeOK
  <2>4. pc'[c] = k /\ pc' = [pc EXCEPT ![c] = pc'[c]] /\ c \notin There
    BY <1>1 DEF Enter, Goto, IInv, TypeOK, NotThereYet
  <2> QED BY <1>1, <2>2, <2>3, <2>4, OnlyCallMoves DEF Enter, Pc
<1>2. ASSUME NEW t \in tokens, ResetCheck(c, t) PROVE IInv'
  <2> DEFINE x == [NoArg EXCEPT !.who = t.acct, !.seen = t.ver]
  <2>1. x \in Arg
    BY DEF IInv, TypeOK, Token, Arg, NoArg
  <2>2. arg'[c] = x /\ arg' = [arg EXCEPT ![c] = arg'[c]]
    BY <1>2 DEF ResetCheck, IInv, TypeOK
  <2>3. pc'[c] \in {"reset", "refused"} /\ pc' = [pc EXCEPT ![c] = pc'[c]] /\ c \notin There
    BY <1>2 DEF ResetCheck, Goto, IInv, TypeOK, NotThereYet
  <2> QED BY <1>2, <2>1, <2>2, <2>3, OnlyCallMoves DEF ResetCheck, Pc
\* Answers that change no row.
<1>3. ASSUME NEW to \in {"failed", "refused", "answered"}, Goto(c, to),
             UNCHANGED <<users, answerVars, tokens, arg, history>>
      PROVE  IInv'
  <2>1. pc'[c] = to /\ pc' = [pc EXCEPT ![c] = pc'[c]]
    BY <1>3 DEF Goto, IInv, TypeOK
  <2>2. arg'[c] = arg[c] /\ arg' = [arg EXCEPT ![c] = arg'[c]] /\ (c \in There => arg'[c].gate)
    BY <1>3 DEF IInv, TypeOK, AccountsCameThroughTheGate
  <2> QED BY <1>0, <1>3, <2>1, <2>2, OnlyCallMoves DEF Pc
\* The subject and the OpenReview id of an account are its own.
<1>4. ASSUME NEW a \in There
      PROVE  BySub(users[a].sub) \subseteq {a} /\ ByOrid(users[a].orid) \subseteq {a}
  BY <1>4 DEF IInv, OneAccountPerIdentity, BySub, ByOrid
<1>5. CASE Logout(c)
  <2>1. CASE Missing(c)
    BY <1>3, <1>5, <2>1 DEF Logout, Missing, history
  <2>2. CASE arg[c].who \in There /\ Revoke(c, users[arg[c].who]) /\ Goto(c, "answered")
    BY <1>0, <1>4, <1>5, <2>2, RevokeIInv DEF Logout, Goto
  <2> QED BY <1>5, <2>1, <2>2 DEF Logout
<1>6. CASE Reset(c)
  <2> DEFINE new == [users[arg[c].who] EXCEPT !.password = TRUE]
  <2>1. CASE Missing(c)
    BY <1>3, <1>6, <2>1 DEF Reset, Missing, history
  <2>2. CASE arg[c].who \in There /\ Revoke(c, new) /\ Goto(c, "answered")
    <3>1. /\ new \in User /\ new.email = users[arg[c].who].email
          /\ new.sub = users[arg[c].who].sub /\ new.orid = users[arg[c].who].orid
      BY <1>0, <2>2 DEF User
    <3> QED BY <1>4, <1>6, <2>2, <3>1, RevokeIInv DEF Reset, Goto
  <2> QED BY <1>6, <2>1, <2>2 DEF Reset
<1>7. CASE Update(c)
  <2> DEFINE a == arg[c].who
             o == arg[c].orid
             new == [users[a] EXCEPT !.orid = IF o = None THEN @ ELSE o]
  <2>1. CASE Missing(c)
    BY <1>3, <1>7, <2>1 DEF Update, Missing, history
  <2>2. CASE Goto(c, "refused") /\ UNCHANGED <<users, killed, raced>>
    BY <1>3, <1>7, <2>2 DEF Update, history
  <2>3. ASSUME a \in There, ByOrid(o) \subseteq {a}
        PROVE  /\ new \in User /\ new.email = users[a].email /\ new.ver = users[a].ver
               /\ BySub(new.sub) \subseteq {a} /\ ByOrid(new.orid) \subseteq {a}
    <3>1. o \in Orid \cup {None}
      BY <1>0 DEF Arg
    <3>2. /\ new \in User /\ new.email = users[a].email /\ new.ver = users[a].ver
          /\ new.sub = users[a].sub /\ new.orid = IF o = None THEN users[a].orid ELSE o
      BY <1>0, <2>3, <3>1 DEF User
    <3> QED BY <1>4, <2>3, <3>2
  <2>4. CASE a \in There /\ ByOrid(o) \subseteq {a} /\ Revoke(c, new) /\ Goto(c, "answered")
    BY <1>7, <2>3, <2>4, RevokeIInv DEF Update, Goto
  <2>5. CASE /\ a \in There /\ ByOrid(o) \subseteq {a} /\ users' = [users EXCEPT ![a] = new]
             /\ UNCHANGED <<killed, raced>> /\ Goto(c, "answered")
    <3>1. a \in Acct /\ There' = There
      BY <1>0, <2>3, <2>5 DEF There, IInv, TypeOK
    <3>2. VersionsBehind'
      BY <1>7, <2>3, <2>5, <3>1 DEF Update, IInv, TypeOK, VersionsBehind
    <3>3. killed' \subseteq tokens /\ raced' \subseteq Acct
      BY <2>5 DEF IInv, TypeOK
    <3> QED BY <1>7, <2>3, <2>5, <3>2, <3>3, UpdateIInv DEF Update, Goto
  <2> QED BY <1>7, <2>1, <2>2, <2>4, <2>5 DEF Update
<1>8. CASE DeleteAccount(c)
  <2> DEFINE a == arg[c].who
  <2> USE DEF There, history
  <2>1. There' \subseteq There /\ (a \in Acct => a \notin There')
          /\ \A b \in There : b # a => b \in There' /\ users'[b] = users[b]
    BY <1>8 DEF DeleteAccount, IInv, TypeOK
  <2>2. TypeOK'
    BY <1>8 DEF DeleteAccount, Goto, IInv, TypeOK, Pc
  <2>3. InsertersReady' /\ UnbornUnowned'
    BY <1>8 DEF DeleteAccount, Goto, IInv, TypeOK, InsertersReady, UnbornUnowned
  <2>4. NotThereYet'
    BY <1>8, <2>1 DEF DeleteAccount, Goto, IInv, TypeOK, NotThereYet
  <2>5. OneAccountPerIdentity' /\ AccountsCameThroughTheGate'
    BY <1>8, <2>1 DEF DeleteAccount, IInv, TypeOK, OneAccountPerIdentity, AccountsCameThroughTheGate
  <2>6. VersionsBehind'
    BY <1>8, <2>1 DEF DeleteAccount, IInv, TypeOK, VersionsBehind
  <2>7. AnswersBelong'
    BY <1>8, <2>1 DEF DeleteAccount, IInv, TypeOK, AnswersBelong, Present, AnswersOf
  <2> QED BY <2>2, <2>3, <2>4, <2>5, <2>6, <2>7 DEF IInv
<1>9. CASE UpsertFind(c)
  <2>1. arg'[c] \in Arg /\ arg' = [arg EXCEPT ![c] = arg'[c]] /\ arg'[c].gate = arg[c].gate
    BY <1>0, <1>9 DEF UpsertFind, IInv, TypeOK, Arg, AnswersOf, Present
  <2>2. pc'[c] = "save" /\ pc' = [pc EXCEPT ![c] = pc'[c]]
    BY <1>9 DEF UpsertFind, Goto, IInv, TypeOK
  <2>3. c \in There => arg'[c].gate
    BY <2>1 DEF IInv, AccountsCameThroughTheGate
  <2> QED BY <1>9, <2>1, <2>2, <2>3, OnlyCallMoves DEF UpsertFind, Pc
<1>10. CASE UpsertSave(c)
  <2> DEFINE a == arg[c].who
  <2>1. ASSUME NEW n \in Answer, a \in There, AnswersOf(a) = {}, row[n] = "unborn",
               row' = [row EXCEPT ![n] = "new"], owner' = [owner EXCEPT ![n] = a],
               Goto(c, "answered")
        PROVE  IInv'
    <3>1. /\ owner' \in [Answer -> Acct \cup {None}]
          /\ row' \in [Answer -> {"unborn", "new", "old", "gone"}]
      BY <2>1 DEF IInv, TypeOK, There
    <3>2. UnbornUnowned'
      BY <2>1 DEF IInv, TypeOK, UnbornUnowned
    <3>3. There' = There
      BY <1>10 DEF UpsertSave, There
    <3>4. AnswersBelong'
      BY <2>1, <3>3 DEF IInv, TypeOK, AnswersBelong, AnswersOf, Present
    <3> QED BY <1>10, <2>1, <3>1, <3>2, <3>4, AnswersIInv DEF UpsertSave, Goto
  <2>2. CASE \E to \in {"failed", "answered"} : Goto(c, to) /\ UNCHANGED answerVars
    BY <1>3, <1>10, <2>2 DEF UpsertSave
  <2> QED BY <1>10, <2>1, <2>2 DEF UpsertSave
<1> QED BY <1>1, <1>2, <1>5, <1>6, <1>7, <1>8, <1>9, <1>10 DEF SessionStep

LEMMA OneTripIInv == ASSUME IInv, OneTrip PROVE IInv'
<1>1. ASSUME NEW a \in Acct, Login(a) \/ Forgot(a) PROVE IInv'
  BY <1>1, IssueIInv DEF Login, Forgot
<1>2. ASSUME NEW t \in tokens, Refresh(t) PROVE IInv'
  BY <1>2, IssueIInv DEF Refresh, Accepted
<1>3. ASSUME NEW n \in Answer, CreateOnboarding(n) PROVE IInv'
  <2>1. row' \in [Answer -> {"unborn", "new", "old", "gone"}] /\ owner' \in [Answer -> Acct \cup {None}]
    BY <1>3 DEF CreateOnboarding, IInv, TypeOK
  <2>2. UnbornUnowned' /\ AnswersBelong'
    BY <1>3 DEF CreateOnboarding, IInv, TypeOK, UnbornUnowned, AnswersBelong, Present, There
  <2> QED BY <1>3, <2>1, <2>2, AnswersIInv DEF CreateOnboarding
<1>4. ASSUME NEW n \in Answer, AnswerAges(n) PROVE IInv'
  <2>1. row' \in [Answer -> {"unborn", "new", "old", "gone"}] /\ owner' \in [Answer -> Acct \cup {None}]
    BY <1>4 DEF AnswerAges, IInv, TypeOK
  <2>2. UnbornUnowned' /\ AnswersBelong'
    BY <1>4 DEF AnswerAges, IInv, TypeOK, UnbornUnowned, AnswersBelong, Present, There
  <2> QED BY <1>4, <2>1, <2>2, AnswersIInv DEF AnswerAges
<1>5. CASE Cleanup
  <2>1. row' \in [Answer -> {"unborn", "new", "old", "gone"}] /\ owner' \in [Answer -> Acct \cup {None}]
    BY <1>5 DEF Cleanup, IInv, TypeOK
  <2>2. UnbornUnowned' /\ AnswersBelong'
    BY <1>5 DEF Cleanup, IInv, TypeOK, UnbornUnowned, AnswersBelong, Present, There
  <2> QED BY <1>5, <2>1, <2>2, AnswersIInv DEF Cleanup
<1> QED BY <1>1, <1>2, <1>3, <1>4, <1>5 DEF OneTrip

LEMMA Inductive == IInv /\ [Next]_vars => IInv'
<1> SUFFICES ASSUME IInv, [Next]_vars PROVE IInv' OBVIOUS
<1>1. CASE Next
  BY <1>1, OneTripIInv, SignupIInv, GoogleIInv, SessionIInv DEF Next
<1>2. CASE UNCHANGED vars
  BY <1>2 DEF vars, answerVars, history, IInv, TypeOK, InsertersReady, NotThereYet, UnbornUnowned,
       VersionsBehind, OneAccountPerIdentity, AnswersBelong, AccountsCameThroughTheGate, There, Present
<1> QED BY <1>1, <1>2

--------------------------------------------------------------------------------
(* The theorems.                                                            *)

\* Every reachable state satisfies the inductive invariant.
THEOREM Invariance == Spec => []IInv
BY InitIInv, Inductive, PTL DEF Spec

\* Every variable keeps its type; killed tokens were handed out.
THEOREM TypeCorrect == Spec => []TypeOK
<1>1. IInv => TypeOK BY DEF IInv
<1> QED BY <1>1, Invariance, PTL

\* A token that a logout, a new password or a reset was to end is never accepted again,
\* by POST /refresh or POST /password/reset, unless a version of its account was written
\* over unseen: for any number of requests.
THEOREM KilledTokensStayDead == Spec => []KilledStayDead
<1>1. IInv => KilledStayDead
  BY DEF IInv, TypeOK, VersionsBehind, KilledStayDead, Accepted, Token, There, User
<1> QED BY <1>1, Invariance, PTL

\* The unique columns hold through every race of sign-ups, Google logins and links.
THEOREM IdentitiesUnique == Spec => []OneAccountPerIdentity
<1>1. IInv => OneAccountPerIdentity BY DEF IInv
<1> QED BY <1>1, Invariance, PTL

\* Onboarding rows with an owner have an account, and an account one row at most.
THEOREM AnswersAlwaysBelong == Spec => []AnswersBelong
<1>1. IInv => AnswersBelong BY DEF IInv
<1> QED BY <1>1, Invariance, PTL

\* No account is made past the invitation and the consent, on neither way in.
THEOREM NoWayAroundTheGate == Spec => []AccountsCameThroughTheGate
<1>1. IInv => AccountsCameThroughTheGate BY DEF IInv
<1> QED BY <1>1, Invariance, PTL

\* Linked answers are neither cleaned up nor taken over, except by a sign-up that
\* looked before they were linked, or with their account.
THEOREM LinkedAnswersAreKept == Spec => LinkedAnswersStay
<1> DEFINE Kept(n) == \/ row'[n] # "gone" /\ owner'[n] = owner[n]
                      \/ users'[owner[n]] = None
                      \/ \E c \in Call : pc[c] = "link" /\ arg[c].answer = n /\ owner'[n] = c
<1>1. IInv /\ [Next]_vars => [\A n \in Present : owner[n] # None => Kept(n)]_vars
  <2> SUFFICES ASSUME IInv, Next, NEW n \in Present, owner[n] # None PROVE Kept(n)
    BY DEF vars
  <2>1. n \in Answer /\ row[n] \in {"new", "old"} /\ owner[n] \in Acct
    BY DEF Present, IInv, TypeOK
  <2>2. CASE UNCHANGED answerVars
    BY <2>1, <2>2 DEF answerVars
  <2>3. ASSUME NEW m \in Answer, CreateOnboarding(m) \/ AnswerAges(m) PROVE Kept(n)
    BY <2>1, <2>3 DEF CreateOnboarding, AnswerAges, IInv, TypeOK
  <2>4. CASE Cleanup
    BY <2>1, <2>4 DEF Cleanup
  <2>5. ASSUME NEW c \in Call, SignupLink(c) PROVE Kept(n)
    BY <2>1, <2>5 DEF SignupLink, IInv, TypeOK
  <2>6. ASSUME NEW c \in Call, DeleteAccount(c) PROVE Kept(n)
    BY <2>1, <2>6 DEF DeleteAccount, AnswersOf, IInv, TypeOK
  <2>7. ASSUME NEW c \in Call, UpsertSave(c) PROVE Kept(n)
    BY <2>1, <2>7 DEF UpsertSave, IInv, TypeOK, answerVars
  <2>8. ASSUME NEW c \in Call, SignupStep(c), ~SignupLink(c) PROVE UNCHANGED answerVars
    BY <2>8 DEF SignupStep, SignupCheck, SignupInsert, SignupFind
  <2>9. ASSUME NEW c \in Call, GoogleStep(c) PROVE UNCHANGED answerVars
    BY <2>9 DEF GoogleStep, GoogleBySub, GoogleByEmail, GoogleLink, GoogleInsert, GoogleIssue
  <2>10. ASSUME NEW c \in Call, SessionStep(c), ~DeleteAccount(c), ~UpsertSave(c)
         PROVE  UNCHANGED answerVars
    BY <2>10 DEF SessionStep, Enter, ResetCheck, Logout, Reset, Update, UpsertFind
  <2>11. CASE OneTrip
    BY <2>2, <2>3, <2>4, <2>11 DEF OneTrip, Login, Forgot, Refresh
  <2> QED BY <2>2, <2>5, <2>6, <2>7, <2>8, <2>9, <2>10, <2>11 DEF Next
<1> QED BY <1>1, Invariance, PTL DEF Spec, LinkedAnswersStay
================================================================================
