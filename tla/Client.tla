------------------------------- MODULE Client -------------------------------
(* OpenReviewClient (ingest/openreview_client.py) on the retry loop of      *)
(* ingest/_http.py.  The threads share the client of a base, its session    *)
(* with one Authorization header, and the token file, which other processes *)
(* use as well.  The two bases share nothing but the lock, so one is        *)
(* modelled.  Waits are left out; a token is its number in the order of     *)
(* issue.                                                                   *)
EXTENDS Lists

CONSTANTS
    Fetcher,        \* requests: get_client(base)._get(...) or .get_bytes(...)
    MAX_RETRIES,
    MaxDeaths,      \* bound on the tokens that expire or are revoked
    MaxOthers,      \* bound on what other processes do to the token file
    MaxErrors       \* bound on the errors that end a request at once

VARIABLES
    built,      \* _clients has the client
    building,   \* the request in _clients_lock, or Nobody
    tokens,     \* the state of each token issued so far
    header,     \* the token in the session's Authorization header, or NoToken
    file,       \* the token in .token_v?.json, or NoToken
    fetch,      \* the requests: where each one is and what it holds
    logins, others, errors

clientVars == <<built, building, tokens, header, file, fetch, logins, others, errors>>

Nobody == "nobody"
NoToken == 0

ASSUME ClientConstants ==
    /\ IsFiniteSet(Fetcher) /\ Nobody \notin Fetcher
    /\ MAX_RETRIES \in Nat \ {0}
    /\ MaxDeaths \in Nat /\ MaxOthers \in Nat /\ MaxErrors \in Nat

(* "late": ten minutes or less to live.  A revoked token still reads well.  *)
Dead == {k \in DOMAIN tokens : tokens[k] \in {"expired", "revoked"}}
Readable(k) == k # NoToken /\ tokens[k] \in {"good", "revoked"}

(* refused: 401 answers met; tries: of the login under way.                 *)
NewFetch == [at |-> "new", attempt |-> 0, tries |-> 0, token |-> NoToken, refused |-> 0]

ClientInit ==
    /\ built = FALSE /\ building = Nobody /\ header = NoToken
    /\ tokens \in {<<>>, <<"good">>, <<"late">>, <<"revoked">>}
    /\ file = Len(tokens)
    /\ fetch = [f \in Fetcher |-> NewFetch]
    /\ logins = 0 /\ others = 0 /\ errors = 0

-----------------------------------------------------------------------------
Put(f, fields) == fetch' = [fetch EXCEPT ![f] = fields]
Moved(f, place) == Put(f, [fetch[f] EXCEPT !.at = place])

(* The next turn of request_with_retry, or its RuntimeError.                *)
NextAttempt(f) ==
    Put(f, [fetch[f] EXCEPT !.attempt = @ + 1,
                            !.at = IF fetch[f].attempt + 1 = MAX_RETRIES THEN "exhausted" ELSE "send"])

(* Variant: everybody who finds no client builds one. *)
GetClientUnlocked(f) ==
    /\ fetch[f].at = "new"
    /\ Moved(f, IF built THEN "send" ELSE "auth")
    /\ building' = IF built THEN building ELSE f
    /\ UNCHANGED <<built, tokens, header, file, logins, others, errors>>

(* get_client: the constructor, and so the login, runs inside the lock.     *)
GetClient(f) ==
    /\ fetch[f].at = "new"
    /\ building = Nobody
    /\ Moved(f, IF built THEN "send" ELSE "auth")
    /\ building' = IF built THEN Nobody ELSE f
    /\ UNCHANGED <<built, tokens, header, file, logins, others, errors>>

(* _authenticate is over: the client is there, or the 401 has cost its      *)
(* attempt and the request goes out again.                                  *)
Authenticated(f) ==
    \/ /\ building = f
       /\ built' = TRUE /\ building' = Nobody
       /\ Moved(f, "send")
    \/ /\ building # f
       /\ NextAttempt(f)
       /\ UNCHANGED <<built, building>>

ReadToken(f) ==
    /\ fetch[f].at = "auth"
    /\ \/ Readable(file) /\ header' = file /\ Authenticated(f)
       \/ ~Readable(file) /\ Moved(f, "login") /\ UNCHANGED <<built, building, header>>
    /\ UNCHANGED <<tokens, file, logins, others, errors>>

Login(f) ==
    /\ fetch[f].at = "login"
    /\ tokens' = Append(tokens, "good")
    /\ header' = Len(tokens')
    /\ Put(f, [fetch[f] EXCEPT !.at = "write", !.token = Len(tokens'), !.tries = 0])
    /\ logins' = logins + 1
    /\ UNCHANGED <<built, building, file, others, errors>>

WriteToken(f) ==
    /\ fetch[f].at = "write"
    /\ file' = fetch[f].token
    /\ Authenticated(f)
    /\ UNCHANGED <<tokens, header, logins, others, errors>>

(* An exception leaves the with statement of get_client and the request.    *)
Abort(f, place) ==
    /\ Moved(f, place)
    /\ building' = IF building = f THEN Nobody ELSE building

(* 429 from /login: waited for and asked again, MAX_RETRIES times in all.   *)
LoginLimited(f) ==
    /\ fetch[f].at = "login"
    /\ \/ /\ fetch[f].tries + 1 < MAX_RETRIES
          /\ Put(f, [fetch[f] EXCEPT !.tries = @ + 1])
          /\ UNCHANGED building
       \/ fetch[f].tries + 1 = MAX_RETRIES /\ Abort(f, "exhausted")
    /\ UNCHANGED <<built, tokens, header, file, logins, others, errors>>

Send(f) ==
    /\ fetch[f].at = "send"
    /\ Put(f, [fetch[f] EXCEPT !.at = "answer", !.token = header])
    /\ UNCHANGED <<built, building, tokens, header, file, logins, others, errors>>

Answered(f) ==
    /\ fetch[f].at = "answer"
    /\ fetch[f].token \notin Dead
    /\ Moved(f, "done")
    /\ UNCHANGED <<built, building, tokens, header, file, logins, others, errors>>

Limited(f) ==
    /\ fetch[f].at = "answer"
    /\ NextAttempt(f)
    /\ UNCHANGED <<built, building, tokens, header, file, logins, others, errors>>

(* Variant: after a 401 the token file is kept.                             *)
RefusedKeepsFile(f) ==
    /\ fetch[f].at = "answer"
    /\ fetch[f].token \in Dead
    /\ Put(f, [fetch[f] EXCEPT !.at = "auth", !.refused = @ + 1])
    /\ UNCHANGED <<built, building, tokens, header, file, logins, others, errors>>

(* 401: _decide throws the token file away, whichever token is in it by     *)
(* now, and authenticates.                                                  *)
Refused(f) ==
    /\ fetch[f].at = "answer"
    /\ fetch[f].token \in Dead
    /\ file' = NoToken
    /\ Put(f, [fetch[f] EXCEPT !.at = "auth", !.refused = @ + 1])
    /\ UNCHANGED <<built, building, tokens, header, logins, others, errors>>

(* The network, another status, a login refused, a file not writable.       *)
Raises(f) ==
    /\ fetch[f].at \in {"login", "write", "answer"}
    /\ errors < MaxErrors
    /\ errors' = errors + 1
    /\ Abort(f, "failed")
    /\ UNCHANGED <<built, tokens, header, file, logins, others>>

(* Tokens live for long: none dies between its login and the write of it.   *)
TokenDies(k) ==
    /\ Cardinality(Dead) < MaxDeaths
    /\ \A f \in Fetcher : fetch[f].at = "write" => fetch[f].token # k
    /\ \/ tokens[k] = "good" /\ \E to \in {"late", "revoked"} : tokens' = [tokens EXCEPT ![k] = to]
       \/ tokens[k] = "late" /\ tokens' = [tokens EXCEPT ![k] = "expired"]
    /\ UNCHANGED <<built, building, header, file, fetch, logins, others, errors>>

(* The batch and the server have clients of their own over the same file.   *)
OtherProcess ==
    /\ others < MaxOthers
    /\ others' = others + 1
    /\ \/ tokens' = Append(tokens, "good") /\ file' = Len(tokens')
       \/ file' = NoToken /\ UNCHANGED tokens
    /\ UNCHANGED <<built, building, header, fetch, logins, errors>>

ClientNext ==
    \/ \E f \in Fetcher :
         \/ GetClient(f) \/ ReadToken(f) \/ Login(f) \/ LoginLimited(f) \/ WriteToken(f)
         \/ Send(f) \/ Answered(f) \/ Limited(f) \/ Refused(f) \/ Raises(f)
    \/ \E k \in DOMAIN tokens : TokenDies(k)
    \/ OtherProcess

ClientSpec == ClientInit /\ [][ClientNext]_clientVars

-----------------------------------------------------------------------------
(* /login has a rate limit of its own, so logging in must stay rare: the    *)
(* first requests together log in once, and again only after an error; and  *)
(* a token that dies costs each request under way one attempt and one login *)
(* at most, although every one of them deletes the file and writes the      *)
(* header that the others are using.                                        *)
ReauthenticationSettles ==
    /\ \A f \in Fetcher : fetch[f].refused <= Cardinality(Dead)
    /\ logins <= 1 + errors + Total([f \in Fetcher |-> fetch[f].refused], Fetcher)
=============================================================================
