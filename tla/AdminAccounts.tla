---------------------------- MODULE AdminAccounts ----------------------------
(***************************************************************************)
(* The account of a site's back end and the browsers that log in to it     *)
(* (web/admin.go).  The account holds one password and one session key, so *)
(* a new login ends the session of the previous one.  A login and a change *)
(* of password are two statements each: the password is verified first,    *)
(* and written, or a key stored, later.  Other requests run in between.    *)
(*                                                                         *)
(* verified and raced are history: the password each key was given for,    *)
(* and the keys of logins that a change of password overtook.              *)
(***************************************************************************)
EXTENDS Integers

CONSTANTS
    Browser,   \* browsers that ask for the back end
    Password,  \* what they type; the account has one of them
    NoKey,     \* no session (session_key is empty), no cookie
    Rest,      \* a browser between two requests
    MaxKey     \* bound: session keys ever handed out

Key == 1 .. MaxKey

ASSUME AccountAssumption == MaxKey \in Nat \ {0} /\ NoKey \notin Key

VARIABLES
    password,  \* accounts.password_hash
    session,   \* accounts.session_key and session_expires_at
    cookie,    \* the key each browser holds
    visit,     \* what each browser's request is in the middle of
    issued,    \* keys handed out so far: randomString never repeats one
    verified,  \* history
    raced      \* history

accountVars == <<password, session, cookie, visit, issued, verified, raced>>

Session == [key : Key \cup {NoKey}, live : BOOLEAN]
Login == [op : {"login"}, password : Password]
Change == [op : {"write"}, password : Password]
Admitted == [op : {"admitted"}]

AccountTypeOK ==
    /\ password \in Password
    /\ session \in Session
    /\ cookie \in [Browser -> Key \cup {NoKey}]
    /\ visit \in [Browser -> Login \cup Change \cup Admitted \cup {Rest}]
    /\ issued \in 0 .. MaxKey
    /\ verified \in [Key -> Password]
    /\ raced \in SUBSET Key

\* EnsureDefaults has made the account and nobody is logged in.
AccountInit ==
    /\ password \in Password
    /\ session = [key |-> NoKey, live |-> FALSE]
    /\ cookie = [b \in Browser |-> NoKey]
    /\ visit = [b \in Browser |-> Rest]
    /\ issued = 0
    /\ verified = [k \in Key |-> password]
    /\ raced = {}

\* The same after one login, whose key every browser holds.
LoggedInInit ==
    /\ password \in Password
    /\ session = [key |-> 1, live |-> TRUE]
    /\ cookie = [b \in Browser |-> 1]
    /\ visit = [b \in Browser |-> Rest]
    /\ issued = 1
    /\ verified = [k \in Key |-> password]
    /\ raced = {}

\* Authenticate: the key is the account's and its time is not over.
Authenticates(key) == key # NoKey /\ session.key = key /\ session.live

\* login: VerifyPassword.  A wrong password is the end of the request.
VerifyPassword(b, p) ==
    /\ visit[b] = Rest
    /\ p = password
    /\ visit' = [visit EXCEPT ![b] = [op |-> "login", password |-> p]]
    /\ UNCHANGED <<password, session, cookie, issued, verified, raced>>

\* login: NewSession overwrites the key, and the browser gets the cookie.
NewSession(b) ==
    /\ visit[b] # Rest /\ visit[b].op = "login"
    /\ issued < MaxKey
    /\ LET key == issued + 1
       IN  /\ session' = [key |-> key, live |-> TRUE]
           /\ cookie' = [cookie EXCEPT ![b] = key]
           /\ issued' = key
           /\ verified' = [verified EXCEPT ![key] = visit[b].password]
           /\ raced' = IF visit[b].password = password THEN raced
                                                       ELSE raced \cup {key}
    /\ visit' = [visit EXCEPT ![b] = Rest]
    /\ UNCHANGED password

\* requireAuth lets the request through to its handler.
RequireAuth(b) ==
    /\ visit[b] = Rest
    /\ Authenticates(cookie[b])
    /\ visit' = [visit EXCEPT ![b] = [op |-> "admitted"]]
    /\ UNCHANGED <<password, session, cookie, issued, verified, raced>>

\* logout: InvalidateSession, and the cookie is deleted.
Logout(b) ==
    /\ visit[b] # Rest /\ visit[b].op = "admitted"
    /\ session' = [key |-> NoKey, live |-> FALSE]
    /\ cookie' = [cookie EXCEPT ![b] = NoKey]
    /\ visit' = [visit EXCEPT ![b] = Rest]
    /\ UNCHANGED <<password, issued, verified, raced>>

\* changePassword: the old password is verified, p is the new one.
VerifyOld(b, old, p) ==
    /\ visit[b] # Rest /\ visit[b].op = "admitted"
    /\ old = password
    /\ visit' = [visit EXCEPT ![b] = [op |-> "write", password |-> p]]
    /\ UNCHANGED <<password, session, cookie, issued, verified, raced>>

\* Slip: the sessions are left alone.
SetPasswordKeepSession(b) ==
    /\ visit[b] # Rest /\ visit[b].op = "write"
    /\ password' = visit[b].password
    /\ visit' = [visit EXCEPT ![b] = Rest]
    /\ UNCHANGED <<session, cookie, issued, verified, raced>>

\* changePassword: SetPassword writes the hash and clears the session.
SetPassword(b) ==
    /\ visit[b] # Rest /\ visit[b].op = "write"
    /\ password' = visit[b].password
    /\ session' = [key |-> NoKey, live |-> FALSE]
    /\ visit' = [visit EXCEPT ![b] = Rest]
    /\ UNCHANGED <<cookie, issued, verified, raced>>

\* The week is over (sessionTTL).
Expire ==
    /\ session.live
    /\ session' = [session EXCEPT !.live = FALSE]
    /\ UNCHANGED <<password, cookie, visit, issued, verified, raced>>

\* A request that fails or is cancelled, or whose handler has answered.
Leave(b) ==
    /\ visit[b] # Rest
    /\ visit' = [visit EXCEPT ![b] = Rest]
    /\ UNCHANGED <<password, session, cookie, issued, verified, raced>>

AccountNext ==
    \/ \E b \in Browser, p \in Password : VerifyPassword(b, p)
    \/ \E b \in Browser : NewSession(b)
    \/ \E b \in Browser : RequireAuth(b)
    \/ \E b \in Browser : Logout(b)
    \/ \E b \in Browser, old, p \in Password : VerifyOld(b, old, p)
    \/ \E b \in Browser : SetPassword(b)
    \/ Expire
    \/ \E b \in Browser : Leave(b)

AccountSpec == AccountInit /\ [][AccountNext]_accountVars

-----------------------------------------------------------------------------
(***************************************************************************)
(* SetPassword changes the password and clears the session: a browser that *)
(* is let in holds the key of a login with the password that is now valid. *)
(* A login that had verified the old password before the change stores its *)
(* key after it (admin.go:449); such keys are in raced.                    *)
(***************************************************************************)
PasswordChangeEndsSessions ==
    \A b \in Browser :
        Authenticates(cookie[b]) =>
            verified[cookie[b]] = password \/ cookie[b] \in raced
=============================================================================
