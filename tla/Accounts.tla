------------------------------ MODULE Accounts ------------------------------
(***************************************************************************)
(* Accounts under one e-mail address and their sessions (use_cases/auth,   *)
(* use_cases/users): registration, login, rotation of a refresh token,     *)
(* logout, and the profile with its version.                               *)
(*                                                                         *)
(* Each sign-up makes a tenant of its own, so the unique (tenant, e-mail)  *)
(* never tells two sign-ups apart: only the check before them does.  The   *)
(* sessions that follow from one login are a family, each rotation revokes *)
(* one and adds one.                                                       *)
(***************************************************************************)
EXTENDS Naturals, FiniteSets

CONSTANTS Client, Account, Session, Name,
          Nobody,     \* no account
          MaxCalls    \* bound on the requests of a behaviour

VARIABLES
  users,      \* users[a] = [state, born, name, version]
  sessions,   \* sessions[s] = [state, user, family]
  requests,   \* requests[c]: what c's open request has found out
  made,       \* requests made: the transactions start in this order
  signUps,    \* ghost: accounts registered after another sign-up had overtaken theirs
  swept       \* ghost: families revoked while no refresh of theirs got in between

accountVars == <<users, sessions, requests, made, signUps, swept>>

UserRow == [state : {"absent", "live"}, born : 0..MaxCalls, name : Name, version : Nat]
SessionRow == [state : {"absent", "live", "revoked"}, user : Account \cup {Nobody},
               family : Session]
Closed == [op |-> "none"]
Live == {a \in Account : users[a].state = "live"}

\* get_by_email: the first by created_at, which is when the transaction began.
ByEmail == {a \in Live : \A b \in Live : users[a].born <= users[b].born}

Init == /\ \E n \in Name :
             users = [a \in Account |-> [state |-> "absent", born |-> 0, name |-> n, version |-> 1]]
        /\ sessions = [s \in Session |-> [state |-> "absent", user |-> Nobody, family |-> s]]
        /\ requests = [c \in Client |-> Closed]
        /\ made = 0 /\ signUps = {} /\ swept = {}
-----------------------------------------------------------------------------
Within == made < MaxCalls /\ made' = made + 1
Opens(c, r) == /\ requests[c] = Closed /\ Within
               /\ requests' = [requests EXCEPT ![c] = r]
               /\ UNCHANGED <<users, sessions, signUps, swept>>
Ends(c) == requests' = [requests EXCEPT ![c] = Closed] /\ UNCHANGED made

AddSession(s, a, family) ==
  /\ sessions[s].state = "absent"
  /\ sessions' = [sessions EXCEPT ![s] = [state |-> "live", user |-> a, family |-> family]]

\* RegisterUser: the address is free (409 if not); slugs that collide are drawn again,
\* each in a SAVEPOINT.
FreeAddress == Live = {}

BeginRegister(c, n) ==
  FreeAddress /\ Opens(c, [op |-> "register", name |-> n, born |-> made + 1, overtaken |-> FALSE])

\* Tenant, user, role and first session, one commit.
Register(c, a, s) ==
  LET r == requests[c] IN
  /\ r.op = "register" /\ users[a].state = "absent"
  /\ users' = [users EXCEPT ![a] =
                 [state |-> "live", born |-> r.born, name |-> r.name, version |-> 1]]
  /\ AddSession(s, a, s)
  /\ requests' = [d \in Client |-> IF d = c THEN Closed
                                   ELSE IF requests[d].op = "register"
                                     THEN [requests[d] EXCEPT !.overtaken = TRUE] ELSE requests[d]]
  /\ signUps' = IF r.overtaken THEN signUps \cup {a} ELSE signUps
  /\ UNCHANGED <<made, swept>>

\* LoginUser, with the password of a; update_last_login lets the trigger bump the version.
Login(a, s) ==
  /\ a \in ByEmail /\ Within
  /\ AddSession(s, a, s)
  /\ users' = [users EXCEPT ![a].version = @ + 1]
  /\ UNCHANGED <<requests, signUps, swept>>

\* RefreshSession: the row of the token, by its hash.
BeginRefresh(c, s) ==
  /\ sessions[s].state # "absent"
  /\ Opens(c, [op |-> IF sessions[s].state = "revoked" THEN "replayed" ELSE "rotate", on |-> s])

\* revoke: the row is still live under its lock.  (Mutant: it was when it was read.)
RevokedAnyway(s) == TRUE
Revocable(s) == sessions[s].state = "live"

\* Who is revoking the family from a list does not know of its new member.
Unlisted(family) ==
  [d \in Client |-> IF requests[d].op = "revoke" /\ requests[d].of = family
                      THEN [requests[d] EXCEPT !.missed = TRUE] ELSE requests[d]]

Rotate(c, new) ==
  LET s == requests[c].on IN
  /\ requests[c].op = "rotate" /\ sessions[new].state = "absent"
  /\ IF Revocable(s)
       THEN /\ sessions' = [sessions EXCEPT ![s].state = "revoked",
                                            ![new] = [sessions[s] EXCEPT !.state = "live"]]
            /\ requests' = [Unlisted(sessions[s].family) EXCEPT ![c] = Closed]
            /\ UNCHANGED made
       ELSE Ends(c) /\ UNCHANGED sessions
  /\ UNCHANGED <<users, signUps, swept>>

\* _revoke_family: the live members are listed, then revoked one by one, in one commit.
ListFamily(c) ==
  LET s == requests[c].on IN
  /\ requests[c].op = "replayed"
  /\ requests' = [requests EXCEPT ![c] =
       [op |-> "revoke", of |-> sessions[s].family, missed |-> FALSE,
        family |-> {t \in Session : /\ sessions[t].state = "live"
                                    /\ sessions[t].family = sessions[s].family}]]
  /\ UNCHANGED <<users, sessions, made, signUps, swept>>

RevokeListed(c) ==
  /\ requests[c].op = "revoke"
  /\ Ends(c)
  /\ sessions' = [s \in Session |-> IF s \in requests[c].family /\ Revocable(s)
                                      THEN [sessions[s] EXCEPT !.state = "revoked"]
                                      ELSE sessions[s]]
  /\ swept' = IF requests[c].missed THEN swept ELSE swept \cup {requests[c].of}
  /\ UNCHANGED <<users, signUps>>

\* LogoutSession, by an access token that may have expired.
Logout(s) ==
  /\ sessions[s].state = "live" /\ Within
  /\ sessions' = [sessions EXCEPT ![s].state = "revoked"]
  /\ UNCHANGED <<users, requests, signUps, swept>>

\* UpdateUserProfile under a live session: the row of the version the client expects,
\* with another name (the same name is a no-op).
BeginEdit(c, s, n) ==
  LET a == sessions[s].user IN
  /\ sessions[s].state = "live" /\ users[a].name # n
  /\ Opens(c, [op |-> "edit", on |-> a, name |-> n, saw |-> users[a]])

\* The fence of update_profile.
MayEdit(r) == users[r.on].version = r.saw.version

UpdateProfile(c) ==
  LET r == requests[c] IN
  /\ r.op = "edit"
  /\ Ends(c)
  /\ users' = IF MayEdit(r)
                THEN [users EXCEPT ![r.on].name = r.name, ![r.on].version = @ + 1]
                ELSE users
  /\ UNCHANGED <<sessions, signUps, swept>>

Next ==
  \/ \E c \in Client :
       \/ \E n \in Name : BeginRegister(c, n) \/ \E s \in Session : BeginEdit(c, s, n)
       \/ \E s \in Session :
            \/ BeginRefresh(c, s) \/ Rotate(c, s)
            \/ \E a \in Account : Register(c, a, s)
       \/ ListFamily(c) \/ RevokeListed(c) \/ UpdateProfile(c)
  \/ \E s \in Session : Logout(s) \/ \E a \in Account : Login(a, s)

Spec == Init /\ [][Next]_accountVars
-----------------------------------------------------------------------------
(***************************************************************************)
(* Properties                                                              *)
(***************************************************************************)
TypeOK ==
  /\ users \in [Account -> UserRow] /\ sessions \in [Session -> SessionRow]
  /\ \A c \in Client :
       requests[c].op \in {"none", "register", "rotate", "replayed", "revoke", "edit"}
  /\ made \in 0..MaxCalls /\ signUps \subseteq Account /\ swept \subseteq Session

\* A login has at most one session that lives, however its refreshes, their retries,
\* its logout and the revocation of the family overlap; nor does one change its account.
OneLiveSession ==
  \A s, t \in Session :
    sessions[s].state # "absent" /\ sessions[t].state # "absent"
      /\ sessions[s].family = sessions[t].family =>
        /\ sessions[s].user = sessions[t].user
        /\ sessions[s].state = "live" /\ sessions[t].state = "live" => s = t

\* A token used twice ends its family for good, unless a refresh commits between the list of
\* the live members and their revocation.
ReuseEndsFamily ==
  \A s \in Session : sessions[s].state = "live" => sessions[s].family \notin swept

\* Two accounts share the address only through a sign-up that another one overtook.
OnlyRacesHurt == \A a, b \in Live : a # b => a \in signUps \/ b \in signUps

\* A change of the profile is made to what its client saw: not over another change, nor
\* over a login, which bumps the version too.
EditsWhatWasSeen ==
  [][\A c \in Client : requests[c].op = "edit" /\ requests'[c] = Closed /\ users' # users
       => users[requests[c].on] = requests[c].saw]_accountVars
=============================================================================
