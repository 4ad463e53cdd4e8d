--------------------------- MODULE SocialAccounts ---------------------------
(***************************************************************************)
(* Connected destination accounts and their stored credentials             *)
(* (complete_social_connection.py, revoke_social_account.py,               *)
(* credential_service.py).                                                 *)
(*                                                                         *)
(* The account row and the credential row are written in transactions of   *)
(* their own, so each operation here is a process of several steps: a      *)
(* connection upserts the account and then stores the credential, a        *)
(* revocation deletes the credential and then marks the account.  The      *)
(* operators at the end are what a publish worker does with a credential.  *)
(***************************************************************************)
EXTENDS Naturals

CONSTANTS Account,       \* accounts of users at destination platforms
          Worker,        \* those who refresh tokens
          MaxConnects    \* bound on the connections of an account

VARIABLES
  account,      \* account[a]: status of the social_accounts row, or "absent"
  credential,   \* credential[a]: "none", or what its access token is worth
  loaded,       \* loaded[a]: the workers refreshing the row the credential of a is in
  connecting,   \* connecting[a]: a connection has yet to store its tokens
  revoking,     \* revoking[a]: a revocation has yet to mark the account
  connects      \* connects[a]: connections completed, for the bound

rowVars == <<account, credential>>
processVars == <<connecting, revoking, connects>>
accountVars == <<rowVars, loaded, processVars>>

AccountStatus == {"absent", "connected", "revoked"}

\* "due" is inside the refresh skew or past its expiry.
Credential == {"none", "fresh", "due"}

TypeOK ==
  /\ account \in [Account -> AccountStatus]
  /\ credential \in [Account -> Credential]
  /\ loaded \in [Account -> SUBSET Worker]
  /\ connecting \in [Account -> BOOLEAN]
  /\ revoking \in [Account -> BOOLEAN]
  /\ connects \in [Account -> 0..MaxConnects]

Init == /\ account = [a \in Account |-> "absent"]
        /\ credential = [a \in Account |-> "none"]
        /\ loaded = [a \in Account |-> {}]
        /\ connecting = [a \in Account |-> FALSE]
        /\ revoking = [a \in Account |-> FALSE]
        /\ connects = [a \in Account |-> 0]
-----------------------------------------------------------------------------
(***************************************************************************)
(* Connecting.                                                             *)
(***************************************************************************)
\* CompleteSocialConnection.execute, the exchange done: upsert_connected revives a
\* revoked row and commits ...
Connect(a) ==
  /\ ~connecting[a] /\ connects[a] < MaxConnects
  /\ account' = [account EXCEPT ![a] = "connected"]
  /\ connecting' = [connecting EXCEPT ![a] = TRUE]
  /\ connects' = [connects EXCEPT ![a] = @ + 1]
  /\ UNCHANGED <<credential, loaded, revoking>>

\* ... and then the credential is stored: a new row, or other tokens in the one there is.
Store(a) ==
  /\ connecting[a]
  /\ credential' = [credential EXCEPT ![a] = "fresh"]
  /\ connecting' = [connecting EXCEPT ![a] = FALSE]
  /\ UNCHANGED <<account, loaded, revoking, connects>>

\* "A failure here leaves the account with no credential."
StoreFails(a) ==
  /\ connecting[a]
  /\ connecting' = [connecting EXCEPT ![a] = FALSE]
  /\ UNCHANGED <<rowVars, loaded, revoking, connects>>
-----------------------------------------------------------------------------
(***************************************************************************)
(* Revoking.                                                               *)
(***************************************************************************)
\* RevokeSocialAccount.execute finds the account, whatever its status, tells the
\* provider, best effort, and deletes the credential: revoke.  Whoever has loaded the row
\* has it no more, even if a later connection stores another ...
RevokeCredential(a) ==
  /\ ~revoking[a] /\ account[a] # "absent"
  /\ credential' = [credential EXCEPT ![a] = "none"]
  /\ loaded' = [loaded EXCEPT ![a] = {}]
  /\ revoking' = [revoking EXCEPT ![a] = TRUE]
  /\ UNCHANGED <<account, connecting, connects>>

\* ... and mark_revoked.
MarkRevoked(a) ==
  /\ revoking[a]
  /\ account' = [account EXCEPT ![a] = "revoked"]
  /\ revoking' = [revoking EXCEPT ![a] = FALSE]
  /\ UNCHANGED <<credential, loaded, connecting, connects>>

\* Time passes over an access token.
Ages(a) ==
  /\ credential[a] = "fresh"
  /\ credential' = [credential EXCEPT ![a] = "due"]
  /\ UNCHANGED <<account, loaded, processVars>>

Next == \E a \in Account : \/ Connect(a) \/ Store(a) \/ StoreFails(a)
                           \/ RevokeCredential(a) \/ MarkRevoked(a)
                           \/ Ages(a)
-----------------------------------------------------------------------------
(***************************************************************************)
(* SocialCredentialService.authorize, as its caller sees it.               *)
(***************************************************************************)
\* The account is connected and has a credential; otherwise it fails closed.
Authorizable(a) == account[a] = "connected" /\ credential[a] # "none"

NeedsRefresh(a) == credential[a] = "due"

\* A refreshed token is written to the row that was loaded, by its own key: nothing keeps
\* that row from being deleted meanwhile, and then the flush raises StaleDataError.
Load(a, w) == loaded' = [loaded EXCEPT ![a] = @ \cup {w}]
Forget(w) == loaded' = [a \in Account |-> loaded[a] \ {w}]
RotationLost(a, w) == w \notin loaded[a]

Rotate(a) == /\ credential' = [credential EXCEPT ![a] = "fresh"]
             /\ UNCHANGED <<account, processVars>>
=============================================================================
