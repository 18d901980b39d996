------------------------------- MODULE Accounts -------------------------------
(***************************************************************************)
(* How a player becomes somebody: the Discord login with its pairing codes *)
(* (src/src/discord_auth.rs), the account and the device key it leaves in  *)
(* the database (src/src/identity.rs, src/src/secrets.rs), and the routes  *)
(* by which a device proves its key over a nonce                           *)
(* (src/src/routes/mod.rs).                                                *)
(*                                                                         *)
(* Every request runs on a task of its own.  A step is one lock scope of a *)
(* store or one statement of the database; between two of them any other   *)
(* request may run.  The stores are in memory, the rows are not.           *)
(*                                                                         *)
(* Abstracted: time, to whether a code or a nonce has aged; Discord, to    *)
(* who authorised the login or that it failed; names and tokens.  A row    *)
(* and a key are named by the callback that inserted them: both are random *)
(* in the code, as codes and nonces are, and never made twice.             *)
(***************************************************************************)
EXTENDS Naturals, Sequences, FiniteSets

CONSTANTS
  Person,    \* Discord ids
  Code,      \* pairing codes
  Callback,  \* requests of /auth/discord/callback
  Nonce,
  Proof,     \* requests that carry a proof: session, handle, revoke
  None, Failed

ASSUME AccountConstants ==
  /\ None \notin Callback /\ Failed \notin Callback /\ None # Failed
  /\ None \notin Person /\ None \notin Code /\ None \notin Nonce

VARIABLES
  login,    \* LoginStore: what became of each code
  nonce,    \* ChallengeStore
  players,  \* players: rows by the Discord id they carry
  secrets,  \* player_secrets
  cb,       \* what each callback has done
  proof,    \* what each proof has done
  polled,   \* polled[c]: outcomes handed out for c, in order
  spent,    \* spent[n]: requests that got past n
  minted    \* sessions issued for a proof, with the keys revoked before it began

accountVars == <<login, nonce, players, secrets, cb, proof, polled, spent, minted>>

-----------------------------------------------------------------------------
(* State *)

\* A failure, or the key that was issued.
Outcome == {None, Failed} \cup Callback

PendingLogin == [state : {"unused", "pending", "gone"}, aged : BOOLEAN, outcome : Outcome]

\* id is the callback that inserted the row.
PlayerRow == [person : Person, id : Callback]

SecretRow == [key : Callback, player : Callback, revoked : BOOLEAN]

CallbackTask ==
  [step : {"idle", "asking", "inserting", "issuing", "finishing", "done"},
   code : Code \cup {None}, person : Person \cup {None}, player : Callback \cup {None},
   outcome : Outcome]

ProofTask ==
  [step : {"idle", "spending", "verifying", "verified", "revoking", "done"},
   kind : {"session", "handle", "revoke", "revoke_all"},
   nonce : Nonce \cup {None}, key : Callback \cup {None}, dead : SUBSET Callback]

AccountsInit ==
  /\ login = [c \in Code |-> [state |-> "unused", aged |-> FALSE, outcome |-> None]]
  /\ nonce = [n \in Nonce |-> "unused"]
  /\ players = {}
  /\ secrets = {}
  /\ cb = [l \in Callback |-> [step |-> "idle", code |-> None, person |-> None,
                               player |-> None, outcome |-> None]]
  /\ proof = [r \in Proof |-> [step |-> "idle", kind |-> "session", nonce |-> None,
                               key |-> None, dead |-> {}]]
  /\ polled = [c \in Code |-> <<>>]
  /\ spent = [n \in Nonce |-> 0]
  /\ minted = {}

-----------------------------------------------------------------------------
(* LoginStore *)

\* begin also drops what has aged, finished or not.
BeginLogin(c) ==
  /\ login[c].state = "unused"
  /\ login' = [d \in Code |->
       IF d = c THEN [state |-> "pending", aged |-> FALSE, outcome |-> None]
       ELSE IF login[d].state = "pending" /\ login[d].aged
            THEN [login[d] EXCEPT !.state = "gone"] ELSE login[d]]
  /\ UNCHANGED <<nonce, players, secrets, cb, proof, polled, spent, minted>>

AgeLogin(c) ==
  /\ login[c].state = "pending" /\ ~login[c].aged
  /\ login' = [login EXCEPT ![c].aged = TRUE]
  /\ UNCHANGED <<nonce, players, secrets, cb, proof, polled, spent, minted>>

\* finish: nothing to do for a code that is gone.
Finished(c, o) ==
  IF login[c].state = "pending" THEN [login EXCEPT ![c].outcome = o] ELSE login

\* Mutant of Taken: the outcome stays for the next poll.
Taken_kept(c) == login

Taken(c) == [login EXCEPT ![c].state = "gone"]

\* take: an outcome, or "expired", once; else 202.
Poll(c) ==
  /\ login[c].state = "pending"
  /\ login[c].outcome # None \/ login[c].aged
  /\ login' = Taken(c)
  /\ polled' = [polled EXCEPT ![c] =
       Append(@, IF login[c].outcome = None THEN Failed ELSE login[c].outcome)]
  /\ UNCHANGED <<nonce, players, secrets, cb, proof, spent, minted>>

-----------------------------------------------------------------------------
(* The callback: complete, link_discord, secrets::issue *)

CallbackAt(l, s) == cb[l].step = s

\* A browser comes back from Discord for some code: cancelled, or with a code
\* of Discord's to exchange.
CallbackArrives(l, c) ==
  /\ CallbackAt(l, "idle")
  /\ login[c].state # "unused"
  /\ \/ cb' = [cb EXCEPT ![l] = [@ EXCEPT !.step = "asking", !.code = c]]
     \/ cb' = [cb EXCEPT ![l] = [@ EXCEPT !.step = "finishing", !.code = c, !.outcome = Failed]]
  /\ UNCHANGED <<login, nonce, players, secrets, proof, polled, spent, minted>>

Fails(l) == cb' = [cb EXCEPT ![l] = [@ EXCEPT !.step = "finishing", !.outcome = Failed]]

\* Discord names the person and link_discord looks for the row; or Discord
\* refuses, or cannot be reached, or the guild does not know the person.
Authorized(l) ==
  /\ CallbackAt(l, "asking")
  /\ \/ Fails(l)
     \/ \E d \in Person :
          LET rows == {p \in players : p.person = d} IN
          \/ /\ rows = {}
             /\ cb' = [cb EXCEPT ![l] = [@ EXCEPT !.step = "inserting", !.person = d]]
          \/ \E p \in rows :
               cb' = [cb EXCEPT ![l] = [@ EXCEPT !.step = "issuing", !.person = d,
                                                 !.player = p.id]]
  /\ UNCHANGED <<login, nonce, players, secrets, proof, polled, spent, minted>>

\* Mutant of RowTaken: no unique index on players.discord_id.
RowTaken_never(d) == FALSE

\* idx_players_discord_id
RowTaken(d) == \E p \in players : p.person = d

\* The insert of a first login, which fails if a second one has overtaken it.
InsertPlayer(l) ==
  /\ CallbackAt(l, "inserting")
  /\ \/ Fails(l) /\ UNCHANGED players
     \/ /\ ~RowTaken(cb[l].person)
        /\ players' = players \cup {[person |-> cb[l].person, id |-> l]}
        /\ cb' = [cb EXCEPT ![l] = [@ EXCEPT !.step = "issuing", !.player = l]]
  /\ UNCHANGED <<login, nonce, secrets, proof, polled, spent, minted>>

\* A session is signed and the key of this sign-in inserted, or neither works.
IssueKey(l) ==
  /\ CallbackAt(l, "issuing")
  /\ \/ Fails(l) /\ UNCHANGED secrets
     \/ /\ secrets' = secrets \cup {[key |-> l, player |-> cb[l].player, revoked |-> FALSE]}
        /\ cb' = [cb EXCEPT ![l] = [@ EXCEPT !.step = "finishing", !.outcome = l]]
  /\ UNCHANGED <<login, nonce, players, proof, polled, spent, minted>>

FinishLogin(l) ==
  /\ CallbackAt(l, "finishing")
  /\ login' = Finished(cb[l].code, cb[l].outcome)
  /\ cb' = [cb EXCEPT ![l].step = "done"]
  /\ UNCHANGED <<nonce, players, secrets, proof, polled, spent, minted>>

-----------------------------------------------------------------------------
(* ChallengeStore *)

\* issue also drops what has aged.
Challenge(n) ==
  /\ nonce[n] = "unused"
  /\ nonce' = [m \in Nonce |-> IF m = n THEN "fresh"
                              ELSE IF nonce[m] = "aged" THEN "gone" ELSE nonce[m]]
  /\ UNCHANGED <<login, players, secrets, cb, proof, polled, spent, minted>>

AgeNonce(n) ==
  /\ nonce[n] = "fresh"
  /\ nonce' = [nonce EXCEPT ![n] = "aged"]
  /\ UNCHANGED <<login, players, secrets, cb, proof, polled, spent, minted>>

-----------------------------------------------------------------------------
(* session_from_secret, set_handle, revoke_secret *)

ProofAt(r, s) == proof[r].step = s

\* The keys a poll has handed out: those a device may hold.
Held == {k \in Callback : \E c \in Code : \E i \in 1 .. Len(polled[c]) : polled[c][i] = k}

LiveKey(k)    == \E x \in secrets : x.key = k /\ ~x.revoked
Revoked(k) == \E x \in secrets : x.key = k /\ x.revoked

\* A proof over any nonce there ever was, sent once or sent again.
ProofArrives(r, n, k) ==
  /\ ProofAt(r, "idle")
  /\ nonce[n] # "unused" /\ k \in Held
  /\ \E kind \in {"session", "handle", "revoke", "revoke_all"} :
       proof' = [proof EXCEPT ![r] = [step |-> "spending", kind |-> kind, nonce |-> n,
                                      key |-> k, dead |-> {d \in Callback : Revoked(d)}]]
  /\ UNCHANGED <<login, nonce, players, secrets, cb, polled, spent, minted>>

Removed(n) == [nonce EXCEPT ![n] = "gone"]

\* take, before anything is looked at
SpendNonce(r) ==
  /\ ProofAt(r, "spending")
  /\ nonce' = Removed(proof[r].nonce)
  /\ IF nonce[proof[r].nonce] = "fresh"
     THEN /\ spent' = [spent EXCEPT ![proof[r].nonce] = @ + 1]
          /\ proof' = [proof EXCEPT ![r].step = "verifying"]
     ELSE /\ proof' = [proof EXCEPT ![r].step = "done"]
          /\ UNCHANGED spent
  /\ UNCHANGED <<login, players, secrets, cb, polled, minted>>

\* The live keys are read and the proof is tried on each.  A statement that
\* fails is answered like a proof that fits no key.
VerifyProof(r) ==
  /\ ProofAt(r, "verifying")
  /\ \/ /\ LiveKey(proof[r].key)
        /\ proof' = [proof EXCEPT ![r].step =
             IF proof[r].kind = "revoke" THEN "revoking" ELSE "verified"]
     \/ proof' = [proof EXCEPT ![r].step = "done"]
  /\ UNCHANGED <<login, nonce, players, secrets, cb, polled, spent, minted>>

\* The session is signed.
MintSession(r) ==
  /\ ProofAt(r, "verified") /\ proof[r].kind = "session"
  /\ minted' = minted \cup {[key |-> proof[r].key, dead |-> proof[r].dead]}
  /\ proof' = [proof EXCEPT ![r].step = "done"]
  /\ UNCHANGED <<login, nonce, players, secrets, cb, polled, spent>>

\* The handle is checked and written, or refused.
SetHandle(r) ==
  /\ ProofAt(r, "verified") /\ proof[r].kind = "handle"
  /\ proof' = [proof EXCEPT ![r].step = "done"]
  /\ UNCHANGED <<login, nonce, players, secrets, cb, polled, spent, minted>>

Owner(k) == {x.player : x \in {y \in secrets : y.key = k}}

KeysOfOwner(k) == {x.key : x \in {y \in secrets : y.player \in Owner(k)}}

WithRevoked(K) ==
  {IF x.key \in K THEN [x EXCEPT !.revoked = TRUE] ELSE x : x \in secrets}

\* revoke_all and the update of revoke_by_proof, each of which may fail.
RevokeKeys(r) ==
  /\ \/ /\ ProofAt(r, "verified") /\ proof[r].kind = "revoke_all"
        /\ secrets' = WithRevoked(KeysOfOwner(proof[r].key))
     \/ /\ ProofAt(r, "revoking")
        /\ secrets' = WithRevoked({proof[r].key})
     \/ /\ ProofAt(r, "revoking") \/ (ProofAt(r, "verified") /\ proof[r].kind = "revoke_all")
        /\ UNCHANGED secrets
  /\ proof' = [proof EXCEPT ![r].step = "done"]
  /\ UNCHANGED <<login, nonce, players, cb, polled, spent, minted>>

-----------------------------------------------------------------------------
(* The specification *)

AccountsNext ==
  \/ \E c \in Code : BeginLogin(c) \/ AgeLogin(c) \/ Poll(c)
  \/ \E l \in Callback :
       \/ \E c \in Code : CallbackArrives(l, c)
       \/ Authorized(l) \/ InsertPlayer(l) \/ IssueKey(l) \/ FinishLogin(l)
  \/ \E n \in Nonce : Challenge(n) \/ AgeNonce(n)
  \/ \E r \in Proof :
       \/ \E n \in Nonce, k \in Callback : ProofArrives(r, n, k)
       \/ SpendNonce(r) \/ VerifyProof(r) \/ MintSession(r) \/ SetHandle(r)
       \/ RevokeKeys(r)

AccountsSpec == AccountsInit /\ [][AccountsNext]_accountVars

-----------------------------------------------------------------------------
(* Properties *)

AccountsTypeOK ==
  /\ login \in [Code -> PendingLogin]
  /\ nonce \in [Nonce -> {"unused", "fresh", "aged", "gone"}]
  /\ players \subseteq PlayerRow
  /\ secrets \subseteq SecretRow
  /\ cb \in [Callback -> CallbackTask]
  /\ proof \in [Proof -> ProofTask]
  /\ polled \in [Code -> Seq({Failed} \cup Callback)]
  /\ spent \in [Nonce -> Nat]
  /\ minted \subseteq [key : Callback, dead : SUBSET Callback]

\* A pairing code hands out one outcome, however often the browser comes back
\* and the launcher polls; a key is handed out for one code only; and a nonce
\* lets one request past, whichever of the three routes it and its copies take.
SpentOnce ==
  /\ \A c \in Code : Len(polled[c]) <= 1
  /\ \A c, d \in Code : c # d => \A k \in Callback :
       ~(\E i \in 1 .. Len(polled[c]), j \in 1 .. Len(polled[d]) :
           polled[c][i] = k /\ polled[d][j] = k)
  /\ \A n \in Nonce : spent[n] <= 1

\* No session is minted by a key that was revoked before the request began,
\* by any device and with any request of the account under way meanwhile.
RevokedStaysOut == \A m \in minted : m.key \notin m.dead

\* What a device signs in with is good once, and a key until it is revoked,
\* whatever requests of whichever device run at once (LoginStore,
\* ChallengeStore, secrets).
CredentialsHold == SpentOnce /\ RevokedStaysOut

\* The keys of one person's sign-ins belong to one account and those of two
\* people to two, though the row is looked for and inserted in two statements
\* and two first logins may run at once (link_discord).
OneAccountEach ==
  \A x, y \in secrets :
    (cb[x.key].person = cb[y.key].person) <=> (x.player = y.player)
=============================================================================
