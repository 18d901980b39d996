--------------------------- MODULE AccountsProofs ---------------------------
(***************************************************************************)
(* Proofs about Accounts, for any number of people, codes, nonces and      *)
(* requests.                                                               *)
(*                                                                         *)
(* Four facts, each about a few of the variables, are inductive together:  *)
(* which callback an outcome comes from, whose row and key a callback has  *)
(* inserted, that a nonce is gone once it was spent, and that a key a      *)
(* request saw revoked stays revoked while the request runs.               *)
(***************************************************************************)
EXTENDS Accounts, TLAPS

-----------------------------------------------------------------------------
(* The inductive invariant *)

\* An outcome that carries a key is that of the callback that issued it, for
\* the one code it was called for; and who polled has emptied the code.
LoginsOK ==
  /\ \A l \in Callback :
       /\ cb[l].outcome \in {None, Failed, l}
       /\ cb[l].outcome = l => cb[l].step \in {"finishing", "done"}
       /\ cb[l].step # "idle" => cb[l].code \in Code
       /\ cb[l].step = "finishing" => cb[l].outcome # None
  /\ \A c \in Code, k \in Callback :
       login[c].outcome = k => cb[k].step = "done" /\ cb[k].code = c
  /\ \A c \in Code : \A i \in 1 .. Len(polled[c]) :
       polled[c][i] \in Callback =>
         cb[polled[c][i]].step = "done" /\ cb[polled[c][i]].code = c
  /\ \A c \in Code : /\ Len(polled[c]) <= 1
                     /\ login[c].state # "gone" => polled[c] = <<>>

\* A person has one row and a row one person; a key is the account's of the
\* person who authorised its sign-in.
RowsOK ==
  /\ \A l \in Callback :
       /\ cb[l].step = "inserting" => cb[l].person \in Person
       /\ cb[l].step = "issuing" =>
            \E p \in players : p.person = cb[l].person /\ p.id = cb[l].player
  /\ \A p \in players : cb[p.id].step \in {"issuing", "finishing", "done"}
  /\ \A p, q \in players : p.person = q.person <=> p.id = q.id
  /\ \A x \in secrets :
       /\ cb[x.key].step \in {"finishing", "done"}
       /\ \E p \in players : p.person = cb[x.key].person /\ p.id = x.player
  /\ \A x, y \in secrets : x.key = y.key => x = y

NoncesOK == \A n \in Nonce : spent[n] = 0 \/ (spent[n] = 1 /\ nonce[n] = "gone")

\* What a request saw revoked is still revoked, and no key is both.
ProofsOK ==
  /\ \A r \in Proof :
       /\ proof[r].step # "idle" => \A d \in proof[r].dead : Revoked(d)
       /\ proof[r].step # "idle" => proof[r].nonce \in Nonce /\ proof[r].key \in Callback
       /\ proof[r].step = "verified" => proof[r].key \notin proof[r].dead
  /\ RevokedStaysOut

AccountsInv == AccountsTypeOK /\ LoginsOK /\ RowsOK /\ NoncesOK /\ ProofsOK

-----------------------------------------------------------------------------
(* Types *)

LEMMA InitTypes == AccountsInit => AccountsTypeOK
BY DEF AccountsInit, AccountsTypeOK, PendingLogin, CallbackTask, ProofTask, Outcome

\* The stores of codes and nonces.
LEMMA StoreTypes ==
  ASSUME AccountsTypeOK,
         \/ \E c \in Code : BeginLogin(c) \/ AgeLogin(c) \/ Poll(c)
         \/ \E n \in Nonce : Challenge(n) \/ AgeNonce(n)
  PROVE  AccountsTypeOK'
<1>0. login \in [Code -> PendingLogin]
  BY DEF AccountsTypeOK
<1>1. ASSUME NEW c \in Code, BeginLogin(c) PROVE AccountsTypeOK'
  <2>1. \A d \in Code : login[d] \in PendingLogin
    BY <1>0
  <2>2. \A d \in Code : [login[d] EXCEPT !.state = "gone"] \in PendingLogin
    BY <2>1 DEF PendingLogin
  <2>3. [state |-> "pending", aged |-> FALSE, outcome |-> None] \in PendingLogin
    BY DEF PendingLogin, Outcome
  <2>4. login' \in [Code -> PendingLogin]
    BY <1>1, <2>1, <2>2, <2>3 DEF BeginLogin
  <2> QED
    BY <1>1, <2>4 DEF AccountsTypeOK, BeginLogin
<1>2. ASSUME NEW c \in Code, AgeLogin(c) PROVE AccountsTypeOK'
  <2>1. login' \in [Code -> PendingLogin]
    BY <1>0, <1>2 DEF AgeLogin, PendingLogin
  <2> QED
    BY <1>2, <2>1 DEF AccountsTypeOK, AgeLogin
<1>3. ASSUME NEW c \in Code, Poll(c) PROVE AccountsTypeOK'
  <2>1. login[c].outcome \in {None, Failed} \cup Callback
    BY <1>0 DEF PendingLogin, Outcome
  <2>2. polled' \in [Code -> Seq({Failed} \cup Callback)]
    BY <1>3, <2>1 DEF AccountsTypeOK, Poll
  <2>3. login' \in [Code -> PendingLogin]
    BY <1>0, <1>3 DEF Poll, Taken, PendingLogin
  <2> QED
    BY <1>3, <2>2, <2>3 DEF AccountsTypeOK, Poll
<1>4. ASSUME NEW n \in Nonce, Challenge(n) PROVE AccountsTypeOK'
  BY <1>4 DEF AccountsTypeOK, Challenge
<1>5. ASSUME NEW n \in Nonce, AgeNonce(n) PROVE AccountsTypeOK'
  BY <1>5 DEF AccountsTypeOK, AgeNonce
<1> QED
  BY <1>1, <1>2, <1>3, <1>4, <1>5

\* The forms in which a callback goes on.
LEMMA CallbackShapes ==
  ASSUME NEW t \in CallbackTask
  PROVE  /\ \A c \in Code : [t EXCEPT !.step = "asking", !.code = c] \in CallbackTask
         /\ \A c \in Code :
              [t EXCEPT !.step = "finishing", !.code = c, !.outcome = Failed] \in CallbackTask
         /\ [t EXCEPT !.step = "finishing", !.outcome = Failed] \in CallbackTask
         /\ \A d \in Person : [t EXCEPT !.step = "inserting", !.person = d] \in CallbackTask
         /\ \A d \in Person, k \in Callback :
              [t EXCEPT !.step = "issuing", !.person = d, !.player = k] \in CallbackTask
         /\ \A k \in Callback : [t EXCEPT !.step = "issuing", !.player = k] \in CallbackTask
         /\ \A k \in Callback : [t EXCEPT !.step = "finishing", !.outcome = k] \in CallbackTask
         /\ [t EXCEPT !.step = "done"] \in CallbackTask
BY DEF CallbackTask, Outcome

LEMMA CallbackTypes ==
  ASSUME AccountsTypeOK, RowsOK, NEW l \in Callback,
         \/ \E c \in Code : CallbackArrives(l, c)
         \/ Authorized(l) \/ InsertPlayer(l) \/ IssueKey(l) \/ FinishLogin(l)
  PROVE  AccountsTypeOK'
<1>0. cb \in [Callback -> CallbackTask] /\ cb[l] \in CallbackTask
  BY DEF AccountsTypeOK
<1>f. Fails(l) => cb' \in [Callback -> CallbackTask]
  BY <1>0, CallbackShapes DEF Fails
<1>1. ASSUME NEW c \in Code, CallbackArrives(l, c) PROVE AccountsTypeOK'
  <2>1. cb' \in [Callback -> CallbackTask]
    BY <1>0, <1>1, CallbackShapes DEF CallbackArrives
  <2> QED
    BY <1>1, <2>1 DEF AccountsTypeOK, CallbackArrives
<1>2. CASE Authorized(l)
  <2>1. \A p \in players : p.id \in Callback
    BY DEF AccountsTypeOK, PlayerRow
  <2>2. \E t \in CallbackTask : cb' = [cb EXCEPT ![l] = t]
    <3>1. CASE Fails(l)
      BY <1>0, <3>1, CallbackShapes DEF Fails
    <3>2. ASSUME NEW d \in Person,
                 cb' = [cb EXCEPT ![l] = [cb[l] EXCEPT !.step = "inserting", !.person = d]]
          PROVE  \E t \in CallbackTask : cb' = [cb EXCEPT ![l] = t]
      BY <1>0, <3>2, CallbackShapes
    <3>3. ASSUME NEW d \in Person, NEW p \in players,
                 cb' = [cb EXCEPT ![l] = [cb[l] EXCEPT !.step = "issuing", !.person = d,
                                                       !.player = p.id]]
          PROVE  \E t \in CallbackTask : cb' = [cb EXCEPT ![l] = t]
      BY <1>0, <2>1, <3>3, CallbackShapes
    <3> QED
      BY <1>2, <3>1, <3>2, <3>3 DEF Authorized
  <2>3. cb' \in [Callback -> CallbackTask]
    BY <1>0, <2>2
  <2> QED
    BY <1>2, <2>3 DEF AccountsTypeOK, Authorized
<1>3. CASE InsertPlayer(l)
  <2>1. cb' \in [Callback -> CallbackTask]
    BY <1>0, <1>f, <1>3, CallbackShapes DEF InsertPlayer
  <2>2. cb[l].person \in Person
    BY <1>3 DEF InsertPlayer, CallbackAt, RowsOK
  <2>3. players' \subseteq PlayerRow
    BY <1>3, <2>2 DEF InsertPlayer, AccountsTypeOK, PlayerRow
  <2> QED
    BY <1>3, <2>1, <2>3 DEF AccountsTypeOK, InsertPlayer
<1>4. CASE IssueKey(l)
  <2>1. cb' \in [Callback -> CallbackTask]
    BY <1>0, <1>f, <1>4, CallbackShapes DEF IssueKey
  <2>2. cb[l].player \in Callback
    BY <1>4 DEF IssueKey, CallbackAt, RowsOK, AccountsTypeOK, PlayerRow
  <2>3. [key |-> l, player |-> cb[l].player, revoked |-> FALSE] \in SecretRow
    BY <2>2 DEF SecretRow
  <2>4. secrets' \subseteq SecretRow
    BY <1>4, <2>3 DEF IssueKey, AccountsTypeOK
  <2> QED
    BY <1>4, <2>1, <2>4 DEF AccountsTypeOK, IssueKey
<1>5. CASE FinishLogin(l)
  <2>1. cb' \in [Callback -> CallbackTask]
    BY <1>0, <1>5, CallbackShapes DEF FinishLogin
  <2>2. login \in [Code -> PendingLogin] /\ cb[l].outcome \in Outcome
    BY <1>0 DEF AccountsTypeOK, CallbackTask
  <2>3. login' \in [Code -> PendingLogin]
    BY <1>5, <2>2 DEF FinishLogin, Finished, PendingLogin
  <2> QED
    BY <1>5, <2>1, <2>3 DEF AccountsTypeOK, FinishLogin
<1> QED
  BY <1>1, <1>2, <1>3, <1>4, <1>5

\* A revocation leaves every key and its account, and revives none.
LEMMA RevokedRows ==
  ASSUME secrets \subseteq SecretRow, NEW K
  PROVE  /\ WithRevoked(K) \subseteq SecretRow
         /\ \A y \in WithRevoked(K) : \E x \in secrets : x.key = y.key /\ x.player = y.player
         /\ \A x \in secrets : \E y \in WithRevoked(K) : y.key = x.key /\ (x.revoked => y.revoked)
         /\ (\A x, y \in secrets : x.key = y.key => x = y) =>
              \A x, y \in WithRevoked(K) : x.key = y.key => x = y
<1> DEFINE new(x) == IF x.key \in K THEN [x EXCEPT !.revoked = TRUE] ELSE x
<1>1. \A x \in secrets : /\ new(x) \in SecretRow
                         /\ new(x).key = x.key /\ new(x).player = x.player
                         /\ x.revoked => new(x).revoked
  BY DEF SecretRow
<1>2. WithRevoked(K) = {new(x) : x \in secrets}
  BY DEF WithRevoked
<1> HIDE DEF new
<1> QED
  BY <1>1, <1>2

LEMMA ProofTypes ==
  ASSUME AccountsTypeOK, ProofsOK, NEW r \in Proof,
         \/ \E n \in Nonce, k \in Callback : ProofArrives(r, n, k)
         \/ SpendNonce(r) \/ VerifyProof(r) \/ MintSession(r) \/ SetHandle(r)
         \/ RevokeKeys(r)
  PROVE  AccountsTypeOK'
<1>0. proof \in [Proof -> ProofTask] /\ proof[r] \in ProofTask
  BY DEF AccountsTypeOK
<1>s. \A s \in {"done", "verifying", "revoking", "verified"} :
        [proof EXCEPT ![r].step = s] \in [Proof -> ProofTask]
  BY <1>0 DEF ProofTask
<1>1. ASSUME NEW n \in Nonce, NEW k \in Callback, ProofArrives(r, n, k) PROVE AccountsTypeOK'
  <2>1. proof' \in [Proof -> ProofTask]
    BY <1>0, <1>1 DEF ProofArrives, ProofTask
  <2> QED
    BY <1>1, <2>1 DEF AccountsTypeOK, ProofArrives
<1>2. CASE SpendNonce(r)
  <2>1. nonce' \in [Nonce -> {"unused", "fresh", "aged", "gone"}]
    BY <1>2 DEF AccountsTypeOK, SpendNonce, Removed
  <2>2. proof' \in [Proof -> ProofTask]
    BY <1>2, <1>s DEF SpendNonce
  <2>3. spent' = spent \/ spent' = [spent EXCEPT ![proof[r].nonce] = @ + 1]
    BY <1>2 DEF SpendNonce
  <2>4. spent' \in [Nonce -> Nat]
    BY <2>3 DEF AccountsTypeOK
  <2> QED
    BY <1>2, <2>1, <2>2, <2>4 DEF AccountsTypeOK, SpendNonce
<1>3. CASE VerifyProof(r)
  BY <1>3, <1>s DEF AccountsTypeOK, VerifyProof
<1>4. CASE MintSession(r)
  <2>1. proof[r].key \in Callback /\ proof[r].dead \subseteq Callback
    BY <1>0, <1>4 DEF MintSession, ProofAt, ProofsOK, ProofTask
  <2> QED
    BY <1>4, <1>s, <2>1 DEF AccountsTypeOK, MintSession
<1>5. CASE SetHandle(r)
  BY <1>5, <1>s DEF AccountsTypeOK, SetHandle
<1>6. CASE RevokeKeys(r)
  <2>1. secrets \subseteq SecretRow
    BY DEF AccountsTypeOK
  <2>2. secrets' \subseteq SecretRow
    BY <1>6, <2>1, RevokedRows DEF RevokeKeys
  <2> QED
    BY <1>6, <1>s, <2>2 DEF AccountsTypeOK, RevokeKeys
<1> QED
  BY <1>1, <1>2, <1>3, <1>4, <1>5, <1>6

-----------------------------------------------------------------------------
(* Outcomes *)

\* A callback goes on, and neither a code nor what was polled changes.
LEMMA LoginsMove ==
  ASSUME AccountsTypeOK, LoginsOK, NEW l \in Callback, NEW t \in CallbackTask,
         cb' = [cb EXCEPT ![l] = t], UNCHANGED <<login, polled>>,
         cb[l].step # "done",
         t.outcome \in {None, Failed, l},
         t.outcome = l => t.step \in {"finishing", "done"},
         t.step # "idle" => t.code \in Code,
         t.step = "finishing" => t.outcome # None
  PROVE  LoginsOK'
<1>1. /\ cb'[l] = t
      /\ \A k \in Callback : k # l => cb'[k] = cb[k]
  BY DEF AccountsTypeOK
<1>2. \A k \in Callback : cb[k].step = "done" => cb'[k] = cb[k]
  BY <1>1
<1> QED
  BY <1>1, <1>2 DEF LoginsOK

LEMMA LoginsKept ==
  ASSUME AccountsTypeOK, LoginsOK, AccountsNext
  PROVE  LoginsOK'
<1>t. /\ login \in [Code -> PendingLogin]
      /\ cb \in [Callback -> CallbackTask]
      /\ polled \in [Code -> Seq({Failed} \cup Callback)]
  BY DEF AccountsTypeOK
<1>n. None \notin Callback /\ Failed \notin Callback /\ None # Failed
  BY AccountConstants
<1>1. ASSUME NEW c \in Code, BeginLogin(c) PROVE LoginsOK'
  <2>1. \A d \in Code :
          /\ login'[d].outcome \in {login[d].outcome, None}
          /\ login'[d].state # "gone" => login[d].state # "gone"
    BY <1>1, <1>t DEF BeginLogin, PendingLogin
  <2> QED
    BY <1>1, <1>n, <2>1 DEF BeginLogin, LoginsOK
<1>2. ASSUME NEW c \in Code, AgeLogin(c) PROVE LoginsOK'
  <2>1. \A d \in Code : login'[d].outcome = login[d].outcome /\ login'[d].state = login[d].state
    BY <1>2, <1>t DEF AgeLogin, PendingLogin
  <2> QED
    BY <1>2, <2>1 DEF AgeLogin, LoginsOK
<1>3. ASSUME NEW c \in Code, Poll(c) PROVE LoginsOK'
  <2> DEFINE o == IF login[c].outcome = None THEN Failed ELSE login[c].outcome
  <2>1. /\ \A d \in Code : login'[d].outcome = login[d].outcome
        /\ \A d \in Code : login'[d].state # "gone" => login[d].state # "gone" /\ d # c
    BY <1>3, <1>t DEF Poll, Taken, PendingLogin
  <2>2. polled[c] = <<>>
    BY <1>3 DEF Poll, LoginsOK
  <2>3. polled'[c] = <<o>> /\ \A d \in Code : d # c => polled'[d] = polled[d]
    BY <1>3, <1>t, <2>2 DEF Poll
  <2>4. Len(polled'[c]) = 1 /\ polled'[c][1] = o
    BY <2>3
  <2>5. o \in Callback => cb[o].step = "done" /\ cb[o].code = c
    BY <1>n DEF LoginsOK
  <2>6. \A i \in 1 .. Len(polled'[c]) : polled'[c][i] = o
    BY <2>4
  <2> HIDE DEF o
  <2> QED
    BY <1>3, <2>1, <2>3, <2>4, <2>5, <2>6 DEF Poll, LoginsOK
<1>4. ASSUME NEW l \in Callback, NEW c \in Code, CallbackArrives(l, c) PROVE LoginsOK'
  <2>1. cb[l].step = "idle" /\ cb[l] \in CallbackTask
    BY <1>4, <1>t DEF CallbackArrives, CallbackAt
  <2> DEFINE t1 == [cb[l] EXCEPT !.step = "asking", !.code = c]
             t2 == [cb[l] EXCEPT !.step = "finishing", !.code = c, !.outcome = Failed]
  <2>2. t1 \in CallbackTask /\ t2 \in CallbackTask
    BY <2>1, CallbackShapes
  <2>3. /\ t1.step = "asking" /\ t1.code = c /\ t1.outcome = cb[l].outcome
        /\ t2.step = "finishing" /\ t2.code = c /\ t2.outcome = Failed
    BY <2>1 DEF CallbackTask
  <2>4. cb[l].outcome \in {None, Failed}
    BY <2>1 DEF LoginsOK
  <2>5. cb' = [cb EXCEPT ![l] = t1] \/ cb' = [cb EXCEPT ![l] = t2]
    BY <1>4 DEF CallbackArrives
  <2>6. UNCHANGED <<login, polled>>
    BY <1>4 DEF CallbackArrives
  <2> HIDE DEF t1, t2
  <2> QED
    BY <1>n, <2>1, <2>2, <2>3, <2>4, <2>5, <2>6, LoginsMove
<1>5. ASSUME NEW l \in Callback, Fails(l), UNCHANGED <<login, polled>>,
             cb[l].step \in {"asking", "inserting", "issuing"}
      PROVE  LoginsOK'
  <2> DEFINE t == [cb[l] EXCEPT !.step = "finishing", !.outcome = Failed]
  <2>1. cb[l] \in CallbackTask /\ cb[l].code \in Code
    BY <1>5, <1>t DEF LoginsOK
  <2>2. t \in CallbackTask /\ t.step = "finishing" /\ t.code = cb[l].code /\ t.outcome = Failed
    BY <2>1, CallbackShapes DEF CallbackTask
  <2>3. cb' = [cb EXCEPT ![l] = t]
    BY <1>5 DEF Fails
  <2> HIDE DEF t
  <2> QED
    BY <1>5, <1>n, <2>1, <2>2, <2>3, LoginsMove
<1>6. ASSUME NEW l \in Callback, Authorized(l) PROVE LoginsOK'
  <2>1. /\ cb[l].step = "asking" /\ cb[l] \in CallbackTask /\ cb[l].code \in Code
        /\ cb[l].outcome \in {None, Failed} /\ UNCHANGED <<login, polled>>
    BY <1>6, <1>t DEF Authorized, CallbackAt, LoginsOK
  <2>2. ASSUME NEW t \in CallbackTask, cb' = [cb EXCEPT ![l] = t],
               t.step \in {"inserting", "issuing"},
               t.outcome = cb[l].outcome, t.code = cb[l].code
        PROVE  LoginsOK'
    BY <1>n, <2>1, <2>2, LoginsMove
  <2>3. CASE Fails(l)
    BY <1>5, <2>1, <2>3
  <2>4. ASSUME NEW d \in Person,
               cb' = [cb EXCEPT ![l] = [cb[l] EXCEPT !.step = "inserting", !.person = d]]
        PROVE  LoginsOK'
    <3> DEFINE t == [cb[l] EXCEPT !.step = "inserting", !.person = d]
    <3>1. t \in CallbackTask /\ t.step = "inserting" /\ t.outcome = cb[l].outcome
          /\ t.code = cb[l].code
      BY <2>1 DEF CallbackTask
    <3> HIDE DEF t
    <3> QED
      BY <2>2, <2>4, <3>1 DEF t
  <2>5. ASSUME NEW d \in Person, NEW p \in players,
               cb' = [cb EXCEPT ![l] = [cb[l] EXCEPT !.step = "issuing", !.person = d,
                                                     !.player = p.id]]
        PROVE  LoginsOK'
    <3> DEFINE t == [cb[l] EXCEPT !.step = "issuing", !.person = d, !.player = p.id]
    <3>0. p.id \in Callback
      BY DEF AccountsTypeOK, PlayerRow
    <3>1. t \in CallbackTask /\ t.step = "issuing" /\ t.outcome = cb[l].outcome
          /\ t.code = cb[l].code
      BY <2>1, <3>0 DEF CallbackTask
    <3>2. cb' = [cb EXCEPT ![l] = t]
      BY <2>5
    <3> HIDE DEF t
    <3> QED
      BY <2>2, <3>1, <3>2
  <2> QED
    BY <1>6, <2>3, <2>4, <2>5 DEF Authorized
<1>7. ASSUME NEW l \in Callback, InsertPlayer(l) \/ IssueKey(l) PROVE LoginsOK'
  <2>1. /\ cb[l].step \in {"inserting", "issuing"} /\ cb[l] \in CallbackTask
        /\ cb[l].code \in Code
        /\ cb[l].outcome \in {None, Failed} /\ UNCHANGED <<login, polled>>
    BY <1>7, <1>t DEF InsertPlayer, IssueKey, CallbackAt, LoginsOK
  <2> DEFINE t1 == [cb[l] EXCEPT !.step = "issuing", !.player = l]
             t2 == [cb[l] EXCEPT !.step = "finishing", !.outcome = l]
  <2>t. t1 \in CallbackTask /\ t2 \in CallbackTask
    BY <2>1, CallbackShapes
  <2>2. /\ t1.step = "issuing" /\ t1.outcome = cb[l].outcome /\ t1.code = cb[l].code
        /\ t2.step = "finishing" /\ t2.outcome = l /\ t2.code = cb[l].code
    BY <2>1 DEF CallbackTask
  <2>3. Fails(l) \/ cb' = [cb EXCEPT ![l] = t1] \/ cb' = [cb EXCEPT ![l] = t2]
    BY <1>7 DEF InsertPlayer, IssueKey
  <2> HIDE DEF t1, t2
  <2>4. CASE Fails(l)
    BY <1>5, <2>1, <2>4
  <2>5. CASE cb' = [cb EXCEPT ![l] = t1]
    BY <1>n, <2>t, <2>1, <2>2, <2>5, LoginsMove
  <2>6. CASE cb' = [cb EXCEPT ![l] = t2]
    BY <1>n, <2>t, <2>1, <2>2, <2>6, LoginsMove
  <2> QED
    BY <2>3, <2>4, <2>5, <2>6
<1>8. ASSUME NEW l \in Callback, FinishLogin(l) PROVE LoginsOK'
  <2>1. /\ cb[l].step = "finishing" /\ cb[l].code \in Code
        /\ cb[l].outcome \in {Failed, l}
    BY <1>8, <1>t DEF FinishLogin, CallbackAt, LoginsOK
  <2>2. /\ cb'[l].step = "done" /\ cb'[l].code = cb[l].code /\ cb'[l].outcome = cb[l].outcome
        /\ \A k \in Callback : k # l => cb'[k] = cb[k]
    BY <1>8, <1>t DEF FinishLogin, CallbackTask
  <2>3. \A c \in Code :
          /\ login'[c].state = login[c].state
          /\ \/ login'[c].outcome = login[c].outcome
             \/ c = cb[l].code /\ login'[c].outcome = cb[l].outcome
    BY <1>8, <1>t DEF FinishLogin, Finished, PendingLogin
  <2>4. \A c \in Code, k \in Callback :
          login'[c].outcome = k => cb'[k].step = "done" /\ cb'[k].code = c
    BY <1>n, <2>1, <2>2, <2>3 DEF LoginsOK
  <2>5. polled' = polled
    BY <1>8 DEF FinishLogin
  <2> QED
    BY <1>n, <2>1, <2>2, <2>3, <2>4, <2>5 DEF LoginsOK
<1>9. ASSUME UNCHANGED <<login, cb, polled>> PROVE LoginsOK'
  BY <1>9 DEF LoginsOK
<1>10. ASSUME NEW n \in Nonce, Challenge(n) \/ AgeNonce(n) PROVE LoginsOK'
  BY <1>9, <1>10 DEF Challenge, AgeNonce
<1>11. ASSUME NEW r \in Proof,
              \/ \E n \in Nonce, k \in Callback : ProofArrives(r, n, k)
              \/ SpendNonce(r) \/ VerifyProof(r) \/ MintSession(r) \/ SetHandle(r)
              \/ RevokeKeys(r)
       PROVE  LoginsOK'
  BY <1>9, <1>11 DEF ProofArrives, SpendNonce, VerifyProof, MintSession, SetHandle, RevokeKeys
<1> QED
  BY <1>1, <1>2, <1>3, <1>4, <1>6, <1>7, <1>8, <1>10, <1>11 DEF AccountsNext

-----------------------------------------------------------------------------
(* Rows *)

\* A callback goes on, and no row or key changes.
LEMMA RowsMove ==
  ASSUME AccountsTypeOK, RowsOK, NEW l \in Callback, NEW t \in CallbackTask,
         cb' = [cb EXCEPT ![l] = t], UNCHANGED <<players, secrets>>,
         cb[l].step \in {"issuing", "finishing", "done"} =>
           t.step \in {"issuing", "finishing", "done"},
         cb[l].step \in {"finishing", "done"} =>
           t.step \in {"finishing", "done"} /\ t.person = cb[l].person,
         t.step = "inserting" => t.person \in Person,
         t.step = "issuing" => \E p \in players : p.person = t.person /\ p.id = t.player
  PROVE  RowsOK'
<1>1. /\ cb'[l] = t
      /\ \A k \in Callback : k # l => cb'[k] = cb[k]
  BY DEF AccountsTypeOK
<1>2. /\ \A p \in players : p.id \in Callback
      /\ \A x \in secrets : x.key \in Callback
  BY DEF AccountsTypeOK, PlayerRow, SecretRow
<1>3. \A p \in players : cb'[p.id].step \in {"issuing", "finishing", "done"}
  BY <1>1, <1>2 DEF RowsOK
<1>4. \A x \in secrets : /\ cb'[x.key].step \in {"finishing", "done"}
                         /\ cb'[x.key].person = cb[x.key].person
  BY <1>1, <1>2 DEF RowsOK
<1> QED
  BY <1>1, <1>3, <1>4 DEF RowsOK

LEMMA RowsFail ==
  ASSUME AccountsTypeOK, RowsOK, NEW l \in Callback, Fails(l),
         UNCHANGED <<players, secrets>>
  PROVE  RowsOK'
<1> DEFINE t == [cb[l] EXCEPT !.step = "finishing", !.outcome = Failed]
<1>1. cb[l] \in CallbackTask
  BY DEF AccountsTypeOK
<1>2. t \in CallbackTask
  BY <1>1, CallbackShapes
<1>3. t.step = "finishing" /\ t.person = cb[l].person
  BY <1>1 DEF CallbackTask
<1>4. cb' = [cb EXCEPT ![l] = t]
  BY DEF Fails
<1> HIDE DEF t
<1> QED
  BY <1>2, <1>3, <1>4, RowsMove

LEMMA RowsKept ==
  ASSUME AccountsTypeOK, RowsOK, AccountsNext
  PROVE  RowsOK'
<1>t. /\ cb \in [Callback -> CallbackTask]
      /\ players \subseteq PlayerRow
      /\ secrets \subseteq SecretRow
  BY DEF AccountsTypeOK
<1>p. /\ \A p \in players : p.id \in Callback
      /\ \A x \in secrets : x.key \in Callback
  BY <1>t DEF PlayerRow, SecretRow
<1>1. ASSUME UNCHANGED <<players, secrets, cb>> PROVE RowsOK'
  BY <1>1 DEF RowsOK
<1>2. ASSUME NEW c \in Code, BeginLogin(c) \/ AgeLogin(c) \/ Poll(c) PROVE RowsOK'
  BY <1>1, <1>2 DEF BeginLogin, AgeLogin, Poll
<1>3. ASSUME NEW n \in Nonce, Challenge(n) \/ AgeNonce(n) PROVE RowsOK'
  BY <1>1, <1>3 DEF Challenge, AgeNonce
<1>4. ASSUME NEW l \in Callback, NEW c \in Code, CallbackArrives(l, c) PROVE RowsOK'
  <2>1. cb[l].step = "idle" /\ cb[l] \in CallbackTask /\ UNCHANGED <<players, secrets>>
    BY <1>4, <1>t DEF CallbackArrives, CallbackAt
  <2> DEFINE t1 == [cb[l] EXCEPT !.step = "asking", !.code = c]
             t2 == [cb[l] EXCEPT !.step = "finishing", !.code = c, !.outcome = Failed]
  <2>2. t1 \in CallbackTask /\ t2 \in CallbackTask
    BY <2>1, CallbackShapes
  <2>3. t1.step = "asking" /\ t2.step = "finishing"
    BY <2>1 DEF CallbackTask
  <2>4. cb' = [cb EXCEPT ![l] = t1] \/ cb' = [cb EXCEPT ![l] = t2]
    BY <1>4 DEF CallbackArrives
  <2> HIDE DEF t1, t2
  <2> QED
    BY <2>1, <2>2, <2>3, <2>4, RowsMove
<1>5. ASSUME NEW l \in Callback, Authorized(l) PROVE RowsOK'
  <2>1. cb[l].step = "asking" /\ cb[l] \in CallbackTask /\ UNCHANGED <<players, secrets>>
    BY <1>5, <1>t DEF Authorized, CallbackAt
  <2>2. CASE Fails(l)
    BY <2>1, <2>2, RowsFail
  <2>3. ASSUME NEW d \in Person,
               cb' = [cb EXCEPT ![l] = [cb[l] EXCEPT !.step = "inserting", !.person = d]]
        PROVE  RowsOK'
    <3> DEFINE t == [cb[l] EXCEPT !.step = "inserting", !.person = d]
    <3>1. t \in CallbackTask /\ t.step = "inserting" /\ t.person = d
      BY <2>1 DEF CallbackTask
    <3>2. cb' = [cb EXCEPT ![l] = t]
      BY <2>3
    <3> HIDE DEF t
    <3> QED
      BY <2>1, <3>1, <3>2, RowsMove
  <2>4. ASSUME NEW d \in Person, NEW p \in players, p.person = d,
               cb' = [cb EXCEPT ![l] = [cb[l] EXCEPT !.step = "issuing", !.person = d,
                                                     !.player = p.id]]
        PROVE  RowsOK'
    <3> DEFINE t == [cb[l] EXCEPT !.step = "issuing", !.person = d, !.player = p.id]
    <3>1. t \in CallbackTask /\ t.step = "issuing" /\ t.person = d /\ t.player = p.id
      BY <1>p, <2>1 DEF CallbackTask
    <3>2. cb' = [cb EXCEPT ![l] = t]
      BY <2>4
    <3>3. \E q \in players : q.person = t.person /\ q.id = t.player
      BY <2>4, <3>1
    <3> HIDE DEF t
    <3> QED
      BY <2>1, <3>1, <3>2, <3>3, RowsMove
  <2> QED
    BY <1>5, <2>2, <2>3, <2>4 DEF Authorized
<1>6. ASSUME NEW l \in Callback, InsertPlayer(l) PROVE RowsOK'
  <2>1. /\ cb[l].step = "inserting" /\ cb[l] \in CallbackTask /\ UNCHANGED secrets
        /\ cb[l].person \in Person
    BY <1>6, <1>t DEF InsertPlayer, CallbackAt, RowsOK
  <2>2. CASE Fails(l) /\ UNCHANGED players
    BY <2>1, <2>2, RowsFail
  <2>3. CASE /\ ~RowTaken(cb[l].person)
             /\ players' = players \cup {[person |-> cb[l].person, id |-> l]}
             /\ cb' = [cb EXCEPT ![l] = [cb[l] EXCEPT !.step = "issuing", !.player = l]]
    <3> DEFINE row == [person |-> cb[l].person, id |-> l]
    <3>1. /\ cb'[l].step = "issuing" /\ cb'[l].person = cb[l].person /\ cb'[l].player = l
          /\ \A k \in Callback : k # l => cb'[k] = cb[k]
      BY <1>t, <2>1, <2>3 DEF CallbackTask
    <3>2. /\ players' = players \cup {row}
          /\ row.person = cb[l].person /\ row.id = l
      BY <2>3
    <3>3. \A p \in players : p.person # row.person /\ p.id # l
      BY <2>1, <2>3 DEF RowTaken, RowsOK
    <3> HIDE DEF row
    <3>4. \A x \in secrets : x.key # l
      BY <2>1 DEF RowsOK
    <3> QED
      BY <1>p, <2>1, <3>1, <3>2, <3>3, <3>4 DEF RowsOK
  <2> QED
    BY <1>6, <2>2, <2>3 DEF InsertPlayer
<1>7. ASSUME NEW l \in Callback, IssueKey(l) PROVE RowsOK'
  <2>1. cb[l].step = "issuing" /\ cb[l] \in CallbackTask /\ UNCHANGED players
    BY <1>7, <1>t DEF IssueKey, CallbackAt
  <2>2. CASE Fails(l) /\ UNCHANGED secrets
    BY <2>1, <2>2, RowsFail
  <2>3. CASE /\ secrets' = secrets \cup {[key |-> l, player |-> cb[l].player, revoked |-> FALSE]}
             /\ cb' = [cb EXCEPT ![l] = [cb[l] EXCEPT !.step = "finishing", !.outcome = l]]
    <3> DEFINE new == [key |-> l, player |-> cb[l].player, revoked |-> FALSE]
    <3>1. /\ cb'[l].step = "finishing" /\ cb'[l].person = cb[l].person
          /\ \A k \in Callback : k # l => cb'[k] = cb[k]
      BY <1>t, <2>1, <2>3 DEF CallbackTask
    <3>2. /\ secrets' = secrets \cup {new}
          /\ new.key = l /\ new.player = cb[l].player
      BY <2>3
    <3>3. \A x \in secrets : x.key # l
      BY <2>1 DEF RowsOK
    <3>4. \E p \in players : p.person = cb[l].person /\ p.id = cb[l].player
      BY <2>1 DEF RowsOK
    <3> HIDE DEF new
    <3> QED
      BY <1>p, <2>1, <3>1, <3>2, <3>3, <3>4 DEF RowsOK
  <2> QED
    BY <1>7, <2>2, <2>3 DEF IssueKey
<1>8. ASSUME NEW l \in Callback, FinishLogin(l) PROVE RowsOK'
  <2>1. cb[l].step = "finishing" /\ cb[l] \in CallbackTask /\ UNCHANGED <<players, secrets>>
    BY <1>8, <1>t DEF FinishLogin, CallbackAt
  <2> DEFINE t == [cb[l] EXCEPT !.step = "done"]
  <2>2. t \in CallbackTask /\ t.step = "done" /\ t.person = cb[l].person
    BY <2>1 DEF CallbackTask
  <2>3. cb' = [cb EXCEPT ![l] = t]
    BY <1>8 DEF FinishLogin
  <2> HIDE DEF t
  <2> QED
    BY <2>1, <2>2, <2>3, RowsMove
<1>9. ASSUME NEW r \in Proof,
             \/ \E n \in Nonce, k \in Callback : ProofArrives(r, n, k)
             \/ SpendNonce(r) \/ VerifyProof(r) \/ MintSession(r) \/ SetHandle(r)
      PROVE  RowsOK'
  BY <1>1, <1>9 DEF ProofArrives, SpendNonce, VerifyProof, MintSession, SetHandle
<1>10. ASSUME NEW r \in Proof, RevokeKeys(r) PROVE RowsOK'
  <2>1. UNCHANGED <<players, cb>>
    BY <1>10 DEF RevokeKeys
  <2>2. ASSUME NEW K, secrets' = WithRevoked(K) PROVE RowsOK'
    <3>1. \A y \in secrets' : \E x \in secrets : x.key = y.key /\ x.player = y.player
      BY <1>t, <2>2, RevokedRows
    <3>2. \A y, z \in secrets' : y.key = z.key => y = z
      BY <1>t, <2>2, RevokedRows DEF RowsOK
    <3> QED
      BY <2>1, <3>1, <3>2 DEF RowsOK
  <2> QED
    BY <1>1, <1>10, <2>1, <2>2 DEF RevokeKeys
<1> QED
  BY <1>2, <1>3, <1>4, <1>5, <1>6, <1>7, <1>8, <1>9, <1>10 DEF AccountsNext

-----------------------------------------------------------------------------
(* Nonces and proofs *)

LEMMA NoncesKept ==
  ASSUME AccountsTypeOK, NoncesOK, AccountsNext
  PROVE  NoncesOK'
<1>t. nonce \in [Nonce -> {"unused", "fresh", "aged", "gone"}] /\ spent \in [Nonce -> Nat]
  BY DEF AccountsTypeOK
<1>1. ASSUME UNCHANGED <<nonce, spent>> PROVE NoncesOK'
  BY <1>1 DEF NoncesOK
<1>2. ASSUME NEW n \in Nonce, Challenge(n) PROVE NoncesOK'
  <2>1. \A m \in Nonce : nonce[m] = "gone" => nonce'[m] = "gone"
    BY <1>2, <1>t DEF Challenge
  <2> QED
    BY <1>2, <2>1 DEF Challenge, NoncesOK
<1>3. ASSUME NEW n \in Nonce, AgeNonce(n) PROVE NoncesOK'
  BY <1>3, <1>t DEF AgeNonce, NoncesOK
<1>4. ASSUME NEW r \in Proof, SpendNonce(r) PROVE NoncesOK'
  <2> DEFINE n == proof[r].nonce
  <2>1. \A m \in Nonce : nonce'[m] = IF m = n THEN "gone" ELSE nonce[m]
    BY <1>4, <1>t DEF SpendNonce, Removed
  <2>2. \A m \in Nonce : spent'[m] = spent[m] \/ (m = n /\ nonce[n] = "fresh" /\ spent'[m] = spent[m] + 1)
    BY <1>4, <1>t DEF SpendNonce
  <2> HIDE DEF n
  <2> QED
    BY <1>t, <2>1, <2>2 DEF NoncesOK
<1>5. ASSUME NEW c \in Code, BeginLogin(c) \/ AgeLogin(c) \/ Poll(c) PROVE NoncesOK'
  BY <1>1, <1>5 DEF BeginLogin, AgeLogin, Poll
<1>6. ASSUME NEW l \in Callback,
             \/ \E c \in Code : CallbackArrives(l, c)
             \/ Authorized(l) \/ InsertPlayer(l) \/ IssueKey(l) \/ FinishLogin(l)
      PROVE  NoncesOK'
  BY <1>1, <1>6 DEF CallbackArrives, Authorized, InsertPlayer, IssueKey, FinishLogin
<1>7. ASSUME NEW r \in Proof,
             \/ \E n \in Nonce, k \in Callback : ProofArrives(r, n, k)
             \/ VerifyProof(r) \/ MintSession(r) \/ SetHandle(r) \/ RevokeKeys(r)
      PROVE  NoncesOK'
  BY <1>1, <1>7 DEF ProofArrives, VerifyProof, MintSession, SetHandle, RevokeKeys
<1> QED
  BY <1>2, <1>3, <1>4, <1>5, <1>6, <1>7 DEF AccountsNext

\* A key that is revoked is revoked for good.
LEMMA RevokedStays ==
  ASSUME AccountsTypeOK, AccountsNext
  PROVE  \A d \in Callback : Revoked(d) => Revoked(d)'
<1>t. secrets \subseteq SecretRow
  BY DEF AccountsTypeOK
<1>1. ASSUME secrets \subseteq secrets' PROVE \A d \in Callback : Revoked(d) => Revoked(d)'
  BY <1>1 DEF Revoked
<1>2. ASSUME NEW K, secrets' = WithRevoked(K)
      PROVE  \A d \in Callback : Revoked(d) => Revoked(d)'
  <2>1. \A x \in secrets : \E y \in WithRevoked(K) : y.key = x.key /\ (x.revoked => y.revoked)
    BY <1>t, RevokedRows
  <2> QED
    BY <1>2, <2>1 DEF Revoked
<1>3. \/ secrets \subseteq secrets'
      \/ \E r \in Proof : \/ secrets' = WithRevoked(KeysOfOwner(proof[r].key))
                          \/ secrets' = WithRevoked({proof[r].key})
  <2>1. ASSUME NEW c \in Code, BeginLogin(c) \/ AgeLogin(c) \/ Poll(c)
        PROVE  secrets' = secrets
    BY <2>1 DEF BeginLogin, AgeLogin, Poll
  <2>2. ASSUME NEW l \in Callback,
               \/ \E c \in Code : CallbackArrives(l, c)
               \/ Authorized(l) \/ InsertPlayer(l) \/ FinishLogin(l)
        PROVE  secrets' = secrets
    BY <2>2 DEF CallbackArrives, Authorized, InsertPlayer, FinishLogin
  <2>3. ASSUME NEW l \in Callback, IssueKey(l) PROVE secrets \subseteq secrets'
    BY <2>3 DEF IssueKey
  <2>4. ASSUME NEW n \in Nonce, Challenge(n) \/ AgeNonce(n) PROVE secrets' = secrets
    BY <2>4 DEF Challenge, AgeNonce
  <2>5. ASSUME NEW r \in Proof,
               \/ \E n \in Nonce, k \in Callback : ProofArrives(r, n, k)
               \/ SpendNonce(r) \/ VerifyProof(r) \/ MintSession(r) \/ SetHandle(r)
        PROVE  secrets' = secrets
    BY <2>5 DEF ProofArrives, SpendNonce, VerifyProof, MintSession, SetHandle
  <2>6. ASSUME NEW r \in Proof, RevokeKeys(r)
        PROVE  \/ secrets' = secrets
               \/ secrets' = WithRevoked(KeysOfOwner(proof[r].key))
               \/ secrets' = WithRevoked({proof[r].key})
    BY <2>6 DEF RevokeKeys
  <2> QED
    BY <2>1, <2>2, <2>3, <2>4, <2>5, <2>6 DEF AccountsNext
<1> QED
  BY <1>1, <1>2, <1>3

LEMMA ProofsKept ==
  ASSUME AccountsTypeOK, RowsOK, ProofsOK, AccountsNext
  PROVE  ProofsOK'
<1>t. proof \in [Proof -> ProofTask]
  BY DEF AccountsTypeOK
<1>r. \A d \in Callback : Revoked(d) => Revoked(d)'
  BY RevokedStays
<1>d. \A q \in Proof : proof[q].dead \subseteq Callback
  BY <1>t DEF ProofTask
<1>1. ASSUME UNCHANGED <<proof, minted>> PROVE ProofsOK'
  BY <1>1, <1>r, <1>d DEF ProofsOK, RevokedStaysOut
<1>2. ASSUME NEW r \in Proof, UNCHANGED minted,
             \A q \in Proof : q # r => proof'[q] = proof[q],
             proof[r].step # "idle",
             proof'[r].nonce = proof[r].nonce, proof'[r].key = proof[r].key,
             proof'[r].dead = proof[r].dead,
             proof'[r].step = "verified" => proof[r].key \notin proof[r].dead
      PROVE  ProofsOK'
  <2>1. \A q \in Proof : /\ proof'[q].step # "idle" => proof[q].step # "idle"
                         /\ proof'[q].nonce = proof[q].nonce /\ proof'[q].key = proof[q].key
                         /\ proof'[q].dead = proof[q].dead
                         /\ proof'[q].step = "verified" => proof[q].key \notin proof[q].dead
    BY <1>2 DEF ProofsOK
  <2> QED
    BY <1>2, <1>r, <1>d, <2>1 DEF ProofsOK, RevokedStaysOut
<1>3. ASSUME NEW r \in Proof, NEW n \in Nonce, NEW k \in Callback, ProofArrives(r, n, k)
      PROVE  ProofsOK'
  <2>1. /\ \A q \in Proof : q # r => proof'[q] = proof[q]
        /\ proof'[r].step = "spending" /\ proof'[r].nonce = n /\ proof'[r].key = k
        /\ proof'[r].dead = {d \in Callback : Revoked(d)}
        /\ UNCHANGED minted
    BY <1>3, <1>t DEF ProofArrives
  <2> QED
    BY <1>r, <1>d, <2>1 DEF ProofsOK, RevokedStaysOut
<1>s. \A r \in Proof, s \in {"verifying", "verified", "revoking", "done"} : proof' = [proof EXCEPT ![r].step = s] =>
        /\ \A q \in Proof : q # r => proof'[q] = proof[q]
        /\ proof'[r].step = s
        /\ proof'[r].nonce = proof[r].nonce /\ proof'[r].key = proof[r].key
        /\ proof'[r].dead = proof[r].dead
  BY <1>t DEF ProofTask
<1>4. ASSUME NEW r \in Proof, SpendNonce(r) PROVE ProofsOK'
  <2>1. /\ UNCHANGED minted /\ proof[r].step = "spending"
        /\ \/ proof' = [proof EXCEPT ![r].step = "verifying"]
           \/ proof' = [proof EXCEPT ![r].step = "done"]
    BY <1>4 DEF SpendNonce, ProofAt
  <2> QED
    BY <1>2, <1>s, <2>1
<1>5. ASSUME NEW r \in Proof, VerifyProof(r) PROVE ProofsOK'
  <2>1. /\ UNCHANGED minted /\ proof[r].step = "verifying"
        /\ \/ /\ proof' = [proof EXCEPT ![r].step = "verified"]
              /\ LiveKey(proof[r].key)
           \/ proof' = [proof EXCEPT ![r].step = "revoking"]
           \/ proof' = [proof EXCEPT ![r].step = "done"]
    BY <1>5 DEF VerifyProof, ProofAt
  <2>2. LiveKey(proof[r].key) => ~Revoked(proof[r].key)
    BY DEF LiveKey, Revoked, RowsOK
  <2>3. LiveKey(proof[r].key) => proof[r].key \notin proof[r].dead
    BY <2>1, <2>2 DEF ProofsOK
  <2> QED
    BY <1>2, <1>s, <2>1, <2>3
<1>6. ASSUME NEW r \in Proof, SetHandle(r) \/ RevokeKeys(r) PROVE ProofsOK'
  <2>1. /\ UNCHANGED minted /\ proof[r].step \in {"verified", "revoking"}
        /\ proof' = [proof EXCEPT ![r].step = "done"]
    BY <1>6 DEF SetHandle, RevokeKeys, ProofAt
  <2> QED
    BY <1>2, <1>s, <2>1
<1>7. ASSUME NEW r \in Proof, MintSession(r) PROVE ProofsOK'
  <2>1. /\ proof[r].step = "verified"
        /\ proof' = [proof EXCEPT ![r].step = "done"]
        /\ minted' = minted \cup {[key |-> proof[r].key, dead |-> proof[r].dead]}
    BY <1>7 DEF MintSession, ProofAt
  <2>2. proof[r].key \notin proof[r].dead
    BY <2>1 DEF ProofsOK
  <2>3. RevokedStaysOut'
    BY <2>1, <2>2 DEF ProofsOK, RevokedStaysOut
  <2>4. /\ \A q \in Proof : q # r => proof'[q] = proof[q]
        /\ proof'[r].step = "done"
        /\ proof'[r].nonce = proof[r].nonce /\ proof'[r].key = proof[r].key
        /\ proof'[r].dead = proof[r].dead
    BY <1>s, <2>1
  <2>5. \A q \in Proof : /\ proof'[q].step # "idle" => proof[q].step # "idle"
                         /\ proof'[q].nonce = proof[q].nonce /\ proof'[q].key = proof[q].key
                         /\ proof'[q].dead = proof[q].dead
                         /\ proof'[q].step = "verified" => proof[q].step = "verified"
    BY <2>1, <2>4
  <2> QED
    BY <1>r, <1>d, <2>3, <2>5 DEF ProofsOK
<1>8. ASSUME NEW c \in Code, BeginLogin(c) \/ AgeLogin(c) \/ Poll(c) PROVE ProofsOK'
  BY <1>1, <1>8 DEF BeginLogin, AgeLogin, Poll
<1>9. ASSUME NEW l \in Callback,
             \/ \E c \in Code : CallbackArrives(l, c)
             \/ Authorized(l) \/ InsertPlayer(l) \/ IssueKey(l) \/ FinishLogin(l)
      PROVE  ProofsOK'
  BY <1>1, <1>9 DEF CallbackArrives, Authorized, InsertPlayer, IssueKey, FinishLogin
<1>10. ASSUME NEW n \in Nonce, Challenge(n) \/ AgeNonce(n) PROVE ProofsOK'
  BY <1>1, <1>10 DEF Challenge, AgeNonce
<1> QED
  BY <1>3, <1>4, <1>5, <1>6, <1>7, <1>8, <1>9, <1>10 DEF AccountsNext

-----------------------------------------------------------------------------
(* Theorems *)

LEMMA AccountsInvInit == AccountsInit => AccountsInv
<1> SUFFICES ASSUME AccountsInit PROVE AccountsInv
  OBVIOUS
<1>1. AccountsTypeOK
  BY InitTypes
<1>2. LoginsOK
  BY AccountConstants DEF AccountsInit, LoginsOK
<1>3. RowsOK
  BY DEF AccountsInit, RowsOK
<1>4. NoncesOK
  BY DEF AccountsInit, NoncesOK
<1>5. ProofsOK
  BY DEF AccountsInit, ProofsOK, RevokedStaysOut
<1> QED
  BY <1>1, <1>2, <1>3, <1>4, <1>5 DEF AccountsInv

LEMMA AccountsInvStep == AccountsInv /\ [AccountsNext]_accountVars => AccountsInv'
<1> SUFFICES ASSUME AccountsInv, [AccountsNext]_accountVars PROVE AccountsInv'
  OBVIOUS
<1>1. CASE AccountsNext
  <2>1. AccountsTypeOK'
    BY <1>1, StoreTypes, CallbackTypes, ProofTypes DEF AccountsInv, AccountsNext
  <2> QED
    BY <1>1, <2>1, LoginsKept, RowsKept, NoncesKept, ProofsKept DEF AccountsInv
<1>2. CASE UNCHANGED accountVars
  BY <1>2 DEF accountVars, AccountsInv, AccountsTypeOK, LoginsOK, RowsOK, NoncesOK,
              ProofsOK, RevokedStaysOut, Revoked
<1> QED
  BY <1>1, <1>2

\* The inductive invariant: which outcomes, rows and keys a request may rely on
\* between two of its statements (complete, session_from_secret).
THEOREM AccountsInvAlways == AccountsSpec => []AccountsInv
BY AccountsInvInit, AccountsInvStep, PTL DEF AccountsSpec

\* Codes, nonces and keys hold for any number of requests at once (LoginStore,
\* ChallengeStore, verify_proof).
THEOREM CredentialsHoldAlways == AccountsSpec => []CredentialsHold
<1>1. AccountsInv => CredentialsHold
  <2> SUFFICES ASSUME AccountsInv PROVE CredentialsHold
    OBVIOUS
  <2>1. \A c \in Code : Len(polled[c]) <= 1
    BY DEF AccountsInv, LoginsOK
  <2>2. \A c, d \in Code : c # d => \A k \in Callback :
          ~(\E i \in 1 .. Len(polled[c]), j \in 1 .. Len(polled[d]) :
              polled[c][i] = k /\ polled[d][j] = k)
    BY DEF AccountsInv, LoginsOK
  <2>3. \A n \in Nonce : spent[n] <= 1
    BY DEF AccountsInv, NoncesOK
  <2> QED
    BY <2>1, <2>2, <2>3 DEF AccountsInv, ProofsOK, CredentialsHold, SpentOnce
<1> QED
  BY <1>1, AccountsInvAlways, PTL

\* One account for a person and one person for an account, however many first
\* logins race (link_discord, idx_players_discord_id).
THEOREM OneAccountEachAlways == AccountsSpec => []OneAccountEach
<1>1. AccountsInv => OneAccountEach
  BY DEF AccountsInv, RowsOK, OneAccountEach
<1> QED
  BY <1>1, AccountsInvAlways, PTL
=============================================================================
