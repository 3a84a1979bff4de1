----------------------------- MODULE Credentials -----------------------------
(***************************************************************************)
(* The Apple account: two secrets in the system keyring (signer.rs,        *)
(* secure_storage.rs), a session copy in the app's memory (lib.rs), and    *)
(* the calls of the app and of the agent that write, read and use them.    *)
(*                                                                         *)
(* Each keyring request is a step of its own: the two secrets are set,     *)
(* read and deleted one after the other, and the commands of the app run   *)
(* concurrently.  A password is named by the account it belongs to.        *)
(***************************************************************************)
EXTENDS FiniteSets

CONSTANTS
    Account,    \* Apple accounts
    Command,    \* commands of the app that are in flight together
    Sweep,      \* sweeps of the background agent
    NoAccount,  \* no secret, no session
    Unknown     \* nothing is promised about the keyring

ASSUME AccountAssumption ==
    /\ NoAccount \notin Account /\ Unknown \notin Account
    /\ NoAccount # Unknown
    /\ Command \cap Sweep = {}

VARIABLES
    reachable,  \* the Secret Service answers
    keyring,    \* the two secrets: KEY_APPLE_ID and KEY_APPLE_PASSWORD
    store,      \* SecureStore::detect() of the app and of the agent
    session,    \* AppState::session_creds
    call,       \* the calls in flight
    promise     \* the account of the newest sign-in, or none after a sign-out,
                \* if it went to the keyring undisturbed

credVars == <<reachable, keyring, store, session, call, promise>>

Caller     == Command \cup Sweep
Secret     == Account \cup {NoAccount}
Process(c) == IF c \in Sweep THEN "agent" ELSE "app"
Writing    == {"setId", "setPassword", "deleteId", "deletePassword", "forget"}
Reading    == {"readId", "readPassword", "sign"}

\* alone: no writer has overlapped the call so far.
Call == [at: {"idle"} \cup Writing \cup Reading,
         id: Secret, password: Secret, alone: BOOLEAN]

CredTypeOK ==
    /\ reachable \in BOOLEAN
    /\ keyring \in [id: Secret, password: Secret]
    /\ store \in [{"app", "agent"} -> {"keyring", "unavailable"}]
    /\ session \in Secret
    /\ call \in [Caller -> Call]
    /\ promise \in Secret \cup {Unknown}

NoCall == [at |-> "idle", id |-> NoAccount,
           password |-> NoAccount, alone |-> FALSE]

\* SecureStore::detect: the probe decides once, for the life of the process.
Detected == IF reachable THEN "keyring" ELSE "unavailable"

CredInit ==
    /\ reachable \in BOOLEAN
    /\ keyring = [id |-> NoAccount, password |-> NoAccount]
    /\ store = [p \in {"app", "agent"} |-> Detected]
    /\ session = NoAccount
    /\ call = [c \in Caller |-> NoCall]
    /\ promise = NoAccount

Writers == {c \in Caller : call[c].at \in Writing}

-----------------------------------------------------------------------------
(* Calls *)

\* A call starts at step l with the account in hand.  A writer disturbs every
\* other call, and is disturbed by the writers already there.
Begin(c, l, account) ==
    /\ call[c].at = "idle"
    /\ call' = [d \in Caller |->
          IF d = c THEN [at |-> l, id |-> account,
                         password |-> account, alone |-> Writers = {}]
          ELSE IF l \in Writing THEN [call[d] EXCEPT !.alone = FALSE]
          ELSE call[d]]

StepTo(c, l) == call' = [call EXCEPT ![c].at = l]
Finish(c)    == call' = [call EXCEPT ![c] = NoCall]

\* A request of c to the keyring fails: the service is gone, or it never was.
Refused(c) == ~reachable \/ store[Process(c)] = "unavailable"

-----------------------------------------------------------------------------
(* set_apple_credentials *)

\* Session tier: one assignment under the mutex.
SignInSession(c, a) ==
    /\ call[c].at = "idle"
    /\ session' = a
    /\ promise' = Unknown
    /\ call' = [d \in Caller |->
          IF d \in Writers THEN [call[d] EXCEPT !.alone = FALSE] ELSE call[d]]
    /\ UNCHANGED <<reachable, keyring, store>>

\* Keyring tier: store_credentials.
SignInKeyring(c, a) ==
    /\ Begin(c, "setId", a)
    /\ promise' = Unknown
    /\ UNCHANGED <<reachable, keyring, store, session>>

SetId(c) ==
    /\ call[c].at = "setId"
    /\ ~Refused(c)
    /\ keyring' = [keyring EXCEPT !.id = call[c].id]
    /\ StepTo(c, "setPassword")
    /\ UNCHANGED <<reachable, store, session, promise>>

SetPassword(c) ==
    /\ call[c].at = "setPassword"
    /\ ~Refused(c)
    /\ keyring' = [keyring EXCEPT !.password = call[c].id]
    /\ promise' = IF call[c].alone THEN call[c].id ELSE Unknown
    /\ Finish(c)
    /\ UNCHANGED <<reachable, store, session>>

\* Mutant: a failed second write is taken for a success.
SetFailsOk(c) ==
    /\ call[c].at \in {"setId", "setPassword"}
    /\ Refused(c)
    /\ promise' = IF call[c].alone THEN call[c].id ELSE Unknown
    /\ Finish(c)
    /\ UNCHANGED <<reachable, keyring, store, session>>

\* SecureStore::set errors: what was written before it stays.
SetFails(c) ==
    /\ call[c].at \in {"setId", "setPassword"}
    /\ Refused(c)
    /\ Finish(c)
    /\ UNCHANGED <<reachable, keyring, store, session, promise>>

-----------------------------------------------------------------------------
(* sign_out *)

SignOut(c) ==
    /\ Begin(c, "deleteId", NoAccount)
    /\ promise' = Unknown
    /\ UNCHANGED <<reachable, keyring, store, session>>

\* clear_credentials deletes one secret, then the other.
DeleteId(c) ==
    /\ call[c].at = "deleteId"
    /\ ~Refused(c)
    /\ keyring' = [keyring EXCEPT !.id = NoAccount]
    /\ StepTo(c, "deletePassword")
    /\ UNCHANGED <<reachable, store, session, promise>>

\* Mutant: only the Apple ID is deleted.
DeletePasswordKept(c) ==
    /\ call[c].at = "deletePassword"
    /\ ~Refused(c)
    /\ StepTo(c, "forget")
    /\ UNCHANGED <<reachable, keyring, store, session, promise>>

DeletePassword(c) ==
    /\ call[c].at = "deletePassword"
    /\ ~Refused(c)
    /\ keyring' = [keyring EXCEPT !.password = NoAccount]
    /\ StepTo(c, "forget")
    /\ UNCHANGED <<reachable, store, session, promise>>

\* An error returns early and keeps the session copy; without a store there is
\* taken to be nothing to delete, and the session copy goes.
DeleteFails(c) ==
    /\ call[c].at \in {"deleteId", "deletePassword"}
    /\ Refused(c)
    /\ IF store["app"] = "unavailable" THEN StepTo(c, "forget") ELSE Finish(c)
    /\ UNCHANGED <<reachable, keyring, store, session, promise>>

\* What a finished sign-out promises is about a keyring it could ask.
Forget(c) ==
    /\ call[c].at = "forget"
    /\ session' = NoAccount
    /\ LET undisturbed == call[c].alone /\ store["app"] = "keyring"
       IN  promise' = IF undisturbed THEN NoAccount ELSE Unknown
    /\ Finish(c)
    /\ UNCHANGED <<reachable, keyring, store>>

-----------------------------------------------------------------------------
(* Readers *)

\* install_ipa and the certificate commands (resolve_credentials), refresh_app
\* and refresh_due_now (resolve_session_only, then the engine's own load): the
\* session copy wins, else the keyring is read.
UseSession(c) ==
    /\ session # NoAccount
    /\ Begin(c, "sign", session)
    /\ UNCHANGED <<reachable, keyring, store, session, promise>>

UseKeyring(c) ==
    /\ c \in Command => session = NoAccount
    /\ Begin(c, "readId", NoAccount)
    /\ UNCHANGED <<reachable, keyring, store, session, promise>>

\* SecureStore::get: without a backend nothing is stored.
Got(c, secret) == IF store[Process(c)] = "unavailable" THEN NoAccount ELSE secret

Answers(c) == reachable \/ store[Process(c)] = "unavailable"

\* load_credentials asks for both secrets, whatever the first one was.
ReadId(c) ==
    /\ call[c].at = "readId"
    /\ Answers(c)
    /\ call' = [call EXCEPT ![c].id = Got(c, keyring.id), ![c].at = "readPassword"]
    /\ UNCHANGED <<reachable, keyring, store, session, promise>>

\* A half account is no account: the call is refused.
ReadPassword(c) ==
    /\ call[c].at = "readPassword"
    /\ Answers(c)
    /\ LET password == Got(c, keyring.password)
           none == NoAccount \in {call[c].id, password}
       IN  IF none THEN Finish(c)
           ELSE call' = [call EXCEPT ![c].password = password, ![c].at = "sign"]
    /\ UNCHANGED <<reachable, keyring, store, session, promise>>

\* get errors: resolve_credentials takes it for no account, the engine retries.
ReadFails(c) ==
    /\ call[c].at \in {"readId", "readPassword"}
    /\ ~Answers(c)
    /\ Finish(c)
    /\ UNCHANGED <<reachable, keyring, store, session, promise>>

\* The signer logs in: Apple refuses the password of another account.
Sign(c) ==
    /\ call[c].at = "sign"
    /\ Finish(c)
    /\ UNCHANGED <<reachable, keyring, store, session, promise>>

-----------------------------------------------------------------------------
(* The surroundings *)

Reach ==
    /\ reachable' = ~reachable
    /\ UNCHANGED <<keyring, store, session, call, promise>>

\* A process ends, or dies, and the next one probes the keyring again.
Restart(p) ==
    /\ store' = [store EXCEPT ![p] = Detected]
    /\ session' = IF p = "app" THEN NoAccount ELSE session
    /\ call' = [c \in Caller |-> IF Process(c) = p THEN NoCall ELSE call[c]]
    /\ UNCHANGED <<reachable, keyring, promise>>

SignInStep(c)  == SetId(c) \/ SetPassword(c) \/ SetFails(c)
SignOutStep(c) == DeleteId(c) \/ DeletePassword(c) \/ DeleteFails(c) \/ Forget(c)
UseStep(c)     == ReadId(c) \/ ReadPassword(c) \/ ReadFails(c) \/ Sign(c)

CredNext ==
    \/ \E c \in Command, a \in Account : SignInSession(c, a) \/ SignInKeyring(c, a)
    \/ \E c \in Command : SignOut(c)
    \/ \E c \in Command : UseSession(c)
    \/ \E c \in Caller : UseKeyring(c)
    \/ \E c \in Caller : SignInStep(c) \/ SignOutStep(c) \/ UseStep(c)
    \/ Reach
    \/ \E p \in {"app", "agent"} : Restart(p)

CredSpec == CredInit /\ [][CredNext]_credVars

-----------------------------------------------------------------------------
(* Properties *)

\* A sign-in or a sign-out that returned Ok, with no other of them overlapping
\* it, holds until the next one begins: the keyring has both secrets of that
\* account, or neither.  Requests may fail and processes die at any other time,
\* and what an earlier, half-done write left behind is healed.
KeyringKept ==
    promise # Unknown => keyring = [id |-> promise, password |-> promise]

\* No torn read: a call that read the keyring with no writer overlapping it,
\* after an undisturbed write, signs with the id and password of one account.
CleanRead ==
    \A c \in Caller :
        /\ call[c].at = "sign" /\ call[c].alone /\ promise # Unknown
        => call[c].id = call[c].password

\* What resolve_credentials answers once no write is under way.
Resolved == IF session # NoAccount THEN session
            ELSE IF keyring.password = keyring.id THEN keyring.id ELSE NoAccount

\* Settings: "Enter a different Apple ID to switch accounts.  The current one
\* is replaced."  After an undisturbed sign-in, the account that signs is the
\* one just entered.
SwitchReplaces == promise # Unknown /\ Writers = {} => Resolved = promise

=============================================================================
