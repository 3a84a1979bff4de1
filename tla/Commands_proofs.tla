--------------------------- MODULE Commands_proofs ---------------------------
(***************************************************************************)
(* What the app's commands promise the user, for any number of calls, dialogs *)
(* and contents: the account that a sign-in left in the keyring, the answer of *)
(* the refresh toggle, the install that can be repeated from what was stored, *)
(* and the progress that a dialog shows.                                   *)
(***************************************************************************)
EXTENDS Credentials, Autopilot, Sideload, OperationEvents, SequenceTheorems,
        TLAPS

-----------------------------------------------------------------------------
(* Credentials: the two secrets of the keyring *)

\* Only the app writes the keyring, and whoever is alone has no writer beside it.
WritersAlone ==
    /\ Writers \subseteq Command
    /\ \A c \in Caller : call[c].at # "idle" /\ call[c].alone => Writers \subseteq {c}

\* How far a writer that is alone has got with the two secrets.
HalfWritten ==
    \A c \in Writers : call[c].alone =>
        /\ call[c].at = "setPassword" => keyring.id = call[c].id
        /\ call[c].at = "deletePassword" => keyring.id = NoAccount
        /\ call[c].at = "forget" /\ store["app"] = "keyring" =>
              keyring = [id |-> NoAccount, password |-> NoAccount]

\* A promise is about a keyring nobody is writing.
Promised ==
    promise # Unknown =>
        /\ Writers = {}
        /\ keyring = [id |-> promise, password |-> promise]

\* What a reader that is alone has in hand is from one promise.
CleanHand ==
    \A c \in Caller :
        call[c].alone /\ promise # Unknown =>
            /\ call[c].at = "readPassword" => call[c].id \in {NoAccount, promise}
            /\ call[c].at = "sign" => call[c].id = call[c].password

CredInv == CredTypeOK /\ WritersAlone /\ HalfWritten /\ Promised /\ CleanHand

\* Who runs in which process, and what is not an account.
LEMMA CallerFacts ==
    /\ \A c \in Command : Process(c) = "app"
    /\ \A c \in Caller : Process(c) \in {"app", "agent"}
    /\ Command \subseteq Caller
    /\ Unknown \notin Secret /\ NoCall \in Call
  BY AccountAssumption DEF Process, Caller, Secret, NoCall, Call

\* A call that begins.
LEMMA BeginCall ==
    ASSUME CredTypeOK, NEW c \in Caller, NEW l \in Writing \cup Reading, NEW a \in Secret,
           Begin(c, l, a)
    PROVE  /\ call' \in [Caller -> Call]
           /\ call[c].at = "idle"
           /\ call'[c].at = l /\ call'[c].id = a /\ call'[c].password = a
           /\ call'[c].alone <=> Writers = {}
           /\ \A d \in Caller \ {c} :
                /\ call'[d].at = call[d].at /\ call'[d].id = call[d].id
                /\ call'[d].password = call[d].password
                /\ call'[d].alone <=> call[d].alone /\ l \notin Writing
           /\ Writers' = IF l \in Writing THEN Writers \cup {c} ELSE Writers
<1> DEFINE new == [at |-> l, id |-> a, password |-> a, alone |-> Writers = {}]
           other(d) == IF l \in Writing THEN [call[d] EXCEPT !.alone = FALSE] ELSE call[d]
<1>1. new \in Call BY DEF Call
<1>2. \A d \in Caller : other(d) \in Call
  BY DEF CredTypeOK, Call
<1>3. call' = [d \in Caller |-> IF d = c THEN new ELSE other(d)]
  BY DEF Begin
<1>4. call' \in [Caller -> Call] BY <1>1, <1>2, <1>3
<1>5. \A d \in Caller \ {c} :
         /\ call'[d].at = call[d].at /\ call'[d].id = call[d].id
         /\ call'[d].password = call[d].password
         /\ call'[d].alone <=> call[d].alone /\ l \notin Writing
  BY <1>3 DEF CredTypeOK, Call
<1>6. /\ call'[c].at = l /\ call'[c].id = a /\ call'[c].password = a
      /\ call'[c].alone <=> Writers = {}
  BY <1>3
<1>7. call[c].at = "idle" BY DEF Begin
<1>8. Writers' = IF l \in Writing THEN Writers \cup {c} ELSE Writers
  BY <1>5, <1>6, <1>7 DEF Writers, Writing, Reading
<1> QED BY <1>4, <1>5, <1>6, <1>7, <1>8

LEMMA CredTypes == CredTypeOK /\ [CredNext]_credVars => CredTypeOK'
<1> SUFFICES ASSUME CredTypeOK, [CredNext]_credVars PROVE CredTypeOK'
  OBVIOUS
<1> USE DEF CredTypeOK
<1>1. ASSUME NEW c \in Command, NEW a \in Account, SignInSession(c, a) PROVE CredTypeOK'
  BY <1>1 DEF SignInSession, Secret, Call
<1>2. ASSUME NEW c \in Command, NEW a \in Account, SignInKeyring(c, a) PROVE CredTypeOK'
  BY <1>2, BeginCall, CallerFacts DEF SignInKeyring, Secret, Writing
<1>3. ASSUME NEW c \in Command, SignOut(c) PROVE CredTypeOK'
  BY <1>3, BeginCall, CallerFacts DEF SignOut, Secret, Writing
<1>4. ASSUME NEW c \in Command, UseSession(c) PROVE CredTypeOK'
  BY <1>4, BeginCall, CallerFacts DEF UseSession, Reading
<1>5. ASSUME NEW c \in Caller, UseKeyring(c) PROVE CredTypeOK'
  BY <1>5, BeginCall DEF UseKeyring, Secret, Reading
<1>6. ASSUME NEW c \in Caller, SignInStep(c) PROVE CredTypeOK'
  BY <1>6, CallerFacts DEF SignInStep, SetId, SetPassword, SetFails, StepTo, Finish, Call, Writing, Secret
<1>7. ASSUME NEW c \in Caller, SignOutStep(c) PROVE CredTypeOK'
  BY <1>7, CallerFacts DEF SignOutStep, DeleteId, DeletePassword, DeleteFails, Forget, StepTo, Finish, Call, Writing, Secret
<1>8. ASSUME NEW c \in Caller, UseStep(c) PROVE CredTypeOK'
  BY <1>8, CallerFacts DEF UseStep, ReadId, ReadPassword, ReadFails, Sign, Got, Finish, Call, Reading, Secret
<1>9. CASE Reach BY <1>9 DEF Reach
<1>10. ASSUME NEW p \in {"app", "agent"}, Restart(p) PROVE CredTypeOK'
  BY <1>10, CallerFacts DEF Restart, Detected, Secret
<1>11. CASE UNCHANGED credVars BY <1>11 DEF credVars
<1> QED BY <1>1, <1>2, <1>3, <1>4, <1>5, <1>6, <1>7, <1>8, <1>9, <1>10, <1>11 DEF CredNext

\* A call that returns, and a writer that goes on.
LEMMA FinishCall ==
    ASSUME CredTypeOK, NEW c \in Caller, Finish(c)
    PROVE  /\ call'[c].at = "idle" /\ ~ call'[c].alone
           /\ \A d \in Caller \ {c} : call'[d] = call[d]
           /\ Writers' = Writers \ {c}
<1>1. call'[c] = NoCall /\ \A d \in Caller \ {c} : call'[d] = call[d]
  BY DEF Finish, CredTypeOK
<1> QED BY <1>1 DEF NoCall, Writers, Writing

LEMMA StepCall ==
    ASSUME CredTypeOK, NEW c \in Writers, NEW l \in Writing, StepTo(c, l)
    PROVE  /\ call'[c].at = l /\ call'[c].id = call[c].id
           /\ call'[c].alone <=> call[c].alone
           /\ \A d \in Caller \ {c} : call'[d] = call[d]
           /\ Writers' = Writers
<1>1. /\ call'[c].at = l /\ call'[c].id = call[c].id
      /\ call'[c].alone <=> call[c].alone
      /\ \A d \in Caller \ {c} : call'[d] = call[d]
  BY DEF StepTo, CredTypeOK, Call, Writers
<1> QED BY <1>1 DEF Writers

\* A call that returns and leaves the keyring and the promise as they are.
LEMMA FinishKeeps ==
    ASSUME CredInv, NEW c \in Caller, Finish(c), UNCHANGED <<keyring, store, promise>>
    PROVE  WritersAlone' /\ HalfWritten' /\ Promised' /\ CleanHand'
  BY FinishCall DEF CredInv, WritersAlone, HalfWritten, Promised, CleanHand, Writers

\* set_apple_credentials and sign_out begin: a promise ends with them.
LEMMA BeginsKeep ==
    ASSUME CredInv, NEW c \in Command,
           (\E a \in Account : SignInSession(c, a) \/ SignInKeyring(c, a)) \/ SignOut(c)
    PROVE  WritersAlone' /\ HalfWritten' /\ Promised' /\ CleanHand'
<1> USE DEF CredInv
<1>1. ASSUME NEW a \in Account, SignInSession(c, a)
      PROVE  WritersAlone' /\ HalfWritten' /\ Promised' /\ CleanHand'
  <2>1. \A d \in Caller : /\ call'[d].at = call[d].at
                          /\ call'[d].alone <=> call[d].alone /\ d \notin Writers
    BY <1>1 DEF SignInSession, CredTypeOK, Call
  <2>2. Writers' = Writers BY <2>1 DEF Writers
  <2>3. promise' = Unknown BY <1>1 DEF SignInSession
  <2>4. WritersAlone' BY <2>1, <2>2 DEF WritersAlone
  <2>5. HalfWritten'
    <3>1. \A d \in Writers : ~ call'[d].alone BY <2>1 DEF Writers
    <3> QED BY <2>2, <3>1 DEF HalfWritten
  <2> QED BY <2>3, <2>4, <2>5 DEF Promised, CleanHand
<1>2. ASSUME NEW a \in Secret, NEW l \in {"setId", "deleteId"}, Begin(c, l, a),
             promise' = Unknown
      PROVE  WritersAlone' /\ HalfWritten' /\ Promised' /\ CleanHand'
  <2>1. l \in Writing /\ c \in Caller BY CallerFacts DEF Writing
  <2>2. Writers' = Writers \cup {c} BY <1>2, <2>1, BeginCall
  <2>3. \A d \in Caller \ {c} : ~ call'[d].alone
    BY <1>2, <2>1, BeginCall
  <2>4. call'[c].at = l /\ (call'[c].alone <=> Writers = {})
    BY <1>2, <2>1, BeginCall
  <2> QED BY <1>2, <2>1, <2>2, <2>3, <2>4 DEF WritersAlone, HalfWritten, Promised, CleanHand, Writers
<1> QED BY <1>1, <1>2 DEF SignInKeyring, SignOut, Secret

\* store_credentials: the id, then the password, then the session.
LEMMA SignInKeeps ==
    ASSUME CredInv, NEW c \in Caller, SignInStep(c)
    PROVE  WritersAlone' /\ HalfWritten' /\ Promised' /\ CleanHand'
<1> USE DEF CredInv
<1>1. CASE SetId(c)
  <2>1. c \in Writers /\ StepTo(c, "setPassword") BY <1>1 DEF SetId, Writers, Writing
  <2>2. keyring'.id = call[c].id BY <1>1 DEF SetId, CredTypeOK
  <2>3. UNCHANGED <<store, promise>> BY <1>1 DEF SetId
  <2> QED BY <2>1, <2>2, <2>3, StepCall DEF WritersAlone, HalfWritten, Promised, CleanHand, Writers, Writing
<1>2. CASE SetPassword(c)
  <2>1. c \in Writers /\ Finish(c) BY <1>2 DEF SetPassword, Writers, Writing
  <2>2. CASE call[c].alone
    <3>1. Writers = {c} BY <2>1, <2>2 DEF WritersAlone, Writers, Writing
    <3>2. keyring.id = call[c].id BY <1>2, <2>1, <2>2 DEF HalfWritten, SetPassword
    <3>3. promise' = call[c].id /\ keyring' = [id |-> call[c].id, password |-> call[c].id]
      BY <1>2, <2>2, <3>2 DEF SetPassword, CredTypeOK
    <3>4. Writers' = {} BY <2>1, <3>1, FinishCall
    <3>5. \A d \in Caller : ~ call'[d].alone \/ call'[d].at = "idle"
      BY <2>1, <3>1, FinishCall DEF WritersAlone
    <3> QED BY <3>3, <3>4, <3>5 DEF WritersAlone, HalfWritten, Promised, CleanHand
  <2>3. CASE ~ call[c].alone
    <3>1. promise' = Unknown BY <1>2, <2>3 DEF SetPassword
    <3>2. \A d \in Writers \ {c} : ~ call[d].alone
      BY <2>1 DEF WritersAlone, Writers, Writing
    <3> QED BY <2>1, <3>1, <3>2, FinishCall DEF WritersAlone, HalfWritten, Promised, CleanHand, Writers
  <2> QED BY <2>2, <2>3
<1>3. CASE SetFails(c) BY <1>3, FinishKeeps DEF SetFails
<1> QED BY <1>1, <1>2, <1>3 DEF SignInStep

\* clear_credentials: the two entries, then the session is forgotten.
LEMMA SignOutKeeps ==
    ASSUME CredInv, NEW c \in Caller, SignOutStep(c)
    PROVE  WritersAlone' /\ HalfWritten' /\ Promised' /\ CleanHand'
<1> USE DEF CredInv
<1>1. c \in Writers /\ Process(c) = "app"
  BY CallerFacts DEF SignOutStep, DeleteId, DeletePassword, DeleteFails, Forget, Writers, Writing, WritersAlone
<1>2. \A d \in Caller \ {c} : call[d].at # "idle" => ~ call[d].alone
  BY <1>1 DEF WritersAlone
<1>3. promise = Unknown BY <1>1 DEF Promised
<1>4. CASE DeleteId(c)
  <2>1. StepTo(c, "deletePassword") BY <1>4 DEF DeleteId
  <2>2. keyring'.id = NoAccount BY <1>4 DEF DeleteId, CredTypeOK
  <2>3. UNCHANGED <<store, promise>> BY <1>4 DEF DeleteId
  <2> QED BY <1>1, <1>2, <1>3, <2>1, <2>2, <2>3, StepCall
       DEF WritersAlone, HalfWritten, Promised, CleanHand, Writers, Writing
<1>5. CASE DeletePassword(c)
  <2>1. StepTo(c, "forget") BY <1>5 DEF DeletePassword
  <2>2. call[c].alone => keyring' = [id |-> NoAccount, password |-> NoAccount]
    BY <1>1, <1>5 DEF DeletePassword, CredTypeOK, HalfWritten
  <2>3. UNCHANGED <<store, promise>> BY <1>5 DEF DeletePassword
  <2> QED BY <1>1, <1>2, <1>3, <2>1, <2>2, <2>3, StepCall
       DEF WritersAlone, HalfWritten, Promised, CleanHand, Writers, Writing
<1>6. CASE DeleteFails(c)
  <2>1. UNCHANGED <<keyring, store, promise>> BY <1>6 DEF DeleteFails
  <2>2. CASE store["app"] = "unavailable"
    <3>1. StepTo(c, "forget") BY <1>6, <2>2 DEF DeleteFails
    <3> QED BY <1>1, <1>2, <1>3, <2>1, <2>2, <3>1, StepCall
         DEF WritersAlone, HalfWritten, Promised, CleanHand, Writers, Writing
  <2>3. CASE store["app"] # "unavailable"
    BY <1>6, <2>1, <2>3, FinishKeeps DEF DeleteFails
  <2> QED BY <2>2, <2>3
<1>7. CASE Forget(c)
  <2>1. Finish(c) /\ UNCHANGED <<keyring, store>> BY <1>7 DEF Forget
  <2>2. promise' # Unknown =>
           /\ promise' = NoAccount /\ Writers = {c}
           /\ keyring = [id |-> NoAccount, password |-> NoAccount]
    BY <1>1, <1>7 DEF Forget, HalfWritten, WritersAlone, Writing
  <2> QED BY <1>1, <1>2, <2>1, <2>2, FinishCall
       DEF WritersAlone, HalfWritten, Promised, CleanHand, Writers
<1> QED BY <1>4, <1>5, <1>6, <1>7 DEF SignOutStep

\* load_credentials, in the app and in the agent.
LEMMA ReadersKeep ==
    ASSUME CredInv, NEW c \in Caller, UseSession(c) \/ UseKeyring(c) \/ UseStep(c)
    PROVE  WritersAlone' /\ HalfWritten' /\ Promised' /\ CleanHand'
<1> USE DEF CredInv
<1>1. ASSUME NEW l \in {"sign", "readId"}, NEW a \in Secret, Begin(c, l, a),
             UNCHANGED <<keyring, store, promise>>
      PROVE  WritersAlone' /\ HalfWritten' /\ Promised' /\ CleanHand'
  <2>1. l \in Reading /\ l \notin Writing BY DEF Reading, Writing
  <2>2. /\ Writers' = Writers /\ call[c].at = "idle"
        /\ call'[c].at = l /\ call'[c].id = a /\ call'[c].password = a
        /\ call'[c].alone <=> Writers = {}
        /\ \A d \in Caller \ {c} :
              /\ call'[d].at = call[d].at /\ call'[d].id = call[d].id
              /\ call'[d].password = call[d].password
              /\ call'[d].alone <=> call[d].alone
    BY <1>1, <2>1, BeginCall
  <2>3. c \notin Writers BY <2>2 DEF Writers, Writing
  <2> QED BY <1>1, <2>1, <2>2, <2>3 DEF WritersAlone, HalfWritten, Promised, CleanHand, Writers
<1>2. ASSUME NEW l \in {"readPassword", "sign"}, call[c].at \in {"readId", "readPassword"},
             call'[c].at = l, call'[c].alone <=> call[c].alone,
             \A d \in Caller \ {c} : call'[d] = call[d],
             call[c].alone /\ promise # Unknown =>
                 /\ l = "readPassword" => call'[c].id \in {NoAccount, promise}
                 /\ l = "sign" => call'[c].id = call'[c].password,
             UNCHANGED <<keyring, store, promise>>
      PROVE  WritersAlone' /\ HalfWritten' /\ Promised' /\ CleanHand'
  <2>1. Writers' = Writers /\ c \notin Writers BY <1>2 DEF Writers, Writing
  <2> QED BY <1>2, <2>1 DEF WritersAlone, HalfWritten, Promised, CleanHand, Writers
<1>3. CASE UseSession(c)
  BY <1>1, <1>3 DEF UseSession, CredTypeOK
<1>4. CASE UseKeyring(c)
  BY <1>1, <1>4 DEF UseKeyring, Secret
<1>5. CASE ReadId(c)
  <2>1. /\ call[c].at = "readId" /\ call'[c].at = "readPassword"
        /\ call'[c].alone <=> call[c].alone
        /\ call'[c].id \in {NoAccount, keyring.id}
        /\ \A d \in Caller \ {c} : call'[d] = call[d]
        /\ UNCHANGED <<keyring, store, promise>>
    BY <1>5 DEF ReadId, Got, CredTypeOK, Call
  <2>2. promise # Unknown => keyring.id = promise BY DEF Promised
  <2> QED BY <1>2, <2>1, <2>2
<1>6. CASE ReadPassword(c)
  <2> DEFINE password == Got(c, keyring.password)
  <2>1. call[c].at = "readPassword" /\ UNCHANGED <<keyring, store, promise>> BY <1>6 DEF ReadPassword
  <2>2. CASE NoAccount \in {call[c].id, password}
    BY <1>6, <2>1, <2>2, FinishKeeps DEF ReadPassword
  <2>3. CASE NoAccount \notin {call[c].id, password}
    <3>1. /\ call'[c].at = "sign" /\ call'[c].id = call[c].id /\ call'[c].password = password
          /\ call'[c].alone <=> call[c].alone
          /\ \A d \in Caller \ {c} : call'[d] = call[d]
      BY <1>6, <2>3 DEF ReadPassword, CredTypeOK, Call
    <3>2. call[c].alone /\ promise # Unknown => call[c].id = promise /\ password = promise
      BY <2>1, <2>3 DEF CleanHand, Promised, Got
    <3> QED BY <1>2, <2>1, <3>1, <3>2
  <2> QED BY <2>2, <2>3
<1>7. CASE ReadFails(c) \/ Sign(c) BY <1>7, FinishKeeps DEF ReadFails, Sign
<1> QED BY <1>3, <1>4, <1>5, <1>6, <1>7 DEF UseStep

\* A process that dies leaves the keyring as far as its call had got.
LEMMA RestartKeeps ==
    ASSUME CredInv, NEW p \in {"app", "agent"}, Restart(p)
    PROVE  WritersAlone' /\ HalfWritten' /\ Promised' /\ CleanHand'
<1> USE DEF CredInv
<1>1. \A c \in Caller : call'[c] = IF Process(c) = p THEN NoCall ELSE call[c]
  BY DEF Restart
<1>2. Writers' = {c \in Writers : Process(c) # p}
  BY <1>1 DEF Writers, NoCall, Writing
<1>3. \A c \in Writers : Process(c) = "app" BY CallerFacts DEF WritersAlone
<1>4. Writers' # {} => p = "agent" /\ store'["app"] = store["app"]
  BY <1>2, <1>3 DEF Restart, CredTypeOK
<1>5. UNCHANGED <<keyring, promise>> BY DEF Restart
<1>6. NoCall.at = "idle" /\ NoCall.alone = FALSE BY DEF NoCall
<1>7. WritersAlone' BY <1>1, <1>2, <1>6 DEF WritersAlone
<1>8. HalfWritten'
  <2>1. \A c \in Writers' : c \in Writers /\ call'[c] = call[c]
    BY <1>1, <1>2 DEF Writers
  <2> QED BY <1>4, <1>5, <2>1 DEF HalfWritten
<1>9. Promised' BY <1>2, <1>5 DEF Promised
<1>10. CleanHand' BY <1>1, <1>5, <1>6 DEF CleanHand
<1> QED BY <1>7, <1>8, <1>9, <1>10

LEMMA CredInvariant == CredSpec => []CredInv
<1>1. CredInit => CredInv
  BY CallerFacts DEF CredInit, CredInv, CredTypeOK, WritersAlone, HalfWritten, Promised, CleanHand,
     Writers, NoCall, Writing, Detected, Secret
<1>2. CredInv /\ [CredNext]_credVars => CredInv'
  <2> SUFFICES ASSUME CredInv, [CredNext]_credVars PROVE CredInv'
    OBVIOUS
  <2>1. CredTypeOK' BY CredTypes DEF CredInv
  <2>2. CASE Reach \/ UNCHANGED credVars
    BY <2>1, <2>2 DEF Reach, credVars, CredInv, WritersAlone, HalfWritten, Promised, CleanHand, Writers
  <2>3. CASE CredNext /\ ~ Reach
    BY <2>1, <2>3, CallerFacts, BeginsKeep, SignInKeeps, SignOutKeeps, ReadersKeep, RestartKeeps
    DEF CredNext, CredInv
  <2> QED BY <2>2, <2>3
<1> QED BY <1>1, <1>2, PTL DEF CredSpec

\* set_apple_credentials and sign_out (lib.rs) write the two secrets one after
\* the other (store_credentials and clear_credentials of signer.rs): once such a
\* call has returned Ok with no other beside it, the keyring is whole and says
\* what it returned, however many readers, failures and restarts follow.
THEOREM PromiseKept == CredSpec => []KeyringKept
<1>1. CredInv => KeyringKept BY DEF CredInv, Promised, KeyringKept
<1> QED BY <1>1, CredInvariant, PTL

\* load_credentials (signer.rs) reads the id and the password in two requests:
\* with no writer beside it, over such a keyring, it never signs with the id of
\* one account and the password of another.
THEOREM NoTornRead == CredSpec => []CleanRead
<1>1. CredInv => CleanRead BY DEF CredInv, CleanHand, CleanRead
<1> QED BY <1>1, CredInvariant, PTL

-----------------------------------------------------------------------------
(* Autopilot: what a switch of the toggle leaves, and what it shows *)

\* The trigger of mechanism m is complete, in terms of the files.
Complete(m) ==
    IF m = "systemd"
    THEN enabled /\ unit["timer"] = "whole" /\ unit["service"] = "whole"
    ELSE unit["desktop"] = "whole"

\* Both triggers are gone, as far as removals are reliable.
Cleared == /\ unit["timer"] = "absent"
           /\ "desktop" \in AutoFaults \/ unit["desktop"] = "absent"

\* What each step of the call in flight can rely on.
Underway ==
    /\ at \in {"writeService", "writeTimer", "reload", "enable"} => mechanism = "systemd"
    /\ at = "writeDesktop" => mechanism = "autostart"
    /\ at \in {"writeTimer", "reload", "enable"} => unit["service"] = "whole"
    /\ at \in {"reload", "enable"} => unit["timer"] = "whole"
    /\ at = "removeDesktop" => unit["timer"] = "absent"
    /\ at = "reportOn" => Complete(mechanism)
    /\ at = "reportOff" => Cleared

\* A switch stands while no call is in flight.
Standing ==
    /\ switched # "unknown" => at = "idle"
    /\ \A m \in Mechanism : switched = m => Complete(m)
    /\ switched = "off" => Cleared

AutoInv == AutoTypeOK /\ Underway /\ Standing /\ ToggleIsRight


LEMMA LoginStarts ==
    /\ \A m \in Mechanism : Complete(m) => StartsAtLogin(m) # {}
    /\ Cleared /\ "desktop" \notin AutoFaults =>
          \A m \in Mechanism : StartsAtLogin(m) = {}
  BY DEF StartsAtLogin, Complete, Cleared, Mechanism

\* What the status says of a trigger that is complete, or gone.
LEMMA StatusFacts ==
    ASSUME AutoTypeOK
    PROVE  /\ Status \subseteq {"on", "off", "mute"}
           /\ Complete(mechanism) => "off" \notin Status
           /\ Cleared /\ "desktop" \notin AutoFaults => "on" \notin Status
  BY DEF AutoTypeOK, Mechanism, Status, TimerIsEnabled, EntryExists, Complete, Cleared

LEMMA AutoInitial == AutoInit => AutoInv
  BY DEF AutoInit, AutoInv, AutoTypeOK, Underway, Standing, ToggleIsRight, Units,
         Steps, Mechanism

LEMMA WriteKeeps ==
    ASSUME AutoInv, NEW u \in Units, NEW l, NEW next,
           <<u, l, next>> \in {<<"service", "writeService", "writeTimer">>,
                               <<"timer", "writeTimer", "reload">>,
                               <<"desktop", "writeDesktop", "reportOn">>},
           Write(u, l, next)
    PROVE  AutoInv'
<1>1. AutoTypeOK'
  BY DEF AutoInv, AutoTypeOK, Write, Steps, Units
<1>2. Standing' /\ ToggleIsRight'
  BY DEF AutoInv, Standing, ToggleIsRight, Write, Mechanism
<1>3. Underway'
  BY DEF AutoInv, AutoTypeOK, Underway, Complete, Write, Steps, Units
<1> QED BY <1>1, <1>2, <1>3 DEF AutoInv

LEMMA RemoveKeeps ==
    ASSUME AutoInv, NEW u \in Units, NEW l, NEW next,
           <<u, l, next>> \in {<<"timer", "removeTimer", "removeService">>,
                               <<"service", "removeService", "checkTimer">>,
                               <<"desktop", "removeDesktop", "reportOff">>},
           RemoveFile(u, l, next)
    PROVE  AutoInv'
<1>1. AutoTypeOK'
  BY DEF AutoInv, AutoTypeOK, RemoveFile, Steps, Units
<1>2. Standing' /\ ToggleIsRight'
  BY DEF AutoInv, Standing, ToggleIsRight, RemoveFile, Mechanism
<1>3. Underway'
  BY DEF AutoInv, AutoTypeOK, Underway, Cleared, RemoveFile, Steps, Units
<1> QED BY <1>1, <1>2, <1>3 DEF AutoInv

LEMMA InstallKeeps == AutoInv /\ (InstallStart \/ InstallStep) => AutoInv'
<1> SUFFICES ASSUME AutoInv, InstallStart \/ InstallStep PROVE AutoInv'
  OBVIOUS
<1>1. CASE InstallStart
  BY <1>1 DEF AutoInv, AutoTypeOK, Underway, Standing, ToggleIsRight, Mechanism, InstallStart, Turn, Steps
<1>2. CASE Write("service", "writeService", "writeTimer")
  BY <1>2, WriteKeeps DEF Units
<1>3. CASE Write("timer", "writeTimer", "reload")
  BY <1>3, WriteKeeps DEF Units
<1>4. CASE Write("desktop", "writeDesktop", "reportOn")
  BY <1>4, WriteKeeps DEF Units
<1>5. CASE Reload
  BY <1>5 DEF AutoInv, AutoTypeOK, Underway, Standing, ToggleIsRight, Mechanism, Reload, Steps
<1>6. CASE Enable
  BY <1>6 DEF AutoInv, AutoTypeOK, Underway, Standing, ToggleIsRight, Mechanism, Complete, Enable, Steps
<1> QED BY <1>1, <1>2, <1>3, <1>4, <1>5, <1>6 DEF InstallStep

LEMMA UninstallKeeps == AutoInv /\ (UninstallStart \/ UninstallStep) => AutoInv'
<1> SUFFICES ASSUME AutoInv, UninstallStart \/ UninstallStep PROVE AutoInv'
  OBVIOUS
<1>1. CASE UninstallStart
  BY <1>1 DEF AutoInv, AutoTypeOK, Underway, Standing, ToggleIsRight, Mechanism, UninstallStart, Turn, Steps
<1>2. CASE Disable
  BY <1>2 DEF AutoInv, AutoTypeOK, Underway, Standing, ToggleIsRight, Mechanism, Disable, Steps
<1>3. CASE RemoveFile("timer", "removeTimer", "removeService")
  BY <1>3, RemoveKeeps DEF Units
<1>4. CASE RemoveFile("service", "removeService", "checkTimer")
  BY <1>4, RemoveKeeps DEF Units
<1>5. CASE CheckTimer
  BY <1>5 DEF AutoInv, AutoTypeOK, Underway, Standing, ToggleIsRight, Mechanism, CheckTimer, Steps
<1>6. CASE RemoveFile("desktop", "removeDesktop", "reportOff")
  BY <1>6, RemoveKeeps DEF Units
<1> QED BY <1>1, <1>2, <1>3, <1>4, <1>5, <1>6 DEF UninstallStep

LEMMA SessionKeeps ==
    ASSUME AutoInv,
           \/ Report \/ AgentStatus \/ Die \/ TimerFires \/ RunEnds
           \/ \E m \in Mechanism : Login(m)
    PROVE  AutoInv'
<1>0. AutoTypeOK /\ Underway /\ Standing /\ ToggleIsRight
  BY DEF AutoInv
<1>1. CASE Report
  <2>1. AutoTypeOK' /\ Underway'
    BY <1>0, <1>1, StatusFacts DEF AutoTypeOK, Underway, Report, Steps, Mechanism
  <2>2. Standing'
    BY <1>0, <1>1 DEF AutoTypeOK, Underway, Complete, Cleared, Standing, Report, Mechanism
  <2>3. ToggleIsRight'
    BY <1>0, <1>1, StatusFacts DEF AutoTypeOK, Underway, ToggleIsRight, Report, Mechanism
  <2> QED BY <2>1, <2>2, <2>3 DEF AutoInv
<1>2. CASE AgentStatus
  <2>1. AutoTypeOK' /\ Underway' /\ Standing'
    BY <1>0, <1>2, StatusFacts DEF AutoTypeOK, Underway, Complete, Cleared, Standing,
       AgentStatus
  <2>2. ToggleIsRight'
    BY <1>0, <1>2, StatusFacts DEF AutoTypeOK, Standing, ToggleIsRight, AgentStatus, Mechanism
  <2> QED BY <2>1, <2>2 DEF AutoInv
<1>3. CASE Die
  <2>1. AutoTypeOK' /\ Underway'
    BY <1>0, <1>3 DEF AutoTypeOK, Underway, Die, Steps
  <2>2. switched' = "unknown" /\ mechanism' \in Mechanism
    BY <1>0, <1>3 DEF AutoTypeOK, Standing, Die
  <2>3. Standing' /\ ToggleIsRight'
    BY <2>2 DEF Standing, ToggleIsRight, Mechanism
  <2> QED BY <2>1, <2>3 DEF AutoInv
<1>4. CASE TimerFires \/ RunEnds
  <2>1. AutoTypeOK'
    BY <1>0, <1>4 DEF AutoTypeOK, TimerFires, RunEnds, Mode
  <2>2. UNCHANGED <<mechanism, unit, enabled, at, switched, told>>
    BY <1>4 DEF TimerFires, RunEnds
  <2>3. Underway' /\ Standing' /\ ToggleIsRight'
    BY <1>0, <2>2 DEF Underway, Complete, Cleared, Standing, ToggleIsRight
  <2> QED BY <2>1, <2>3 DEF AutoInv
<1>5. ASSUME NEW m \in Mechanism, Login(m) PROVE AutoInv'
  <2>1. AutoTypeOK' /\ ToggleIsRight'
    BY <1>0, <1>5 DEF AutoTypeOK, ToggleIsRight, Login, Mode, Steps, Mechanism
  <2>2. Underway' /\ Standing'
    BY <1>0, <1>5 DEF Underway, Standing, Complete, Cleared, Login
  <2> QED BY <2>1, <2>2 DEF AutoInv
<1> QED BY <1>1, <1>2, <1>3, <1>4, <1>5

LEMMA AutoStep == AutoInv /\ [AutoNext]_autoVars => AutoInv'
<1> SUFFICES ASSUME AutoInv, [AutoNext]_autoVars PROVE AutoInv'
  OBVIOUS
<1>1. CASE UNCHANGED autoVars
  BY <1>1 DEF AutoInv, AutoTypeOK, Underway, Standing, ToggleIsRight, Complete, Cleared,
     autoVars
<1>2. CASE AutoNext
  BY <1>2, InstallKeeps, UninstallKeeps, SessionKeeps DEF AutoNext
<1> QED BY <1>1, <1>2

LEMMA AutoInvariant == AutoSpec => []AutoInv
  BY AutoInitial, AutoStep, PTL DEF AutoSpec


\* A set_background_agent that turned the agent on and returned Ok has left a trigger
\* that starts it at every further login under that mechanism: a call that failed, or
\* that the app died in, on the way there leaves no half of one behind that this call
\* passes over.
THEOREM OnTriggers == AutoSpec => []OnMeansTriggered
<1>1. AutoInv => OnMeansTriggered
  BY LoginStarts DEF AutoInv, Standing, OnMeansTriggered
<1> QED BY <1>1, AutoInvariant, PTL

\* One that turned the agent off and returned Ok has left nothing that a login under
\* either mechanism starts, whatever systemctl answered and whatever was left over.
THEOREM OffSilences == AutoSpec => []OffMeansNoTrigger
<1>1. AutoInv => OffMeansNoTrigger
  BY LoginStarts DEF AutoInv, Standing, OffMeansNoTrigger
<1> QED BY <1>1, AutoInvariant, PTL

\* agent_status, asked at any time, does not contradict the last switch: it looks at
\* one file or one link, but after a call that returned Ok that is enough.
THEOREM ToggleAgrees == AutoSpec => []ToggleIsRight
<1>1. AutoInv => ToggleIsRight
  BY DEF AutoInv
<1> QED BY <1>1, AutoInvariant, PTL

-----------------------------------------------------------------------------
(* Sideload: the store, the phone and the row *)

\* The stages of an install at which the store is written, and at which the
\* name of its entry is settled.
Copying(d) == install[d].at \in {"copy", "copying"}
Named(d)   == Copying(d) \/ install[d].at \in {"metadata", "route", "sign", "record"}

\* A call that is alone has no other beside it.
OneAlone == \A d \in Installing : install[d].alone => Installing = {d}

\* A whole file is what its name says or is known not to be: the copy of a call
\* that is alone is made of what it hashed.
Filed ==
    /\ Installing # {} => source \in Content
    /\ \A d \in Dialog : Named(d) => install[d].hash \in Content
    /\ \A d \in Dialog : Copying(d) /\ install[d].alone => install[d].hash = source
    /\ \A c \in Content : file[c] \in Content => file[c] = c \/ c \in misfiled

\* What a call that is alone has read is still there, and by the time it records
\* the install it is on the phone.
ReadBack ==
    \A d \in Dialog : install[d].alone =>
        /\ install[d].at \in {"route", "sign", "record"} =>
              install[d].version \in Content /\ file[install[d].hash] = install[d].version
        /\ install[d].at = "record" => phone = install[d].version

\* Nobody is about to write the file that is promised.
KeptUntouched ==
    kept # NoContent => \A d \in Dialog : Copying(d) => install[d].hash # kept

\* All but the types, which the steps share.
SideCore == OneAlone /\ Filed /\ ReadBack /\ KeptUntouched /\ KeptEverywhere
SideInv  == SideTypeOK /\ SideCore

Installation == [at: Place, hash: Maybe, version: Maybe, alone: BOOLEAN]

\* The records of the calls, and what moving one of them on leaves in them.
LEMMA GotoFields ==
    ASSUME SideTypeOK, NEW d \in Dialog, NEW l \in Place, Goto(d, l)
    PROVE  /\ install' \in [Dialog -> Installation]
           /\ install'[d].at = l
           /\ l \notin Settled => /\ install'[d].hash = install[d].hash
                                 /\ install'[d].version = install[d].version
                                 /\ install'[d].alone = install[d].alone
           /\ l \in Settled => ~ install'[d].alone
           /\ \A e \in Dialog \ {d} : install'[e] = install[e]
<1>1. NoInstall \in Installation
  BY DEF NoInstall, Installation, Place, Settled, Maybe
<1>2. install \in [Dialog -> Installation]
  BY DEF SideTypeOK, Installation
<1> DEFINE next == IF l \in Settled THEN [NoInstall EXCEPT !.at = l]
                   ELSE [install[d] EXCEPT !.at = l]
<1>3. install' = [install EXCEPT ![d] = next]
  BY DEF Goto
<1>4. /\ next \in Installation /\ next.at = l
      /\ l \notin Settled => /\ next.hash = install[d].hash
                            /\ next.version = install[d].version
                            /\ next.alone = install[d].alone
      /\ l \in Settled => ~ next.alone
  BY <1>1, <1>2 DEF Installation, NoInstall
<1> HIDE DEF next
<1> QED BY <1>2, <1>3, <1>4

\* The types: a copy that ends is of content there was.
LEMMA SideTypes == SideTypeOK /\ Filed /\ [SideNext]_sideVars => SideTypeOK'
<1> SUFFICES ASSUME SideTypeOK, Filed, [SideNext]_sideVars PROVE SideTypeOK'
  OBVIOUS
<1>1. ASSUME NEW d \in Dialog, StartInstall(d) PROVE SideTypeOK'
  BY <1>1 DEF SideTypeOK, StartInstall, NoInstall, Place, Settled, Maybe
<1>2. ASSUME NEW d \in Dialog, HashPass(d) PROVE SideTypeOK'
  <2>1. source \in Content BY <1>2 DEF HashPass, Installing, Settled, Filed
  <2> QED BY <1>2, <2>1 DEF SideTypeOK, HashPass, Place, Maybe
<1>3. ASSUME NEW d \in Dialog, ReadMetadata(d), ~ Goto(d, "failed") PROVE SideTypeOK'
  BY <1>3 DEF SideTypeOK, ReadMetadata, Place, Maybe
<1>4. ASSUME NEW d \in Dialog, NEW l \in Place, Goto(d, l)
      PROVE  install' \in [Dialog -> [at: Place, hash: Maybe, version: Maybe, alone: BOOLEAN]]
  BY <1>4, GotoFields DEF Installation
<1>5. {"hash", "copying", "metadata", "sign", "record", "awaiting2fa", "done", "failed"}
      \subseteq Place
  BY DEF Place, Settled
<1>6. ASSUME NEW d \in Dialog,
             \/ ResolveCredentials(d) \/ CopyBegins(d) \/ StoreFails(d) \/ Route(d)
             \/ ReadMetadata(d) /\ Goto(d, "failed")
             \/ RecordInstall(d) \/ RecordFails(d)
      PROVE SideTypeOK'
  <2>1. PICK l \in Place : Goto(d, l)
    BY <1>5, <1>6 DEF ResolveCredentials, CopyBegins, StoreFails, Route, RecordInstall,
       RecordFails
  <2>2. /\ UNCHANGED <<source, phone, orphan, misfiled>>
        /\ file' \in {file, [file EXCEPT ![install[d].hash] = "short"]}
        /\ record' \in {record, [source |-> install[d].hash, version |-> install[d].version]}
        /\ kept' \in {kept, NoContent, install[d].hash}
    BY <1>6 DEF ResolveCredentials, CopyBegins, StoreFails, Route, ReadMetadata,
       RecordInstall, RecordFails
  <2> QED BY <1>4, <2>1, <2>2 DEF SideTypeOK, Maybe
<1>7. ASSUME NEW d \in Dialog, CopyEnds(d) PROVE SideTypeOK'
  <2>1. install[d].hash \in Content BY <1>7 DEF CopyEnds, Filed, Named, Copying
  <2>2. Goto(d, "metadata") BY <1>7 DEF CopyEnds
  <2> QED BY <1>4, <1>5, <1>7, <2>1, <2>2 DEF SideTypeOK, CopyEnds, Maybe
<1>8. ASSUME NEW d \in Dialog, SignAndInstall(d) PROVE SideTypeOK'
  <2>1. PICK v : Goto(d, Outcome(v)) BY <1>8 DEF SignAndInstall
  <2>2. Outcome(v) \in Place BY <1>5 DEF Outcome
  <2>3. phone' \in Maybe /\ kept' \in {kept, NoContent}
        /\ UNCHANGED <<source, file, orphan, record, misfiled>>
    BY <1>8 DEF SignAndInstall
  <2> QED BY <1>4, <2>1, <2>2, <2>3 DEF SideTypeOK, Maybe
<1>9. CASE SourceChanges
  <2>1. install' \in [Dialog -> Installation]
    BY <1>9 DEF SideTypeOK, SourceChanges, Installation
  <2> QED BY <1>9, <2>1 DEF SideTypeOK, SourceChanges, Maybe, Installation
<1>10. CASE AppDies
  <2>1. orphan' \in [Dialog -> Maybe]
    BY <1>10 DEF SideTypeOK, AppDies, Maybe
  <2> QED BY <1>10, <2>1 DEF SideTypeOK, AppDies, NoInstall, Place, Settled, Maybe
<1>11. ASSUME NEW d \in Dialog, OrphanEnds(d) PROVE SideTypeOK'
  <2>1. \A e \in Dialog : install[e] \in Installation
                           /\ [install[e] EXCEPT !.alone = FALSE] \in Installation
    BY DEF SideTypeOK, Installation
  <2>2. install' \in [Dialog -> Installation]
    BY <1>11, <2>1 DEF SideTypeOK, OrphanEnds, Installation
  <2> QED BY <1>11, <2>2 DEF SideTypeOK, OrphanEnds, Maybe, Installation
<1>12. CASE UNCHANGED sideVars
  BY <1>12 DEF SideTypeOK, sideVars
<1> QED BY <1>1, <1>2, <1>3, <1>6, <1>7, <1>8, <1>9, <1>10, <1>11, <1>12
       DEF SideNext, StepInstall

\* A call in progress goes on, or ends: nobody becomes alone by that.
LEMMA MoveKeepsAlone ==
    ASSUME OneAlone, NEW d \in Installing, install'[d].alone => install[d].alone,
           \A e \in Dialog \ {d} : install'[e] = install[e]
    PROVE  OneAlone'
<1>1. Installing' \in {Installing, Installing \ {d}}
  BY DEF Installing
<1> QED BY <1>1 DEF OneAlone, Installing

\* A step of a call on its own locals, with nothing on disk, phone or record.
LEMMA LocalKeeps ==
    ASSUME SideInv, NEW d \in Installing, install'[d].alone => install[d].alone,
           \A e \in Dialog \ {d} : install'[e] = install[e],
           UNCHANGED <<source, file, phone, record, misfiled, kept>>,
           Named(d)' => install'[d].hash \in Content,
           Copying(d)' /\ install'[d].alone => install'[d].hash = source,
           Copying(d)' => install'[d].hash # kept,
           install'[d].alone =>
               /\ install'[d].at \in {"route", "sign", "record"} =>
                     install'[d].version \in Content /\ file[install'[d].hash] = install'[d].version
               /\ install'[d].at = "record" => phone = install'[d].version
    PROVE  SideCore'
<1> USE DEF SideInv, SideCore
<1>1. OneAlone' BY MoveKeepsAlone
<1>2. Installing' # {} => Installing # {} OBVIOUS
<1>3. \A e \in Dialog \ {d} : (Named(e)' <=> Named(e)) /\ (Copying(e)' <=> Copying(e))
  BY DEF Named, Copying
<1>4. Filed' BY <1>2, <1>3 DEF Filed, Installing
<1>5. ReadBack' BY DEF ReadBack
<1>6. KeptUntouched' BY <1>3 DEF KeptUntouched
<1>7. KeptEverywhere' BY DEF KeptEverywhere
<1> QED BY <1>1, <1>4, <1>5, <1>6, <1>7

\* The steps of install_ipa before and between its effects.
LEMMA LocalSteps ==
    ASSUME SideInv, NEW d \in Dialog,
           \/ ResolveCredentials(d) \/ HashPass(d) \/ StoreFails(d)
           \/ ReadMetadata(d) \/ Route(d)
    PROVE  SideCore'
<1> USE DEF SideInv, SideCore
<1>1. CASE ResolveCredentials(d)
  <2>1. PICK l \in {"hash", "failed"} : Goto(d, l) BY <1>1 DEF ResolveCredentials
  <2>2. d \in Installing BY <1>1 DEF ResolveCredentials, Installing, Settled
  <2> QED BY <1>1, <2>1, <2>2, GotoFields, LocalKeeps DEF ResolveCredentials, Named, Copying, Place, Settled
<1>2. CASE HashPass(d)
  <2>1. d \in Installing BY <1>2 DEF HashPass, Installing, Settled
  <2>2. source \in Content BY <2>1 DEF Filed
  <2>3. /\ install'[d].hash = source /\ install'[d].alone = install[d].alone
        /\ install'[d].at = IF file[source] = NoContent THEN "copy" ELSE "metadata"
        /\ \A e \in Dialog \ {d} : install'[e] = install[e]
        /\ UNCHANGED <<source, file, phone, record, misfiled, kept>>
    BY <1>2 DEF HashPass, SideTypeOK
  <2>4. Copying(d)' => source # kept
    BY <2>2, <2>3, ContentAssumption DEF KeptEverywhere, Copying
  <2> QED BY <2>1, <2>2, <2>3, <2>4, LocalKeeps
<1>3. CASE StoreFails(d) \/ (ReadMetadata(d) /\ Goto(d, "failed")) \/ (Route(d) /\ Goto(d, "failed"))
  <2>1. Goto(d, "failed") /\ UNCHANGED <<source, file, phone, record, misfiled, kept>>
    BY <1>3 DEF StoreFails, ReadMetadata, Route
  <2>2. d \in Installing BY <1>3 DEF StoreFails, ReadMetadata, Route, Installing, Settled
  <2> QED BY <2>1, <2>2, GotoFields, LocalKeeps DEF Named, Copying, Place, Settled
<1>4. CASE ReadMetadata(d) /\ ~ Goto(d, "failed")
  <2>1. d \in Installing /\ Named(d)
    BY <1>4 DEF ReadMetadata, Installing, Settled, Named
  <2>2. /\ install'[d].at = "route" /\ install'[d].hash = install[d].hash
        /\ install'[d].alone = install[d].alone
        /\ install'[d].version = file[install[d].hash] /\ file[install[d].hash] \in Content
        /\ \A e \in Dialog \ {d} : install'[e] = install[e]
        /\ UNCHANGED <<source, file, phone, record, misfiled, kept>>
    BY <1>4 DEF ReadMetadata, SideTypeOK
  <2>3. ~ Copying(d)' BY <2>2 DEF Copying
  <2> QED BY <2>1, <2>2, <2>3, LocalKeeps DEF Filed
<1>5. CASE Route(d) /\ ~ Goto(d, "failed")
  <2>1. d \in Installing /\ Named(d) /\ Goto(d, "sign") /\ install[d].at = "route"
    BY <1>5 DEF Route, Installing, Settled, Named
  <2>2. UNCHANGED <<source, file, phone, record, misfiled, kept>> BY <1>5 DEF Route
  <2>3. install'[d].at = "sign" /\ install'[d].hash = install[d].hash
        /\ install'[d].version = install[d].version /\ install'[d].alone = install[d].alone
        /\ \A e \in Dialog \ {d} : install'[e] = install[e]
    BY <2>1, GotoFields DEF Place, Settled
  <2>4. ~ Copying(d)' BY <2>3 DEF Copying
  <2> QED BY <2>1, <2>2, <2>3, <2>4, LocalKeeps DEF Filed, ReadBack
<1> QED BY <1>1, <1>2, <1>3, <1>4, <1>5

\* A call that begins beside another is not alone, and neither is that one.
LEMMA StartKeeps ==
    ASSUME SideInv, NEW d \in Dialog, StartInstall(d)
    PROVE  SideCore'
<1> USE DEF SideInv, SideCore
<1> DEFINE empty == Installing = {}
<1>1. /\ install'[d].at = "creds" /\ install'[d].alone = empty
      /\ \A e \in Dialog \ {d} : /\ install'[e].at = install[e].at
                                 /\ install'[e].hash = install[e].hash
                                 /\ install'[e].version = install[e].version
                                 /\ ~ install'[e].alone
  <2>1. install' = [e \in Dialog |->
           IF e = d THEN [NoInstall EXCEPT !.at = "creds", !.alone = empty]
           ELSE [install[e] EXCEPT !.alone = FALSE]]
    BY DEF StartInstall
  <2> HIDE DEF empty
  <2>2. [NoInstall EXCEPT !.at = "creds", !.alone = empty].at = "creds"
        /\ [NoInstall EXCEPT !.at = "creds", !.alone = empty].alone = empty
    BY DEF NoInstall
  <2> QED BY <2>1, <2>2 DEF SideTypeOK
<1>2. UNCHANGED <<source, file, phone, record, misfiled, kept>> /\ source \in Content
  BY DEF StartInstall, SideTypeOK, Maybe
<1>3. Installing' = Installing \cup {d}
  BY <1>1 DEF Installing, Settled
<1>4. \A e \in Dialog : (Named(e)' => Named(e) /\ e # d) /\ (Copying(e)' => Copying(e) /\ e # d)
  BY <1>1 DEF Named, Copying
<1>5. OneAlone' BY <1>1, <1>3 DEF OneAlone, Installing
<1>6. Filed' BY <1>1, <1>2, <1>4 DEF Filed
<1>7. ReadBack' BY <1>1 DEF ReadBack
<1>8. KeptUntouched' BY <1>1, <1>2, <1>4 DEF KeptUntouched
<1>9. KeptEverywhere' BY <1>2 DEF KeptEverywhere
<1> QED BY <1>5, <1>6, <1>7, <1>8, <1>9

\* Writing the store: whatever is promised is under another name.
LEMMA CopyKeeps ==
    ASSUME SideInv, NEW d \in Dialog, CopyBegins(d) \/ CopyEnds(d)
    PROVE  SideCore'
<1> USE DEF SideInv, SideCore
<1>1. d \in Installing /\ Copying(d) /\ Named(d) /\ install[d].hash \in Content
  BY DEF CopyBegins, CopyEnds, Installing, Settled, Copying, Named, Filed
<1>2. PICK l \in {"copying", "metadata"} : Goto(d, l) /\ (CopyEnds(d) => l = "metadata")
  BY DEF CopyBegins, CopyEnds
<1>3. /\ install'[d].at = l /\ install'[d].hash = install[d].hash
      /\ install'[d].version = install[d].version /\ install'[d].alone = install[d].alone
      /\ \A e \in Dialog \ {d} : install'[e] = install[e]
  BY <1>2, GotoFields DEF Place, Settled
<1>4. /\ UNCHANGED <<source, phone, record, kept>>
      /\ misfiled \subseteq misfiled'
      /\ file'[install[d].hash] = "short" \/
            (file'[install[d].hash] = source /\ (install[d].alone \/ install[d].hash \in misfiled'))
      /\ \A c \in Content : c # install[d].hash => file'[c] = file[c]
  BY <1>1 DEF CopyBegins, CopyEnds, SideTypeOK
<1>5. OneAlone' BY <1>1, <1>3, MoveKeepsAlone
<1>6. Filed'
  <2>1. \A e \in Dialog : /\ Named(e)' => Named(e)
                          /\ Copying(e)' => Copying(e)
    BY <1>1, <1>3 DEF Named, Copying
  <2>2. \A c \in Content : file'[c] \in Content => file'[c] = c \/ c \in misfiled'
    BY <1>1, <1>4, ContentAssumption DEF Filed
  <2> QED BY <1>1, <1>3, <1>4, <2>1, <2>2 DEF Filed
<1>7. ReadBack'
  <2>1. \A e \in Dialog \ {d} : e \in Installing => ~ install[e].alone
    BY <1>1 DEF OneAlone
  <2>2. \A e \in Dialog : install'[e].at \in {"route", "sign", "record"} => e \in Installing /\ e # d
    BY <1>3 DEF Installing, Settled
  <2> QED BY <1>3, <2>1, <2>2 DEF ReadBack
<1>8. KeptUntouched'
  BY <1>1, <1>3, <1>4 DEF KeptUntouched, Copying
<1>9. KeptEverywhere'
  BY <1>1, <1>4 DEF KeptEverywhere, KeptUntouched, SideTypeOK, Maybe
<1> QED BY <1>5, <1>6, <1>7, <1>8, <1>9

\* What is installed was read from the store, for a call that is alone.
LEMMA SignKeeps ==
    ASSUME SideInv, NEW d \in Dialog, SignAndInstall(d)
    PROVE  SideCore'
<1> USE DEF SideInv, SideCore
<1>1. d \in Installing /\ Named(d) /\ install[d].at = "sign" /\ install[d].hash \in Content
  BY DEF SignAndInstall, Installing, Settled, Named, Filed
<1>2. PICK code \in DOMAIN Runs : \E verdict \in Runs[code] :
          /\ phone' \in {file[install[d].hash]} \cup (IF code = "zero" THEN {} ELSE {phone})
          /\ Goto(d, Outcome(verdict))
  BY DEF SignAndInstall
<1>3. PICK verdict \in Runs[code] :
          /\ phone' \in {file[install[d].hash]} \cup (IF code = "zero" THEN {} ELSE {phone})
          /\ Goto(d, Outcome(verdict))
  BY <1>2
<1>4. code # "zero" => verdict # "ok"
  BY <1>2, <1>3 DEF Runs, Classify, Verdicts
<1>5. Outcome(verdict) \in {"awaiting2fa", "failed", "record"} /\ (Outcome(verdict) = "record" => verdict = "ok")
  BY DEF Outcome
<1>6. /\ install'[d].at = Outcome(verdict)
      /\ Outcome(verdict) = "record" => /\ install'[d].hash = install[d].hash
                                        /\ install'[d].version = install[d].version
      /\ install'[d].alone => install[d].alone
      /\ \A e \in Dialog \ {d} : install'[e] = install[e]
  BY <1>3, <1>5, GotoFields DEF Place, Settled
<1>7. /\ UNCHANGED <<source, file, record, misfiled>>
      /\ kept' = IF phone' = phone THEN kept ELSE NoContent
  BY DEF SignAndInstall
<1>8. OneAlone' BY <1>1, <1>6, MoveKeepsAlone
<1>9. \A e \in Dialog : (Named(e)' => Named(e)) /\ (Copying(e)' => Copying(e) /\ e # d)
  BY <1>1, <1>5, <1>6 DEF Named, Copying
<1>10. Filed'
  <2>1. \A e \in Dialog : Named(e)' => install'[e].hash = install[e].hash
    BY <1>5, <1>6 DEF Named, Copying
  <2> QED BY <1>1, <1>6, <1>7, <1>9, <2>1 DEF Filed
<1>11. ReadBack'
  <2>1. \A e \in Dialog \ {d} : e \in Installing => ~ install[e].alone
    BY <1>1 DEF OneAlone
  <2>2. \A e \in Dialog : install'[e].at \in {"route", "sign", "record"} => e \in Installing
    BY <1>1, <1>6 DEF Installing, Settled
  <2>3. install'[d].at = "record" => phone' = file[install[d].hash]
    BY <1>3, <1>4, <1>5, <1>6
  <2> QED BY <1>1, <1>5, <1>6, <1>7, <2>1, <2>2, <2>3 DEF ReadBack
<1>12. KeptUntouched' BY <1>6, <1>7, <1>9 DEF KeptUntouched
<1>13. KeptEverywhere' BY <1>7 DEF KeptEverywhere
<1> QED BY <1>8, <1>10, <1>11, <1>12, <1>13

\* The row names a file, and with it what is promised of it.
LEMMA RecordInstallKeeps ==
    ASSUME SideInv, NEW d \in Dialog, RecordInstall(d) \/ RecordFails(d)
    PROVE  SideCore'
<1> USE DEF SideInv, SideCore
<1>1. d \in Installing /\ Named(d) /\ install[d].at = "record" /\ install[d].hash \in Content
  BY DEF RecordInstall, RecordFails, Installing, Settled, Named, Filed
<1>2. PICK l \in {"done", "failed"} : Goto(d, l) BY DEF RecordInstall, RecordFails
<1>3. /\ install'[d].at = l /\ ~ install'[d].alone
      /\ \A e \in Dialog \ {d} : install'[e] = install[e]
  BY <1>2, GotoFields DEF Place, Settled
<1>4. UNCHANGED <<source, file, phone, misfiled>> BY DEF RecordInstall, RecordFails
<1>5. kept' # NoContent =>
        /\ RecordInstall(d) /\ install[d].alone
        /\ kept' = install[d].hash /\ install[d].hash \notin misfiled
        /\ record' = [source |-> install[d].hash, version |-> install[d].version]
  BY DEF RecordInstall, RecordFails
<1>6. OneAlone' BY <1>1, <1>3, MoveKeepsAlone
<1>7. \A e \in Dialog : (Named(e)' => Named(e) /\ e # d) /\ (Copying(e)' => Copying(e) /\ e # d)
  BY <1>3 DEF Named, Copying
<1>8. Filed' BY <1>1, <1>3, <1>4, <1>7 DEF Filed
<1>9. ReadBack' BY <1>3, <1>4 DEF ReadBack
<1>10. KeptUntouched'
  <2>1. kept' # NoContent => Installing = {d} BY <1>1, <1>5 DEF OneAlone
  <2>2. \A e \in Dialog : Copying(e) => e \in Installing BY DEF Copying, Installing, Settled
  <2> QED BY <1>7, <2>1, <2>2 DEF KeptUntouched
<1>11. KeptEverywhere'
  <2> SUFFICES ASSUME kept' # NoContent
               PROVE  /\ phone = install[d].hash /\ file[install[d].hash] = install[d].hash
                      /\ install[d].version = install[d].hash
    BY <1>4, <1>5 DEF KeptEverywhere
  <2>1. install[d].alone /\ install[d].hash \notin misfiled BY <1>5
  <2>2. /\ install[d].version \in Content /\ file[install[d].hash] = install[d].version
        /\ phone = install[d].version
    BY <1>1, <2>1 DEF ReadBack
  <2> QED BY <1>1, <2>1, <2>2 DEF Filed
<1> QED BY <1>6, <1>8, <1>9, <1>10, <1>11

\* The file the user picked changes, or the app dies: the store stays.
LEMMA WorldKeeps ==
    ASSUME SideInv, SourceChanges \/ AppDies
    PROVE  SideCore'
<1> USE DEF SideInv, SideCore
<1>1. UNCHANGED <<file, phone, record, misfiled, kept>> BY DEF SourceChanges, AppDies
<1>2. CASE SourceChanges
  <2>1. \A e \in Dialog : /\ install'[e].at = install[e].at /\ install'[e].hash = install[e].hash
                          /\ ~ install'[e].alone
    BY <1>2 DEF SourceChanges, SideTypeOK
  <2>2. Installing' = Installing BY <2>1 DEF Installing
  <2>3. \A e \in Dialog : (Named(e)' <=> Named(e)) /\ (Copying(e)' <=> Copying(e))
    BY <2>1 DEF Named, Copying
  <2>4. source' \in Content BY <1>2 DEF SourceChanges
  <2> QED BY <1>1, <2>1, <2>2, <2>3, <2>4
      DEF OneAlone, Filed, ReadBack, KeptUntouched, KeptEverywhere, Installing
<1>3. CASE AppDies
  <2>1. \A e \in Dialog : install'[e].at = "none" /\ install'[e].alone = FALSE
    BY <1>3 DEF AppDies, NoInstall
  <2>2. Installing' = {} BY <2>1 DEF Installing, Settled
  <2>3. \A e \in Dialog : ~ Named(e)' /\ ~ Copying(e)' BY <2>1 DEF Named, Copying
  <2> QED BY <1>1, <2>1, <2>2, <2>3
      DEF OneAlone, Filed, ReadBack, KeptUntouched, KeptEverywhere
<1> QED BY <1>2, <1>3

\* The signer of an app that is gone reaches the phone, or not: nothing is promised
\* of what it replaces, and a call that has installed already is no longer alone.
LEMMA OrphanKeeps ==
    ASSUME SideInv, NEW d \in Dialog, OrphanEnds(d)
    PROVE  SideCore'
<1> USE DEF SideInv, SideCore
<1>1. UNCHANGED <<source, file, record, misfiled>> BY DEF OrphanEnds
<1>2. CASE UNCHANGED <<phone, install, kept>>
  BY <1>1, <1>2 DEF OneAlone, Filed, ReadBack, KeptUntouched, KeptEverywhere, Installing,
     Named, Copying
<1>3. CASE phone' # phone
  <2>1. kept' = NoContent BY <1>3 DEF OrphanEnds
  <2>2. \A e \in Dialog :
           /\ install'[e].at = install[e].at /\ install'[e].hash = install[e].hash
           /\ install'[e].version = install[e].version
           /\ install'[e].alone => install[e].alone /\ install[e].at # "record"
    BY <1>3 DEF OrphanEnds, SideTypeOK
  <2>3. Installing' = Installing BY <2>2 DEF Installing
  <2>4. \A e \in Dialog : (Named(e)' <=> Named(e)) /\ (Copying(e)' <=> Copying(e))
    BY <2>2 DEF Named, Copying
  <2>5. OneAlone' BY <2>2, <2>3 DEF OneAlone, Installing
  <2>6. Filed' BY <1>1, <2>2, <2>3, <2>4 DEF Filed
  <2>7. ReadBack' BY <1>1, <2>2 DEF ReadBack
  <2> QED BY <2>1, <2>5, <2>6, <2>7 DEF KeptUntouched, KeptEverywhere
<1> QED BY <1>2, <1>3 DEF OrphanEnds

LEMMA SideInvariant == SideSpec => []SideInv
<1>1. SideInit => SideInv
  <2> SUFFICES ASSUME SideInit PROVE SideInv OBVIOUS
  <2>1. \A e \in Dialog : install[e].at = "none" /\ install[e].alone = FALSE
    BY DEF SideInit, NoInstall
  <2>2. SideTypeOK BY DEF SideInit, SideTypeOK, NoInstall, Place, Settled, Maybe
  <2>3. Installing = {} BY <2>1 DEF Installing, Settled
  <2>4. \A e \in Dialog : ~ Named(e) /\ ~ Copying(e) BY <2>1 DEF Named, Copying
  <2>5. kept = NoContent /\ \A c \in Content : file[c] \notin Content
    BY ContentAssumption DEF SideInit
  <2> QED BY <2>1, <2>2, <2>3, <2>4, <2>5
      DEF SideInv, SideCore, OneAlone, Filed, ReadBack, KeptUntouched, KeptEverywhere
<1>2. SideInv /\ [SideNext]_sideVars => SideInv'
  <2> SUFFICES ASSUME SideInv, [SideNext]_sideVars PROVE SideInv' OBVIOUS
  <2>1. SideTypeOK' BY SideTypes DEF SideInv, SideCore
  <2>2. CASE UNCHANGED sideVars
    BY <2>1, <2>2 DEF sideVars, SideInv, SideCore, OneAlone, Filed, ReadBack, KeptUntouched,
       KeptEverywhere, Installing, Named, Copying
  <2>3. CASE SideNext
    BY <2>1, <2>3, LocalSteps, StartKeeps, CopyKeeps, SignKeeps, RecordInstallKeeps, WorldKeeps,
       OrphanKeeps
    DEF SideNext, StepInstall, SideInv
  <2> QED BY <2>2, <2>3
<1> QED BY <1>1, <1>2, PTL DEF SideSpec

\* install_ipa (lib.rs) hashes the picked file, copies it into the store under
\* that hash (IpaStore::store_file of ipa_store.rs, two reads), installs from the
\* copy and then writes the row: when it has returned Ok with no other install
\* beside it and the picked file unchanged under it, the row, the stored file and
\* the phone agree until the phone gets another app, whatever later or earlier
\* copies were cut short, failed or killed, and whatever the signer of an app that
\* died does, unless it reaches the phone between this install's signer and its row.
THEOREM InstallStands == SideSpec => []KeptEverywhere
<1>1. SideInv => KeptEverywhere BY DEF SideInv, SideCore
<1> QED BY <1>1, SideInvariant, PTL

-----------------------------------------------------------------------------
(* OperationEvents: the ring between a command and its dialog *)

\* What is in the ring.
Sending == [op: Operation, event: Event]

\* a is not later than b: an earlier call, or no more progress in the same one.
NotLater(a, b) ==
    \/ a.attempt < b.attempt
    \/ a.attempt = b.attempt /\ Progress[a.stage] <= Progress[b.stage]

\* The table of progress, and which stage can follow which.
LEMMA Stages ==
    /\ DOMAIN Progress = {"none", "queued", "preparing", "locating", "signing",
                          "awaiting2fa", "installing", "done", "failed"}
    /\ DOMAIN Follows = {"queued", "preparing", "locating", "signing", "installing", "done"}
    /\ \A s \in DOMAIN Progress : Progress[s] \in Nat /\ Progress[s] <= Progress["failed"]
    /\ \A s \in DOMAIN Follows : \A n \in Follows[s] :
          /\ n \in DOMAIN Progress /\ Progress[s] <= Progress[n]
          /\ n \notin {"none", "failed"}
          /\ n = "awaiting2fa" \/ n \in DOMAIN Follows
  BY DEF Progress, Follows

\* To be not later is a preorder.
LEMMA LaterFacts ==
    ASSUME NEW a \in Event, NEW b \in Event
    PROVE  /\ NotLater(a, a)
           /\ \A c \in Event : NotLater(a, b) /\ NotLater(b, c) => NotLater(a, c)
<1>1. /\ a.attempt \in Int /\ b.attempt \in Int
      /\ Progress[a.stage] \in Nat /\ Progress[b.stage] \in Nat
      /\ \A c \in Event : c.attempt \in Int /\ Progress[c.stage] \in Nat
  BY Stages, ChannelAssumption DEF Event
<1> QED BY <1>1 DEF NotLater

\* The places of the ring.
Entries == 1 .. Len(queue)

\* The types, with the stages a call that is running can be at.
Sent ==
    /\ EventTypeOK /\ queue \in Seq(Sending)
    /\ \A o \in active : sent[o].stage \in DOMAIN Follows

\* The last entry of an operation is its newest event, ...
NewestLast ==
    \A i \in Entries :
        (\A j \in Entries : j > i => queue[j].op # queue[i].op)
            => queue[i].event = sent[queue[i].op]

\* ... and one that has none left and lost nothing is shown.
CaughtUp ==
    \A o \in Operation \ lost :
        (\A i \in Entries : queue[i].op # o) => shown[o] = sent[o]

\* What is shown, what waits and what was sent last follow each other.
InOrder ==
    /\ \A o \in Operation : NotLater(shown[o], sent[o])
    /\ \A i \in Entries : NotLater(shown[queue[i].op], queue[i].event)
    /\ \A i \in Entries : NotLater(queue[i].event, sent[queue[i].op])
    /\ \A i, j \in Entries :
          i < j /\ queue[i].op = queue[j].op => NotLater(queue[i].event, queue[j].event)

EventInv == Sent /\ NewestLast /\ CaughtUp /\ InOrder

\* An entry has the fields of one.
LEMMA Entry ==
    ASSUME Sent, NEW i \in Entries
    PROVE  queue[i] \in Sending /\ queue[i].op \in Operation /\ queue[i].event \in Event
<1>1. queue \in Seq(Sending) /\ i \in 1 .. Len(queue) BY DEF Sent, Entries
<1>2. queue[i] \in Sending BY <1>1, ElementOfSeq
<1> QED BY <1>2 DEF Sending

\* The ring before and after an event is sent: k entries are dropped, none or one.
LEMMA EmitQueue ==
    ASSUME Sent, NEW o \in Operation, NEW event \in Event, Emit(o, event)
    PROVE  \E k \in {0, 1} :
              /\ k <= Len(queue)
              /\ k = 1 => \A p \in Operation :
                    queue[1] = [op |-> p, event |-> sent[p]] => p \in lost' \/ p = o
              /\ queue' \in Seq(Sending) /\ Len(queue') = Len(queue) - k + 1
              /\ Len(queue') <= Capacity
              /\ \A i \in 1 .. (Len(queue) - k) : queue'[i] = queue[i + k]
              /\ queue'[Len(queue) - k + 1] = [op |-> o, event |-> event]
<1>1. queue \in Seq(Sending) /\ Len(queue) \in Nat /\ Len(queue) <= Capacity /\ Capacity \in Nat \ {0}
  BY ChannelAssumption DEF Sent, EventTypeOK
<1>2. [op |-> o, event |-> event] \in Sending BY DEF Sending
<1>3. CASE Len(queue) = Capacity
  <2>1. queue # <<>> BY <1>1, <1>3
  <2>2. /\ Tail(queue) \in Seq(Sending) /\ Len(Tail(queue)) = Len(queue) - 1
        /\ \A i \in 1 .. (Len(queue) - 1) : Tail(queue)[i] = queue[i + 1]
        /\ Head(queue) = queue[1]
    BY <1>1, <2>1, HeadTailProperties
  <2>3. queue' = Append(Tail(queue), [op |-> o, event |-> event])
    BY <1>3 DEF Emit
  <2>4. \A p \in Operation : queue[1] = [op |-> p, event |-> sent[p]] => p \in lost' \/ p = o
    BY <1>3, <2>2 DEF Emit
  <2>5. /\ queue' \in Seq(Sending) /\ Len(queue') = Len(queue) - 1 + 1
        /\ \A i \in 1 .. (Len(queue) - 1) : queue'[i] = queue[i + 1]
        /\ queue'[Len(queue) - 1 + 1] = [op |-> o, event |-> event]
    BY <1>1, <1>2, <2>2, <2>3, AppendProperties
  <2>6. 1 <= Len(queue) /\ Len(queue') <= Capacity BY <1>1, <1>3, <2>5
  <2> QED BY <2>4, <2>5, <2>6
<1>4. CASE Len(queue) # Capacity
  <2>1. queue' = Append(queue, [op |-> o, event |-> event])
    BY <1>4 DEF Emit
  <2>2. /\ queue' \in Seq(Sending) /\ Len(queue') = Len(queue) - 0 + 1
        /\ \A i \in 1 .. (Len(queue) - 0) : queue'[i] = queue[i + 0]
        /\ queue'[Len(queue) - 0 + 1] = [op |-> o, event |-> event]
    BY <1>1, <1>2, <2>1, AppendProperties
  <2>3. 0 <= Len(queue) /\ Len(queue') <= Capacity BY <1>1, <1>4, <2>2
  <2> QED BY <2>2, <2>3
<1> QED BY <1>3, <1>4

\* Sending a later event: whoever loses one to a full ring is known for it.
LEMMA EmitKeeps ==
    ASSUME EventInv, NEW o \in Operation, NEW event \in Event, Emit(o, event),
           NotLater(sent[o], event)
    PROVE  /\ queue' \in Seq(Sending) /\ Len(queue') <= Capacity
           /\ sent' \in [Operation -> Event] /\ sent'[o] = event
           /\ \A p \in Operation \ {o} : sent'[p] = sent[p]
           /\ shown' = shown /\ lagged' \in BOOLEAN /\ lost' \subseteq Operation
           /\ NewestLast' /\ CaughtUp' /\ InOrder'
<1> USE DEF EventInv
<1> DEFINE n == Len(queue)
           new == [op |-> o, event |-> event]
<1>1. PICK k \in {0, 1} :
              /\ k <= n
              /\ k = 1 => \A p \in Operation :
                    queue[1] = [op |-> p, event |-> sent[p]] => p \in lost' \/ p = o
              /\ queue' \in Seq(Sending) /\ Len(queue') = n - k + 1
              /\ Len(queue') <= Capacity
              /\ \A i \in 1 .. (n - k) : queue'[i] = queue[i + k]
              /\ queue'[n - k + 1] = new
  BY EmitQueue
<1>2. n \in Nat BY DEF Sent
<1>3. /\ sent' \in [Operation -> Event] /\ sent'[o] = event
      /\ \A p \in Operation \ {o} : sent'[p] = sent[p]
      /\ shown' = shown /\ lagged' \in BOOLEAN /\ lost' \subseteq Operation
      /\ lost \ {o} \subseteq lost'
  BY DEF Emit, Sent, EventTypeOK
<1>4. Entries' = 1 .. (n - k + 1) BY <1>1 DEF Entries
<1>5. \A i \in 1 .. (n - k) : i + k \in Entries BY <1>1, <1>2 DEF Entries
<1>6. \A i \in Entries' : i = n - k + 1 \/ i \in 1 .. (n - k)
  BY <1>1, <1>2, <1>4
<1>7. n - k + 1 \in Entries' BY <1>1, <1>2, <1>4
<1> HIDE DEF n
<1>8. NewestLast'
  <2> SUFFICES ASSUME NEW i \in Entries',
                      \A j \in Entries' : j > i => queue'[j].op # queue'[i].op
               PROVE  queue'[i].event = sent'[queue'[i].op]
    BY DEF NewestLast
  <2>1. CASE i = n - k + 1 BY <1>1, <1>3, <2>1
  <2>2. CASE i \in 1 .. (n - k)
    <3>1. queue'[i] = queue[i + k] /\ i + k \in Entries BY <1>1, <1>5, <2>2
    <3>2. queue[i + k].op # o BY <1>1, <1>2, <1>7, <2>2, <3>1
    <3>3. \A j \in Entries : j > i + k => queue[j].op # queue[i + k].op
      <4> TAKE j \in Entries
      <4> HAVE j > i + k
      <4>1. j - k \in 1 .. (n - k) /\ j - k \in Entries' /\ j - k > i
        BY <1>1, <1>2, <1>4, <2>2 DEF Entries, n
      <4>2. queue'[j - k] = queue[j]
        BY <1>1, <1>2, <4>1 DEF Entries, n
      <4> QED BY <3>1, <4>1, <4>2
    <3>4. queue[i + k].event = sent[queue[i + k].op] BY <3>1, <3>3 DEF NewestLast
    <3> QED BY <1>3, <3>1, <3>2, <3>4, Entry
  <2> QED BY <1>6, <2>1, <2>2
<1>9. CaughtUp'
  <2> SUFFICES ASSUME NEW p \in Operation \ lost', \A i \in Entries' : queue'[i].op # p
               PROVE  shown[p] = sent'[p]
    BY <1>3 DEF CaughtUp
  <2>1. p # o BY <1>1, <1>7
  <2>2. p \notin lost BY <1>3, <2>1
  <2>3. \A j \in Entries : j > k => queue[j].op # p
    <3> TAKE j \in Entries
    <3> HAVE j > k
    <3>1. j - k \in 1 .. (n - k) /\ j - k \in Entries'
      BY <1>1, <1>2, <1>4 DEF Entries, n
    <3>2. queue'[j - k] = queue[j] BY <1>1, <1>2, <3>1 DEF Entries, n
    <3> QED BY <3>1, <3>2
  <2>4. \A j \in Entries : queue[j].op # p
    <3> SUFFICES ASSUME NEW j \in Entries, queue[j].op = p PROVE FALSE OBVIOUS
    <3>1. k = 1 /\ j = 1 BY <1>1, <2>3 DEF Entries
    <3>2. \A m \in Entries : m > 1 => queue[m].op # queue[1].op
      BY <2>3, <3>1
    <3>3. queue[1].event = sent[p] BY <3>1, <3>2 DEF NewestLast
    <3>4. queue[1] = [op |-> p, event |-> sent[p]] BY <3>1, <3>3, Entry DEF Sending
    <3> QED BY <1>1, <2>1, <3>1, <3>4
  <2> QED BY <1>3, <2>1, <2>2, <2>4 DEF CaughtUp
<1>10. InOrder'
  <2>1. sent \in [Operation -> Event] /\ shown \in [Operation -> Event] BY DEF Sent, EventTypeOK
  <2>2. \A p \in Operation : NotLater(sent[p], sent'[p])
    BY <1>3, <2>1, LaterFacts
  <2>3. \A p \in Operation : NotLater(shown'[p], sent'[p])
    BY <1>3, <2>1, <2>2, LaterFacts DEF InOrder
  <2>4. \A i \in 1 .. (n - k) :
           /\ queue'[i].op \in Operation /\ queue'[i].event \in Event
           /\ NotLater(shown[queue'[i].op], queue'[i].event)
           /\ NotLater(queue'[i].event, sent'[queue'[i].op])
    BY <1>1, <1>3, <1>5, <2>1, <2>2, Entry, LaterFacts DEF InOrder
  <2>5. \A i \in Entries' : /\ NotLater(shown'[queue'[i].op], queue'[i].event)
                            /\ NotLater(queue'[i].event, sent'[queue'[i].op])
    BY <1>1, <1>3, <1>6, <2>1, <2>3, <2>4, LaterFacts
  <2>6. ASSUME NEW i \in Entries', NEW j \in Entries', i < j, queue'[i].op = queue'[j].op
        PROVE  NotLater(queue'[i].event, queue'[j].event)
    <3>1. i \in 1 .. (n - k) BY <1>1, <1>2, <1>4, <2>6
    <3>2. CASE j = n - k + 1
      BY <1>1, <1>3, <2>4, <2>6, <3>1, <3>2
    <3>3. CASE j \in 1 .. (n - k)
      <4>1. /\ i + k \in Entries /\ j + k \in Entries /\ i + k < j + k
            /\ queue'[i] = queue[i + k] /\ queue'[j] = queue[j + k]
        BY <1>1, <1>2, <1>5, <2>6, <3>1, <3>3
      <4> QED BY <2>6, <4>1 DEF InOrder
    <3> QED BY <1>6, <3>2, <3>3
  <2> QED BY <2>3, <2>5, <2>6 DEF InOrder
<1> QED BY <1>1, <1>3, <1>8, <1>9, <1>10

\* The stages of a command only go forward, and a new attempt is later.
LEMMA OperationKeeps ==
    ASSUME EventInv, NEW o \in Operation,
           \/ StartOperation(o) \/ AdvanceOperation(o) \/ FailOperation(o)
    PROVE  EventInv'
<1> USE DEF EventInv
<1>1. sent[o] \in Event /\ sent[o].attempt \in 0 .. Attempts /\ sent[o].stage \in DOMAIN Progress
      /\ active \subseteq Operation
  BY DEF Sent, EventTypeOK, Event
<1>2. ASSUME NEW event \in Event, Emit(o, event), NotLater(sent[o], event),
             active' \in {active \cup {o}, active \ {o}, active},
             o \in active' => event.stage \in DOMAIN Follows
      PROVE  EventInv'
  <2>1. /\ queue' \in Seq(Sending) /\ Len(queue') <= Capacity
        /\ sent' \in [Operation -> Event] /\ sent'[o] = event
        /\ \A p \in Operation \ {o} : sent'[p] = sent[p]
        /\ shown' = shown /\ lagged' \in BOOLEAN /\ lost' \subseteq Operation
        /\ NewestLast' /\ CaughtUp' /\ InOrder'
    BY <1>2, EmitKeeps
  <2>2. \A i \in 1 .. Len(queue') : queue'[i] \in [op: Operation, event: Event]
    BY <2>1, ElementOfSeq DEF Sending
  <2>3. active' \subseteq Operation BY <1>1, <1>2
  <2>4. shown' \in [Operation -> Event] BY <2>1 DEF Sent, EventTypeOK
  <2>5. EventTypeOK' BY <2>1, <2>2, <2>3, <2>4 DEF EventTypeOK
  <2>6. \A p \in active' : sent'[p].stage \in DOMAIN Follows
    <3> TAKE p \in active'
    <3>1. CASE p = o BY <1>2, <2>1, <3>1
    <3>2. CASE p # o
      <4>1. p \in active /\ p \in Operation \ {o} BY <1>1, <1>2, <3>2
      <4> QED BY <2>1, <4>1 DEF Sent
    <3> QED BY <3>1, <3>2
  <2> QED BY <2>1, <2>5, <2>6 DEF Sent
<1>3. CASE StartOperation(o)
  <2> DEFINE event == [attempt |-> sent[o].attempt + 1, stage |-> "queued"]
  <2>1. event \in Event /\ event.stage \in DOMAIN Follows
    BY <1>1, <1>3, Stages, ChannelAssumption DEF StartOperation, Event
  <2>2. NotLater(sent[o], event) BY <1>1, ChannelAssumption DEF NotLater
  <2> QED BY <1>2, <1>3, <2>1, <2>2 DEF StartOperation
<1>4. CASE FailOperation(o)
  <2> DEFINE event == [sent[o] EXCEPT !.stage = "failed"]
  <2>1. event \in Event /\ event.attempt = sent[o].attempt /\ event.stage = "failed"
    BY <1>1, Stages DEF Event
  <2>2. NotLater(sent[o], event) BY <1>1, <2>1, Stages DEF NotLater
  <2> QED BY <1>1, <1>2, <1>4, <2>1, <2>2 DEF FailOperation
<1>5. CASE AdvanceOperation(o)
  <2>1. PICK s \in Follows[sent[o].stage] :
          /\ Emit(o, [sent[o] EXCEPT !.stage = s])
          /\ active' = IF \/ s = "awaiting2fa"
                          \/ s = "done" /\ (o \in InstallOp \/ sent[o].stage = s)
                       THEN active \ {o} ELSE active
    BY <1>5 DEF AdvanceOperation
  <2>2. sent[o].stage \in DOMAIN Follows BY <1>5 DEF AdvanceOperation, Sent
  <2>3. /\ s \in DOMAIN Progress /\ Progress[sent[o].stage] <= Progress[s]
        /\ s = "awaiting2fa" \/ s \in DOMAIN Follows
    BY <2>2, Stages
  <2> DEFINE event == [sent[o] EXCEPT !.stage = s]
  <2>4. event \in Event /\ event.attempt = sent[o].attempt /\ event.stage = s
    BY <1>1, <2>3 DEF Event
  <2>5. NotLater(sent[o], event) BY <2>3, <2>4 DEF NotLater
  <2>6. active' \in {active, active \ {o}} /\ (o \in active' => s \in DOMAIN Follows)
    BY <2>1, <2>3
  <2> QED BY <1>2, <2>1, <2>4, <2>5, <2>6
<1> QED BY <1>3, <1>4, <1>5

\* The bridge hands on the oldest entry: the others move up by one.
LEMMA ForwardKeeps ==
    ASSUME EventInv, Forward
    PROVE  /\ EventInv'
           /\ \A o \in Operation : NotLater(shown[o], shown'[o])
<1> USE DEF EventInv
<1> DEFINE n == Len(queue)  first == queue[1]
<1>1. queue \in Seq(Sending) /\ n \in Nat \ {0} /\ Head(queue) = first
  BY HeadTailProperties DEF Forward, Sent
<1>2. /\ queue' \in Seq(Sending) /\ Len(queue') = n - 1
      /\ \A i \in 1 .. (n - 1) : queue'[i] = queue[i + 1]
  BY HeadTailProperties DEF Forward, Sent
<1>3. first.op \in Operation /\ first.event \in Event
  BY <1>1, Entry DEF Entries
<1>4. /\ shown' \in [Operation -> Event] /\ shown'[first.op] = first.event
      /\ \A o \in Operation \ {first.op} : shown'[o] = shown[o]
      /\ UNCHANGED <<active, sent, lagged, lost>>
  BY <1>1, <1>3 DEF Forward, Sent, EventTypeOK
<1>5. Entries' = 1 .. (n - 1) /\ Entries = 1 .. n BY <1>2 DEF Entries
<1>6. \A i \in Entries' : i + 1 \in Entries /\ queue'[i] = queue[i + 1] /\ i + 1 > 1
  BY <1>1, <1>2, <1>5
<1>7. \A j \in Entries : j > 1 => j - 1 \in Entries' /\ queue'[j - 1] = queue[j]
  BY <1>1, <1>2, <1>5
<1>8. 1 \in Entries BY <1>1, <1>5
<1> HIDE DEF n, first
<1>9. Sent'
  <2>1. Len(queue') <= Capacity
    BY <1>1, <1>2, ChannelAssumption DEF Sent, EventTypeOK, n
  <2>2. \A i \in Entries' : queue'[i] \in [op: Operation, event: Event]
    BY <1>6, Entry DEF Sending
  <2> QED BY <1>2, <1>4, <2>1, <2>2 DEF Sent, EventTypeOK, Entries
<1>10. NewestLast'
  <2> SUFFICES ASSUME NEW i \in Entries',
                      \A j \in Entries' : j > i => queue'[j].op # queue'[i].op
               PROVE  queue'[i].event = sent[queue'[i].op]
    BY <1>4 DEF NewestLast
  <2>1. \A j \in Entries : j > i + 1 => queue[j].op # queue[i + 1].op
    <3> TAKE j \in Entries
    <3> HAVE j > i + 1
    <3>1. j - 1 \in Entries' /\ queue'[j - 1] = queue[j] /\ j - 1 > i
      BY <1>5, <1>7
    <3> QED BY <1>6, <3>1
  <2> QED BY <1>6, <2>1 DEF NewestLast
<1>11. CaughtUp'
  <2> SUFFICES ASSUME NEW o \in Operation \ lost, \A i \in Entries' : queue'[i].op # o
               PROVE  shown'[o] = sent[o]
    BY <1>4 DEF CaughtUp
  <2>1. \A j \in Entries : j > 1 => queue[j].op # o BY <1>7
  <2>2. CASE first.op = o
    <3>1. first.event = sent[o] BY <1>8, <2>1, <2>2 DEF NewestLast, first
    <3> QED BY <1>4, <2>2, <3>1
  <2>3. CASE first.op # o
    <3>1. \A j \in Entries : queue[j].op # o BY <1>5, <2>1, <2>3 DEF first
    <3> QED BY <1>4, <2>3, <3>1 DEF CaughtUp
  <2> QED BY <2>2, <2>3
<1>12. InOrder'
  <2>1. \A o \in Operation : NotLater(shown'[o], sent'[o])
    BY <1>3, <1>4, <1>8 DEF InOrder, first
  <2>2. \A i \in Entries' : NotLater(queue'[i].event, sent'[queue'[i].op])
    BY <1>4, <1>6 DEF InOrder
  <2>3. \A i, j \in Entries' :
          i < j /\ queue'[i].op = queue'[j].op => NotLater(queue'[i].event, queue'[j].event)
    <3> TAKE i, j \in Entries'
    <3>1. i < j => i + 1 < j + 1 BY <1>5
    <3> QED BY <1>6, <3>1 DEF InOrder
  <2>4. \A i \in Entries' : NotLater(shown'[queue'[i].op], queue'[i].event)
    <3> TAKE i \in Entries'
    <3>1. CASE queue'[i].op = first.op
      BY <1>4, <1>6, <1>8, <3>1 DEF InOrder, first
    <3>2. CASE queue'[i].op # first.op
      BY <1>4, <1>6, <3>2, Entry DEF InOrder
    <3> QED BY <3>1, <3>2
  <2> QED BY <2>1, <2>2, <2>3, <2>4 DEF InOrder
<1>13. \A o \in Operation : NotLater(shown[o], shown'[o])
  <2>1. \A o \in Operation : shown[o] \in Event BY DEF Sent, EventTypeOK
  <2> QED BY <1>3, <1>4, <1>8, <2>1, LaterFacts DEF InOrder, first
<1> QED BY <1>9, <1>10, <1>11, <1>12, <1>13

\* Neither a silent return nor the receiver's notice of a gap touches an event.
LEMMA NoticeKeeps ==
    ASSUME EventInv, \/ \E o \in Operation : ReturnSilently(o)
                     \/ Lag
                     \/ UNCHANGED eventVars
    PROVE  EventInv'
<1>1. /\ UNCHANGED <<sent, queue, lost, shown>> /\ active' \subseteq active
      /\ lagged' \in BOOLEAN
  BY DEF EventInv, Sent, EventTypeOK, ReturnSilently, Lag, eventVars
<1>2. Sent' BY <1>1 DEF EventInv, Sent, EventTypeOK
<1>3. NewestLast' BY <1>1 DEF EventInv, NewestLast, Entries
<1>4. CaughtUp' BY <1>1 DEF EventInv, CaughtUp, Entries
<1>5. InOrder' BY <1>1 DEF EventInv, InOrder, Entries
<1> QED BY <1>2, <1>3, <1>4, <1>5 DEF EventInv

LEMMA EventStart == EventInit => EventInv
<1> SUFFICES ASSUME EventInit PROVE EventInv OBVIOUS
<1>1. NoEvent \in Event BY Stages, ChannelAssumption DEF NoEvent, Event
<1>2. Len(queue) = 0 /\ queue \in Seq(Sending) BY DEF EventInit
<1>3. Sent
  <2>1. sent \in [Operation -> Event] /\ shown \in [Operation -> Event]
    BY <1>1 DEF EventInit
  <2>2. /\ Len(queue) <= Capacity
        /\ \A i \in 1 .. Len(queue) : queue[i] \in [op: Operation, event: Event]
    BY <1>2, ChannelAssumption
  <2> QED BY <1>2, <2>1, <2>2 DEF Sent, EventTypeOK, EventInit
<1>4. Entries = {} BY <1>2 DEF Entries
<1>5. \A o \in Operation : shown[o] = sent[o] /\ NotLater(shown[o], sent[o])
  BY <1>1, LaterFacts DEF EventInit
<1> QED BY <1>3, <1>4, <1>5 DEF EventInv, NewestLast, CaughtUp, InOrder

LEMMA EventStep == EventInv /\ [EventNext]_eventVars => EventInv'
  BY OperationKeeps, ForwardKeeps, NoticeKeeps DEF EventNext

LEMMA EventInvariant == EventSpec => []EventInv
<1> QED BY EventStart, EventStep, PTL DEF EventSpec

\* Operation::emit (operation.rs) and the bridge task (lib.rs): once the ring is
\* empty, a dialog shows the newest event of its operation, unless the ring ran
\* over and that very event was dropped.
THEOREM DialogsCatchUp == EventSpec => []NewestIsShown
<1>1. EventInv => NewestIsShown
  BY DEF EventInv, CaughtUp, NewestIsShown, Entries
<1> QED BY <1>1, EventInvariant, PTL

\* The bridge hands on in the order of the ring: no dialog ever goes back to an
\* earlier attempt, nor to less progress in the same one, lagged or not.
THEOREM DialogsGoForward == EventSpec => ProgressForward
<1> DEFINE Later(o) ==
             \/ shown'[o].attempt > shown[o].attempt
             \/ /\ shown'[o].attempt = shown[o].attempt
                /\ Progress[shown'[o].stage] >= Progress[shown[o].stage]
<1>1. ASSUME EventInv, EventNext, NEW o \in Operation PROVE Later(o)
  <2>1. shown \in [Operation -> Event] BY <1>1 DEF EventInv, Sent, EventTypeOK
  <2>2. NotLater(shown[o], shown'[o])
    <3>1. CASE Forward BY <1>1, <3>1, ForwardKeeps
    <3>2. CASE ~Forward
      <4>1. shown' = shown
        BY <1>1, <3>2 DEF EventNext, StartOperation, AdvanceOperation, FailOperation,
                          ReturnSilently, Emit, Lag
      <4> QED BY <2>1, <4>1, LaterFacts
    <3> QED BY <3>1, <3>2
  <2>3. shown[o] \in Event /\ shown'[o] \in Event
    BY <1>1, <2>1, EventStep DEF EventInv, Sent, EventTypeOK
  <2>4. /\ shown[o].attempt \in Int /\ shown'[o].attempt \in Int
        /\ Progress[shown[o].stage] \in Nat /\ Progress[shown'[o].stage] \in Nat
    BY <2>3, Stages DEF Event
  <2> QED BY <2>2, <2>4 DEF NotLater
<1>2. EventInv /\ EventNext => \A o \in Operation : Later(o) BY <1>1
<1> QED BY <1>2, EventInvariant, PTL DEF EventSpec, ProgressForward

=============================================================================
