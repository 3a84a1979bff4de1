------------------------------ MODULE Sideload ------------------------------
(***************************************************************************)
(* Installing an app from the window: the command install_ipa (lib.rs), the*)
(* content-addressed store it copies the IPA into (ipa_store.rs), the      *)
(* signer it delegates to (signer.rs) and the rows it records              *)
(* (installs.rs).                                                          *)
(*                                                                         *)
(* No lock serialises installs: the calls of two dialogs interleave at     *)
(* every await and at every file operation.  The contents are versions of  *)
(* one app, for one phone.                                                 *)
(***************************************************************************)
EXTENDS Naturals, FiniteSets

CONSTANTS
    Dialog,     \* the import dialogs that are open together
    Content,    \* what the picked file may contain, named by its SHA-256
    NoContent   \* no file, no record, nothing promised

ASSUME ContentAssumption == NoContent \notin Content /\ "short" \notin Content

VARIABLES
    source,     \* the content of the file the user picked, if any
    file,       \* the store: the content under each name, or "short"
    phone,      \* the app on the phone
    orphan,     \* what the signer that a dead app left behind may still install
    record,     \* the apps row: source_ipa_sha256 and the version read from it
    install,    \* the call of each dialog
    misfiled,   \* the names whose copy did not run undisturbed
    kept        \* the content the last undisturbed install left everywhere

sideVars == <<source, file, phone, orphan, record, install, misfiled, kept>>

Settled == {"none", "awaiting2fa", "done", "failed"}
Place   == Settled \cup {"creds", "hash", "copy", "copying", "metadata",
                         "route", "sign", "record"}
Maybe   == Content \cup {NoContent}

\* alone: no other install ran beside it, the picked file did not change, and no
\* signer of an earlier app reached the phone after its own.
NoInstall == [at |-> "none", hash |-> NoContent, version |-> NoContent, alone |-> FALSE]

SideTypeOK ==
    /\ source \in Maybe
    /\ file \in [Content -> Maybe \cup {"short"}]
    /\ phone \in Maybe
    /\ orphan \in [Dialog -> Maybe]
    /\ record \in [source: Maybe, version: Maybe]
    /\ install \in [Dialog -> [at: Place, hash: Maybe, version: Maybe, alone: BOOLEAN]]
    /\ misfiled \subseteq Content
    /\ kept \in Maybe

SideInit ==
    /\ source = NoContent
    /\ file = [c \in Content |-> NoContent]
    /\ phone = NoContent
    /\ orphan = [d \in Dialog |-> NoContent]
    /\ record = [source |-> NoContent, version |-> NoContent]
    /\ install = [d \in Dialog |-> NoInstall]
    /\ misfiled = {}
    /\ kept = NoContent

Installing == {d \in Dialog : install[d].at \notin Settled}

-----------------------------------------------------------------------------
(* install_ipa, up to the signer *)

\* A call goes on, or returns, and then has no locals any more.
Goto(d, l) ==
    install' = [install EXCEPT ![d] = IF l \in Settled THEN [NoInstall EXCEPT !.at = l]
                                      ELSE [@ EXCEPT !.at = l]]

\* The first call of a dialog, its retry with a 2FA code or after a failure.
\* Two calls that run side by side disturb each other.
StartInstall(d) ==
    /\ install[d].at \in Settled /\ source # NoContent
    /\ install' = [e \in Dialog |->
          IF e = d THEN [NoInstall EXCEPT !.at = "creds", !.alone = (Installing = {})]
          ELSE [install[e] EXCEPT !.alone = FALSE]]
    /\ UNCHANGED <<source, file, phone, orphan, record, misfiled, kept>>

\* resolve_credentials: an account, or none.
ResolveCredentials(d) ==
    /\ install[d].at = "creds"
    /\ Goto(d, "hash") \/ Goto(d, "failed")
    /\ UNCHANGED <<source, file, phone, orphan, record, misfiled, kept>>

\* Mutant: the file is written whether or not the store has it.
HashAlwaysCopies(d) ==
    /\ install[d].at = "hash"
    /\ install' = [install EXCEPT ![d].hash = source, ![d].at = "copy"]
    /\ UNCHANGED <<source, file, phone, orphan, record, misfiled, kept>>

\* store_file, first pass: the name, and whether the store has it already.
HashPass(d) ==
    /\ install[d].at = "hash"
    /\ install' = [install EXCEPT
          ![d].hash = source,
          ![d].at = IF file[source] = NoContent THEN "copy" ELSE "metadata"]
    /\ UNCHANGED <<source, file, phone, orphan, record, misfiled, kept>>

\* fs::copy creates, or truncates, the file under its final name ...
CopyBegins(d) ==
    /\ install[d].at = "copy"
    /\ file' = [file EXCEPT ![install[d].hash] = "short"]
    /\ Goto(d, "copying")
    /\ UNCHANGED <<source, phone, orphan, record, misfiled, kept>>

\* ... and fills it with what the picked file contains by now.
CopyEnds(d) ==
    /\ install[d].at = "copying"
    /\ file' = [file EXCEPT ![install[d].hash] = source]
    /\ misfiled' = IF install[d].alone THEN misfiled
                   ELSE misfiled \cup {install[d].hash}
    /\ Goto(d, "metadata")
    /\ UNCHANGED <<source, phone, orphan, record, kept>>

\* An I/O error of either pass: a copy cut short stays where it is.
StoreFails(d) ==
    /\ install[d].at \in {"hash", "copy", "copying"}
    /\ Goto(d, "failed")
    /\ UNCHANGED <<source, file, phone, orphan, record, misfiled, kept>>

\* read_ipa_metadata of the stored file.  A short archive has no directory, and
\* a whole one need not be an app.
ReadMetadata(d) ==
    /\ install[d].at = "metadata"
    /\ LET content == file[install[d].hash]
       IN  \/ /\ content \in Content
              /\ install' = [install EXCEPT ![d].version = content, ![d].at = "route"]
           \/ Goto(d, "failed")
    /\ UNCHANGED <<source, file, phone, orphan, record, misfiled, kept>>

\* route_to: a muxer that has the phone, or none (Muxer models the way there).
Route(d) ==
    /\ install[d].at = "route"
    /\ Goto(d, "sign") \/ Goto(d, "failed")
    /\ UNCHANGED <<source, file, phone, orphan, record, misfiled, kept>>

-----------------------------------------------------------------------------
(* signer::install *)

\* The order in which classify looks for a phrase, and what it answers.
Verdicts == <<[says |-> "logIn",       is |-> "credentialsInvalid"],
              [says |-> "noDevice",    is |-> "deviceOffline"],
              [says |-> "notPaired",   is |-> "deviceNotTrusted"],
              [says |-> "certLimit",   is |-> "certLimitReached"],
              [says |-> "appIdLimit",  is |-> "appIdLimitReached"],
              [says |-> "deviceLimit", is |-> "deviceLimitReached"]>>

Phrases == {"marker"} \cup {Verdicts[i].says : i \in DOMAIN Verdicts}

Classify(code, says) ==
    IF code = "zero" THEN "ok"
    ELSE IF code = "exit2fa" \/ "marker" \in says THEN "twoFactorRequired"
    ELSE LET hits == {i \in DOMAIN Verdicts : Verdicts[i].says \in says}
         IN  IF hits = {} THEN "internal"
             ELSE Verdicts[CHOOSE i \in hits : \A j \in hits : i <= j].is

\* What a finished run of the fork prints, of the phrases: at most two.
Prints == {says \in SUBSET Phrases : Cardinality(says) <= 2}

\* What a run may come to, by its exit code.
Runs == [code \in {"zero", "exit2fa", "other"} |->
            {Classify(code, says) : says \in Prints}]

\* Where the outcome of a run takes the call.  A demand for a code is no
\* failure: the dialog asks for it and calls again.
Outcome(verdict) == CASE verdict = "ok"                -> "record"
                      [] verdict = "twoFactorRequired" -> "awaiting2fa"
                      [] OTHER                         -> "failed"

\* The fork puts the stored file on the phone and exits with zero; or it could
\* not be launched, or exits with anything else, before or after that.
SignAndInstall(d) ==
    /\ install[d].at = "sign"
    /\ \E code \in DOMAIN Runs : \E verdict \in Runs[code] :
          /\ phone' \in {file[install[d].hash]} \cup (IF code = "zero" THEN {} ELSE {phone})
          /\ phone' \in Maybe
          /\ Goto(d, Outcome(verdict))
    /\ kept' = IF phone' = phone THEN kept ELSE NoContent
    /\ UNCHANGED <<source, file, orphan, record, misfiled>>

-----------------------------------------------------------------------------
(* record_install *)

\* One transaction: device, profile, app, installation and activity rows.
RecordInstall(d) ==
    /\ install[d].at = "record"
    /\ record' = [source |-> install[d].hash, version |-> install[d].version]
    /\ kept' = IF install[d].alone /\ install[d].hash \notin misfiled
               THEN install[d].hash ELSE NoContent
    /\ Goto(d, "done")
    /\ UNCHANGED <<source, file, phone, orphan, misfiled>>

\* It fails after the phone has the app: nothing is on record of it.
RecordFails(d) ==
    /\ install[d].at = "record"
    /\ Goto(d, "failed")
    /\ kept' = NoContent
    /\ UNCHANGED <<source, file, phone, orphan, record, misfiled>>

-----------------------------------------------------------------------------
(* The surroundings *)

\* The user picks a file, or saves another build under the same path.
SourceChanges ==
    /\ source' \in Content \ {source}
    /\ install' = [d \in Dialog |-> [install[d] EXCEPT !.alone = FALSE]]
    /\ UNCHANGED <<file, phone, orphan, record, misfiled, kept>>

\* The app ends or dies: its calls go, files and rows stay.  The signer is a child
\* that is not killed with it: one that was launched runs on, with no one to wait for
\* it.  Bound: a dialog leaves one behind at a time.
AppDies ==
    /\ \E left \in SUBSET {d \in Dialog : /\ install[d].at = "sign"
                                         /\ file[install[d].hash] \in Content
                                         /\ orphan[d] = NoContent} :
          orphan' = [d \in Dialog |-> IF d \in left THEN file[install[d].hash]
                                                    ELSE orphan[d]]
    /\ install' = [d \in Dialog |-> NoInstall]
    /\ UNCHANGED <<source, file, phone, record, misfiled, kept>>

\* It exits, at any time and beside any other call, with or without the app on the
\* phone.  A call whose own signer is done, and that is about to record, is no longer
\* alone.
OrphanEnds(d) ==
    /\ orphan[d] # NoContent
    /\ orphan' = [orphan EXCEPT ![d] = NoContent]
    /\ phone' \in {phone, orphan[d]}
    /\ \/ phone' = phone /\ UNCHANGED <<install, kept>>
       \/ /\ phone' # phone /\ kept' = NoContent
          /\ install' = [e \in Dialog |->
                IF install[e].at = "record" THEN [install[e] EXCEPT !.alone = FALSE]
                                            ELSE install[e]]
    /\ UNCHANGED <<source, file, record, misfiled>>

StepInstall(d) ==
    \/ StartInstall(d) \/ ResolveCredentials(d)
    \/ HashPass(d) \/ CopyBegins(d) \/ CopyEnds(d) \/ StoreFails(d)
    \/ ReadMetadata(d) \/ Route(d) \/ SignAndInstall(d)
    \/ RecordInstall(d) \/ RecordFails(d)

SideNext ==
    \/ \E d \in Dialog : StepInstall(d)
    \/ \E d \in Dialog : OrphanEnds(d)
    \/ SourceChanges \/ AppDies

SideSpec == SideInit /\ [][SideNext]_sideVars

-----------------------------------------------------------------------------
(* Properties *)

\* What an install that ran undisturbed left behind holds until the phone gets
\* another app: the phone, the record and the file under the recorded hash are
\* one content, and the version on record was read from it.  Copies that were
\* cut short before, failed and killed calls, dialogs that only hash, copy and
\* read meanwhile, and a signer that outlived its app, unless it reaches the phone
\* between the signer and the record of this install, do not touch it.
KeptEverywhere ==
    kept # NoContent =>
        /\ phone = kept /\ file[kept] = kept
        /\ record = [source |-> kept, version |-> kept]

=============================================================================
