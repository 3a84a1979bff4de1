--------------------------- MODULE SigningPipeline ---------------------------
(***************************************************************************)
(* The parked native signing path: sign_ipa of signing/ipa_pipeline.rs     *)
(* with the identifiers of signing/bundle_id.rs and the filter of          *)
(* signing/entitlements.rs.                                                *)
(*                                                                         *)
(* An identifier is the sequence of its dot-separated segments, <<>> the   *)
(* empty string, or none at all.  The bundles of one IPA are signed again  *)
(* and again, with whatever strategy, into one output file.                *)
(***************************************************************************)
EXTENDS SequencesExt

CONSTANTS
    Segment,    \* of a bundle identifier
    Depth,      \* segments of the longest identifier: a bound
    Main,       \* the main bundle
    Appex,      \* app extensions in PlugIns
    Framework   \* other nested bundles

Bundle == {Main} \cup Appex \cup Framework

ASSUME BundleAssumption ==
    /\ Main \notin Appex \cup Framework
    /\ Depth \in Nat \ {0}

VARIABLES
    original,   \* the identifiers in the IPA
    provider,   \* its method, and whether it has a provisioning profile
    signing,    \* where sign_ipa is
    newMain,    \* new_bundle_id
    ids,        \* the identifiers in the extracted tree
    visit,      \* the bundles a walk over the tree has left
    embedded,   \* the bundles with the profile
    unsigned,   \* the signed copy's executable has a slice with no signature
    output,     \* the file output_ipa
    answer      \* what the last call returned

pipeVars == <<original, provider, signing, newMain, ids, visit, embedded,
              unsigned, output, answer>>

Ids(n) == UNION {[1 .. k -> Segment] : k \in 0 .. n}

Entitlement == {"get-task-allow", "application-identifier", "free-denied"}

NoOutput == [state |-> "none", ids |-> [b \in Bundle |-> <<>>], embedded |-> {},
             entitlements |-> {}, appId |-> <<>>, unsigned |-> FALSE]

PipeTypeOK ==
    /\ original \in [Bundle -> Ids(Depth)]
    /\ provider \in [method: {"PaidCert", "FreeAppleId"}, profile: BOOLEAN]
    /\ signing \in {"idle", "rewrite", "embed", "sign", "repack", "finish", "verify"}
    /\ newMain \in Seq(Segment)
    /\ ids \in [Bundle -> Seq(Segment)]
    /\ visit \subseteq Bundle /\ embedded \subseteq Bundle
    /\ unsigned \in BOOLEAN
    /\ output.state \in {"none", "short", "whole"}
    /\ output.entitlements \subseteq Entitlement
    /\ answer \in {"none", "ok", "error"}

\* The main bundle has an identifier; a nested one may have none.
PipeInit ==
    /\ original \in [Bundle -> Ids(Depth)] /\ original[Main] # <<>>
    /\ provider \in [method: {"PaidCert", "FreeAppleId"}, profile: BOOLEAN]
    /\ signing = "idle" /\ answer = "none"
    /\ newMain = <<>> /\ ids = original
    /\ visit = {} /\ embedded = {} /\ unsigned = FALSE
    /\ output = NoOutput

-----------------------------------------------------------------------------
(* bundle_id.rs *)

RewrittenMain(id, strategy, arg) ==
    CASE strategy = "Keep"    -> id
      [] strategy = "Replace" -> arg
      [] strategy = "Prefix"  -> arg \o id

\* Mutant: any identifier of the same vendor counts as a child.
RewriteVendor(id, old, new) ==
    IF id # <<>> /\ Head(id) = Head(old)
    THEN new \o SubSeq(id, Len(old) + 1, Len(id)) ELSE id

\* The main identifier itself, or a dotted child of it.
RewriteNested(id, old, new) ==
    IF IsPrefix(old, id) THEN new \o SubSeq(id, Len(old) + 1, Len(id)) ELSE id

\* is_valid_bundle_id, of segments that are valid.
IsValid(id) == id # <<>>

-----------------------------------------------------------------------------
(* sign_ipa *)

\* The scratch directory goes with the call.
Return(how) ==
    /\ signing' = "idle" /\ answer' = how
    /\ newMain' = <<>> /\ ids' = original
    /\ visit' = {} /\ embedded' = {} /\ unsigned' = FALSE

\* An error of any step; what is in the output file by then stays.
SignFails ==
    /\ signing # "idle"
    /\ Return("error")
    /\ UNCHANGED <<original, provider, output>>

\* Extract, find the app, read its Info.plist; no rewriting when the identifier
\* stays, and none to an identifier that is not valid.
SignIpa(strategy, arg) ==
    /\ signing = "idle"
    /\ LET new == RewrittenMain(original[Main], strategy, arg)
       IN  \/ /\ new = original[Main] \/ IsValid(new)
              /\ newMain' = new
              /\ signing' = IF new = original[Main] THEN "embed" ELSE "rewrite"
              /\ visit' = IF new = original[Main] THEN {} ELSE Bundle
              /\ answer' = "none"
              /\ UNCHANGED <<ids, embedded, unsigned>>
           \/ new # original[Main] /\ ~IsValid(new) /\ Return("error")
    /\ UNCHANGED <<original, provider, output>>

\* rewrite_all_bundle_ids, one Info.plist after the other in directory order.
RewritePlist(b) ==
    /\ signing = "rewrite" /\ b \in visit
    /\ ids' = [ids EXCEPT ![b] = RewriteNested(ids[b], original[Main], newMain)]
    /\ visit' = visit \ {b}
    /\ signing' = IF visit' = {} THEN "embed" ELSE "rewrite"
    /\ UNCHANGED <<original, provider, newMain, embedded, unsigned, output, answer>>

\* Mutant: the extensions go without.
EmbedMainOnly ==
    /\ signing = "embed"
    /\ embedded' = IF provider.profile THEN {Main} ELSE {}
    /\ signing' = "sign"
    /\ UNCHANGED <<original, provider, newMain, ids, visit, unsigned, output, answer>>

\* embed_provisioning_profile, in the main bundle and each extension.
EmbedProfile ==
    /\ signing = "embed"
    /\ embedded' = IF provider.profile THEN {Main} \cup Appex ELSE {}
    /\ signing' = "sign"
    /\ UNCHANGED <<original, provider, newMain, ids, visit, unsigned, output, answer>>

\* apple-codesign writes the signed copy of the tree.
SignBundle ==
    /\ signing = "sign"
    /\ unsigned' \in BOOLEAN
    /\ signing' = "repack"
    /\ UNCHANGED <<original, provider, newMain, ids, visit, embedded, output, answer>>

\* The profile's entitlements, or the default ones for the new identifier.
BaseEntitlements == IF provider.profile THEN Entitlement
                    ELSE {"get-task-allow", "application-identifier"}

FilterEntitlements(base) ==
    IF provider.method = "FreeAppleId" THEN base \ {"free-denied"} ELSE base

\* File::create truncates the output ...
RepackBegins ==
    /\ signing = "repack"
    /\ output' = [NoOutput EXCEPT !.state = "short"]
    /\ signing' = "finish"
    /\ UNCHANGED <<original, provider, newMain, ids, visit, embedded, unsigned, answer>>

\* ... and the archive is written entry by entry.
RepackEnds ==
    /\ signing = "finish"
    /\ output' = [state |-> "whole", ids |-> ids, embedded |-> embedded,
                  entitlements |-> FilterEntitlements(BaseEntitlements),
                  appId |-> newMain, unsigned |-> unsigned]
    /\ signing' = "verify"
    /\ UNCHANGED <<original, provider, newMain, ids, visit, embedded, unsigned, answer>>

\* verify_macho_signed comes after the repack: each slice has a signature.
VerifySigned ==
    /\ signing = "verify"
    /\ Return(IF unsigned THEN "error" ELSE "ok")
    /\ UNCHANGED <<original, provider, output>>

PipeNext ==
    \/ \E strategy \in {"Keep", "Replace", "Prefix"}, arg \in Ids(1) :
          SignIpa(strategy, arg)
    \/ \E b \in Bundle : RewritePlist(b)
    \/ EmbedProfile \/ SignBundle
    \/ RepackBegins \/ RepackEnds \/ VerifySigned
    \/ SignFails

PipeSpec == PipeInit /\ [][PipeNext]_pipeVars

-----------------------------------------------------------------------------
(* Properties *)

\* An archive that is whole, whatever run wrote it and however that run ended,
\* is associated as it was: the bundles below the main one are still below it
\* and every other one has its own identifier, the main one is what the
\* entitlements say, and no two bundles that differed have become one, unless
\* the new main identifier was chosen on top of a foreign one.
AssociationKept ==
    output.state = "whole" =>
        LET was == original[Main]
            is  == output.ids[Main]
        IN  /\ is = output.appId
            /\ \A b \in Bundle :
                  IF IsPrefix(was, original[b])
                  THEN IsPrefix(is, output.ids[b])
                  ELSE output.ids[b] = original[b]
            /\ \A a, b \in Bundle :
                  output.ids[a] = output.ids[b] =>
                      \/ original[a] = original[b]
                      \/ IsPrefix(is, original[a]) \/ IsPrefix(is, original[b])

\* Ok is only said of an archive the phone can take: it is whole and signed in
\* every slice, the profile is in the main bundle and each extension, and with a
\* free account nothing is claimed that it cannot be granted.
OkIsInstallable ==
    answer = "ok" =>
        /\ output.state = "whole" /\ ~output.unsigned
        /\ provider.profile => {Main} \cup Appex \subseteq output.embedded
        /\ provider.method = "FreeAppleId" => "free-denied" \notin output.entitlements

=============================================================================
