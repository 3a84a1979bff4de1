---------------------------- MODULE Parked_proofs ----------------------------
(***************************************************************************)
(* What holds of the parked signing path and of the setup checks: the mirror of *)
(* Apple's quota for any limit, window and number of registrants, the login that *)
(* stays local, and the archive that can be installed, for identifiers of any *)
(* length and any number of bundles.                                       *)
(***************************************************************************)
EXTENDS AppleQuota, Anisette, SigningPipeline, FiniteSetTheorems,
        SequenceTheorems, TLAPS

-----------------------------------------------------------------------------
(* AppleQuota: the mirror of Apple's limit *)

\* Who passed the check alone is alone, and the room it saw is still there.
Alone ==
    \A r \in Registrant :
        phase[r] = "call" /\ sole[r] =>
            /\ UnderWay = {r}
            /\ Cardinality(InWindow(logged)) < Limit

\* A flow has one registration to record, once Apple has confirmed it.
OneFresh ==
    \A r \in Registrant : fresh[r] = {} \/ \E s \in Slot : fresh[r] = {s}

QuotaInv == QuotaTypeOK /\ OneFresh /\ Alone /\ OverrunBounded


LEMMA Counted ==
    ASSUME NEW age
    PROVE  IsFiniteSet(InWindow(age)) /\ Cardinality(InWindow(age)) \in Nat
<1>1. InWindow(age) \in SUBSET Slot BY DEF InWindow
<1> QED BY <1>1, QuotaAssumption, FS_Subset, FS_CardinalityType

LEMMA CountedUnderWay ==
    /\ IsFiniteSet(UnderWay) /\ Cardinality(UnderWay) \in Nat
    /\ Cardinality(Registrant) \in Nat
    /\ Cardinality(UnderWay) <= Cardinality(Registrant)
<1>1. UnderWay \in SUBSET Registrant BY DEF UnderWay
<1> QED BY <1>1, QuotaAssumption, FS_Subset, FS_CardinalityType

\* Time takes registrations out of a window, and brings none in.
LEMMA OlderShrinks ==
    ASSUME NEW age \in [Slot -> 0 .. Window]
    PROVE  /\ Older(age) \in [Slot -> 0 .. Window]
           /\ Cardinality(InWindow(Older(age))) <= Cardinality(InWindow(age))
<1>1. Older(age) \in [Slot -> 0 .. Window]
  BY QuotaAssumption DEF Older
<1>2. InWindow(Older(age)) \in SUBSET InWindow(age)
  BY QuotaAssumption DEF Older, InWindow
<1> QED BY <1>1, <1>2, Counted, FS_Subset

\* A flow that returns is no longer under way, and the others still are.
LEMMA Leaves ==
    ASSUME QuotaTypeOK, NEW r \in Registrant, phase[r] # "idle",
           phase' = [phase EXCEPT ![r] = "idle"]
    PROVE  /\ UnderWay' = UnderWay \ {r}
           /\ Cardinality(UnderWay') = Cardinality(UnderWay) - 1
<1>1. UnderWay' = UnderWay \ {r} BY DEF QuotaTypeOK, UnderWay
<1>2. r \in UnderWay BY DEF UnderWay
<1> QED BY <1>1, <1>2, CountedUnderWay, FS_RemoveElement


LEMMA QuotaTypes == QuotaTypeOK /\ OneFresh /\ [QuotaNext]_quotaVars => (QuotaTypeOK /\ OneFresh)'
<1> SUFFICES ASSUME QuotaTypeOK, OneFresh, [QuotaNext]_quotaVars PROVE (QuotaTypeOK /\ OneFresh)'
  OBVIOUS
<1>1. ASSUME NEW r \in Registrant, Check(r) \/ AppleRefuses(r) PROVE (QuotaTypeOK /\ OneFresh)'
  BY <1>1 DEF QuotaTypeOK, OneFresh, Check, AppleRefuses
<1>2. ASSUME NEW r \in Registrant, AppleConfirms(r) PROVE (QuotaTypeOK /\ OneFresh)'
  BY <1>2, QuotaAssumption DEF QuotaTypeOK, OneFresh, AppleConfirms, Unused
<1>3. ASSUME NEW r \in Registrant, Record(r) \/ RecordLost(r) PROVE (QuotaTypeOK /\ OneFresh)'
  BY <1>3, QuotaAssumption DEF QuotaTypeOK, OneFresh, Record, RecordLost
<1>4. CASE Elsewhere
  BY <1>4, QuotaAssumption DEF QuotaTypeOK, OneFresh, Elsewhere, Unused
<1>5. CASE Tick
  BY <1>5, OlderShrinks DEF QuotaTypeOK, OneFresh, Tick
<1>6. CASE UNCHANGED quotaVars
  BY <1>6 DEF QuotaTypeOK, OneFresh, quotaVars
<1> QED BY <1>1, <1>2, <1>3, <1>4, <1>5, <1>6 DEF QuotaNext

LEMMA AloneKept == QuotaInv /\ [QuotaNext]_quotaVars => Alone'
<1> SUFFICES ASSUME QuotaInv, [QuotaNext]_quotaVars PROVE Alone'
  OBVIOUS
<1> USE DEF QuotaInv
<1>1. ASSUME NEW r \in Registrant, Check(r) PROVE Alone'
  <2>1. UnderWay' = UnderWay \cup {r}
    BY <1>1 DEF QuotaTypeOK, Check, UnderWay
  <2>2. InWindow(logged)' = InWindow(logged)
    BY <1>1 DEF Check, InWindow
  <2>3. Cardinality(InWindow(logged)) < Limit
    BY <1>1, Counted, QuotaAssumption DEF Check
  <2> QED BY <1>1, <2>1, <2>2, <2>3 DEF Alone, Check
<1>2. ASSUME NEW r \in Registrant, AppleRefuses(r) PROVE Alone'
  <2>1. UnderWay' = UnderWay \ {r}
    BY <1>2, Leaves DEF AppleRefuses
  <2>2. InWindow(logged)' = InWindow(logged)
    BY <1>2 DEF AppleRefuses, InWindow
  <2> QED BY <1>2, <2>1, <2>2 DEF Alone, AppleRefuses, QuotaTypeOK, UnderWay
<1>3. ASSUME NEW r \in Registrant, AppleConfirms(r) PROVE Alone'
  BY <1>3 DEF Alone, AppleConfirms, QuotaTypeOK, UnderWay, InWindow
<1>4. ASSUME NEW r \in Registrant, Record(r) PROVE Alone'
  \* Someone is recording, so nobody else is alone.
  <2>1. \A q \in Registrant : ~ (phase[q] = "call" /\ sole[q])
    BY <1>4 DEF Alone, Record, UnderWay
  <2> QED BY <1>4, <2>1 DEF Alone, Record, QuotaTypeOK
<1>5. ASSUME NEW r \in Registrant, RecordLost(r) PROVE Alone'
  <2>1. \A q \in Registrant : ~ (phase[q] = "call" /\ sole[q])
    BY <1>5 DEF Alone, RecordLost, UnderWay
  <2> QED BY <1>5, <2>1 DEF Alone, RecordLost, QuotaTypeOK
<1>6. CASE Elsewhere
  BY <1>6 DEF Alone, Elsewhere, UnderWay, InWindow
<1>7. CASE Tick
  <2>1. Cardinality(InWindow(logged)') <= Cardinality(InWindow(logged))
    BY <1>7, OlderShrinks DEF Tick, QuotaTypeOK, InWindow
  <2>2. Cardinality(InWindow(logged)') \in Nat /\ Cardinality(InWindow(logged)) \in Nat
    BY Counted DEF InWindow
  <2> QED BY <1>7, <2>1, <2>2, QuotaAssumption DEF Alone, Tick, UnderWay
<1>8. CASE UNCHANGED quotaVars
  BY <1>8 DEF Alone, quotaVars, UnderWay, InWindow
<1> QED BY <1>1, <1>2, <1>3, <1>4, <1>5, <1>6, <1>7, <1>8 DEF QuotaNext

LEMMA OverrunKept == QuotaInv /\ [QuotaNext]_quotaVars => OverrunBounded'
<1> SUFFICES ASSUME QuotaInv, [QuotaNext]_quotaVars PROVE OverrunBounded'
  OBVIOUS
<1> USE DEF QuotaInv
<1> DEFINE n == Cardinality(InWindow(logged))   u == Cardinality(UnderWay)
           m == Cardinality(InWindow(logged)')  v == Cardinality(UnderWay')
           total == Cardinality(Registrant)
<1>1. n \in Nat /\ u \in Nat /\ total \in Nat /\ u <= total
  BY Counted, CountedUnderWay
<1>2. m \in Nat
  BY Counted DEF InWindow
<1>3. v \in Nat /\ v <= total
  <2>1. UnderWay' \in SUBSET Registrant BY DEF UnderWay
  <2> QED BY <2>1, QuotaAssumption, FS_Subset, FS_CardinalityType
<1>4. UnderWay # {} => n + u <= Limit - 1 + total
  BY DEF OverrunBounded
<1>5. SUFFICES UnderWay' # {} => m + v <= Limit - 1 + total
  BY DEF OverrunBounded, InWindow
<1> HIDE DEF n, u, m, v, total
<1>6. ASSUME NEW r \in Registrant, Check(r) PROVE m + v <= Limit - 1 + total
  <2>1. m = n BY <1>6 DEF Check, InWindow, m, n
  <2>2. n < Limit BY <1>6, <1>1, QuotaAssumption DEF Check, n
  <2> QED BY <2>1, <2>2, <1>1, <1>3, QuotaAssumption
<1>7. ASSUME NEW r \in Registrant, AppleRefuses(r) \/ RecordLost(r)
      PROVE  m + v <= Limit - 1 + total
  <2>1. m = n BY <1>7 DEF AppleRefuses, RecordLost, InWindow, m, n
  <2>2. v = u - 1 /\ UnderWay # {}
    BY <1>7, Leaves DEF AppleRefuses, RecordLost, v, u, UnderWay
  <2> QED BY <2>1, <2>2, <1>1, <1>4, QuotaAssumption
<1>8. ASSUME NEW r \in Registrant, Record(r) PROVE m + v <= Limit - 1 + total
  <2>1. v = u - 1 /\ UnderWay # {}
    BY <1>8, Leaves DEF Record, v, u, UnderWay
  <2>2. m <= n + 1
    <3>1. IsFiniteSet(InWindow(logged)) BY Counted
    <3>2. CASE fresh[r] = {}
      <4>1. InWindow(logged)' \in SUBSET InWindow(logged)
        BY <1>8, <3>2 DEF Record, InWindow
      <4> QED BY <3>1, <4>1, <1>1, <1>2, FS_Subset DEF m, n
    <3>3. ASSUME NEW s \in Slot, fresh[r] = {s} PROVE m <= n + 1
      <4>1. InWindow(logged)' \in SUBSET (InWindow(logged) \cup {s})
        BY <1>8, <3>3 DEF Record, InWindow
      <4>2. /\ IsFiniteSet(InWindow(logged) \cup {s})
            /\ Cardinality(InWindow(logged) \cup {s}) \in {n, n + 1}
        BY <3>1, FS_AddElement DEF n
      <4>3. m <= Cardinality(InWindow(logged) \cup {s})
        BY <4>1, <4>2, FS_Subset DEF m
      <4> QED BY <4>2, <4>3, <1>1, <1>2
    <3> QED BY <3>2, <3>3 DEF OneFresh
  <2> QED BY <2>1, <2>2, <1>1, <1>2, <1>4, QuotaAssumption
<1>9. ASSUME NEW r \in Registrant, AppleConfirms(r) PROVE m + v <= Limit - 1 + total
  <2>1. m = n BY <1>9 DEF AppleConfirms, InWindow, m, n
  <2>2. UnderWay' = UnderWay /\ UnderWay # {}
    BY <1>9 DEF AppleConfirms, UnderWay, QuotaTypeOK
  <2>3. v = u BY <2>2 DEF u, v
  <2> QED BY <2>1, <2>2, <2>3, <1>4
<1>10. CASE Elsewhere \/ UNCHANGED quotaVars
  <2>1. m = n BY <1>10 DEF Elsewhere, quotaVars, InWindow, m, n
  <2>2. UnderWay' = UnderWay BY <1>10 DEF Elsewhere, quotaVars, UnderWay
  <2>3. v = u BY <2>2 DEF u, v
  <2> QED BY <2>1, <2>2, <2>3, <1>4
<1>11. CASE Tick
  <2>1. m <= n BY <1>11, OlderShrinks DEF Tick, QuotaTypeOK, InWindow, m, n
  <2>2. UnderWay' = UnderWay BY <1>11 DEF Tick, UnderWay
  <2>3. v = u BY <2>2 DEF u, v
  <2> QED BY <2>1, <2>2, <2>3, <1>1, <1>2, <1>4, QuotaAssumption
<1> QED BY <1>6, <1>7, <1>8, <1>9, <1>10, <1>11 DEF QuotaNext

LEMMA QuotaInitial == QuotaInit => QuotaInv
<1> SUFFICES ASSUME QuotaInit PROVE QuotaInv
  OBVIOUS
<1>1. QuotaTypeOK /\ OneFresh
  BY QuotaAssumption DEF QuotaInit, QuotaTypeOK, OneFresh
<1>2. Alone /\ OverrunBounded
  BY DEF QuotaInit, Alone, OverrunBounded, UnderWay
<1> QED BY <1>1, <1>2 DEF QuotaInv

LEMMA QuotaInvariant == QuotaSpec => []QuotaInv
<1>1. QuotaInv /\ [QuotaNext]_quotaVars => QuotaInv'
  BY QuotaTypes, AloneKept, OverrunKept DEF QuotaInv
<1> QED BY <1>1, QuotaInitial, PTL DEF QuotaSpec


\* check of quota.rs, passed with nobody else under way, means that Apple has
\* room too, for as long as what Apple counts was recorded here.
THEOREM FailsFast == QuotaSpec => []FailFast
<1>1. QuotaInv => FailFast
  <2> SUFFICES ASSUME QuotaInv, InWindow(apple) \in SUBSET InWindow(logged),
                      NEW r \in Registrant, phase[r] = "call", sole[r]
               PROVE  Cardinality(InWindow(apple)) < Limit
    BY DEF FailFast
  <2>1. Cardinality(InWindow(logged)) < Limit
    BY DEF QuotaInv, Alone
  <2>2. Cardinality(InWindow(apple)) <= Cardinality(InWindow(logged))
    BY Counted, FS_Subset
  <2> QED BY <2>1, <2>2, Counted, QuotaAssumption
<1> QED BY <1>1, QuotaInvariant, PTL

\* check and record of quota.rs are separate statements: racing registrants go
\* over the limit by at most their number, less one, whatever Apple answers.
THEOREM RaceIsBounded == QuotaSpec => []OverrunBounded
<1>1. QuotaInv => OverrunBounded BY DEF QuotaInv
<1> QED BY <1>1, QuotaInvariant, PTL

-----------------------------------------------------------------------------
(* Anisette: a login stays local *)

\* A call that is calm had no provisioning under way when it began and none has
\* begun since: what it verified is what omnisette will load.
CalmSees ==
    /\ calm # {} => extract = {}
    /\ \A c \in calm : login[c] = "apple" => \A l \in Lib : lib[l] = "whole"

\* The promise is part of it: it is what a login that began calm rests on.
AdiInv == AdiTypeOK /\ CalmSees /\ NoRemoteFallback

\* Each step keeps it: only a provisioning writes the libraries.
LEMMA AdiStep == AdiInv /\ [AdiNext]_adiVars => AdiInv'
<1> SUFFICES ASSUME AdiInv, [AdiNext]_adiVars PROVE AdiInv'
  OBVIOUS
<1> USE DEF AdiInv, AdiTypeOK, CalmSees, NoRemoteFallback
<1>1. CASE Provision BY <1>1 DEF Provision
<1>2. ASSUME NEW l \in Lib, WriteBegins(l) \/ WriteEnds(l) PROVE AdiInv'
  BY <1>2 DEF WriteBegins, WriteEnds
<1>3. CASE ProvisionFails BY <1>3 DEF ProvisionFails
<1>4. ASSUME NEW c \in Attempt, RequireProvisioned(c) PROVE AdiInv'
  BY <1>4 DEF RequireProvisioned
<1>5. ASSUME NEW c \in Attempt, VerifyLocalProvider(c) PROVE AdiInv'
  BY <1>5 DEF VerifyLocalProvider
<1>6. ASSUME NEW c \in Attempt, AppleLogin(c) PROVE AdiInv'
  BY <1>6 DEF AppleLogin
<1>7. CASE UNCHANGED adiVars BY <1>7 DEF adiVars
<1> QED BY <1>1, <1>2, <1>3, <1>4, <1>5, <1>6, <1>7 DEF AdiNext

LEMMA AdiInvariant == AdiSpec => []AdiInv
<1>1. AdiInit => AdiInv
  BY DEF AdiInit, AdiInv, AdiTypeOK, CalmSees, NoRemoteFallback
<1> QED BY <1>1, AdiStep, PTL DEF AdiSpec

\* authenticate (free_apple_id.rs) verifies that the local provisioning is there
\* (require_provisioned and verify_local_provider of adi.rs) before omnisette
\* loads it: a login that saw no provisioning under way never falls back to a
\* remote anisette server.
THEOREM StaysLocal == AdiSpec => []NoRemoteFallback
<1>1. AdiInv => NoRemoteFallback BY DEF AdiInv
<1> QED BY <1>1, AdiInvariant, PTL

-----------------------------------------------------------------------------
(* SigningPipeline: identifiers and the archive *)

\* What a prefix leaves over, as sequences.
LEMMA PrefixSplits ==
    ASSUME NEW S, NEW s \in Seq(S), NEW t \in Seq(S), IsPrefix(s, t)
    PROVE  /\ SubSeq(t, Len(s) + 1, Len(t)) \in Seq(S)
           /\ s \o SubSeq(t, Len(s) + 1, Len(t)) = t
<1>1. Len(s) \in Nat /\ Len(t) \in Nat BY LenProperties
<1>2. SubSeq(s, 1, Len(s)) = s /\ SubSeq(t, 1, Len(t)) = t BY SubSeqFull
<1>3. Len(s) <= Len(t) /\ SubSeq(t, 1, Len(s)) = s BY <1>2 DEF IsPrefix
<1>4. SubSeq(t, 1, Len(s)) \o SubSeq(t, Len(s) + 1, Len(t)) = SubSeq(t, 1, Len(t))
  <2>1. 1 \in 1 .. Len(t) + 1 /\ Len(s) \in 1 - 1 .. Len(t) /\ Len(t) \in Len(s) .. Len(t)
    BY <1>1, <1>3
  <2> QED BY <2>1, ConcatAdjacentSubSeq
<1>5. \A i \in Len(s) + 1 .. Len(t) : t[i] \in S
  <2> TAKE i \in Len(s) + 1 .. Len(t)
  <2>1. i \in 1 .. Len(t) BY <1>1
  <2> QED BY <2>1, ElementOfSeq
<1>6. SubSeq(t, Len(s) + 1, Len(t)) \in Seq(S)
  BY <1>1, <1>5, SubSeqProperties
<1> QED BY <1>2, <1>3, <1>4, <1>6

LEMMA PrefixOfConcat ==
    ASSUME NEW S, NEW s \in Seq(S), NEW t \in Seq(S)
    PROVE  IsPrefix(s, s \o t)
<1>1. Len(s) \in Nat /\ Len(t) \in Nat /\ Len(s \o t) = Len(s) + Len(t)
  BY LenProperties, ConcatProperties
<1>2. SubSeq(s, 1, Len(s)) = SubSeq(s \o t, 1, Len(s))
  <2>1. CASE Len(s) = 0 BY <2>1, SubSeqEmpty
  <2>2. CASE Len(s) > 0
    <3>1. 1 \in 1 .. Len(s) /\ Len(s) \in 1 .. Len(s) BY <1>1, <2>2
    <3> QED BY <3>1, SubSeqOfConcat1
  <2> QED BY <1>1, <2>1, <2>2
<1> QED BY <1>1, <1>2 DEF IsPrefix

LEMMA SameRest ==
    ASSUME NEW S, NEW s \in Seq(S), NEW t \in Seq(S), NEW u \in Seq(S), s \o t = s \o u
    PROVE  t = u
<1>1. Len(s) \in Nat /\ Len(t) \in Nat /\ Len(u) \in Nat BY LenProperties
<1>2. Len(t) = Len(u)
  <2>1. Len(s \o t) = Len(s) + Len(t) BY ConcatProperties
  <2>2. Len(s \o u) = Len(s) + Len(u) BY ConcatProperties
  <2> QED BY <1>1, <2>1, <2>2
<1>3. \A i \in 1 .. Len(t) : t[i] = u[i]
  <2> TAKE i \in 1 .. Len(t)
  <2>1. Len(s) + i \in 1 .. Len(s) + Len(t) /\ ~(Len(s) + i <= Len(s)) /\ Len(s) + i - Len(s) = i
    BY <1>1
  <2>2. (s \o t)[Len(s) + i] = t[i] BY <2>1, ConcatProperties
  <2>3. (s \o u)[Len(s) + i] = u[i] BY <1>2, <2>1, ConcatProperties
  <2> QED BY <2>2, <2>3
<1> QED BY <1>2, <1>3, SeqEqual

\* rewrite_nested_bundle_id: a child keeps its rest below the new identifier, ...
LEMMA ChildRewritten ==
    ASSUME NEW old \in Seq(Segment), NEW new \in Seq(Segment), NEW id \in Seq(Segment),
           IsPrefix(old, id)
    PROVE  /\ SubSeq(id, Len(old) + 1, Len(id)) \in Seq(Segment)
           /\ old \o SubSeq(id, Len(old) + 1, Len(id)) = id
           /\ RewriteNested(id, old, new) = new \o SubSeq(id, Len(old) + 1, Len(id))
           /\ RewriteNested(id, old, new) \in Seq(Segment)
           /\ IsPrefix(new, RewriteNested(id, old, new))
<1>1. /\ SubSeq(id, Len(old) + 1, Len(id)) \in Seq(Segment)
      /\ old \o SubSeq(id, Len(old) + 1, Len(id)) = id
  BY PrefixSplits
<1>2. new \o SubSeq(id, Len(old) + 1, Len(id)) \in Seq(Segment)
  BY <1>1, ConcatProperties
<1>3. IsPrefix(new, new \o SubSeq(id, Len(old) + 1, Len(id)))
  BY <1>1, PrefixOfConcat
<1> QED BY <1>1, <1>2, <1>3 DEF RewriteNested

\* ... any other identifier is left as it is, ...
LEMMA OtherLeft ==
    ASSUME NEW old, NEW new, NEW id, ~IsPrefix(old, id)
    PROVE  RewriteNested(id, old, new) = id
  BY DEF RewriteNested

\* ... and the main one becomes the new one.
LEMMA MainRewritten ==
    ASSUME NEW old \in Seq(Segment), NEW new \in Seq(Segment)
    PROVE  RewriteNested(old, old, new) = new
<1>1. Len(old) \in Nat /\ IsPrefix(old, old) BY LenProperties DEF IsPrefix
<1>2. SubSeq(old, Len(old) + 1, Len(old)) = <<>> BY <1>1, SubSeqEmpty
<1>3. new \o <<>> = new BY ConcatEmptySeq
<1> QED BY <1>1, <1>2, <1>3 DEF RewriteNested

\* In all: an identifier becomes one, and by its own it stays what it was.
LEMMA Rewriting ==
    ASSUME NEW old \in Seq(Segment), NEW new \in Seq(Segment), NEW id \in Seq(Segment)
    PROVE  /\ RewriteNested(id, old, new) \in Seq(Segment)
           /\ RewriteNested(id, old, old) = id
<1>1. CASE IsPrefix(old, id)
  <2>1. RewriteNested(id, old, new) \in Seq(Segment) BY <1>1, ChildRewritten
  <2>2. RewriteNested(id, old, old) = id
    <3>1. /\ old \o SubSeq(id, Len(old) + 1, Len(id)) = id
          /\ RewriteNested(id, old, old) = old \o SubSeq(id, Len(old) + 1, Len(id))
      BY <1>1, ChildRewritten
    <3> QED BY <3>1
  <2> QED BY <2>1, <2>2
<1>2. CASE ~IsPrefix(old, id) BY <1>2, OtherLeft
<1> QED BY <1>1, <1>2

\* What a run that takes the main bundle to a new identifier makes of a bundle.
Rewritten(b, new) == RewriteNested(original[b], original[Main], new)

\* The tree: each bundle that the walk has left behind has its new identifier.
TreeFollows ==
    /\ \A b \in Bundle :
          ids[b] = IF b \in visit \/ signing = "idle" THEN original[b] ELSE Rewritten(b, newMain)
    /\ signing \notin {"idle", "rewrite"} => visit = {}

\* The archive: it was packed from such a tree, and of one run.
ArchiveFollows ==
    output.state = "whole" =>
        /\ output.appId \in Seq(Segment)
        /\ \A b \in Bundle : output.ids[b] = Rewritten(b, output.appId)

\* The profile is embedded before signing, the archive is the tree it was packed
\* from until its slices are looked at, and Ok is the last thing a call does.
SignedFollows ==
    /\ signing \in {"sign", "repack", "finish", "verify"} /\ provider.profile =>
          {Main} \cup Appex \subseteq embedded
    /\ signing = "verify" =>
          /\ output.state = "whole" /\ output.unsigned = unsigned
          /\ output.embedded = embedded
          /\ output.entitlements = FilterEntitlements(BaseEntitlements)
    /\ answer = "ok" => signing = "idle"

PipeInv == PipeTypeOK /\ TreeFollows /\ ArchiveFollows /\ SignedFollows /\ OkIsInstallable

\* The identifiers the model enumerates are sequences of segments.
LEMMA IdFacts ==
    /\ \A n \in Nat : Ids(n) \subseteq Seq(Segment)
    /\ <<>> \in Seq(Segment) /\ Ids(Depth) \subseteq Seq(Segment) /\ Ids(1) \subseteq Seq(Segment)
<1>1. \A n \in Nat : \A k \in 0 .. n : k \in Nat OBVIOUS
<1>2. ASSUME NEW n \in Nat, NEW k \in 0 .. n, NEW s \in [1 .. k -> Segment]
      PROVE  s \in Seq(Segment)
  BY <1>1, SeqDef
<1>3. \A n \in Nat : Ids(n) \subseteq Seq(Segment) BY <1>2 DEF Ids
<1> QED BY <1>3, EmptySeq, BundleAssumption

\* The identifiers an IPA comes with.
LEMMA Originals ==
    ASSUME PipeTypeOK
    PROVE  /\ \A b \in Bundle : original[b] \in Seq(Segment)
           /\ original \in [Bundle -> Seq(Segment)]
           /\ Main \in Bundle
  BY IdFacts DEF PipeTypeOK, Bundle

\* The end of a call leaves nothing behind but the archive.
LEMMA AnswerKeeps ==
    ASSUME PipeInv, NEW how \in {"ok", "error"}, Return(how),
           UNCHANGED <<original, provider, output>>,
           how = "ok" => signing = "verify" /\ ~unsigned
    PROVE  PipeInv'
<1>1. PipeTypeOK' BY IdFacts, Originals DEF PipeInv, PipeTypeOK, Return
<1>2. TreeFollows' BY DEF PipeInv, TreeFollows, Return
<1>3. ArchiveFollows' BY DEF PipeInv, ArchiveFollows, Rewritten
<1>4. SignedFollows' BY DEF SignedFollows, Return
<1>5. OkIsInstallable'
  <2> SUFFICES ASSUME how = "ok" PROVE OkIsInstallable' BY DEF Return, OkIsInstallable
  <2>1. /\ output.state = "whole" /\ output.unsigned = FALSE
        /\ provider.profile => {Main} \cup Appex \subseteq output.embedded
        /\ output.entitlements = FilterEntitlements(BaseEntitlements)
    BY DEF PipeInv, SignedFollows
  <2> QED BY <2>1 DEF OkIsInstallable, FilterEntitlements
<1> QED BY <1>1, <1>2, <1>3, <1>4, <1>5 DEF PipeInv

\* While a call runs, it has not been answered, and what it does to its own tree
\* is all that a step before the repack can change.
LEMMA TreeStepKeeps ==
    ASSUME PipeInv, PipeTypeOK', TreeFollows', answer' # "ok",
           UNCHANGED <<original, provider, output>>, signing' # "verify",
           signing' \in {"sign", "repack", "finish"} /\ provider.profile =>
              {Main} \cup Appex \subseteq embedded'
    PROVE  PipeInv'
<1>1. ArchiveFollows' BY DEF PipeInv, ArchiveFollows, Rewritten
<1>2. SignedFollows' BY DEF SignedFollows
<1>3. OkIsInstallable' BY DEF OkIsInstallable
<1> QED BY <1>1, <1>2, <1>3 DEF PipeInv

\* sign_ipa resolves the identifier and unpacks a tree of its own.
LEMMA SignIpaKeeps ==
    ASSUME PipeInv, NEW strategy \in {"Keep", "Replace", "Prefix"}, NEW arg \in Ids(1),
           SignIpa(strategy, arg)
    PROVE  PipeInv'
<1> DEFINE new == RewrittenMain(original[Main], strategy, arg)
<1>1. new \in Seq(Segment)
  <2>1. arg \in Seq(Segment) /\ original[Main] \in Seq(Segment)
    BY IdFacts, Originals DEF PipeInv
  <2>2. arg \o original[Main] \in Seq(Segment) BY <2>1, ConcatProperties
  <2> QED BY <2>1, <2>2 DEF RewrittenMain
<1>2. UNCHANGED <<original, provider, output>> BY DEF SignIpa
<1>3. CASE Return("error") BY <1>2, <1>3, AnswerKeeps
<1>4. CASE /\ newMain' = new
           /\ signing' = IF new = original[Main] THEN "embed" ELSE "rewrite"
           /\ visit' = IF new = original[Main] THEN {} ELSE Bundle
           /\ answer' = "none"
           /\ UNCHANGED <<ids, embedded, unsigned>>
  <2>1. PipeTypeOK' BY <1>1, <1>2, <1>4 DEF PipeInv, PipeTypeOK
  <2>2. \A b \in Bundle : ids[b] = original[b]
    BY DEF PipeInv, TreeFollows, SignIpa
  <2>3. CASE new = original[Main]
    <3>1. \A b \in Bundle : Rewritten(b, original[Main]) = original[b]
      BY Originals, Rewriting DEF PipeInv, Rewritten
    <3>2. TreeFollows' BY <1>2, <1>4, <2>2, <2>3, <3>1 DEF TreeFollows, Rewritten
    <3> QED BY <1>2, <1>4, <2>1, <2>3, <3>2, TreeStepKeeps
  <2>4. CASE new # original[Main]
    <3>1. TreeFollows' BY <1>2, <1>4, <2>2, <2>4 DEF TreeFollows
    <3> QED BY <1>2, <1>4, <2>1, <2>4, <3>1, TreeStepKeeps
  <2> QED BY <2>3, <2>4
<1> QED BY <1>3, <1>4 DEF SignIpa

\* The walk over the plists takes one bundle at a time.
LEMMA RewriteKeeps ==
    ASSUME PipeInv, NEW b \in Bundle, RewritePlist(b)
    PROVE  PipeInv'
<1>1. /\ signing = "rewrite" /\ b \in visit /\ ids[b] = original[b]
      /\ UNCHANGED <<original, provider, newMain, embedded, unsigned, output, answer>>
  BY DEF RewritePlist, PipeInv, TreeFollows
<1>2. /\ Rewritten(b, newMain) \in Seq(Segment)
      /\ ids' = [ids EXCEPT ![b] = Rewritten(b, newMain)]
  BY <1>1, Originals, Rewriting DEF PipeInv, PipeTypeOK, RewritePlist, Rewritten
<1>3. PipeTypeOK' BY <1>1, <1>2 DEF PipeInv, PipeTypeOK, RewritePlist
<1>4. TreeFollows'
  BY <1>1, <1>2 DEF PipeInv, PipeTypeOK, TreeFollows, RewritePlist, Rewritten
<1>5. answer' # "ok" BY <1>1 DEF PipeInv, SignedFollows
<1> QED BY <1>1, <1>3, <1>4, <1>5, TreeStepKeeps DEF RewritePlist

\* The profile goes in before the walk that signs.
LEMMA BuildKeeps ==
    ASSUME PipeInv, EmbedProfile \/ SignBundle
    PROVE  PipeInv'
<1>1. PipeTypeOK' BY DEF PipeInv, PipeTypeOK, EmbedProfile, SignBundle, Bundle
<1>2. TreeFollows'
  BY DEF PipeInv, TreeFollows, EmbedProfile, SignBundle, Rewritten
<1>3. answer' # "ok" BY DEF PipeInv, SignedFollows, EmbedProfile, SignBundle
<1>4. provider.profile => {Main} \cup Appex \subseteq embedded'
  BY DEF PipeInv, SignedFollows, EmbedProfile, SignBundle
<1> QED BY <1>1, <1>2, <1>3, <1>4, TreeStepKeeps DEF EmbedProfile, SignBundle

\* The archive is only ever short or what the tree of this run says.
LEMMA RepackKeeps ==
    ASSUME PipeInv, RepackBegins \/ RepackEnds
    PROVE  PipeInv'
<1>1. UNCHANGED <<original, provider, newMain, ids, visit, embedded, unsigned, answer>>
  BY DEF RepackBegins, RepackEnds
<1>2. answer' # "ok" BY <1>1 DEF PipeInv, SignedFollows, RepackBegins, RepackEnds
<1>3. OkIsInstallable' BY <1>2 DEF OkIsInstallable
<1>4. TreeFollows'
  BY <1>1 DEF PipeInv, TreeFollows, RepackBegins, RepackEnds, Rewritten
<1>5. CASE RepackBegins
  <2>1. output'.state = "short" /\ output'.entitlements = {}
    BY <1>5 DEF RepackBegins, NoOutput
  <2>2. PipeTypeOK' BY <1>1, <1>5, <2>1 DEF PipeInv, PipeTypeOK, RepackBegins
  <2>3. ArchiveFollows' BY <2>1 DEF ArchiveFollows
  <2>4. SignedFollows' BY <1>1, <1>2, <1>5 DEF PipeInv, SignedFollows, RepackBegins
  <2> QED BY <1>3, <1>4, <2>2, <2>3, <2>4 DEF PipeInv
<1>6. CASE RepackEnds
  <2>1. /\ output'.state = "whole" /\ output'.ids = ids /\ output'.embedded = embedded
        /\ output'.entitlements = FilterEntitlements(BaseEntitlements)
        /\ output'.appId = newMain /\ output'.unsigned = unsigned
    BY <1>6 DEF RepackEnds
  <2>2. FilterEntitlements(BaseEntitlements) \subseteq Entitlement
    BY DEF FilterEntitlements, BaseEntitlements, Entitlement
  <2>3. PipeTypeOK' BY <1>1, <1>6, <2>1, <2>2 DEF PipeInv, PipeTypeOK, RepackEnds
  <2>4. ArchiveFollows'
    BY <1>1, <1>6, <2>1 DEF PipeInv, PipeTypeOK, TreeFollows, ArchiveFollows, RepackEnds, Rewritten
  <2>5. (FilterEntitlements(BaseEntitlements))' = FilterEntitlements(BaseEntitlements)
    BY <1>1 DEF FilterEntitlements, BaseEntitlements
  <2>6. SignedFollows'
    BY <1>1, <1>2, <1>6, <2>1, <2>5 DEF PipeInv, SignedFollows, RepackEnds
  <2> QED BY <1>3, <1>4, <2>3, <2>4, <2>6 DEF PipeInv
<1> QED BY <1>5, <1>6

LEMMA PipeStart == PipeInit => PipeInv
<1> SUFFICES ASSUME PipeInit PROVE PipeInv OBVIOUS
<1>1. original \in [Bundle -> Seq(Segment)] BY IdFacts DEF PipeInit
<1>2. output.state = "none" /\ output.entitlements = {} BY DEF PipeInit, NoOutput
<1>3. PipeTypeOK BY <1>1, <1>2, IdFacts DEF PipeInit, PipeTypeOK
<1>4. TreeFollows BY DEF PipeInit, TreeFollows
<1>5. ArchiveFollows /\ SignedFollows /\ OkIsInstallable
  BY <1>2 DEF PipeInit, ArchiveFollows, SignedFollows, OkIsInstallable
<1> QED BY <1>3, <1>4, <1>5 DEF PipeInv

LEMMA PipeStep == PipeInv /\ [PipeNext]_pipeVars => PipeInv'
<1> SUFFICES ASSUME PipeInv, [PipeNext]_pipeVars PROVE PipeInv' OBVIOUS
<1>1. CASE VerifySigned \/ SignFails
  <2>1. PICK how \in {"ok", "error"} : Return(how) /\ (how = "ok" => signing = "verify" /\ ~unsigned)
    BY <1>1 DEF VerifySigned, SignFails
  <2> QED BY <1>1, <2>1, AnswerKeeps DEF VerifySigned, SignFails
<1>2. CASE UNCHANGED pipeVars
  BY <1>2 DEF pipeVars, PipeInv, PipeTypeOK, TreeFollows, ArchiveFollows, SignedFollows,
              OkIsInstallable, Rewritten, FilterEntitlements, BaseEntitlements
<1> QED BY <1>1, <1>2, SignIpaKeeps, RewriteKeeps, BuildKeeps, RepackKeeps DEF PipeNext

LEMMA PipeInvariant == PipeSpec => []PipeInv
  BY PipeStart, PipeStep, PTL DEF PipeSpec

\* sign_ipa and verify_macho_signed (ipa_pipeline.rs): an Ok answer is only ever
\* given over a whole archive with no unsigned slice, the profile in every
\* bundle that needs one and the entitlements Apple grants, whatever step of
\* this call or of an earlier one failed.
THEOREM OkInstallable == PipeSpec => []OkIsInstallable
  BY PipeInvariant, PTL DEF PipeInv

\* rewrite_nested_bundle_id (bundle_id.rs): in every whole archive, for
\* identifiers of any length, what was nested under the main bundle is nested
\* under its new identifier, what was not keeps the one it had, and two bundles
\* that differed become one only where the new identifier was chosen so.
THEOREM AssociationStands == PipeSpec => []AssociationKept
<1>1. ASSUME PipeTypeOK, ArchiveFollows, output.state = "whole" PROVE AssociationKept
  <2> DEFINE was == original[Main]  new == output.appId
             rest(b) == SubSeq(original[b], Len(was) + 1, Len(original[b]))
  <2>1. /\ new \in Seq(Segment) /\ was \in Seq(Segment) /\ Main \in Bundle
        /\ \A b \in Bundle : original[b] \in Seq(Segment)
        /\ \A b \in Bundle : output.ids[b] = RewriteNested(original[b], was, new)
    BY <1>1, Originals DEF ArchiveFollows, Rewritten
  <2>2. output.ids[Main] = new BY <2>1, MainRewritten
  <2> HIDE DEF was, new
  <2>3. ASSUME NEW b \in Bundle, IsPrefix(was, original[b])
        PROVE  /\ rest(b) \in Seq(Segment) /\ was \o rest(b) = original[b]
               /\ output.ids[b] = new \o rest(b) /\ IsPrefix(new, output.ids[b])
    <3>1. original[b] \in Seq(Segment) BY <2>1
    <3>2. /\ rest(b) \in Seq(Segment) /\ was \o rest(b) = original[b]
          /\ RewriteNested(original[b], was, new) = new \o rest(b)
          /\ IsPrefix(new, RewriteNested(original[b], was, new))
      BY <2>1, <2>3, <3>1, ChildRewritten DEF rest
    <3> QED BY <2>1, <3>2
  <2>4. ASSUME NEW b \in Bundle, ~IsPrefix(was, original[b])
        PROVE  output.ids[b] = original[b]
    <3>1. original[b] \in Seq(Segment) BY <2>1
    <3>2. RewriteNested(original[b], was, new) = original[b]
      BY <2>4, OtherLeft
    <3> QED BY <2>1, <3>2
  <2> HIDE DEF rest
  <2>5. ASSUME NEW a \in Bundle, NEW b \in Bundle, output.ids[a] = output.ids[b]
        PROVE  \/ original[a] = original[b]
               \/ IsPrefix(new, original[a]) \/ IsPrefix(new, original[b])
    <3>1. CASE IsPrefix(was, original[a]) /\ IsPrefix(was, original[b])
      <4>1. new \o rest(a) = new \o rest(b) BY <2>3, <2>5, <3>1
      <4>2. rest(a) = rest(b) BY <2>1, <2>3, <3>1, <4>1, SameRest
      <4> QED BY <2>3, <3>1, <4>2
    <3>2. CASE ~IsPrefix(was, original[a]) BY <2>3, <2>4, <2>5, <3>2
    <3>3. CASE ~IsPrefix(was, original[b]) BY <2>3, <2>4, <2>5, <3>3
    <3> QED BY <3>1, <3>2, <3>3
  <2> QED BY <2>2, <2>3, <2>4, <2>5 DEF AssociationKept, was, new
<1>2. PipeInv => AssociationKept BY <1>1 DEF PipeInv, AssociationKept
<1> QED BY <1>2, PipeInvariant, PTL

=============================================================================
