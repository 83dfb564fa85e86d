------------------------- MODULE DKGMetadataProofs -------------------------
(* Invariants of DKGMetadata for every choice of its constants. *)
EXTENDS DKGMetadata, FiniteSetTheorems, TLAPS

\* The authority sets are finite and large enough for a keygen of two, and
\* the keygen thresholds never ask for fewer: what makes the cardinalities
\* that the pallet computes with natural numbers.
SetsSound ==
  /\ IsFiniteSet(NextAuthorities)
  /\ Cardinality(NextAuthorities) >= 2
  /\ IsFiniteSet(Authorities)
  /\ NextPartiesSound
  /\ NextKeygenThreshold >= 2
  /\ PendingKeygenThreshold >= 2

IInv == TypeOK /\ SetsSound /\ KeysMatchSets /\ RefreshAccounted

\* get_best_authorities chooses among the authorities it is given.
LEMMA BestSubset ==
  ASSUME NEW count, NEW S, NEW B \in BestAuthoritySets(count, S)
  PROVE  B \subseteq S
BY DEF BestAuthoritySets

\* get_best_authorities returns at least two when asked for two of at least
\* two.
LEMMA BestSize ==
  ASSUME NEW count \in Nat, count >= 2, NEW S, Cardinality(S) >= 2,
         NEW B \in BestAuthoritySets(count, S)
  PROVE  Cardinality(B) >= 2
BY DEF BestAuthoritySets

\* The subsets the pallet forms of its authority lists have a size.
LEMMA SizeOfSubset ==
  ASSUME NEW S, IsFiniteSet(S), NEW T, T \subseteq S
  PROVE  IsFiniteSet(T) /\ Cardinality(T) \in Nat
BY FS_Subset, FS_CardinalityType, Zenon

\* A reputation stays a natural number when it decays.
LEMMA DecayType ==
  ASSUME NEW r \in Nat
  PROVE  Decay(r) \in Nat
BY ParameterAssumption DEF Decay

USE DEF clock, activeThresholds, nextThresholds, pendingThresholds, activeSet,
        nextSet, activeKey, nextKey, refresh, flags, discipline, nodes, session

\* change_authorities keeps the types, whatever set comes next.
LEMMA ChangeType ==
  ASSUME TypeOK, SetsSound,
         NEW new \in SUBSET Authority, NEW next \in SUBSET Authority,
         NEW forced \in BOOLEAN,
         IsFiniteSet(next), Cardinality(next) >= 2,
         ChangeAuthorities(new, next, forced)
  PROVE  /\ SignatureThreshold' \in Nat /\ KeygenThreshold' \in Nat
         /\ NextSignatureThreshold' \in Nat /\ NextKeygenThreshold' \in Nat
         /\ PendingSignatureThreshold' \in Nat
         /\ PendingKeygenThreshold' \in Nat
         /\ Authorities' \subseteq Authority /\ NextAuthorities' \subseteq Authority
         /\ BestAuthorities' \subseteq Authority
         /\ NextBestAuthorities' \subseteq Authority
         /\ AuthoritySetId' \in Nat /\ NextAuthoritySetId' \in Nat
         /\ DKGPublicKey' \in PublicKey \cup {None}
         /\ PreviousPublicKey' \in PublicKey \cup {None}
         /\ NextDKGPublicKey' \in PublicKey \cup {None}
         /\ DKGPublicKeySignature' \in Signature \cup {None}
         /\ NextPublicKeySignature' \in Signature \cup {None}
         /\ UsedSignatures' \in Seq(Signature \cup {None})
         /\ DOMAIN HistoricalRounds' \subseteq Nat
         /\ \A i \in DOMAIN HistoricalRounds' :
               HistoricalRounds'[i] \in RoundMetadata
         /\ RefreshNonce' \in Nat
<1> DEFINE rotate == /\ NextDKGPublicKey # None
                     /\ forced \/ NextPublicKeySignature # None
           signature == IF forced THEN None ELSE NextPublicKeySignature
<1>1. Cardinality(next) \in Nat
  BY FS_CardinalityType
<1>2. /\ NextSignatureThreshold' \in Nat /\ NextKeygenThreshold' \in Nat
      /\ PendingSignatureThreshold' \in Nat /\ PendingKeygenThreshold' \in Nat
      /\ NextAuthorities' \subseteq Authority /\ NextAuthoritySetId' \in Nat
  BY <1>1 DEF ChangeAuthorities, ClampKeygen, ClampSignature, TypeOK
<1>3. NextBestAuthorities' \subseteq Authority
  BY BestSubset, Zenon DEF ChangeAuthorities
<1>4. CASE rotate
  <2>1. RotateSet(new) /\ RotateKey(signature)
    BY <1>4 DEF ChangeAuthorities
  <2>2. NextDKGPublicKey \in PublicKey /\ signature \in Signature \cup {None}
    BY <1>4 DEF TypeOK
  <2> HIDE DEF signature
  <2>3. /\ SignatureThreshold' \in Nat /\ KeygenThreshold' \in Nat
        /\ Authorities' \subseteq Authority /\ BestAuthorities' \subseteq Authority
        /\ AuthoritySetId' \in Nat /\ RefreshNonce' \in Nat
    BY <2>1 DEF RotateSet, RotateKey, TypeOK
  <2>4. /\ DKGPublicKey' \in PublicKey \cup {None}
        /\ PreviousPublicKey' \in PublicKey \cup {None}
        /\ NextDKGPublicKey' \in PublicKey \cup {None}
        /\ DKGPublicKeySignature' \in Signature \cup {None}
        /\ NextPublicKeySignature' \in Signature \cup {None}
    BY <2>1, <2>2 DEF RotateSet, RotateKey, TypeOK
  <2>5. UsedSignatures' \in Seq(Signature \cup {None})
    BY <2>1 DEF RotateSet, RotateKey, TypeOK
  <2>6. DOMAIN HistoricalRounds' \subseteq Nat
    BY <2>1, <2>2, Zenon DEF RotateKey, insert_historical_refresh, TypeOK, Put,
                        PublicKey
  <2>7. \A i \in DOMAIN HistoricalRounds' :
           HistoricalRounds'[i] \in RoundMetadata
    <3> DEFINE round == [curr |-> IF DKGPublicKey = None THEN None
                                  ELSE DKGPublicKey.key,
                         next |-> NextDKGPublicKey.key,
                         signature |-> signature]
    <3>1. round \in RoundMetadata
      BY <2>2, Zenon DEF TypeOK, RoundMetadata, PublicKey
    <3>2. HistoricalRounds' = Put(HistoricalRounds, NextDKGPublicKey.set, round)
      BY <2>1, Zenon DEF RotateKey, insert_historical_refresh
    <3> HIDE DEF round
    <3> QED BY <3>1, <3>2 DEF Put, TypeOK
  <2> QED BY <1>2, <1>3, <2>3, <2>4, <2>5, <2>6, <2>7, Zenon
<1>5. CASE ~rotate
  <2>1. UNCHANGED <<activeThresholds, activeSet, activeKey, nextKey,
                    RefreshNonce>>
    BY <1>5, Zenon DEF ChangeAuthorities
  <2> QED BY <1>2, <1>3, <2>1, Zenon DEF TypeOK
<1> QED BY <1>4, <1>5, Zenon

\* Every step of the pallet keeps the types.
LEMMA TypeNext ==
  ASSUME TypeOK, SetsSound, [Next]_vars
  PROVE  TypeOK'
<1>1. ASSUME NEW handled \in BOOLEAN, OnInitialize(handled)
      PROVE  TypeOK'
  <2> DEFINE start == should_refresh /\ ~RefreshInProgress
             proposal == RefreshProposalFor(NextDKGPublicKey.key,
                                            RefreshNonce + 1)
  <2>1. start => proposal \in RefreshProposal
    BY DEF TypeOK, should_refresh, RefreshProposalFor, RefreshProposal,
           PublicKey
  <2>2. /\ PendingRefreshProposal' =
             IF start THEN proposal ELSE PendingRefreshProposal
        /\ refreshQueue' = IF start /\ handled
                           THEN refreshQueue \cup {proposal} ELSE refreshQueue
    BY <1>1, Zenon DEF OnInitialize
  <2> HIDE DEF start, proposal
  <2>3. /\ PendingRefreshProposal' \in RefreshProposal \cup {None}
        /\ refreshQueue' \in SUBSET RefreshProposal
    BY <2>1, <2>2, Zenon DEF TypeOK
  <2>4. RefreshInProgress' \in BOOLEAN
    BY <1>1, Zenon DEF OnInitialize
  <2>5. ShouldExecuteNewKeygen' \in [execute : BOOLEAN, force : BOOLEAN]
    BY <1>1, Zenon DEF OnInitialize, TypeOK
  <2>6. block' \in Nat /\ phase' = "session"
    BY <1>1 DEF OnInitialize, TypeOK
  <2>7. UNCHANGED <<activeThresholds, nextThresholds, pendingThresholds,
                    activeSet, nextSet, activeKey, nextKey, RefreshNonce,
                    CurrentRefreshProposal, ShouldSubmitProposerVote,
                    LastSessionRotationBlock, NextUnsignedAt, discipline,
                    nodes, session, course>>
    BY <1>1, Zenon DEF OnInitialize
  <2> QED BY <2>3, <2>4, <2>5, <2>6, <2>7, Zenon DEF TypeOK
<1>2. ASSUME NEW queued \in ValidatorSets, SessionOnInitialize(queued)
      PROVE  TypeOK'
  <2>1. CASE should_end_session
    <3>1. /\ queued \in SUBSET Authority
          /\ IsFiniteSet(queued)
          /\ Cardinality(queued) >= 2
      BY ValidatorAssumption, Zenon
    <3>2. ChangeAuthorities(queuedValidators, queued, FALSE)
      BY <1>2, <2>1, Zenon DEF SessionOnInitialize
    <3>3. queuedValidators \in SUBSET Authority
      BY Zenon DEF TypeOK
    <3>4. /\ UNCHANGED <<block, PendingRefreshProposal,
                         ShouldExecuteNewKeygen, ShouldSubmitProposerVote,
                         NextUnsignedAt, discipline, refreshQueue, nodes, course>>
          /\ phase' = "extrinsics"
          /\ RefreshInProgress' = FALSE
          /\ CurrentRefreshProposal' = None
          /\ LastSessionRotationBlock' = block
          /\ AccountToAuthority' = AccountToAuthority
                                     \cup queuedValidators \cup queued
          /\ queuedValidators' = queued
      BY <1>2, <2>1, Zenon DEF SessionOnInitialize
    <3>5. /\ AccountToAuthority' \subseteq Authority
          /\ queuedValidators' \subseteq Authority
          /\ LastSessionRotationBlock' \in Nat
      BY <3>1, <3>4, Zenon DEF TypeOK
    <3> QED BY <3>1, <3>2, <3>3, <3>4, <3>5, ChangeType, Zenon DEF TypeOK
  <2>2. CASE ~should_end_session
    BY <1>2, <2>2, Zenon DEF SessionOnInitialize, TypeOK
  <2> QED BY <2>1, <2>2, Zenon
<1>3. CASE SealBlock
  BY <1>3 DEF SealBlock, TypeOK
<1>4. ASSUME NEW t \in 1 .. Cardinality(NextAuthorities),
             set_signature_threshold(t) \/ set_keygen_threshold(t)
      PROVE  TypeOK'
  <2>1. t \in Nat /\ t > 0 /\ t - 1 \in Nat
    BY FS_CardinalityType DEF SetsSound
  <2> QED BY <1>4, <2>1, Zenon
          DEF set_signature_threshold, set_keygen_threshold, TypeOK
<1>5. ASSUME NEW a \in Authority,
             force_unjail_keygen(a) \/ force_unjail_signing(a)
      PROVE  TypeOK'
  BY <1>5, Zenon DEF force_unjail_keygen, force_unjail_signing, TypeOK
<1>6. ASSUME NEW handled \in BOOLEAN, force_change_authorities(handled)
      PROVE  TypeOK'
  <2> DEFINE rotated == NextDKGPublicKey # None
             proposal == RefreshProposalFor(NextDKGPublicKey.key,
                                            RefreshNonce + 1)
  <2>1. rotated => proposal \in RefreshProposal
    BY SMTT(60) DEF TypeOK, RefreshProposalFor, RefreshProposal, PublicKey
  <2>2. /\ ChangeAuthorities(NextAuthorities, NextAuthorities, TRUE)
        /\ CurrentRefreshProposal' = None
        /\ PendingRefreshProposal' = IF rotated THEN proposal ELSE None
        /\ refreshQueue' = IF rotated /\ handled
                           THEN refreshQueue \cup {proposal} ELSE refreshQueue
        /\ UNCHANGED <<clock, ShouldExecuteNewKeygen,
                       LastSessionRotationBlock, NextUnsignedAt, discipline,
                       nodes, session, course>>
    BY <1>6, Zenon DEF force_change_authorities
  <2>3. /\ RefreshInProgress' \in BOOLEAN
        /\ ShouldSubmitProposerVote' \in BOOLEAN
    BY <1>6, Zenon DEF force_change_authorities
  <2> HIDE DEF rotated, proposal
  <2>4. /\ PendingRefreshProposal' \in RefreshProposal \cup {None}
        /\ refreshQueue' \in SUBSET RefreshProposal
    BY <2>1, <2>2, Zenon DEF TypeOK
  <2>5. /\ NextAuthorities \in SUBSET Authority
        /\ IsFiniteSet(NextAuthorities)
        /\ Cardinality(NextAuthorities) >= 2
    BY Zenon DEF TypeOK, SetsSound
  <2> QED BY <2>2, <2>3, <2>4, <2>5, ChangeType, Zenon DEF TypeOK
<1>7. CASE trigger_emergency_keygen
  BY SMTT(60), <1>7 DEF trigger_emergency_keygen, TypeOK
<1>8. ASSUME NEW key \in aggregated,
             NEW R \in SUBSET BestAuthorities, submit_public_key(key, R)
      PROVE  TypeOK'
  <2>1. [set |-> AuthoritySetId, key |-> key] \in PublicKey
    BY Zenon DEF TypeOK, PublicKey
  <2>2. AuthorityReputations' \in [Authority -> Nat]
    <3>1. \A a \in Authority :
             /\ AuthorityReputations[a] \in Nat
             /\ Decay(AuthorityReputations[a]) + InitialReputation \in Nat
      BY SMTT(60), DecayType, ParameterAssumption DEF TypeOK
    <3> QED BY <1>8, <3>1, Zenon DEF submit_public_key
  <2>3. NextUnsignedAt' \in Nat
    BY SMTT(60), <1>8, ParameterAssumption DEF submit_public_key, TypeOK
  <2> QED BY SMTT(60), <1>8, <2>1, <2>2, <2>3 DEF submit_public_key, TypeOK
<1>9. ASSUME NEW key \in aggregated,
             NEW R \in SUBSET NextBestAuthorities,
             submit_next_public_key(key, R)
      PROVE  TypeOK'
  <2>1. [set |-> NextAuthoritySetId, key |-> key] \in PublicKey
    BY Zenon DEF TypeOK, PublicKey
  <2>2. AuthorityReputations' \in [Authority -> Nat]
    BY SMTT(60), <1>9, ParameterAssumption DEF submit_next_public_key, TypeOK
  <2>3. NextUnsignedAt' \in Nat
    BY SMTT(60), <1>9, ParameterAssumption DEF submit_next_public_key, TypeOK
  <2>4. /\ NextDKGPublicKey' \in PublicKey \cup {None}
        /\ RefreshInProgress' \in BOOLEAN
        /\ aggregated' \in SUBSET Key
    BY <1>9, <2>1, Zenon DEF submit_next_public_key, TypeOK
  <2>5. UNCHANGED <<clock, activeThresholds, nextThresholds,
                    pendingThresholds, activeSet, nextSet, activeKey,
                    NextPublicKeySignature, RefreshNonce,
                    PendingRefreshProposal, CurrentRefreshProposal, flags,
                    JailedKeygenAuthorities, JailedSigningAuthorities,
                    refreshQueue, keygens, session, course>>
    BY <1>9, Zenon DEF submit_next_public_key
  <2> QED BY SMTT(60), <2>2, <2>3, <2>4, <2>5 DEF TypeOK
<1>10. ASSUME NEW a \in Authority, submit_keygen_misbehaviour(a)
       PROVE  TypeOK'
  <2> DEFINE unjailed == NextBestAuthorities \ KeygenJailed
             rest == unjailed \ {a}
             member == a \in unjailed
             reserve == (NextAuthorities \ unjailed) \ KeygenJailed
             size == Cardinality(unjailed)
             drop == member /\ size <= NextKeygenThreshold /\ size > 2
             keygen == IF drop THEN size - 1 ELSE NextKeygenThreshold
  <2>1. size \in Nat /\ keygen \in Nat
    BY SizeOfSubset DEF SetsSound, NextPartiesSound, TypeOK
  <2>2. NextBestAuthorities' \subseteq Authority
    <3>1. \/ \E pick \in reserve :
               NextBestAuthorities' \in
                 BestAuthoritySets(NextKeygenThreshold, rest \cup {pick})
          \/ NextBestAuthorities' \in BestAuthoritySets(keygen, rest)
      BY <1>10, Zenon DEF submit_keygen_misbehaviour, AtLeastTwo
    <3>2. rest \subseteq Authority /\ reserve \subseteq Authority
      BY Zenon DEF TypeOK
    <3> HIDE DEF rest, reserve, keygen
    <3> QED BY <3>1, <3>2, BestSubset, Zenon
  <2>3. /\ NextKeygenThreshold' \in Nat /\ PendingKeygenThreshold' \in Nat
        /\ NextUnsignedAt' \in Nat
    <3>1. /\ NextKeygenThreshold' \in {NextKeygenThreshold, keygen}
          /\ PendingKeygenThreshold' \in {PendingKeygenThreshold, keygen}
          /\ NextUnsignedAt' \in {NextUnsignedAt, block + UnsignedInterval}
      BY <1>10, Zenon DEF submit_keygen_misbehaviour, AtLeastTwo
    <3> HIDE DEF keygen
    <3> QED BY <2>1, <3>1, ParameterAssumption DEF TypeOK
  <2>4. /\ NextSignatureThreshold' \in Nat
        /\ PendingSignatureThreshold' \in Nat
    <3> DEFINE dropSig == /\ drop
                          /\ NextSignatureThreshold >= keygen
                          /\ NextSignatureThreshold # 1
    <3>1. dropSig => NextSignatureThreshold - 1 \in Nat
      BY <2>1 DEF TypeOK
    <3>2. /\ \/ NextSignatureThreshold' = NextSignatureThreshold
             \/ dropSig /\ NextSignatureThreshold' = NextSignatureThreshold - 1
          /\ \/ PendingSignatureThreshold' = PendingSignatureThreshold
             \/ dropSig /\ PendingSignatureThreshold' =
                              NextSignatureThreshold - 1
      BY <1>10, Zenon DEF submit_keygen_misbehaviour, AtLeastTwo
    <3> HIDE DEF dropSig
    <3> QED BY <3>1, <3>2, Zenon DEF TypeOK
  <2>5. JailedKeygenAuthorities' \in [Authority -> Nat \cup {NotJailed}]
    BY <1>10, Zenon DEF submit_keygen_misbehaviour, AtLeastTwo, TypeOK
  <2>6. ReportAccepted(a, NextAuthorities, NextSignatureThreshold)
    BY <1>10, Zenon DEF submit_keygen_misbehaviour, AtLeastTwo
  <2>7. AuthorityReputations' \in [Authority -> Nat]
    BY <2>6, DecayType, Zenon DEF ReportAccepted, TypeOK
  <2>8. UNCHANGED <<NextAuthorities, NextAuthoritySetId,
                    JailedSigningAuthorities>>
    BY <1>10, Zenon DEF submit_keygen_misbehaviour, AtLeastTwo
  <2> HIDE DEF unjailed, rest, member, reserve, size, drop, keygen
  <2> QED BY SMTT(60), <2>2, <2>3, <2>4, <2>5, <2>6, <2>7, <2>8
          DEF ReportAccepted, TypeOK
<1>11. ASSUME NEW a \in Authority, submit_sign_misbehaviour(a)
       PROVE  TypeOK'
  <2>1. Cardinality(BestAuthorities) \in Nat
    BY SizeOfSubset, Zenon DEF SetsSound, NextPartiesSound
  <2>2. ReportAccepted(a, Authorities, SignatureThreshold)
    BY <1>11, Zenon DEF submit_sign_misbehaviour
  <2>3. AuthorityReputations' \in [Authority -> Nat]
    BY <2>2, DecayType, Zenon DEF ReportAccepted, TypeOK
  <2>4. /\ NextSignatureThreshold' \in Nat
        /\ PendingSignatureThreshold' \in Nat
        /\ NextUnsignedAt' \in Nat
    BY SMTT(60), <1>11, <2>1, ParameterAssumption DEF submit_sign_misbehaviour,
           TypeOK
  <2>5. JailedSigningAuthorities' \in [Authority -> Nat \cup {NotJailed}]
    BY <1>11, Zenon DEF submit_sign_misbehaviour, TypeOK
  <2>6. UNCHANGED <<NextKeygenThreshold, PendingKeygenThreshold, nextSet,
                    JailedKeygenAuthorities>>
    BY <1>11, Zenon DEF submit_sign_misbehaviour
  <2> QED BY SMTT(60), <2>2, <2>3, <2>4, <2>5, <2>6 DEF ReportAccepted, TypeOK
<1>12. ASSUME NEW a \in Authority, unjail(a)
       PROVE  TypeOK'
  BY SMTT(60), <1>12 DEF unjail, TypeOK
<1>13. ASSUME NEW p \in refreshQueue, OnSignedProposal(p)
       PROVE  TypeOK'
  <2>1. DKGPublicKey # None =>
          [signer |-> DKGPublicKey.key, proposal |-> p] \in Signature
    BY Zenon DEF TypeOK, Signature, PublicKey
  <2> QED BY <1>13, <2>1, Zenon DEF OnSignedProposal, TypeOK
<1>14. ASSUME NEW p \in refreshQueue, DropRefresh(p)
       PROVE  TypeOK'
  BY SMTT(60), <1>14 DEF DropRefresh, TypeOK
<1>15. ASSUME NEW genesis \in BOOLEAN, Keygen(genesis)
       PROVE  TypeOK'
  <2> DEFINE made == [session |-> IF genesis THEN 0 ELSE AuthoritySetId + 1,
                      run |-> keygens,
                      parties |-> IF genesis THEN BestAuthorities
                                             ELSE NextBestAuthorities,
                      threshold |-> IF genesis THEN SignatureThreshold
                                               ELSE NextSignatureThreshold]
  <2>1. made \in Key
    BY SMTT(60) DEF TypeOK, Key
  <2>2. aggregated' = aggregated \cup {made}
    BY <1>15, Zenon DEF Keygen
  <2> HIDE DEF made
  <2>3. aggregated' \in SUBSET Key /\ keygens' \in Nat
    BY SMTT(60), <1>15, <2>1, <2>2 DEF Keygen, TypeOK
  <2>4. /\ phase' = "finalized"
        /\ UNCHANGED <<block, activeThresholds, nextThresholds,
                       pendingThresholds, activeSet, nextSet, activeKey,
                       nextKey, refresh, flags, NextUnsignedAt, discipline,
                       refreshQueue, session, course>>
    BY <1>15, Zenon DEF Keygen
  <2> QED BY SMTT(60), <2>3, <2>4 DEF TypeOK
<1>16. CASE UNCHANGED vars
  BY SMTT(60), <1>16 DEF vars, TypeOK
<1> QED
  BY <1>1, <1>2, <1>3, <1>4, <1>5, <1>6, <1>7, <1>8, <1>9, <1>10, <1>11,
     <1>12, <1>13, <1>14, <1>15, <1>16, Zenon
  DEF Next, Root, Unsigned, Horizon

\* change_authorities selects the parties of the next DKG from the next set,
\* and a rotation makes active the parties that were selected from the set
\* that becomes active.
LEMMA ChangeSets ==
  ASSUME TypeOK, SetsSound,
         NEW next, IsFiniteSet(next), Cardinality(next) >= 2,
         NEW forced \in BOOLEAN,
         ChangeAuthorities(NextAuthorities, next, forced)
  PROVE  /\ NextAuthorities' = next
         /\ NextBestAuthorities' \subseteq next
         /\ Cardinality(NextBestAuthorities') >= 2
         /\ NextKeygenThreshold' >= 2 /\ PendingKeygenThreshold' >= 2
         /\ BestAuthorities' \subseteq Authorities'
         /\ IsFiniteSet(Authorities')
<1> DEFINE keygen == IF Cardinality(next) < PendingKeygenThreshold
                     THEN Cardinality(next) ELSE PendingKeygenThreshold
<1>1. keygen \in Nat /\ keygen >= 2
  BY FS_CardinalityType, Zenon DEF TypeOK, SetsSound
<1>2. /\ NextAuthorities' = next
      /\ NextKeygenThreshold' = keygen /\ PendingKeygenThreshold' = keygen
      /\ NextBestAuthorities' \in BestAuthoritySets(keygen, next)
  BY Zenon DEF ChangeAuthorities, ClampKeygen
<1> HIDE DEF keygen
<1>3. /\ NextBestAuthorities' \subseteq next
      /\ Cardinality(NextBestAuthorities') >= 2
  BY <1>1, <1>2, BestSubset, BestSize, Zenon
<1>4. \/ Authorities' = NextAuthorities
        /\ BestAuthorities' = NextBestAuthorities
      \/ UNCHANGED <<Authorities, BestAuthorities>>
  BY DEF ChangeAuthorities, RotateSet, RotateKey
<1> QED BY <1>1, <1>2, <1>3, <1>4, Zenon DEF SetsSound, NextPartiesSound

\* Every step keeps the authority sets sound.
LEMMA SetsNext ==
  ASSUME TypeOK, SetsSound, [Next]_vars
  PROVE  SetsSound'
<1>1. ASSUME NEW queued \in ValidatorSets, SessionOnInitialize(queued)
      PROVE  SetsSound'
  <2>1. CASE should_end_session
    <3>1. IsFiniteSet(queued) /\ Cardinality(queued) >= 2
      BY ValidatorAssumption
    <3>2. ChangeAuthorities(NextAuthorities, queued, FALSE)
      BY <1>1, <2>1, Zenon DEF SessionOnInitialize, SetsSound, NextPartiesSound
    <3>3. queuedValidators' = queued
      BY <1>1, <2>1, Zenon DEF SessionOnInitialize
    <3> QED
      BY <3>1, <3>2, <3>3, ChangeSets, Zenon DEF SetsSound, NextPartiesSound
  <2>2. CASE ~should_end_session
    BY <1>1, <2>2, Zenon DEF SessionOnInitialize, SetsSound, NextPartiesSound
  <2> QED BY <2>1, <2>2, Zenon
<1>2. ASSUME NEW t \in 1 .. Cardinality(NextAuthorities),
             set_keygen_threshold(t)
      PROVE  SetsSound'
  <2>1. t \in Nat
    BY FS_CardinalityType DEF SetsSound
  <2> QED BY <1>2, <2>1 DEF set_keygen_threshold, SetsSound, NextPartiesSound
<1>3. ASSUME NEW handled \in BOOLEAN, force_change_authorities(handled)
      PROVE  SetsSound'
  <2>1. /\ ChangeAuthorities(NextAuthorities, NextAuthorities, TRUE)
        /\ UNCHANGED session
    BY <1>3, Zenon DEF force_change_authorities
  <2> QED BY <2>1, ChangeSets, Zenon DEF SetsSound, NextPartiesSound
<1>4. ASSUME NEW a \in Authority, submit_keygen_misbehaviour(a)
      PROVE  SetsSound'
  <2> DEFINE unjailed == NextBestAuthorities \ KeygenJailed
             rest == unjailed \ {a}
             reserve == (NextAuthorities \ unjailed) \ KeygenJailed
             size == Cardinality(unjailed)
             drop == a \in unjailed /\ size <= NextKeygenThreshold /\ size > 2
             keygen == IF drop THEN size - 1 ELSE NextKeygenThreshold
  <2>1. size \in Nat
    BY SizeOfSubset, Zenon DEF SetsSound, NextPartiesSound
  <2>2. keygen >= 2
    BY SMTT(60), <2>1 DEF SetsSound, TypeOK
  <2>3. /\ NextKeygenThreshold' \in {NextKeygenThreshold, keygen}
        /\ PendingKeygenThreshold' \in {PendingKeygenThreshold, keygen}
        /\ Cardinality(NextBestAuthorities') >= 2
        /\ UNCHANGED NextAuthorities
    BY <1>4 DEF submit_keygen_misbehaviour, AtLeastTwo
  <2>4. \/ \E pick \in reserve :
             NextBestAuthorities' \in
               BestAuthoritySets(NextKeygenThreshold, rest \cup {pick})
        \/ NextBestAuthorities' \in BestAuthoritySets(keygen, rest)
    BY <1>4, Zenon DEF submit_keygen_misbehaviour, AtLeastTwo
  <2>5. rest \subseteq NextAuthorities /\ reserve \subseteq NextAuthorities
    BY DEF SetsSound, NextPartiesSound
  <2>6. UNCHANGED <<activeSet, session>>
    BY <1>4, Zenon DEF submit_keygen_misbehaviour, AtLeastTwo, ReportAccepted
  <2> HIDE DEF unjailed, rest, reserve, size, drop, keygen
  <2>7. NextBestAuthorities' \subseteq NextAuthorities
    BY <2>4, <2>5, BestSubset, Zenon
  <2> QED BY <2>2, <2>3, <2>6, <2>7, Zenon DEF SetsSound, NextPartiesSound
<1>5. CASE UNCHANGED <<Authorities, NextAuthorities, BestAuthorities,
                       NextBestAuthorities, NextKeygenThreshold,
                       PendingKeygenThreshold, queuedValidators>>
  BY <1>5, Zenon DEF SetsSound, NextPartiesSound
<1> QED
  BY <1>1, <1>2, <1>3, <1>4, <1>5, Zenon
  DEF Next, Root, Unsigned, Horizon, vars, OnInitialize, SealBlock,
      set_signature_threshold, force_unjail_keygen, force_unjail_signing,
      trigger_emergency_keygen, submit_public_key, submit_next_public_key,
      submit_sign_misbehaviour, ReportAccepted, unjail, OnSignedProposal,
      DropRefresh, Keygen

\* A step that rotates takes key and set id together; one that does not
\* leaves the next key alone only if it leaves the next set id alone.
LEMMA KeysNext ==
  ASSUME TypeOK, KeysMatchSets, RefreshAccounted, [Next]_vars
  PROVE  KeysMatchSets'
<1>1. ASSUME NEW queued \in ValidatorSets, SessionOnInitialize(queued)
      PROVE  KeysMatchSets'
  BY SMTT(60), <1>1 DEF SessionOnInitialize, should_end_session,
         ChangeAuthorities,
              RotateSet, RotateKey, KeysMatchSets, TypeOK
<1>2. ASSUME NEW handled \in BOOLEAN, force_change_authorities(handled)
      PROVE  KeysMatchSets'
  <2>1. ChangeAuthorities(NextAuthorities, NextAuthorities, TRUE)
    BY <1>2, Zenon DEF force_change_authorities
  <2> QED
    BY SMTT(60), <2>1 DEF ChangeAuthorities, RotateSet, RotateKey,
           KeysMatchSets, TypeOK
<1>3. CASE trigger_emergency_keygen
  BY <1>3, Zenon DEF trigger_emergency_keygen, KeysMatchSets
<1>4. ASSUME NEW key, NEW R, submit_public_key(key, R)
      PROVE  KeysMatchSets'
  BY <1>4, Zenon DEF submit_public_key, KeysMatchSets
<1>5. ASSUME NEW key, NEW R, submit_next_public_key(key, R)
      PROVE  KeysMatchSets'
  BY <1>5, Zenon DEF submit_next_public_key, KeysMatchSets
<1>6. CASE UNCHANGED <<AuthoritySetId, NextAuthoritySetId, DKGPublicKey,
                       NextDKGPublicKey>>
  BY <1>6, Zenon DEF KeysMatchSets
<1> QED
  BY <1>1, <1>2, <1>3, <1>4, <1>5, <1>6, Zenon
  DEF Next, Root, Unsigned, Horizon, vars, OnInitialize, SealBlock,
      set_signature_threshold, set_keygen_threshold, force_unjail_keygen,
      force_unjail_signing, submit_keygen_misbehaviour,
      submit_sign_misbehaviour, ReportAccepted, unjail, OnSignedProposal,
      DropRefresh, Keygen

\* A signature is stored with its proposal and goes with it.
LEMMA RefreshNext ==
  ASSUME TypeOK, RefreshAccounted, [Next]_vars
  PROVE  RefreshAccounted'
<1>1. ASSUME NEW queued \in ValidatorSets, SessionOnInitialize(queued)
      PROVE  RefreshAccounted'
  BY <1>1, Zenon DEF SessionOnInitialize, should_end_session, ChangeAuthorities,
              RotateSet, RotateKey, RefreshAccounted
<1>2. ASSUME NEW handled \in BOOLEAN, force_change_authorities(handled)
      PROVE  RefreshAccounted'
  <2>1. ChangeAuthorities(NextAuthorities, NextAuthorities, TRUE)
    BY <1>2, Zenon DEF force_change_authorities
  <2> QED BY <2>1 DEF ChangeAuthorities, RotateSet, RotateKey, RefreshAccounted
<1>3. CASE trigger_emergency_keygen
  BY <1>3 DEF trigger_emergency_keygen, RefreshAccounted
<1>4. ASSUME NEW key, NEW R, submit_next_public_key(key, R)
      PROVE  RefreshAccounted'
  BY <1>4, Zenon DEF submit_next_public_key, RefreshAccounted
<1>5. ASSUME NEW p \in refreshQueue, OnSignedProposal(p)
      PROVE  RefreshAccounted'
  BY SMTT(60), <1>5 DEF OnSignedProposal, RefreshAccounted
<1>6. CASE UNCHANGED <<NextDKGPublicKey, NextPublicKeySignature,
                       CurrentRefreshProposal>>
  BY <1>6, Zenon DEF RefreshAccounted
<1> QED
  BY <1>1, <1>2, <1>3, <1>4, <1>5, <1>6, Zenon
  DEF Next, Root, Unsigned, Horizon, vars, OnInitialize, SealBlock,
      set_signature_threshold, set_keygen_threshold, force_unjail_keygen,
      force_unjail_signing, submit_public_key, submit_keygen_misbehaviour,
      submit_sign_misbehaviour, ReportAccepted, unjail, DropRefresh, Keygen

\* The genesis state is sound.
LEMMA InitInv == Init => IInv
<1> SUFFICES ASSUME Init PROVE IInv
  OBVIOUS
<1>1. /\ BestAuthorities \subseteq GenesisAuthorities
      /\ Cardinality(BestAuthorities) >= 2
      /\ Cardinality(GenesisAuthorities) >= 2
  <2>1. Cardinality(GenesisAuthorities) \in Nat
    BY FS_CardinalityType, GenesisAssumption, Zenon
  <2>2. Cardinality(GenesisAuthorities) >= 2
    BY <2>1, GenesisAssumption
  <2>3. BestAuthorities \in BestAuthoritySets(GenesisKeygen, GenesisAuthorities)
    BY Zenon DEF Init, GenesisThresholds, initialize_authorities
  <2>4. GenesisKeygen \in Nat /\ GenesisKeygen >= 2
    BY GenesisAssumption
  <2> QED BY <2>2, <2>3, <2>4, BestSubset, BestSize, Zenon
<1>2. TypeOK
  <2>1. DOMAIN HistoricalRounds = {}
    BY Zenon DEF Init, GenesisThresholds, initialize_authorities
  <2>2. \A i \in DOMAIN HistoricalRounds : HistoricalRounds[i] \in RoundMetadata
    BY <2>1, Zenon
  <2>3. UsedSignatures \in Seq(Signature \cup {None})
    BY SMTT(60) DEF Init, GenesisThresholds, initialize_authorities
  <2>4. /\ AuthorityReputations \in [Authority -> Nat]
        /\ JailedKeygenAuthorities \in [Authority -> Nat \cup {NotJailed}]
        /\ JailedSigningAuthorities \in [Authority -> Nat \cup {NotJailed}]
    BY DEF Init, GenesisThresholds, initialize_authorities
  <2>5. /\ ShouldExecuteNewKeygen \in [execute : BOOLEAN, force : BOOLEAN]
        /\ RefreshInProgress \in BOOLEAN
        /\ ShouldSubmitProposerVote \in BOOLEAN
    BY Zenon DEF Init, GenesisThresholds, initialize_authorities
  <2>6. /\ SignatureThreshold \in Nat /\ KeygenThreshold \in Nat
        /\ NextSignatureThreshold \in Nat /\ NextKeygenThreshold \in Nat
        /\ PendingSignatureThreshold \in Nat /\ PendingKeygenThreshold \in Nat
        /\ Authorities \subseteq Authority
        /\ NextAuthorities \subseteq Authority
        /\ BestAuthorities \subseteq Authority
        /\ NextBestAuthorities \subseteq Authority
        /\ AccountToAuthority \subseteq Authority
        /\ queuedValidators \subseteq Authority
    BY <1>1, GenesisAssumption, Zenon DEF Init, GenesisThresholds,
           initialize_authorities
  <2> QED
    BY <2>1, <2>2, <2>3, <2>4, <2>5, <2>6, Zenon DEF Init, GenesisThresholds,
           initialize_authorities, TypeOK
<1>3. SetsSound
  BY SMTT(60), <1>1, GenesisAssumption DEF Init, GenesisThresholds,
         initialize_authorities, SetsSound, NextPartiesSound
<1>4. KeysMatchSets /\ RefreshAccounted
  BY SMTT(60) DEF Init, GenesisThresholds, initialize_authorities,
         KeysMatchSets, RefreshAccounted
<1> QED BY <1>2, <1>3, <1>4, Zenon DEF IInv

\* The inductive invariant: the types, the soundness of the sets the
\* cardinalities are taken of, and the two facts about keys that change
\* together.
THEOREM Invariance == Spec => []IInv
<1>1. IInv /\ [Next]_vars => IInv'
  BY TypeNext, SetsNext, KeysNext, RefreshNext, Zenon DEF IInv
<1> QED BY InitInv, <1>1, PTL DEF Spec

\* The storage of the pallet always has its declared types: no threshold
\* becomes negative and no id or nonce leaves the naturals.
THEOREM TypeCorrect == Spec => []TypeOK
<1>1. IInv => TypeOK
  BY DEF IInv
<1> QED BY Invariance, <1>1, PTL

\* Keys and set ids stay in step for every mix of sessions, forced
\* rotations, emergency keygens, reports and delayed submissions.
THEOREM KeysFollowSets == Spec => []KeysMatchSets
<1>1. IInv => KeysMatchSets
  BY DEF IInv
<1> QED BY Invariance, <1>1, PTL

\* The next DKG always has two parties, all of them next authorities.
THEOREM PartiesSound == Spec => []NextPartiesSound
<1>1. IInv => NextPartiesSound
  BY DEF IInv, SetsSound
<1> QED BY Invariance, <1>1, PTL

\* A stored refresh signature always comes with its key and its proposal.
THEOREM SignatureAccounted == Spec => []RefreshAccounted
<1>1. IInv => RefreshAccounted
  BY DEF IInv
<1> QED BY Invariance, <1>1, PTL

\* The active DKG changes only as a whole, by activating the next one.
THEOREM ActiveStable == Spec => ActiveDKGStable
<1> DEFINE Step == \/ /\ UNCHANGED <<activeThresholds, activeSet>>
                      /\ DKGPublicKey # None => UNCHANGED activeKey
                   \/ /\ AuthoritySetId' > AuthoritySetId
                      /\ DKGPublicKey' = NextDKGPublicKey
                      /\ PreviousPublicKey' = DKGPublicKey
<1>1. ASSUME KeysMatchSets, TypeOK, [Next]_vars
      PROVE  Step
  <2>1. ASSUME NEW new, NEW next, NEW forced,
               ChangeAuthorities(new, next, forced)
        PROVE  Step
    BY <1>1, <2>1, Zenon DEF ChangeAuthorities, RotateSet, RotateKey,
           KeysMatchSets
  <2>2. ASSUME NEW queued \in ValidatorSets, SessionOnInitialize(queued)
        PROVE  Step
    <3>1. \/ ChangeAuthorities(queuedValidators, queued, FALSE)
          \/ UNCHANGED <<activeThresholds, activeSet, activeKey>>
      BY <2>2, Zenon DEF SessionOnInitialize
    <3> QED BY <2>1, <3>1, Zenon
  <2>3. ASSUME NEW handled \in BOOLEAN, force_change_authorities(handled)
        PROVE  Step
    BY <2>1, <2>3, Zenon DEF force_change_authorities
  <2>4. ASSUME NEW key, NEW R, submit_public_key(key, R)
        PROVE  Step
    BY <2>4, Zenon DEF submit_public_key
  <2>5. CASE UNCHANGED <<activeThresholds, activeSet, activeKey>>
    BY <2>5, Zenon
  <2> HIDE DEF Step
  <2> QED
    BY <1>1, <2>2, <2>3, <2>4, <2>5, Zenon
    DEF Next, Root, Unsigned, Horizon, vars, OnInitialize, SealBlock,
        set_signature_threshold, set_keygen_threshold, force_unjail_keygen,
        force_unjail_signing, trigger_emergency_keygen,
        submit_next_public_key, submit_keygen_misbehaviour,
        submit_sign_misbehaviour, ReportAccepted, unjail, OnSignedProposal,
        DropRefresh, Keygen
<1>2. IInv /\ [Next]_vars => [Step]_vars
  BY <1>1, Zenon DEF IInv
<1> QED BY Invariance, <1>2, PTL DEF Spec, ActiveDKGStable
-----------------------------------------------------------------------------
(* Enough signers *)

\* get_best_authorities returns as many authorities as it is asked for, when
\* there are that many.
LEMMA BestCount ==
  ASSUME NEW count \in Nat, NEW S, IsFiniteSet(S), count <= Cardinality(S),
         NEW B \in BestAuthoritySets(count, S)
  PROVE  Cardinality(B) = count
<1>1. Cardinality(S) \in Nat
  BY FS_CardinalityType, Zenon
<1> QED BY <1>1 DEF BestAuthoritySets

\* The thresholds that change_authorities fits to the next set stay apart, and
\* it chooses as many parties as the keygen threshold says.
LEMMA ChangeThresholds ==
  ASSUME TypeOK, SetsSound, NEW new, NEW next, NEW forced,
         IsFiniteSet(next), Cardinality(next) >= 2,
         ChangeAuthorities(new, next, forced)
  PROVE  /\ Cardinality(NextBestAuthorities') = NextKeygenThreshold'
         /\ NextKeygenThreshold' = PendingKeygenThreshold'
         /\ NextSignatureThreshold' = PendingSignatureThreshold'
         /\ PendingSignatureThreshold < PendingKeygenThreshold =>
              NextSignatureThreshold' < NextKeygenThreshold'
<1> DEFINE size == Cardinality(next)
           keygen == ClampKeygen(size, PendingKeygenThreshold)
           sig == ClampSignature(size, PendingSignatureThreshold)
<1>1. size \in Nat
  BY FS_CardinalityType, Zenon
<1>2. keygen \in Nat /\ keygen <= size
  BY <1>1 DEF ClampKeygen, TypeOK
<1>3. PendingSignatureThreshold < PendingKeygenThreshold => sig < keygen
  BY <1>1 DEF ClampKeygen, ClampSignature, TypeOK
<1>4. /\ NextKeygenThreshold' = keygen /\ PendingKeygenThreshold' = keygen
      /\ NextSignatureThreshold' = sig /\ PendingSignatureThreshold' = sig
      /\ NextBestAuthorities' \in BestAuthoritySets(keygen, next)
  BY Zenon DEF ChangeAuthorities
<1>5. Cardinality(NextBestAuthorities') = keygen
  <2> HIDE DEF keygen
  <2> QED BY <1>2, <1>4, BestCount, Zenon
<1> QED BY <1>3, <1>4, <1>5, Zenon

\* Every step keeps enough signers: a set change fits the thresholds to the set
\* it selects from, a rotation takes parties and threshold together, and with
\* enough active signers a signing report does not touch the thresholds.
LEMMA EnoughNext ==
  ASSUME TypeOK, SetsSound, EnoughSigners, [Next]_vars
  PROVE  EnoughSigners'
<1>1. Cardinality(BestAuthorities) \in Nat
  BY SizeOfSubset, Zenon DEF SetsSound, NextPartiesSound
<1>2. ASSUME NEW new, NEW next, NEW forced, UNCHANGED course,
             IsFiniteSet(next), Cardinality(next) >= 2,
             ChangeAuthorities(new, next, forced)
      PROVE  EnoughSigners'
  <2>1. /\ Cardinality(NextBestAuthorities') = NextKeygenThreshold'
        /\ NextKeygenThreshold' = PendingKeygenThreshold'
        /\ NextSignatureThreshold' = PendingSignatureThreshold'
        /\ PendingSignatureThreshold < PendingKeygenThreshold =>
             NextSignatureThreshold' < NextKeygenThreshold'
    BY <1>2, ChangeThresholds, Zenon
  <2>2. \/ /\ BestAuthorities' = NextBestAuthorities
           /\ SignatureThreshold' = NextSignatureThreshold
        \/ UNCHANGED <<BestAuthorities, SignatureThreshold>>
    BY <1>2, Zenon DEF ChangeAuthorities, RotateSet
  <2> QED BY <1>2, <2>1, <2>2, Zenon DEF EnoughSigners
<1>3. ASSUME NEW queued \in ValidatorSets, SessionOnInitialize(queued)
      PROVE  EnoughSigners'
  <2>1. CASE should_end_session
    <3>1. IsFiniteSet(queued) /\ Cardinality(queued) >= 2
      BY ValidatorAssumption, Zenon
    <3>2. /\ ChangeAuthorities(queuedValidators, queued, FALSE)
          /\ UNCHANGED course
      BY <1>3, <2>1, Zenon DEF SessionOnInitialize
    <3> QED BY <1>2, <3>1, <3>2, Zenon
  <2>2. CASE ~should_end_session
    BY <1>3, <2>2, Zenon DEF SessionOnInitialize, EnoughSigners
  <2> QED BY <2>1, <2>2, Zenon
<1>4. ASSUME NEW handled \in BOOLEAN, force_change_authorities(handled)
      PROVE  EnoughSigners'
  <2>1. /\ ChangeAuthorities(NextAuthorities, NextAuthorities, TRUE)
        /\ UNCHANGED course
    BY <1>4, Zenon DEF force_change_authorities
  <2> QED BY <1>2, <2>1, Zenon DEF SetsSound
<1>5. ASSUME NEW t \in 1 .. Cardinality(NextAuthorities),
             set_keygen_threshold(t)
      PROVE  EnoughSigners'
  <2>1. t \in Nat
    BY FS_CardinalityType DEF SetsSound
  <2> QED BY <1>5, <2>1 DEF set_keygen_threshold, EnoughSigners, TypeOK
<1>6. ASSUME NEW t, set_signature_threshold(t)
      PROVE  EnoughSigners'
  BY <1>6 DEF set_signature_threshold, RootCall, EnoughSigners
<1>7. ASSUME NEW a, submit_keygen_misbehaviour(a)
      PROVE  EnoughSigners'
  BY <1>7, Zenon DEF submit_keygen_misbehaviour, ReportAccepted, EnoughSigners
<1>8. ASSUME NEW a, submit_sign_misbehaviour(a)
      PROVE  EnoughSigners'
  BY <1>1, <1>8
  DEF submit_sign_misbehaviour, ReportAccepted, EnoughSigners, TypeOK
<1>9. CASE UNCHANGED <<activeThresholds, nextThresholds, pendingThresholds,
                       BestAuthorities, NextBestAuthorities, course>>
  BY <1>9 DEF EnoughSigners
<1> QED
  BY <1>3, <1>4, <1>5, <1>6, <1>7, <1>8, <1>9, Zenon
  DEF Next, Root, Unsigned, Horizon, vars, OnInitialize, SealBlock,
      force_unjail_keygen, force_unjail_signing, trigger_emergency_keygen,
      submit_public_key, submit_next_public_key, unjail, OnSignedProposal,
      DropRefresh, Keygen

\* There are always enough best authorities to sign, now and after the next
\* rotation, for every sequence of set changes, forced rotations, emergency
\* keygens, keygen thresholds and signing reports.
THEOREM SignersSuffice == Spec => []EnoughSigners
<1>1. Init => EnoughSigners
  <2>1. Init => Cardinality(BestAuthorities) = GenesisKeygen
    BY BestCount, GenesisAssumption, Zenon DEF Init, initialize_authorities
  <2> QED BY <2>1, GenesisAssumption, Zenon
          DEF Init, GenesisThresholds, initialize_authorities, EnoughSigners
<1>2. IInv /\ EnoughSigners /\ [Next]_vars => EnoughSigners'
  BY EnoughNext, Zenon DEF IInv
<1> QED BY Invariance, <1>1, <1>2, PTL DEF Spec
-----------------------------------------------------------------------------
(* Shares *)

\* What SharesMatch rests on.  No keygen is ahead of the queued session; a
\* key that a keygen of the genesis set or of the next set has made, submitted
\* or not, has the parties and the threshold of that set; and a set whose key
\* was accepted has the reporters that this took, so no signing report finds
\* too few best authorities and touches the next threshold.
KeygensMatch ==
  /\ \A k \in aggregated : k.session <= AuthoritySetId + 1
  /\ "keygen_misbehaviour" \notin course.calls =>
       /\ \A k \in aggregated :
            /\ k.session = 0 /\ AuthoritySetId = 0 =>
                 /\ k.parties = BestAuthorities
                 /\ k.threshold = SignatureThreshold
            /\ k.session # 0 /\ k.session = NextAuthoritySetId =>
                 /\ k.parties = NextBestAuthorities
                 /\ k.threshold = NextSignatureThreshold
       /\ Cardinality(BestAuthorities) >= SignatureThreshold
       /\ NextDKGPublicKey # None =>
            Cardinality(NextBestAuthorities) >= NextSignatureThreshold

SharesInv == SharesMatch /\ KeygensMatch

\* change_authorities never leaves the key of the next set behind: its callers
\* rotate whenever there is one.
LEMMA ChangeShares ==
  ASSUME IInv, SharesInv, NEW new, NEW next, NEW forced,
         NextDKGPublicKey # None => forced \/ NextPublicKeySignature # None,
         ChangeAuthorities(new, next, forced),
         UNCHANGED <<aggregated, course>>
  PROVE  SharesInv'
<1>1. /\ NextDKGPublicKey' = None
      /\ NextAuthoritySetId' = NextAuthoritySetId + 1
  BY Zenon DEF ChangeAuthorities, RotateKey
<1>2. \A k \in aggregated : k.session \in Nat
  BY Zenon DEF IInv, TypeOK, Key
<1>3. CASE NextDKGPublicKey # None
  <2>1. /\ AuthoritySetId' = NextAuthoritySetId
        /\ BestAuthorities' = NextBestAuthorities
        /\ SignatureThreshold' = NextSignatureThreshold
        /\ DKGPublicKey' = NextDKGPublicKey
    BY <1>3, Zenon DEF ChangeAuthorities, RotateSet, RotateKey
  <2>2. /\ AuthoritySetId \in Nat /\ NextAuthoritySetId \in Nat
        /\ AuthoritySetId < NextAuthoritySetId
    BY Zenon DEF IInv, TypeOK, KeysMatchSets
  <2>3. \A k \in aggregated : k.session <= NextAuthoritySetId
    <3>1. \A k \in aggregated : k.session <= AuthoritySetId + 1
      BY Zenon DEF SharesInv, KeygensMatch
    <3> QED BY <1>2, <2>2, <3>1
  <2>4. SharesMatch'
    BY <1>1, <1>3, <2>1, Zenon DEF SharesInv, SharesMatch
  <2>5. KeygensMatch'
    BY <1>1, <1>2, <1>3, <2>1, <2>2, <2>3 DEF SharesInv, KeygensMatch
  <2> QED BY <2>4, <2>5, Zenon DEF SharesInv
<1>4. CASE NextDKGPublicKey = None
  <2>1. UNCHANGED <<AuthoritySetId, BestAuthorities, SignatureThreshold,
                    DKGPublicKey>>
    BY <1>4, Zenon DEF ChangeAuthorities
  <2>2. /\ AuthoritySetId \in Nat /\ NextAuthoritySetId \in Nat
        /\ AuthoritySetId < NextAuthoritySetId
    BY Zenon DEF IInv, TypeOK, KeysMatchSets
  <2>3. \A k \in aggregated : k.session # NextAuthoritySetId + 1
    <3>1. \A k \in aggregated : k.session <= AuthoritySetId + 1
      BY Zenon DEF SharesInv, KeygensMatch
    <3> QED BY <1>2, <2>2, <3>1
  <2>4. SharesMatch'
    BY <1>1, <2>1, Zenon DEF SharesInv, SharesMatch
  <2>5. KeygensMatch'
    BY <1>1, <1>2, <2>1, <2>2, <2>3, Zenon DEF SharesInv, KeygensMatch
  <2> QED BY <2>4, <2>5, Zenon DEF SharesInv
<1> QED BY <1>3, <1>4, Zenon

\* Every step keeps shares and sets in step.
LEMMA SharesNext ==
  ASSUME IInv, SharesInv, [Next]_vars
  PROVE  SharesInv'
<1>1. ASSUME NEW queued \in ValidatorSets, SessionOnInitialize(queued)
      PROVE  SharesInv'
  <2>1. CASE should_end_session
    BY <1>1, <2>1, ChangeShares, Zenon DEF SessionOnInitialize,
           should_end_session
  <2>2. CASE ~should_end_session
    BY <1>1, <2>2, Zenon
    DEF SessionOnInitialize, SharesInv, SharesMatch, KeygensMatch
  <2> QED BY <2>1, <2>2, Zenon
<1>2. ASSUME NEW handled \in BOOLEAN, force_change_authorities(handled)
      PROVE  SharesInv'
  <2>1. /\ ChangeAuthorities(NextAuthorities, NextAuthorities, TRUE)
        /\ UNCHANGED <<aggregated, course>>
    BY <1>2, Zenon DEF force_change_authorities
  <2> QED BY <2>1, ChangeShares, Zenon
<1>3. CASE trigger_emergency_keygen
  BY <1>3, Zenon DEF trigger_emergency_keygen, SharesInv, SharesMatch,
         KeygensMatch
<1>4. ASSUME NEW key \in aggregated, NEW R, submit_public_key(key, R)
      PROVE  SharesInv'
  <2>1. /\ key.session = 0
        /\ DKGPublicKey' = [set |-> AuthoritySetId, key |-> key]
        /\ aggregated' \subseteq aggregated
        /\ UNCHANGED <<activeThresholds, nextThresholds, activeSet, nextSet,
                       nextKey, course>>
    BY <1>4, Zenon DEF submit_public_key
  <2>2. KeygensMatch'
    BY <2>1, Zenon DEF SharesInv, KeygensMatch
  <2>3. SharesMatch'
    BY <2>1, Zenon DEF SharesInv, SharesMatch, KeygensMatch
  <2> QED BY <2>2, <2>3, Zenon DEF SharesInv
<1>5. ASSUME NEW key \in aggregated, NEW R, submit_next_public_key(key, R)
      PROVE  SharesInv'
  <2>1. /\ key.session # 0
        /\ NextDKGPublicKey' = [set |-> NextAuthoritySetId, key |-> key]
        /\ aggregated' \subseteq aggregated
        /\ UNCHANGED <<activeThresholds, nextThresholds, activeSet, nextSet,
                       DKGPublicKey, course>>
    BY <1>5, Zenon DEF submit_next_public_key
  <2>2. Cardinality(NextBestAuthorities) >= NextSignatureThreshold
    <3>1. /\ R \subseteq NextBestAuthorities
          /\ Cardinality(R) >= NextSignatureThreshold
      BY <1>5, Zenon DEF submit_next_public_key, Reporters
    <3>2. IsFiniteSet(NextBestAuthorities)
      BY SizeOfSubset, Zenon DEF IInv, SetsSound, NextPartiesSound
    <3>3. /\ Cardinality(R) <= Cardinality(NextBestAuthorities)
          /\ Cardinality(R) \in Nat /\ Cardinality(NextBestAuthorities) \in Nat
      BY <3>1, <3>2, FS_Subset, FS_CardinalityType, Zenon
    <3> QED BY <3>1, <3>3 DEF IInv, TypeOK
  <2>3. KeygensMatch'
    BY <2>1, <2>2, Zenon DEF SharesInv, KeygensMatch
  <2>4. SharesMatch'
    BY <2>1, Zenon DEF SharesInv, SharesMatch, KeygensMatch
  <2> QED BY <2>3, <2>4, Zenon DEF SharesInv
<1>6. ASSUME NEW a, submit_keygen_misbehaviour(a)
      PROVE  SharesInv'
  BY <1>6, Zenon DEF submit_keygen_misbehaviour, ReportAccepted, SharesInv,
              SharesMatch, KeygensMatch
<1>7. ASSUME NEW a, submit_sign_misbehaviour(a)
      PROVE  SharesInv'
  <2>1. UNCHANGED <<activeThresholds, activeSet, nextSet, DKGPublicKey, nextKey,
                    aggregated, course>>
    BY <1>7, Zenon DEF submit_sign_misbehaviour, ReportAccepted
  <2>2. "keygen_misbehaviour" \notin course.calls =>
          UNCHANGED NextSignatureThreshold
    <3>1. Cardinality(BestAuthorities) \in Nat /\ SignatureThreshold \in Nat
      BY SizeOfSubset, Zenon DEF IInv, TypeOK, SetsSound, NextPartiesSound
    <3>2. "keygen_misbehaviour" \notin course.calls =>
            Cardinality(BestAuthorities) >= SignatureThreshold
      BY Zenon DEF SharesInv, KeygensMatch
    <3> QED BY <1>7, <3>1, <3>2 DEF submit_sign_misbehaviour
  <2> QED BY <2>1, <2>2, Zenon DEF SharesInv, SharesMatch, KeygensMatch
<1>8. ASSUME NEW genesis \in BOOLEAN, Keygen(genesis)
      PROVE  SharesInv'
  <2> DEFINE made == [session |-> IF genesis THEN 0 ELSE AuthoritySetId + 1,
                      run |-> keygens,
                      parties |-> IF genesis THEN BestAuthorities
                                             ELSE NextBestAuthorities,
                      threshold |-> IF genesis THEN SignatureThreshold
                                               ELSE NextSignatureThreshold]
  <2>1. /\ aggregated' = aggregated \cup {made}
        /\ UNCHANGED <<activeThresholds, nextThresholds, activeSet, nextSet,
                       DKGPublicKey, nextKey, course>>
    BY <1>8, Zenon DEF Keygen
  <2>2. /\ made.session <= AuthoritySetId + 1
        /\ made.session = 0 =>
             /\ made.parties = BestAuthorities
             /\ made.threshold = SignatureThreshold
        /\ made.session # 0 =>
             /\ made.parties = NextBestAuthorities
             /\ made.threshold = NextSignatureThreshold
    BY DEF IInv, TypeOK
  <2> HIDE DEF made
  <2>3. SharesMatch'
    BY <2>1, Zenon DEF SharesInv, SharesMatch
  <2>4. KeygensMatch'
    BY <2>1, <2>2, Zenon DEF SharesInv, KeygensMatch
  <2> QED BY <2>3, <2>4, Zenon DEF SharesInv
<1>9. CASE UNCHANGED <<activeThresholds, nextThresholds, activeSet, nextSet,
                       DKGPublicKey, NextDKGPublicKey, aggregated, course>>
  BY <1>9, Zenon DEF SharesInv, SharesMatch, KeygensMatch
<1> QED
  BY <1>1, <1>2, <1>3, <1>4, <1>5, <1>6, <1>7, <1>8, <1>9, Zenon
  DEF Next, Root, Unsigned, Horizon, vars, OnInitialize, SealBlock,
      set_signature_threshold, set_keygen_threshold, force_unjail_keygen,
      force_unjail_signing, unjail, OnSignedProposal, DropRefresh

\* A key stored for the session it was made for is shared among the best
\* authorities of that session under its threshold, for every sequence of calls
\* but keygen reports.
THEOREM SharesFollowSets == Spec => []SharesMatch
<1>1. Init => SharesInv
  <2>1. Init => Cardinality(BestAuthorities) = GenesisKeygen
    BY BestCount, GenesisAssumption, Zenon DEF Init, initialize_authorities
  <2> QED BY <2>1, GenesisAssumption
          DEF Init, GenesisThresholds, initialize_authorities, SharesInv,
              SharesMatch, KeygensMatch
<1>2. IInv /\ SharesInv /\ [Next]_vars => SharesInv'
  BY SharesNext
<1>3. SharesInv => SharesMatch
  BY Zenon DEF SharesInv
<1> QED BY Invariance, <1>1, <1>2, <1>3, PTL DEF Spec
-----------------------------------------------------------------------------
(* History *)

\* The nonce is ahead of every refresh on record, by one at most.
FreshNonce(nonce) ==
  /\ nonce <= RefreshNonce + 1
  /\ \A i \in DOMAIN HistoricalRounds :
       HistoricalRounds[i].signature # None =>
         HistoricalRounds[i].signature.proposal.nonce < nonce

\* What HistoryIsChain rests on: the last round on record is the active one,
\* and the refresh that is pending, or else signed, has a fresh nonce.  A
\* signed refresh is no longer pending.
HistoryInv ==
  /\ \A i \in DOMAIN HistoricalRounds : i <= AuthoritySetId
  /\ DOMAIN HistoricalRounds # {} =>
       /\ AuthoritySetId \in DOMAIN HistoricalRounds
       /\ DKGPublicKey # None
       /\ DKGPublicKey.key = HistoricalRounds[AuthoritySetId].next
  /\ NextPublicKeySignature # None =>
       /\ PendingRefreshProposal = None
       /\ FreshNonce(NextPublicKeySignature.proposal.nonce)
  /\ PendingRefreshProposal # None => FreshNonce(PendingRefreshProposal.nonce)

ChainInv == HistoryIsChain /\ HistoryInv

\* A rotation adds a round after all others, which starts from the active key
\* and ends with the next, and whose refresh, if it is signed, has a fresh
\* nonce.
LEMMA RotateHistory ==
  ASSUME IInv, ChainInv, NextDKGPublicKey # None,
         NEW new, NEW signature \in {None, NextPublicKeySignature},
         RotateSet(new), RotateKey(signature)
  PROVE  /\ HistoryIsChain'
         /\ \A i \in DOMAIN HistoricalRounds' : i <= AuthoritySetId'
         /\ /\ AuthoritySetId' \in DOMAIN HistoricalRounds'
            /\ DKGPublicKey' # None
            /\ DKGPublicKey'.key = HistoricalRounds'[AuthoritySetId'].next
         /\ NextPublicKeySignature' = None
         /\ signature = None =>
              \A i \in DOMAIN HistoricalRounds' :
                HistoricalRounds'[i].signature # None =>
                  /\ i \in DOMAIN HistoricalRounds
                  /\ HistoricalRounds'[i] = HistoricalRounds[i]
<1> DEFINE n == NextAuthoritySetId
           round == [curr |-> IF DKGPublicKey = None THEN None
                              ELSE DKGPublicKey.key,
                     next |-> NextDKGPublicKey.key,
                     signature |-> signature]
           Rounds == DOMAIN HistoricalRounds
<1>1. /\ AuthoritySetId' = n /\ DKGPublicKey' = NextDKGPublicKey
      /\ NextPublicKeySignature' = None /\ RefreshNonce' = RefreshNonce + 1
  BY Zenon DEF RotateSet, RotateKey
<1>2. HistoricalRounds' = Put(HistoricalRounds, n, round)
  BY Zenon DEF RotateKey, insert_historical_refresh, IInv, KeysMatchSets
<1>3. /\ n \in Nat /\ AuthoritySetId \in Nat /\ RefreshNonce \in Nat
      /\ AuthoritySetId < n /\ Rounds \subseteq Nat
      /\ \A i \in Rounds : i < n
  BY DEF IInv, TypeOK, KeysMatchSets, ChainInv, HistoryInv
<1>4. /\ DOMAIN HistoricalRounds' = Rounds \cup {n}
      /\ HistoricalRounds'[n] = round
      /\ \A i \in Rounds : HistoricalRounds'[i] = HistoricalRounds[i]
  BY <1>2, <1>3 DEF Put
<1>5. /\ round.next = NextDKGPublicKey.key
      /\ round.signature = signature
      /\ DKGPublicKey # None => round.curr = DKGPublicKey.key
  OBVIOUS
<1> HIDE DEF round
<1>6. \A i, j \in DOMAIN HistoricalRounds' :
        (/\ i < j
         /\ \A k \in DOMAIN HistoricalRounds' : i < k => j <= k) =>
        HistoricalRounds'[j].curr = HistoricalRounds'[i].next
  <2> SUFFICES ASSUME NEW i \in Rounds \cup {n}, NEW j \in Rounds \cup {n},
                      i < j, \A k \in Rounds \cup {n} : i < k => j <= k
               PROVE  HistoricalRounds'[j].curr = HistoricalRounds'[i].next
    BY <1>4, Zenon
  <2>1. i \in Rounds
    BY <1>3
  <2>2. CASE j \in Rounds
    BY <1>4, <2>1, <2>2, Zenon DEF ChainInv, HistoryIsChain
  <2>3. CASE j = n
    <3>1. \A k \in Rounds : k <= i
      BY <1>3, <2>1, <2>3
    <3>2. i = AuthoritySetId
      BY <1>3, <2>1, <3>1 DEF ChainInv, HistoryInv
    <3>3. round.curr = HistoricalRounds[i].next
      BY <1>5, <2>1, <3>2, Zenon DEF ChainInv, HistoryInv
    <3> QED BY <1>4, <2>1, <2>3, <3>3, Zenon
  <2> QED BY <2>2, <2>3, Zenon
<1>7. \A i \in DOMAIN HistoricalRounds' :
        (\A j \in DOMAIN HistoricalRounds' : j <= i) =>
          /\ i = AuthoritySetId'
          /\ DKGPublicKey'.key = HistoricalRounds'[i].next
  <2> SUFFICES ASSUME NEW i \in Rounds \cup {n},
                      \A j \in Rounds \cup {n} : j <= i
               PROVE  i = n /\ NextDKGPublicKey.key = HistoricalRounds'[i].next
    BY <1>1, <1>4, Zenon
  <2>1. i = n
    BY <1>3
  <2> QED BY <1>4, <1>5, <2>1, Zenon
<1>8. signature # None => FreshNonce(signature.proposal.nonce)
  BY Zenon DEF ChainInv, HistoryInv
<1>9. \A i \in Rounds : HistoricalRounds[i].signature # None =>
        /\ HistoricalRounds[i].signature.proposal.nonce \in Nat
        /\ HistoricalRounds[i].signature.proposal.nonce <= RefreshNonce
  BY Zenon DEF ChainInv, HistoryIsChain, IInv, TypeOK, RoundMetadata, Signature,
         RefreshProposal
<1>10. signature # None => signature.proposal.nonce \in Nat
  BY Zenon DEF IInv, TypeOK, Signature, RefreshProposal
<1>11. \A i, j \in DOMAIN HistoricalRounds' :
         (/\ HistoricalRounds'[i].signature # None
          /\ HistoricalRounds'[j].signature # None
          /\ i < j) =>
         HistoricalRounds'[i].signature.proposal.nonce
           < HistoricalRounds'[j].signature.proposal.nonce
  <2> SUFFICES ASSUME NEW i \in Rounds \cup {n}, NEW j \in Rounds \cup {n},
                      HistoricalRounds'[i].signature # None,
                      HistoricalRounds'[j].signature # None,
                      i < j
               PROVE  HistoricalRounds'[i].signature.proposal.nonce
                        < HistoricalRounds'[j].signature.proposal.nonce
    BY <1>4, Zenon
  <2>1. i \in Rounds
    BY <1>3
  <2>2. CASE j \in Rounds
    BY <1>4, <2>1, <2>2, Zenon DEF ChainInv, HistoryIsChain
  <2>3. CASE j = n
    BY <1>4, <1>5, <1>8, <2>1, <2>3, Zenon DEF FreshNonce
  <2> QED BY <2>2, <2>3, Zenon
<1>12. \A i \in DOMAIN HistoricalRounds' :
         HistoricalRounds'[i].signature # None =>
           HistoricalRounds'[i].signature.proposal.nonce <= RefreshNonce'
  BY <1>1, <1>3, <1>4, <1>5, <1>8, <1>9, <1>10 DEF FreshNonce
<1>13. HistoryIsChain'
  BY <1>6, <1>7, <1>11, <1>12, Zenon DEF HistoryIsChain
<1>14. \A i \in DOMAIN HistoricalRounds' : i <= AuthoritySetId'
  BY <1>1, <1>3, <1>4
<1>15. /\ AuthoritySetId' \in DOMAIN HistoricalRounds'
       /\ DKGPublicKey' # None
       /\ DKGPublicKey'.key = HistoricalRounds'[AuthoritySetId'].next
  BY <1>1, <1>4, <1>5, Zenon
<1>16. signature = None =>
         \A i \in DOMAIN HistoricalRounds' :
           HistoricalRounds'[i].signature # None =>
             /\ i \in DOMAIN HistoricalRounds
             /\ HistoricalRounds'[i] = HistoricalRounds[i]
  BY <1>4, <1>5, Zenon
<1> QED BY <1>1, <1>13, <1>14, <1>15, <1>16, Zenon

\* Every step keeps the history a chain and the refresh under way fresh.
LEMMA HistoryNext ==
  ASSUME IInv, ChainInv, [Next]_vars
  PROVE  ChainInv'
<1>1. /\ RefreshNonce \in Nat
      /\ \A i \in DOMAIN HistoricalRounds :
           HistoricalRounds[i].signature # None =>
             /\ HistoricalRounds[i].signature.proposal.nonce \in Nat
             /\ HistoricalRounds[i].signature.proposal.nonce <= RefreshNonce
  BY Zenon DEF ChainInv, HistoryIsChain, IInv, TypeOK, RoundMetadata, Signature,
         RefreshProposal
<1>2. ASSUME NEW handled \in BOOLEAN, OnInitialize(handled)
      PROVE  ChainInv'
  <2> DEFINE start == should_refresh /\ ~RefreshInProgress
  <2>1. /\ \/ UNCHANGED PendingRefreshProposal
           \/ /\ NextPublicKeySignature = None
              /\ PendingRefreshProposal' =
                   RefreshProposalFor(NextDKGPublicKey.key, RefreshNonce + 1)
        /\ UNCHANGED <<activeSet, activeKey, nextKey, RefreshNonce>>
    BY <1>2, Zenon DEF OnInitialize, should_refresh
  <2>2. RefreshProposalFor(NextDKGPublicKey.key, RefreshNonce + 1).nonce
          = RefreshNonce + 1
    BY DEF RefreshProposalFor
  <2>3. HistoryIsChain'
    BY <2>1, Zenon DEF ChainInv, HistoryIsChain
  <2>4. FreshNonce(RefreshNonce + 1)
    BY <1>1 DEF FreshNonce
  <2>5. HistoryInv'
    BY <2>1, <2>2, <2>4, Zenon DEF ChainInv, HistoryInv, FreshNonce
  <2> QED BY <2>3, <2>5, Zenon DEF ChainInv
<1>3. ASSUME NEW queued \in ValidatorSets, SessionOnInitialize(queued)
      PROVE  ChainInv'
  <2>1. CASE should_end_session
    <3>1. /\ RotateSet(queuedValidators) /\ RotateKey(NextPublicKeySignature)
          /\ UNCHANGED PendingRefreshProposal
          /\ NextDKGPublicKey # None /\ NextPublicKeySignature # None
      BY <1>3, <2>1, Zenon
      DEF SessionOnInitialize, should_end_session, ChangeAuthorities
    <3>2. PendingRefreshProposal' = None
      BY <3>1, Zenon DEF ChainInv, HistoryInv
    <3> QED BY <3>1, <3>2, RotateHistory, Zenon DEF ChainInv, HistoryInv
  <2>2. CASE ~should_end_session
    <3>1. UNCHANGED <<activeSet, activeKey, nextKey, RefreshNonce,
                      PendingRefreshProposal>>
      BY <1>3, <2>2, Zenon DEF SessionOnInitialize
    <3> QED BY <3>1, Zenon DEF ChainInv, HistoryIsChain, HistoryInv, FreshNonce
  <2> QED BY <2>1, <2>2, Zenon
<1>4. ASSUME NEW handled \in BOOLEAN, force_change_authorities(handled)
      PROVE  ChainInv'
  <2>1. ChangeAuthorities(NextAuthorities, NextAuthorities, TRUE)
    BY <1>4, Zenon DEF force_change_authorities
  <2>2. CASE NextDKGPublicKey # None
    <3>1. /\ RotateSet(NextAuthorities) /\ RotateKey(None)
          /\ RefreshNonce' = RefreshNonce + 1
      BY <2>1, <2>2, Zenon DEF ChangeAuthorities, RotateKey
    <3>2. PendingRefreshProposal'.nonce = RefreshNonce + 1
      BY <1>4, <2>2, Zenon DEF force_change_authorities, RefreshProposalFor
    <3>3. /\ HistoryIsChain'
          /\ \A i \in DOMAIN HistoricalRounds' : i <= AuthoritySetId'
          /\ AuthoritySetId' \in DOMAIN HistoricalRounds'
          /\ DKGPublicKey' # None
          /\ DKGPublicKey'.key = HistoricalRounds'[AuthoritySetId'].next
          /\ NextPublicKeySignature' = None
          /\ \A i \in DOMAIN HistoricalRounds' :
               HistoricalRounds'[i].signature # None =>
                 /\ i \in DOMAIN HistoricalRounds
                 /\ HistoricalRounds'[i] = HistoricalRounds[i]
      BY <2>2, <3>1, RotateHistory, Zenon
    <3>4. FreshNonce(PendingRefreshProposal.nonce)'
      BY <1>1, <3>1, <3>2, <3>3 DEF FreshNonce
    <3> QED BY <3>3, <3>4, Zenon DEF ChainInv, HistoryInv
  <2>3. CASE NextDKGPublicKey = None
    <3>1. /\ UNCHANGED <<activeSet, activeKey, nextKey, RefreshNonce>>
          /\ PendingRefreshProposal' = None
      BY <1>4, <2>1, <2>3, Zenon DEF force_change_authorities, ChangeAuthorities
    <3>2. NextPublicKeySignature = None
      BY <2>3, Zenon DEF IInv, RefreshAccounted
    <3> QED BY <3>1, <3>2, Zenon DEF ChainInv, HistoryIsChain, HistoryInv
  <2> QED BY <2>2, <2>3, Zenon
<1>5. CASE trigger_emergency_keygen
  <2>1. /\ NextPublicKeySignature' = None
        /\ UNCHANGED <<activeSet, activeKey, RefreshNonce,
                       PendingRefreshProposal>>
    BY <1>5, Zenon DEF trigger_emergency_keygen
  <2> QED BY <2>1, Zenon DEF ChainInv, HistoryIsChain, HistoryInv, FreshNonce
<1>6. ASSUME NEW key, NEW R, submit_public_key(key, R)
      PROVE  ChainInv'
  <2>1. /\ DKGPublicKey = None
        /\ UNCHANGED <<activeSet, HistoricalRounds, NextPublicKeySignature,
                       RefreshNonce, PendingRefreshProposal>>
    BY <1>6, Zenon DEF submit_public_key
  <2>2. DOMAIN HistoricalRounds = {}
    BY <2>1, Zenon DEF ChainInv, HistoryInv
  <2> QED
    BY <2>1, <2>2, Zenon DEF ChainInv, HistoryIsChain, HistoryInv, FreshNonce
<1>7. ASSUME NEW p \in refreshQueue, OnSignedProposal(p)
      PROVE  ChainInv'
  <2> DEFINE signature == [signer |-> DKGPublicKey.key, proposal |-> p]
  <2>1. UNCHANGED <<activeSet, activeKey, RefreshNonce>>
    BY <1>7, Zenon DEF OnSignedProposal
  <2>2. \/ UNCHANGED <<NextPublicKeySignature, PendingRefreshProposal>>
        \/ /\ PendingRefreshProposal = p
           /\ NextPublicKeySignature' = signature
           /\ PendingRefreshProposal' = None
    BY <1>7, Zenon DEF OnSignedProposal
  <2>3. signature.proposal = p /\ p # None
    <3>1. signature.proposal = p
      OBVIOUS
    <3>2. p # None
      <4>1. p \in RefreshProposal
        BY DEF IInv, TypeOK
      <4> QED BY <4>1, NoneAssumption, Zenon
    <3> QED BY <3>1, <3>2, Zenon
  <2> HIDE DEF signature
  <2>4. HistoryIsChain'
    BY <2>1, Zenon DEF ChainInv, HistoryIsChain
  <2>5. HistoryInv'
    BY <2>1, <2>2, <2>3, Zenon DEF ChainInv, HistoryInv, FreshNonce
  <2> QED BY <2>4, <2>5, Zenon DEF ChainInv
<1>8. CASE UNCHANGED <<activeSet, activeKey, NextPublicKeySignature,
                       RefreshNonce, PendingRefreshProposal>>
  BY <1>8, Zenon DEF ChainInv, HistoryIsChain, HistoryInv, FreshNonce
<1> QED
  BY <1>2, <1>3, <1>4, <1>5, <1>6, <1>7, <1>8, Zenon
  DEF Next, Root, Unsigned, Horizon, vars, SealBlock,
      set_signature_threshold, set_keygen_threshold, force_unjail_keygen,
      force_unjail_signing, submit_next_public_key,
      submit_keygen_misbehaviour, submit_sign_misbehaviour, ReportAccepted,
      unjail, DropRefresh, Keygen

\* The history is a chain of keys that ends with the active one, signed with
\* ever larger nonces, whatever root calls, late keys and late signatures come.
THEOREM HistoryChained == Spec => []HistoryIsChain
<1>1. Init => ChainInv
  BY Zenon DEF Init, ChainInv, HistoryIsChain, HistoryInv
<1>2. IInv /\ ChainInv /\ [Next]_vars => ChainInv'
  BY HistoryNext, Zenon
<1>3. ChainInv => HistoryIsChain
  BY Zenon DEF ChainInv
<1> QED BY Invariance, <1>1, <1>2, <1>3, PTL DEF Spec
-----------------------------------------------------------------------------
(* Certified rotations *)

NoRootRotation ==
  course.calls \cap {"force_change_authorities", "trigger_emergency_keygen"} = {}

\* What RotationCertified rests on: without a root call that replaces the next
\* key, the refresh that is pending and the one that is signed are for that key,
\* the next authorities and the next nonce.
RefreshOfNext ==
  NoRootRotation =>
    /\ PendingRefreshProposal # None =>
         /\ NextDKGPublicKey # None
         /\ PendingRefreshProposal =
              RefreshProposalFor(NextDKGPublicKey.key, RefreshNonce + 1)
    /\ NextPublicKeySignature # None =>
         /\ DKGPublicKey # None
         /\ NextPublicKeySignature =
              [signer |-> DKGPublicKey.key,
               proposal |-> RefreshProposalFor(NextDKGPublicKey.key,
                                               RefreshNonce + 1)]

CertifiedInv == IInv /\ ChainInv /\ RefreshOfNext

\* Every step keeps the refresh under way in step with the next key.
LEMMA RefreshOfNextStep ==
  ASSUME CertifiedInv, [Next]_vars
  PROVE  RefreshOfNext'
<1> USE DEF RefreshProposalFor
<1>1. ASSUME NEW handled \in BOOLEAN, OnInitialize(handled)
      PROVE  RefreshOfNext'
  <2>1. /\ \/ UNCHANGED PendingRefreshProposal
           \/ /\ NextDKGPublicKey # None
              /\ PendingRefreshProposal' =
                   RefreshProposalFor(NextDKGPublicKey.key, RefreshNonce + 1)
        /\ UNCHANGED <<DKGPublicKey, nextKey, nextSet, RefreshNonce, course>>
    BY <1>1, Zenon DEF OnInitialize, should_refresh
  <2> QED BY <2>1, Zenon DEF CertifiedInv, RefreshOfNext, NoRootRotation
<1>2. ASSUME NEW queued \in ValidatorSets, SessionOnInitialize(queued)
      PROVE  RefreshOfNext'
  <2>1. CASE should_end_session
    <3>1. /\ NextPublicKeySignature # None
          /\ NextPublicKeySignature' = None
          /\ UNCHANGED PendingRefreshProposal
      BY <1>2, <2>1, Zenon DEF SessionOnInitialize, should_end_session,
                        ChangeAuthorities, RotateKey
    <3>2. PendingRefreshProposal' = None
      BY <3>1, Zenon DEF CertifiedInv, ChainInv, HistoryInv
    <3> QED BY <3>1, <3>2, Zenon DEF RefreshOfNext
  <2>2. CASE ~should_end_session
    <3>1. UNCHANGED <<DKGPublicKey, nextKey, nextSet, RefreshNonce,
                      PendingRefreshProposal, course>>
      BY <1>2, <2>2, Zenon DEF SessionOnInitialize
    <3> QED BY <3>1, Zenon DEF CertifiedInv, RefreshOfNext, NoRootRotation
  <2> QED BY <2>1, <2>2, Zenon
<1>3. ASSUME NEW handled \in BOOLEAN, force_change_authorities(handled)
      PROVE  RefreshOfNext'
  <2>1. /\ "force_change_authorities" \in course.calls
        /\ UNCHANGED course
    BY <1>3, Zenon DEF force_change_authorities, RootCall
  <2> QED BY <2>1, Zenon DEF RefreshOfNext, NoRootRotation
<1>4. CASE trigger_emergency_keygen
  BY <1>4, Zenon DEF trigger_emergency_keygen, RootCall, RefreshOfNext,
         NoRootRotation
<1>5. ASSUME NEW key, NEW R, submit_public_key(key, R)
      PROVE  RefreshOfNext'
  <2>1. /\ DKGPublicKey = None
        /\ UNCHANGED <<nextKey, nextSet, RefreshNonce, PendingRefreshProposal,
                       course>>
    BY <1>5, Zenon DEF submit_public_key
  <2> QED BY <2>1, Zenon DEF CertifiedInv, RefreshOfNext, NoRootRotation
<1>6. ASSUME NEW key, NEW R, submit_next_public_key(key, R)
      PROVE  RefreshOfNext'
  <2>1. /\ NextDKGPublicKey = None
        /\ UNCHANGED <<NextPublicKeySignature, PendingRefreshProposal, course>>
    BY <1>6, Zenon DEF submit_next_public_key
  <2>2. NextPublicKeySignature = None
    BY <2>1, Zenon DEF CertifiedInv, IInv, RefreshAccounted
  <2>3. NoRootRotation => PendingRefreshProposal = None
    BY <2>1, Zenon DEF CertifiedInv, RefreshOfNext
  <2> QED BY <2>1, <2>2, <2>3, Zenon DEF RefreshOfNext, NoRootRotation
<1>7. ASSUME NEW p \in refreshQueue, OnSignedProposal(p)
      PROVE  RefreshOfNext'
  <2>1. /\ DKGPublicKey # None
        /\ UNCHANGED <<DKGPublicKey, NextDKGPublicKey, nextSet, RefreshNonce,
                       course>>
    BY <1>7, Zenon DEF OnSignedProposal
  <2>2. \/ UNCHANGED <<NextPublicKeySignature, PendingRefreshProposal>>
        \/ /\ PendingRefreshProposal = p
           /\ NextPublicKeySignature' =
                [signer |-> DKGPublicKey.key, proposal |-> p]
           /\ PendingRefreshProposal' = None
    BY <1>7, Zenon DEF OnSignedProposal
  <2>3. p # None
    BY NoneAssumption, Zenon DEF CertifiedInv, IInv, TypeOK
  <2> QED
    BY <2>1, <2>2, <2>3, Zenon DEF CertifiedInv, RefreshOfNext, NoRootRotation
<1>8. CASE UNCHANGED <<DKGPublicKey, nextKey, NextAuthorities, RefreshNonce,
                       PendingRefreshProposal, course>>
  BY <1>8, Zenon DEF CertifiedInv, RefreshOfNext, NoRootRotation
<1> QED
  BY <1>1, <1>2, <1>3, <1>4, <1>5, <1>6, <1>7, <1>8, Zenon
  DEF Next, Root, Unsigned, Horizon, vars, SealBlock,
      set_signature_threshold, set_keygen_threshold, force_unjail_keygen,
      force_unjail_signing, submit_keygen_misbehaviour,
      submit_sign_misbehaviour, ReportAccepted, unjail, DropRefresh, Keygen

\* A session change activates the key that the outgoing key has certified,
\* together with the voters and the nonce that the certificate names.
THEOREM RotationsCertified == Spec => RotationCertified
<1> DEFINE Certified ==
      DKGPublicKeySignature' =
        [signer |-> DKGPublicKey.key,
         proposal |-> [nonce |-> RefreshNonce',
                       pub_key |-> DKGPublicKey'.key,
                       voters |-> Authorities']]
      Step == (/\ AuthoritySetId' # AuthoritySetId
               /\ DKGPublicKeySignature' # None
               /\ course.calls \cap {"force_change_authorities",
                                     "trigger_emergency_keygen"} = {}) =>
              Certified
<1>1. Init => CertifiedInv
  BY InitInv, Zenon DEF Init, CertifiedInv, ChainInv, HistoryIsChain,
         HistoryInv,
                 RefreshOfNext
<1>2. CertifiedInv /\ [Next]_vars => CertifiedInv'
  BY TypeNext, SetsNext, KeysNext, RefreshNext, HistoryNext, RefreshOfNextStep,
     Zenon
  DEF CertifiedInv, IInv
<1>3. CertifiedInv /\ [Next]_vars => Step
  <2> SUFFICES ASSUME CertifiedInv, [Next]_vars, NoRootRotation,
                      AuthoritySetId' # AuthoritySetId
               PROVE  Certified
    BY Zenon DEF NoRootRotation
  <2>1. ASSUME NEW queued \in ValidatorSets, SessionOnInitialize(queued)
        PROVE  Certified
    <3>1. should_end_session
      BY <2>1, Zenon DEF SessionOnInitialize
    <3>2. /\ RotateSet(queuedValidators) /\ RotateKey(NextPublicKeySignature)
          /\ NextPublicKeySignature # None
      BY <2>1, <3>1, Zenon
      DEF SessionOnInitialize, should_end_session, ChangeAuthorities
    <3>3. NextPublicKeySignature =
            [signer |-> DKGPublicKey.key,
             proposal |-> RefreshProposalFor(NextDKGPublicKey.key,
                                             RefreshNonce + 1)]
      BY <3>2, Zenon DEF CertifiedInv, RefreshOfNext
    <3>4. queuedValidators = NextAuthorities
      BY DEF CertifiedInv, IInv, SetsSound, NextPartiesSound
    <3> QED
      BY <3>2, <3>3, <3>4, Zenon DEF RotateSet, RotateKey, RefreshProposalFor
  <2>2. ASSUME NEW handled \in BOOLEAN, force_change_authorities(handled)
        PROVE  Certified
    BY <2>2, Zenon DEF force_change_authorities, RootCall, NoRootRotation
  <2> HIDE DEF Certified
  <2> QED
    BY <2>1, <2>2, Zenon
    DEF Next, Root, Unsigned, Horizon, vars, OnInitialize, SealBlock,
        set_signature_threshold, set_keygen_threshold, force_unjail_keygen,
        force_unjail_signing, trigger_emergency_keygen, submit_public_key,
        submit_next_public_key, submit_keygen_misbehaviour,
        submit_sign_misbehaviour, ReportAccepted, unjail, OnSignedProposal,
        DropRefresh, Keygen
<1>4. CertifiedInv /\ [Next]_vars => [Step]_vars
  BY <1>3, Zenon
<1> QED BY <1>1, <1>2, <1>4, PTL DEF Spec, RotationCertified
=============================================================================
