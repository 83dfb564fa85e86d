---------------------------- MODULE DKGMetadata ----------------------------
(***************************************************************************)
(* pallet-dkg-metadata (pallets/dkg-metadata/src/lib.rs): the on-chain     *)
(* record of the active and the next DKG.  Each storage item is a variable *)
(* of the same name, each extrinsic, hook and callback is an action.  A    *)
(* dispatch error rolls the extrinsic back, so a failing call is no step.  *)
(*                                                                         *)
(* Lists of authorities are sets: the order of a list only breaks ties     *)
(* between equal reputations, and a tie is a nondeterministic choice here. *)
(* A key is the record of the keygen that made it: the session it was made *)
(* for, the parties that hold a share and the threshold they agreed on.    *)
(***************************************************************************)
EXTENDS Integers, FiniteSets, Sequences

CONSTANTS
  Authority,              \* identities that may become DKG authorities
  None,                   \* the absent value of an Option, the empty signature
  GenesisAuthorities,     \* validators of the genesis session
  GenesisSignature,       \* genesis signature threshold
  GenesisKeygen,          \* genesis keygen threshold
  ValidatorSets,          \* sets the session pallet may queue
  Period, Offset,         \* parameters of DKGPeriodicSessions
  KeygenRetry,            \* BLOCKS_TO_WAIT_BEFORE_KEYGEN_RETRY_TRIGGER
  UnsignedInterval,
  KeygenJailSentence, SigningJailSentence,
  InitialReputation, ReputationIncrement, DecayPercentage,
  MaxUsedSignatures,      \* bound of the UsedSignatures vector
  Courses                 \* what a behaviour consists of: the root calls that
                          \* are made and the misbehaviours that are reported,
                          \* with bounds for blocks, keygens and set ids

ASSUME GenesisAssumption ==
  /\ GenesisAuthorities \in SUBSET Authority
  /\ IsFiniteSet(GenesisAuthorities)
  /\ GenesisSignature \in Nat
  /\ GenesisKeygen \in Nat
  /\ GenesisSignature < GenesisKeygen
  /\ GenesisKeygen > 1
  /\ Cardinality(GenesisAuthorities) >= GenesisKeygen

ASSUME ValidatorAssumption ==
  /\ ValidatorSets \in SUBSET (SUBSET Authority)
  /\ \A S \in ValidatorSets : IsFiniteSet(S) /\ Cardinality(S) >= 2

ASSUME ParameterAssumption ==
  /\ Period \in Nat \ {0}
  /\ KeygenRetry \in Nat \ {0}
  /\ Offset \in Nat
  /\ UnsignedInterval \in Nat
  /\ KeygenJailSentence \in Nat
  /\ SigningJailSentence \in Nat
  /\ InitialReputation \in Nat
  /\ ReputationIncrement \in Nat
  /\ DecayPercentage \in 0 .. 100
  /\ MaxUsedSignatures \in Nat
-----------------------------------------------------------------------------
Key ==
  [session : Nat, run : Nat, parties : SUBSET Authority, threshold : Nat]

\* (AuthoritySetId, compressed public key)
PublicKey == [set : Nat, key : Key]

RefreshProposal == [nonce : Nat, pub_key : Key, voters : SUBSET Authority]

\* A signature is the key that made it and the proposal it covers.
Signature == [signer : Key, proposal : RefreshProposal]

RoundMetadata ==
  [curr : Key \cup {None}, next : Key, signature : Signature \cup {None}]

\* The absent value of an Option is none of its values.
ASSUME NoneAssumption ==
  /\ None \notin PublicKey
  /\ None \notin Signature
  /\ None \notin RefreshProposal

\* The jails map an authority to the block it was jailed at.
NotJailed == -1

VARIABLES
  block,
  phase,      \* where the block is: see OnInitialize, OnNewSession, SealBlock
  SignatureThreshold, KeygenThreshold,
  NextSignatureThreshold, NextKeygenThreshold,
  PendingSignatureThreshold, PendingKeygenThreshold,
  Authorities, NextAuthorities, BestAuthorities, NextBestAuthorities,
  AuthoritySetId, NextAuthoritySetId,
  AccountToAuthority,     \* authorities whose account is mapped
  DKGPublicKey, DKGPublicKeySignature, PreviousPublicKey,
  UsedSignatures, HistoricalRounds,
  NextDKGPublicKey, NextPublicKeySignature,
  RefreshNonce, RefreshInProgress,
  PendingRefreshProposal, CurrentRefreshProposal,
  ShouldExecuteNewKeygen, ShouldSubmitProposerVote, LastSessionRotationBlock,
  NextUnsignedAt,
  AuthorityReputations, JailedKeygenAuthorities, JailedSigningAuthorities,
  queuedValidators,       \* session pallet: validators of the next session
  refreshQueue,           \* proposal handler: refresh proposals not yet signed
  aggregated,             \* nodes: keys signed off by their parties, to submit
  keygens,                \* nodes: number of keygens completed
  course                  \* the course of this behaviour

clock == <<block, phase>>
activeThresholds == <<SignatureThreshold, KeygenThreshold>>
nextThresholds == <<NextSignatureThreshold, NextKeygenThreshold>>
pendingThresholds == <<PendingSignatureThreshold, PendingKeygenThreshold>>
activeSet == <<Authorities, BestAuthorities, AuthoritySetId>>
nextSet == <<NextAuthorities, NextBestAuthorities, NextAuthoritySetId>>
activeKey == <<DKGPublicKey, DKGPublicKeySignature, PreviousPublicKey,
               UsedSignatures, HistoricalRounds>>
nextKey == <<NextDKGPublicKey, NextPublicKeySignature>>
refresh == <<RefreshNonce, RefreshInProgress,
             PendingRefreshProposal, CurrentRefreshProposal>>
flags == <<ShouldExecuteNewKeygen, ShouldSubmitProposerVote,
           LastSessionRotationBlock>>
discipline == <<AuthorityReputations, JailedKeygenAuthorities,
                JailedSigningAuthorities>>
nodes == <<aggregated, keygens>>
session == <<queuedValidators, AccountToAuthority>>

vars == <<clock, activeThresholds, nextThresholds, pendingThresholds,
          activeSet, nextSet, activeKey, nextKey, refresh, flags,
          NextUnsignedAt, discipline, refreshQueue, nodes, session, course>>
-----------------------------------------------------------------------------
(* Helpers of the pallet *)

KeygenJailed == {a \in Authority : JailedKeygenAuthorities[a] # NotJailed}

\* No member of S outside B outranks a member of B.
TopByReputation(B, S) ==
  \A a \in B, b \in S \ B : AuthorityReputations[a] >= AuthorityReputations[b]

\* get_best_authorities: the unjailed ones, filled up with jailed ones when
\* they are fewer than count, and the count best of these by reputation.
BestAuthoritySets(count, S) ==
  LET unjailed == S \ KeygenJailed
      jailed == S \cap KeygenJailed
  IN  IF Cardinality(unjailed) < count
      THEN {B \in SUBSET S :
              /\ unjailed \subseteq B
              /\ \/ Cardinality(B) = count
                 \/ B = S /\ Cardinality(S) < count
              /\ TopByReputation(B \cap jailed, jailed)}
      ELSE {B \in SUBSET unjailed :
              /\ Cardinality(B) = count
              /\ TopByReputation(B, unjailed)}

Decay(reputation) == (DecayPercentage * reputation) \div 100

\* insert of a storage map
Put(map, k, v) ==
  [x \in DOMAIN map \cup {k} |-> IF x = k THEN v ELSE map[x]]

\* Mutant: the best authorities alone are the voters.
RefreshForBestVoters(key, nonce) ==
  [nonce |-> nonce, pub_key |-> key, voters |-> NextBestAuthorities]

RefreshProposalFor(key, nonce) ==
  [nonce |-> nonce, pub_key |-> key, voters |-> NextAuthorities]

should_refresh ==
  /\ NextDKGPublicKey # None
  /\ NextPublicKeySignature = None

\* Mutant: the signature is not waited for.
EndSessionUnsigned ==
  NextDKGPublicKey # None /\ block >= Offset

\* What (now - offset) % Period >= 0 leaves of the periodic condition.
should_end_session ==
  /\ NextDKGPublicKey # None
  /\ NextPublicKeySignature # None
  /\ block >= Offset
  /\ (block - Offset) % Period >= 0
-----------------------------------------------------------------------------
(* Genesis: the genesis config and on_genesis_session *)

\* GenesisConfig::build
GenesisThresholds ==
  /\ SignatureThreshold = GenesisSignature
  /\ NextSignatureThreshold = GenesisSignature
  /\ PendingSignatureThreshold = GenesisSignature
  /\ KeygenThreshold = GenesisKeygen
  /\ NextKeygenThreshold = GenesisKeygen
  /\ PendingKeygenThreshold = GenesisKeygen
  /\ RefreshNonce = 0

initialize_authorities ==
  /\ Authorities = GenesisAuthorities
  /\ NextAuthorities = GenesisAuthorities
  /\ BestAuthorities \in BestAuthoritySets(GenesisKeygen, GenesisAuthorities)
  /\ NextBestAuthorities = BestAuthorities
  /\ AuthoritySetId = 0
  /\ NextAuthoritySetId = 1

Init ==
  /\ GenesisThresholds
  /\ AuthorityReputations = [a \in Authority |-> 0]
  /\ JailedKeygenAuthorities = [a \in Authority |-> NotJailed]
  /\ JailedSigningAuthorities = [a \in Authority |-> NotJailed]
  /\ initialize_authorities
  /\ block = 0
  /\ phase = "sealed"
  /\ AccountToAuthority = {}
  /\ DKGPublicKey = None
  /\ DKGPublicKeySignature = None
  /\ PreviousPublicKey = None
  /\ UsedSignatures = << >>
  /\ HistoricalRounds = [i \in {} |-> None]
  /\ NextDKGPublicKey = None
  /\ NextPublicKeySignature = None
  /\ RefreshInProgress = FALSE
  /\ PendingRefreshProposal = None
  /\ CurrentRefreshProposal = None
  /\ ShouldExecuteNewKeygen = [execute |-> FALSE, force |-> FALSE]
  /\ ShouldSubmitProposerVote = FALSE
  /\ LastSessionRotationBlock = 0
  /\ NextUnsignedAt = 0
  /\ queuedValidators = GenesisAuthorities
  /\ refreshQueue = {}
  /\ aggregated = {}
  /\ keygens = 0
  /\ course \in Courses
-----------------------------------------------------------------------------
(* Hooks.  A block runs the pallet's on_initialize, then the session       *)
(* pallet's, then its extrinsics; nodes look at the state a block leaves.  *)

\* on_initialize; handled says whether the proposal handler took the refresh
\* proposal (do_refresh).
OnInitialize(handled) ==
  LET now == block + 1
      elapsed == now - LastSessionRotationBlock
      due == elapsed >= Period /\ elapsed % KeygenRetry = 0
      start == should_refresh /\ ~RefreshInProgress
      proposal == RefreshProposalFor(NextDKGPublicKey.key, RefreshNonce + 1)
  IN  /\ phase \in {"sealed", "finalized"}
      /\ now <= course.blocks
      /\ block' = now
      /\ phase' = "session"
      /\ ShouldExecuteNewKeygen' =
           IF due THEN [execute |-> TRUE, force |-> FALSE]
           ELSE IF ShouldExecuteNewKeygen.execute
                THEN [execute |-> FALSE, force |-> FALSE]
                ELSE ShouldExecuteNewKeygen
      /\ PendingRefreshProposal' =
           IF start THEN proposal ELSE PendingRefreshProposal
      /\ RefreshInProgress' = (RefreshInProgress \/ (start /\ handled))
      /\ refreshQueue' =
           IF start /\ handled THEN refreshQueue \cup {proposal}
                               ELSE refreshQueue
      /\ UNCHANGED <<activeThresholds, nextThresholds, pendingThresholds,
                     activeSet, nextSet, activeKey, nextKey, RefreshNonce,
                     CurrentRefreshProposal, ShouldSubmitProposerVote,
                     LastSessionRotationBlock, NextUnsignedAt, discipline,
                     nodes, session, course>>

\* change_authorities makes the next DKG the active one: its authorities,
RotateSet(new) ==
  /\ SignatureThreshold' = NextSignatureThreshold
  /\ KeygenThreshold' = NextKeygenThreshold
  /\ Authorities' = new
  /\ BestAuthorities' = NextBestAuthorities
  /\ AuthoritySetId' = NextAuthoritySetId

\* Mutant: the history is kept under the outgoing set.
HistoryUnderOldRound(signature) ==
  HistoricalRounds' =
    Put(HistoricalRounds, AuthoritySetId,
        [curr |-> IF DKGPublicKey = None THEN None ELSE DKGPublicKey.key,
         next |-> NextDKGPublicKey.key,
         signature |-> signature])

\* the record of the rotation,
insert_historical_refresh(signature) ==
  HistoricalRounds' =
    Put(HistoricalRounds, NextDKGPublicKey.set,
        [curr |-> IF DKGPublicKey = None THEN None ELSE DKGPublicKey.key,
         next |-> NextDKGPublicKey.key,
         signature |-> signature])

\* Mutant: the previous key is read too late.
RotateKeyLateRead(signature) ==
  /\ insert_historical_refresh(signature)
  /\ NextDKGPublicKey' = None
  /\ NextPublicKeySignature' = None
  /\ DKGPublicKey' = NextDKGPublicKey
  /\ DKGPublicKeySignature' = signature
  /\ PreviousPublicKey' = NextDKGPublicKey
  /\ UsedSignatures' = Append(UsedSignatures, DKGPublicKeySignature)
  /\ RefreshNonce' = RefreshNonce + 1

\* and its key.
RotateKey(signature) ==
  /\ insert_historical_refresh(signature)
  /\ NextDKGPublicKey' = None
  /\ NextPublicKeySignature' = None
  /\ DKGPublicKey' = NextDKGPublicKey
  /\ DKGPublicKeySignature' = signature
  /\ PreviousPublicKey' = DKGPublicKey
  /\ UsedSignatures' = IF Len(UsedSignatures) < MaxUsedSignatures
                       THEN Append(UsedSignatures, DKGPublicKeySignature)
                       ELSE UsedSignatures
  /\ RefreshNonce' = RefreshNonce + 1

\* The thresholds that fit a next set of the given size.
ClampSignature(size, threshold) ==
  IF size <= threshold THEN size - 1 ELSE threshold

\* Mutant: the clamp is one short.
ClampKeygenShort(size, threshold) ==
  IF size < threshold THEN size - 1 ELSE threshold

ClampKeygen(size, threshold) ==
  IF size < threshold THEN size ELSE threshold

\* change_authorities, but for the refresh proposals, which its callers set.
ChangeAuthorities(new, next, forced) ==
  LET size == Cardinality(next)
      keygen == ClampKeygen(size, PendingKeygenThreshold)
      sig == ClampSignature(size, PendingSignatureThreshold)
      rotate == /\ NextDKGPublicKey # None
                /\ forced \/ NextPublicKeySignature # None
  IN  /\ NextKeygenThreshold' = keygen
      /\ PendingKeygenThreshold' = keygen
      /\ NextSignatureThreshold' = sig
      /\ PendingSignatureThreshold' = sig
      /\ NextAuthorities' = next
      /\ NextAuthoritySetId' = NextAuthoritySetId + 1
      /\ NextBestAuthorities' \in BestAuthoritySets(keygen, next)
      /\ IF rotate
         THEN /\ RotateSet(new)
              /\ RotateKey(IF forced THEN None ELSE NextPublicKeySignature)
         ELSE UNCHANGED <<activeThresholds, activeSet, activeKey, nextKey,
                          RefreshNonce>>

\* The session pallet's on_initialize: on_new_session if the session ends.
SessionOnInitialize(queued) ==
  /\ phase = "session"
  /\ phase' = "extrinsics"
  /\ IF should_end_session
     THEN /\ ChangeAuthorities(queuedValidators, queued, FALSE)
          /\ RefreshInProgress' = FALSE
          /\ CurrentRefreshProposal' = None
          /\ LastSessionRotationBlock' = block
          /\ AccountToAuthority' = AccountToAuthority
                                     \cup queuedValidators \cup queued
          /\ queuedValidators' = queued
     ELSE UNCHANGED <<activeThresholds, nextThresholds, pendingThresholds,
                      activeSet, nextSet, activeKey, nextKey, RefreshNonce,
                      RefreshInProgress, CurrentRefreshProposal,
                      LastSessionRotationBlock, session>>
  /\ UNCHANGED <<block, PendingRefreshProposal, ShouldExecuteNewKeygen,
                 ShouldSubmitProposerVote, NextUnsignedAt, discipline,
                 refreshQueue, nodes, course>>

SealBlock ==
  /\ phase = "extrinsics"
  /\ phase' = "sealed"
  /\ UNCHANGED <<block, activeThresholds, nextThresholds, pendingThresholds,
                 activeSet, nextSet, activeKey, nextKey, refresh, flags,
                 NextUnsignedAt, discipline, refreshQueue, nodes, session, course>>
-----------------------------------------------------------------------------
(* Root extrinsics *)

RootCall(call) == phase = "extrinsics" /\ call \in course.calls

\* Mutant: the next threshold is set, not the pending one.
set_next_signature_threshold(new_threshold) ==
  /\ RootCall("set_signature_threshold")
  /\ new_threshold > 0
  /\ new_threshold < Cardinality(NextAuthorities)
  /\ NextSignatureThreshold' = new_threshold
  /\ UNCHANGED <<clock, activeThresholds, NextKeygenThreshold,
                 pendingThresholds, activeSet, nextSet, activeKey, nextKey,
                 refresh, flags, NextUnsignedAt, discipline, refreshQueue,
                 nodes, session, course>>

set_signature_threshold(new_threshold) ==
  /\ RootCall("set_signature_threshold")
  /\ new_threshold > 0
  /\ new_threshold < Cardinality(NextAuthorities)
  /\ PendingSignatureThreshold' = new_threshold
  /\ UNCHANGED <<clock, activeThresholds, nextThresholds,
                 PendingKeygenThreshold, activeSet, nextSet, activeKey,
                 nextKey, refresh, flags, NextUnsignedAt, discipline,
                 refreshQueue, nodes, session, course>>

set_keygen_threshold(new_threshold) ==
  /\ RootCall("set_keygen_threshold")
  /\ new_threshold > 1
  /\ new_threshold <= Cardinality(NextAuthorities)
  /\ PendingKeygenThreshold' = new_threshold
  /\ PendingSignatureThreshold' = IF new_threshold <= PendingSignatureThreshold
                                  THEN new_threshold - 1
                                  ELSE PendingSignatureThreshold
  /\ UNCHANGED <<clock, activeThresholds, nextThresholds, activeSet, nextSet,
                 activeKey, nextKey, refresh, flags, NextUnsignedAt,
                 discipline, refreshQueue, nodes, session, course>>

force_unjail_keygen(authority) ==
  /\ RootCall("force_unjail_keygen")
  /\ JailedKeygenAuthorities' =
       [JailedKeygenAuthorities EXCEPT ![authority] = NotJailed]
  /\ UNCHANGED <<clock, activeThresholds, nextThresholds, pendingThresholds,
                 activeSet, nextSet, activeKey, nextKey, refresh, flags,
                 NextUnsignedAt, AuthorityReputations,
                 JailedSigningAuthorities, refreshQueue, nodes, session, course>>

force_unjail_signing(authority) ==
  /\ RootCall("force_unjail_signing")
  /\ JailedSigningAuthorities' =
       [JailedSigningAuthorities EXCEPT ![authority] = NotJailed]
  /\ UNCHANGED <<clock, activeThresholds, nextThresholds, pendingThresholds,
                 activeSet, nextSet, activeKey, nextKey, refresh, flags,
                 NextUnsignedAt, AuthorityReputations,
                 JailedKeygenAuthorities, refreshQueue, nodes, session, course>>

\* The rotated key is asked to sign a refresh proposal for itself.
force_change_authorities(handled) ==
  LET rotated == NextDKGPublicKey # None
      proposal == RefreshProposalFor(NextDKGPublicKey.key, RefreshNonce + 1)
  IN  /\ RootCall("force_change_authorities")
      /\ NextAuthoritySetId < course.sets
      /\ ChangeAuthorities(NextAuthorities, NextAuthorities, TRUE)
      /\ CurrentRefreshProposal' = None
      /\ PendingRefreshProposal' = IF rotated THEN proposal ELSE None
      /\ ShouldSubmitProposerVote' = (ShouldSubmitProposerVote \/ rotated)
      /\ RefreshInProgress' = (rotated /\ handled)
      /\ refreshQueue' = IF rotated /\ handled
                         THEN refreshQueue \cup {proposal} ELSE refreshQueue
      /\ UNCHANGED <<clock, ShouldExecuteNewKeygen, LastSessionRotationBlock,
                     NextUnsignedAt, discipline, nodes, session, course>>

\* Mutant: the signature of the discarded key stays.
EmergencyKeepsSignature ==
  /\ RootCall("trigger_emergency_keygen")
  /\ NextDKGPublicKey' = None
  /\ ShouldExecuteNewKeygen' = [execute |-> TRUE, force |-> TRUE]
  /\ UNCHANGED <<clock, activeThresholds, nextThresholds, pendingThresholds,
                 activeSet, nextSet, activeKey, NextPublicKeySignature,
                 refresh, ShouldSubmitProposerVote, LastSessionRotationBlock,
                 NextUnsignedAt, discipline, refreshQueue, nodes, session, course>>

trigger_emergency_keygen ==
  /\ RootCall("trigger_emergency_keygen")
  /\ NextDKGPublicKey' = None
  /\ NextPublicKeySignature' = None
  /\ ShouldExecuteNewKeygen' = [execute |-> TRUE, force |-> TRUE]
  /\ UNCHANGED <<clock, activeThresholds, nextThresholds, pendingThresholds,
                 activeSet, nextSet, activeKey, refresh,
                 ShouldSubmitProposerVote, LastSessionRotationBlock,
                 NextUnsignedAt, discipline, refreshQueue, nodes, session, course>>
-----------------------------------------------------------------------------
(* Unsigned extrinsics: the results of the nodes *)

\* validate_unsigned: at most one unsigned call per UnsignedInterval.
ValidUnsigned == phase = "extrinsics" /\ NextUnsignedAt <= block

\* process_public_key_submissions rejects the call if one of the signatures
\* is not by a member of authorities; the nodes aggregate more than
\* threshold signatures before they submit.
Reporters(key, authorities, required) ==
  {R \in SUBSET (key.parties \cap authorities) :
     Cardinality(R) > key.threshold /\ Cardinality(R) >= required}

\* Each node keeps its own copy of an aggregated key, which its offchain worker
\* submits in its own time: others may still hold the key once it is accepted.
submit_public_key(key, reporters) ==
  /\ ValidUnsigned
  /\ key \in aggregated
  /\ key.session = 0
  /\ DKGPublicKey = None
  /\ reporters \in Reporters(key, BestAuthorities, SignatureThreshold)
  /\ DKGPublicKey' = [set |-> AuthoritySetId, key |-> key]
  /\ AuthorityReputations' =
       [a \in Authority |->
          IF a \in reporters
          THEN Decay(AuthorityReputations[a]) + InitialReputation
          ELSE AuthorityReputations[a]]
  /\ NextUnsignedAt' = block + UnsignedInterval
  /\ aggregated' \in {aggregated, aggregated \ {key}}
  /\ UNCHANGED <<clock, activeThresholds, nextThresholds, pendingThresholds,
                 activeSet, nextSet, DKGPublicKeySignature, PreviousPublicKey,
                 UsedSignatures, HistoricalRounds, nextKey, refresh, flags,
                 JailedKeygenAuthorities, JailedSigningAuthorities,
                 refreshQueue, keygens, session, course>>

submit_next_public_key(key, reporters) ==
  /\ ValidUnsigned
  /\ key \in aggregated
  /\ key.session # 0
  /\ NextDKGPublicKey = None
  /\ reporters \in Reporters(key, NextBestAuthorities, NextSignatureThreshold)
  /\ NextDKGPublicKey' = [set |-> NextAuthoritySetId, key |-> key]
  /\ AuthorityReputations' =
       [a \in Authority |->
          IF a \in reporters
          THEN AuthorityReputations[a] + ReputationIncrement
          ELSE AuthorityReputations[a]]
  /\ NextUnsignedAt' = block + UnsignedInterval
  /\ RefreshInProgress' = FALSE
  /\ aggregated' \in {aggregated, aggregated \ {key}}
  /\ UNCHANGED <<clock, activeThresholds, nextThresholds, pendingThresholds,
                 activeSet, nextSet, activeKey, NextPublicKeySignature,
                 RefreshNonce, PendingRefreshProposal, CurrentRefreshProposal,
                 flags, JailedKeygenAuthorities, JailedSigningAuthorities,
                 refreshQueue, keygens, session, course>>

\* What submit_misbehaviour_reports checks and does for either kind.
ReportAccepted(offender, authorities, threshold) ==
  /\ ValidUnsigned
  /\ JailedKeygenAuthorities[offender] = NotJailed
  /\ JailedSigningAuthorities[offender] = NotJailed
  /\ offender \in authorities
  /\ \E reporters \in SUBSET (authorities \ {offender}) :
        Cardinality(reporters) > threshold
  /\ AuthorityReputations' =
       [AuthorityReputations EXCEPT ![offender] = Decay(@)]
  /\ UNCHANGED <<clock, activeThresholds, activeSet, activeKey, nextKey,
                 refresh, flags, refreshQueue, nodes, session, course>>

\* Mutant: one party is enough.
AtLeastOne(best) == Cardinality(best) >= 1

\* The "final sanity check" of a keygen report.
AtLeastTwo(best) == Cardinality(best) >= 2

\* A keygen report.  A jailed offender is replaced by the best authority in
\* reserve; with none in reserve the thresholds drop.
submit_keygen_misbehaviour(offender) ==
  LET unjailed == NextBestAuthorities \ KeygenJailed
      rest == unjailed \ {offender}
      member == offender \in unjailed
      reserve == (NextAuthorities \ unjailed) \ KeygenJailed
      size == Cardinality(unjailed)
      drop == member /\ size <= NextKeygenThreshold /\ size > 2
      keygen == IF drop THEN size - 1 ELSE NextKeygenThreshold
      dropSig == /\ drop
                 /\ NextSignatureThreshold >= keygen
                 /\ NextSignatureThreshold # 1
  IN  /\ "keygen_misbehaviour" \in course.calls
      /\ ReportAccepted(offender, NextAuthorities, NextSignatureThreshold)
      /\ JailedKeygenAuthorities' =
           IF member THEN [JailedKeygenAuthorities EXCEPT ![offender] = block]
                     ELSE JailedKeygenAuthorities
      /\ IF member /\ reserve # {}
         THEN /\ \E pick \in reserve :
                   /\ TopByReputation({pick}, reserve)
                   /\ NextBestAuthorities' \in
                        BestAuthoritySets(NextKeygenThreshold,
                                          rest \cup {pick})
              /\ UNCHANGED <<nextThresholds, pendingThresholds,
                             NextUnsignedAt>>
         ELSE /\ NextKeygenThreshold' = keygen
              /\ PendingKeygenThreshold' =
                   IF drop THEN keygen ELSE PendingKeygenThreshold
              /\ NextSignatureThreshold' =
                   IF dropSig THEN NextSignatureThreshold - 1
                              ELSE NextSignatureThreshold
              /\ PendingSignatureThreshold' =
                   IF dropSig THEN NextSignatureThreshold - 1
                              ELSE PendingSignatureThreshold
              /\ NextBestAuthorities' \in BestAuthoritySets(keygen, rest)
              /\ NextUnsignedAt' = block + UnsignedInterval
      /\ AtLeastTwo(NextBestAuthorities')
      /\ UNCHANGED <<NextAuthorities, NextAuthoritySetId,
                     JailedSigningAuthorities>>

\* A signing report.  The filter of the code, "not jailed or not the
\* offender", keeps every best authority: the offender is not jailed.
submit_sign_misbehaviour(offender) ==
  LET size == Cardinality(BestAuthorities)
      few == size < SignatureThreshold
  IN  /\ "sign_misbehaviour" \in course.calls
      /\ ReportAccepted(offender, Authorities, SignatureThreshold)
      /\ JailedSigningAuthorities' =
           IF few /\ size = 0 THEN JailedSigningAuthorities
           ELSE [JailedSigningAuthorities EXCEPT ![offender] = block]
      /\ NextSignatureThreshold' =
           IF few /\ size # 0 THEN size - 1 ELSE NextSignatureThreshold
      /\ PendingSignatureThreshold' =
           IF few /\ size # 0 THEN size - 1 ELSE PendingSignatureThreshold
      /\ NextUnsignedAt' = block + UnsignedInterval
      /\ UNCHANGED <<NextKeygenThreshold, PendingKeygenThreshold, nextSet,
                     JailedKeygenAuthorities>>
-----------------------------------------------------------------------------
(* Signed extrinsic *)

\* An absent jail entry reads as block 0.
unjail(authority) ==
  LET Free(jail, sentence) ==
        IF block > (IF jail[authority] = NotJailed THEN 0 ELSE jail[authority])
                     + sentence
        THEN [jail EXCEPT ![authority] = NotJailed]
        ELSE jail
  IN  /\ phase = "extrinsics"
      /\ authority \in AccountToAuthority
      /\ JailedKeygenAuthorities' =
           Free(JailedKeygenAuthorities, KeygenJailSentence)
      /\ JailedSigningAuthorities' =
           Free(JailedSigningAuthorities, SigningJailSentence)
      /\ UNCHANGED <<clock, activeThresholds, nextThresholds,
                     pendingThresholds, activeSet, nextSet, activeKey,
                     nextKey, refresh, flags, NextUnsignedAt,
                     AuthorityReputations, refreshQueue, nodes, session, course>>
-----------------------------------------------------------------------------
(* The proposal handler and the nodes, as this pallet sees them *)

\* A refresh proposal comes back signed by the active key; the handler has
\* taken it off its queue, and may have purged other refresh proposals.
\* on_signed_proposal stores the signature if it matches the pending one.
OnSignedProposal(proposal) ==
  LET signature == [signer |-> DKGPublicKey.key, proposal |-> proposal]
      accepted == /\ NextDKGPublicKey # None
                  /\ NextPublicKeySignature = None
                  /\ PendingRefreshProposal = proposal
                  /\ \A i \in 1 .. Len(UsedSignatures) :
                        UsedSignatures[i] # signature
  IN  /\ phase = "extrinsics"
      /\ proposal \in refreshQueue
      /\ DKGPublicKey # None
      /\ refreshQueue' \in SUBSET (refreshQueue \ {proposal})
      /\ IF accepted
         THEN /\ NextPublicKeySignature' = signature
              /\ CurrentRefreshProposal' = PendingRefreshProposal
              /\ PendingRefreshProposal' = None
         ELSE UNCHANGED <<NextPublicKeySignature, CurrentRefreshProposal,
                          PendingRefreshProposal>>
      /\ UNCHANGED <<clock, activeThresholds, nextThresholds,
                     pendingThresholds, activeSet, nextSet, activeKey,
                     NextDKGPublicKey, RefreshNonce, RefreshInProgress, flags,
                     NextUnsignedAt, discipline, nodes, session, course>>

\* The handler drops an expired or removed proposal without telling anyone.
DropRefresh(proposal) ==
  /\ phase = "extrinsics"
  /\ proposal \in refreshQueue
  /\ refreshQueue' = refreshQueue \ {proposal}
  /\ UNCHANGED <<clock, activeThresholds, nextThresholds, pendingThresholds,
                 activeSet, nextSet, activeKey, nextKey, refresh, flags,
                 NextUnsignedAt, discipline, nodes, session, course>>

\* The best authorities run a keygen on the state of a sealed block: for
\* genesis while there is no key, or for the next session when told to; at
\* genesis a node goes on to the next one once it has completed a keygen.  The
\* session, under which each of them stores its share, is the id of the queued
\* set as the runtime gives it: one more than the active one.
Keygen(genesis) ==
  LET made == [session |-> IF genesis THEN 0 ELSE AuthoritySetId + 1,
               run |-> keygens,
               parties |-> IF genesis THEN BestAuthorities
                                      ELSE NextBestAuthorities,
               threshold |-> IF genesis THEN SignatureThreshold
                                        ELSE NextSignatureThreshold]
  IN  /\ phase = "sealed"
      /\ keygens < course.keygens
      /\ IF genesis
         THEN AuthoritySetId = 0 /\ DKGPublicKey = None
         ELSE /\ AuthoritySetId # 0 \/ keygens > 0
              /\ ShouldExecuteNewKeygen.execute
              /\ NextDKGPublicKey = None \/ ShouldExecuteNewKeygen.force
      /\ Cardinality(made.parties) > made.threshold
      /\ phase' = "finalized"
      /\ aggregated' = aggregated \cup {made}
      /\ keygens' = keygens + 1
      /\ UNCHANGED <<block, activeThresholds, nextThresholds,
                     pendingThresholds, activeSet, nextSet, activeKey,
                     nextKey, refresh, flags, NextUnsignedAt, discipline,
                     refreshQueue, session, course>>
-----------------------------------------------------------------------------
Root ==
  \/ \E t \in 1 .. Cardinality(NextAuthorities) :
        set_signature_threshold(t) \/ set_keygen_threshold(t)
  \/ \E a \in Authority : force_unjail_keygen(a) \/ force_unjail_signing(a)
  \/ \E handled \in BOOLEAN : force_change_authorities(handled)
  \/ trigger_emergency_keygen

Unsigned ==
  \/ \E key \in aggregated :
        \/ \E R \in SUBSET BestAuthorities : submit_public_key(key, R)
        \/ \E R \in SUBSET NextBestAuthorities : submit_next_public_key(key, R)
  \/ \E a \in Authority :
        submit_keygen_misbehaviour(a) \/ submit_sign_misbehaviour(a)

\* The model ends at its last block; a block that cannot be finished is a deadlock.
Horizon ==
  /\ block = course.blocks
  /\ phase \in {"sealed", "finalized"}
  /\ UNCHANGED vars

Next ==
  \/ \E handled \in BOOLEAN : OnInitialize(handled)
  \/ \E queued \in ValidatorSets : SessionOnInitialize(queued)
  \/ SealBlock
  \/ Root
  \/ Unsigned
  \/ \E a \in Authority : unjail(a)
  \/ \E p \in refreshQueue : OnSignedProposal(p) \/ DropRefresh(p)
  \/ \E genesis \in BOOLEAN : Keygen(genesis)
  \/ Horizon

Spec == Init /\ [][Next]_vars
-----------------------------------------------------------------------------
(* Properties *)

\* The storage items have the types of their declarations.
TypeOK ==
  /\ block \in Nat
  /\ phase \in {"sealed", "finalized", "session", "extrinsics"}
  /\ SignatureThreshold \in Nat /\ KeygenThreshold \in Nat
  /\ NextSignatureThreshold \in Nat /\ NextKeygenThreshold \in Nat
  /\ PendingSignatureThreshold \in Nat /\ PendingKeygenThreshold \in Nat
  /\ Authorities \subseteq Authority /\ NextAuthorities \subseteq Authority
  /\ BestAuthorities \subseteq Authority
  /\ NextBestAuthorities \subseteq Authority
  /\ AccountToAuthority \subseteq Authority
  /\ queuedValidators \subseteq Authority
  /\ AuthoritySetId \in Nat /\ NextAuthoritySetId \in Nat
  /\ DKGPublicKey \in PublicKey \cup {None}
  /\ PreviousPublicKey \in PublicKey \cup {None}
  /\ NextDKGPublicKey \in PublicKey \cup {None}
  /\ DKGPublicKeySignature \in Signature \cup {None}
  /\ NextPublicKeySignature \in Signature \cup {None}
  /\ UsedSignatures \in Seq(Signature \cup {None})
  /\ DOMAIN HistoricalRounds \subseteq Nat
  /\ \A i \in DOMAIN HistoricalRounds : HistoricalRounds[i] \in RoundMetadata
  /\ RefreshNonce \in Nat
  /\ RefreshInProgress \in BOOLEAN
  /\ PendingRefreshProposal \in RefreshProposal \cup {None}
  /\ CurrentRefreshProposal \in RefreshProposal \cup {None}
  /\ ShouldExecuteNewKeygen \in [execute : BOOLEAN, force : BOOLEAN]
  /\ ShouldSubmitProposerVote \in BOOLEAN
  /\ LastSessionRotationBlock \in Nat
  /\ NextUnsignedAt \in Nat
  /\ AuthorityReputations \in [Authority -> Nat]
  /\ JailedKeygenAuthorities \in [Authority -> Nat \cup {NotJailed}]
  /\ JailedSigningAuthorities \in [Authority -> Nat \cup {NotJailed}]
  /\ refreshQueue \in SUBSET RefreshProposal
  /\ aggregated \in SUBSET Key
  /\ keygens \in Nat
  /\ course \in Courses

\* The key on chain belongs to the set on chain: a key is stored and rotated
\* under the id of the authority set that is current then, and a set id is
\* never moved on while its key stays behind.
KeysMatchSets ==
  /\ AuthoritySetId < NextAuthoritySetId
  /\ DKGPublicKey # None => DKGPublicKey.set = AuthoritySetId
  /\ NextDKGPublicKey # None => NextDKGPublicKey.set = NextAuthoritySetId

\* The DKG in charge stays as it was formed: the active thresholds, the
\* authorities, the best authorities and the key change only together, when
\* change_authorities activates the next set, and set ids only grow.  The
\* first key, submitted for the genesis set, is the one exception.
ActiveDKGStable ==
  [][\/ /\ UNCHANGED <<activeThresholds, activeSet>>
        /\ DKGPublicKey # None => UNCHANGED activeKey
     \/ /\ AuthoritySetId' > AuthoritySetId
        /\ DKGPublicKey' = NextDKGPublicKey
        /\ PreviousPublicKey' = DKGPublicKey]_vars

\* A key made for the session it is stored under is held by the best
\* authorities of that session, with the threshold of that session: pending
\* thresholds keep a threshold change from reaching a keygen that already ran.
\* A misbehaviour report is outside this: it changes the next set at once.
SharesMatch ==
  "keygen_misbehaviour" \notin course.calls =>
  /\ (DKGPublicKey # None /\ DKGPublicKey.key.session = DKGPublicKey.set) =>
       /\ DKGPublicKey.key.parties = BestAuthorities
       /\ DKGPublicKey.key.threshold = SignatureThreshold
  /\ (/\ NextDKGPublicKey # None
      /\ NextDKGPublicKey.key.session = NextDKGPublicKey.set) =>
       /\ NextDKGPublicKey.key.parties = NextBestAuthorities
       /\ NextDKGPublicKey.key.threshold = NextSignatureThreshold

\* The bridges follow a rotation by its refresh proposal, so whenever a
\* session change activates a key, the outgoing key has signed exactly that
\* key, the incoming authorities as voters and the nonce that the chain now
\* has.  Root calls are outside this: a forced rotation activates a key with an
\* empty signature, and after it, or after an emergency keygen, a refresh of the
\* key that was replaced may still be signed and stored for the new next key.
RotationCertified ==
  [][(/\ AuthoritySetId' # AuthoritySetId /\ DKGPublicKeySignature' # None
      /\ course.calls \cap {"force_change_authorities",
                            "trigger_emergency_keygen"} = {}) =>
       DKGPublicKeySignature' =
         [signer |-> DKGPublicKey.key,
          proposal |-> [nonce |-> RefreshNonce',
                        pub_key |-> DKGPublicKey'.key,
                        voters |-> Authorities']]]_vars

\* Once a set has more than SignatureThreshold members, what the code adds to
\* the next and pending thresholds keeps it so: there are always enough best
\* authorities to sign, for the active and for the next DKG, unless root sets
\* the signature threshold, which is not held against the keygen threshold, or
\* reports shrink the next set.
EnoughSigners ==
  course.calls \cap {"set_signature_threshold", "keygen_misbehaviour"} = {} =>
  /\ Cardinality(BestAuthorities) > SignatureThreshold
  /\ Cardinality(NextBestAuthorities) > NextSignatureThreshold
  /\ PendingSignatureThreshold < PendingKeygenThreshold

\* HistoricalRounds is a chain that the bridges can follow: each round starts
\* from the key the round before it ended with, and the last round ends with the
\* active key; and since the bridges refuse a nonce they have passed, the signed
\* refreshes recorded for successive rounds carry strictly increasing nonces,
\* none of them ahead of RefreshNonce, through forced rotations and emergency
\* keygens as well.
HistoryIsChain ==
  LET Rounds == DOMAIN HistoricalRounds
      Signed == {i \in Rounds : HistoricalRounds[i].signature # None}
      NonceOf(i) == HistoricalRounds[i].signature.proposal.nonce
      Follows(j, i) == i < j /\ \A k \in Rounds : i < k => j <= k
  IN  /\ \A i, j \in Rounds : Follows(j, i) =>
           HistoricalRounds[j].curr = HistoricalRounds[i].next
      /\ \A i \in Rounds : (\A j \in Rounds : j <= i) =>
           /\ i = AuthoritySetId
           /\ DKGPublicKey.key = HistoricalRounds[i].next
      /\ \A i, j \in Signed : i < j => NonceOf(i) < NonceOf(j)
      /\ \A i \in Signed : NonceOf(i) <= RefreshNonce

\* "At this point the refresh proposal should ALWAYS exist"
\* (change_authorities): a stored signature comes with the next key and with
\* the proposal it signs, so a session change always has it to announce.
RefreshAccounted ==
  NextPublicKeySignature # None =>
    /\ NextDKGPublicKey # None
    /\ CurrentRefreshProposal = NextPublicKeySignature.proposal

\* Misbehaviour reports and set changes never leave the next DKG with fewer
\* than two parties, nor with parties outside the authorities it is for.
NextPartiesSound ==
  /\ Cardinality(NextBestAuthorities) >= 2
  /\ NextBestAuthorities \subseteq NextAuthorities
  /\ NextAuthorities = queuedValidators
  /\ BestAuthorities \subseteq Authorities
=============================================================================
