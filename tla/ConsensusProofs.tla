---------------------------- MODULE ConsensusProofs ----------------------------
(****************************************************************************)
(* Agreement of the 2-chain rules for any set of validators, quorums and    *)
(* tree of blocks.                                                          *)
(*                                                                          *)
(* The first part is close to the code: the types, the copy of the data in  *)
(* memory, and what each action does to the data that the rest of the       *)
(* argument is about (StepKinds).  The second is stated about the votes a   *)
(* validator may have given (Voted: sent, or stored and about to be sent)   *)
(* and the rounds it cannot vote in any more (Past).                        *)
(****************************************************************************)
EXTENDS Consensus, TLAPS

\* The values that the actions store have the type of the stored data.
LEMMA NewSafetyDataType ==
    ASSUME NEW e \in Nat
    PROVE  NewSafetyData(e) \in SafetyData
BY DEF NewSafetyData, SafetyData

\* The copy in memory, when there is one, is what is stored.
LEMMA DataIsStored ==
    ASSUME TypeOK, CacheCoherent, NEW v \in Honest
    PROVE  /\ safety_data(v) = storage[v]
           /\ CachedAfterRead(v) \in {NoData, storage[v]}
BY Zenon DEF TypeOK, CacheCoherent, safety_data, CachedAfterRead

LEMMA DataWithVoteType ==
    ASSUME NEW d \in SafetyData, NEW b \in Blocks
    PROVE  observe_qc([d EXCEPT !.last_voted_round = Round[b], !.last_vote = b], Parent[b])
             \in SafetyData
BY BlocksAssumption DEF SafetyData, observe_qc, Max2

LEMMA DataWithTimeoutType ==
    ASSUME NEW d \in SafetyData, NEW r \in Nat
    PROVE  [d EXCEPT !.last_voted_round = r] \in SafetyData
BY DEF SafetyData

\* A successful write stores and caches the data.
LEMMA SetType ==
    ASSUME TypeOK, CacheCoherent, NEW v \in Honest, NEW d \in SafetyData,
           set_safety_data(v, d) \/ set_safety_data_fails(v, d)
    PROVE  /\ storage' \in [Honest -> SafetyData]
           /\ cached' \in [Honest -> SafetyData \cup {NoData}]
           /\ CacheCoherent'
           /\ \A w \in Honest : w # v => storage'[w] = storage[w]
           /\ storage'[v] \in {storage[v], d}
           /\ set_safety_data(v, d) => storage'[v] = d
<1>1. CASE set_safety_data(v, d)
  BY <1>1, Zenon DEF TypeOK, CacheCoherent, set_safety_data
<1>2. CASE set_safety_data_fails(v, d)
  <2>1. PICK s \in {storage[v], d} : storage' = [storage EXCEPT ![v] = s]
    BY <1>2, Zenon DEF set_safety_data_fails
  <2>2. s \in SafetyData
    BY Zenon DEF TypeOK
  <2>3. cached' = [cached EXCEPT ![v] = NoData]
    BY <1>2, Zenon DEF set_safety_data_fails
  <2>4. set_safety_data(v, d) => s = d
    BY <2>1, Zenon DEF set_safety_data, TypeOK
  <2> QED
    BY <2>1, <2>2, <2>3, <2>4, Zenon DEF TypeOK, CacheCoherent
<1> QED
  BY <1>1, <1>2

LEMMA ReadType ==
    ASSUME TypeOK, CacheCoherent, NEW v \in Honest, ReadOnly(v)
    PROVE  /\ storage' = storage
           /\ cached' \in [Honest -> SafetyData \cup {NoData}]
           /\ CacheCoherent'
<1>1. CachedAfterRead(v) \in {NoData, storage[v]}
  BY DataIsStored
<1> QED
  BY <1>1, Zenon DEF TypeOK, CacheCoherent, ReadOnly

------------------------------------------------------------------------------
\* The kinds of steps, as far as the data that matter for agreement go.

Others(v) == \A w \in Honest : w # v => storage'[w] = storage[w]

\* Nothing is stored; the stored vote may be sent again.
Quiet(v) ==
    /\ \A w \in Honest : storage'[w] = storage[w]
    /\ timeouts' = timeouts
    /\ \/ votes' = votes
       \/ /\ storage[v].last_vote \in Blocks
          /\ votes' = votes \cup {VoteOf(v, storage[v].last_vote)}

EntersEpoch(v) ==
    /\ Others(v)
    /\ storage[v].epoch < storage'[v].epoch
    /\ storage'[v].last_vote = NoBlock
    /\ votes' = votes
    /\ timeouts' = timeouts

\* A vote for b is stored, and may be sent.
VotesFor(v, b) ==
    /\ Others(v)
    /\ Epoch[b] = storage[v].epoch
    /\ Round[b] > storage[v].last_voted_round
    /\ verify_qc(Parent[b])
    /\ verify_well_formed(b)
    /\ \E tc \in TimeoutCerts(Epoch[b]) : safe_to_vote(b, tc) /\ verify_tc(Epoch[b], tc)
    /\ storage'[v].epoch = storage[v].epoch
    /\ storage'[v].last_voted_round = Round[b]
    /\ storage'[v].one_chain_round >= storage[v].one_chain_round
    /\ storage'[v].one_chain_round >= Round[Parent[b]]
    /\ storage'[v].preferred_round >= storage[v].preferred_round
    /\ storage'[v].last_vote = b
    /\ votes' = votes \/ votes' = votes \cup {VoteOf(v, b)}
    /\ timeouts' = timeouts

\* A timeout in round r is stored, and may be sent.
TimesOut(v, r, qc) ==
    /\ Others(v)
    /\ r >= storage[v].last_voted_round
    /\ Round[qc] >= storage[v].one_chain_round
    /\ storage'[v].epoch = storage[v].epoch
    /\ storage'[v].last_voted_round = r
    /\ storage'[v].one_chain_round = storage[v].one_chain_round
    /\ storage'[v].preferred_round = storage[v].preferred_round
    /\ storage'[v].last_vote = storage[v].last_vote
    /\ votes' = votes
    /\ \/ timeouts' = timeouts
       \/ timeouts' = timeouts \cup {TimeoutOf(v, storage[v].epoch, r, Round[qc])}

Kinds(v) ==
    \/ Quiet(v)
    \/ EntersEpoch(v)
    \/ \E b \in Blocks : VotesFor(v, b)
    \/ \E r \in Nat, qc \in Blocks : TimesOut(v, r, qc)

\* What is proved of a step of v.
StepFacts(v) == TypeOK' /\ CacheCoherent' /\ Kinds(v)

\* Initialisation enters a later epoch or stores nothing.
LEMMA InitializeStep ==
    ASSUME TypeOK, CacheCoherent, NEW v \in Honest, NEW e \in Nat, Initialize(v, e)
    PROVE  StepFacts(v)
<1>0. /\ safety_data(v) = storage[v]
      /\ storage[v] \in SafetyData
      /\ NewSafetyData(e) \in SafetyData
  BY DataIsStored, NewSafetyDataType, Zenon DEF TypeOK
<1>1. /\ ProofVerified(v, e)
      /\ validator_signer' \in [Honest -> BOOLEAN]
  BY Zenon DEF TypeOK, Initialize, InitializeNewEpoch, InitializeFails,
     InitializeSameEpoch
<1>2. faults' \in Nat
  BY DEF TypeOK, Fault, Initialize, InitializeNewEpoch, InitializeFails,
     InitializeSameEpoch
<1>3. /\ votes' = votes
      /\ timeouts' = timeouts
      /\ waypoint' \in [Honest -> Nat]
  BY <1>1, Zenon DEF TypeOK, ProofVerified
<1>4. CASE InitializeNewEpoch(v, e) \/ InitializeFails(v, e)
  <2>1. /\ storage[v].epoch < e
        /\ \/ set_safety_data(v, NewSafetyData(e))
           \/ set_safety_data_fails(v, NewSafetyData(e))
    BY <1>0, <1>4, Zenon DEF InitializeNewEpoch, InitializeFails
  <2>2. /\ storage' \in [Honest -> SafetyData]
        /\ cached' \in [Honest -> SafetyData \cup {NoData}]
        /\ CacheCoherent'
        /\ Others(v)
        /\ storage'[v] \in {storage[v], NewSafetyData(e)}
    BY <1>0, <2>1, SetType, Zenon DEF Others
  <2>3. TypeOK'
    BY <1>1, <1>2, <1>3, <2>2, Zenon DEF TypeOK
  <2>4. NewSafetyData(e).epoch = e /\ NewSafetyData(e).last_vote = NoBlock
    BY DEF NewSafetyData
  <2>5. CASE storage'[v] = storage[v]
    BY <1>3, <2>2, <2>3, <2>5, Zenon DEF Others, Quiet, Kinds, StepFacts
  <2>6. CASE storage'[v] = NewSafetyData(e)
    BY <1>3, <2>1, <2>2, <2>3, <2>4, <2>6, Zenon DEF EntersEpoch, Kinds, StepFacts
  <2> QED
    BY <2>2, <2>5, <2>6
<1>5. CASE InitializeSameEpoch(v, e)
  <2>1. /\ storage' = storage
        /\ cached' \in [Honest -> SafetyData \cup {NoData}]
        /\ CacheCoherent'
    BY <1>5, ReadType, Zenon DEF InitializeSameEpoch
  <2>2. TypeOK'
    BY <1>1, <1>2, <1>3, <2>1, Zenon DEF TypeOK
  <2> QED
    BY <1>3, <2>1, <2>2, Zenon DEF Quiet, Kinds, StepFacts
<1> QED
  BY <1>4, <1>5, Zenon DEF Initialize

\* Reading the data and restarting store nothing.
LEMMA QuietStep ==
    ASSUME TypeOK, CacheCoherent, NEW v \in Honest, ConsensusState(v) \/ Restart(v)
    PROVE  StepFacts(v)
<1>1. /\ storage' = storage
      /\ cached' \in [Honest -> SafetyData \cup {NoData}]
      /\ CacheCoherent'
  <2>1. CASE ConsensusState(v)
    BY <2>1, ReadType, Zenon DEF ConsensusState
  <2>2. CASE Restart(v)
    BY <2>2, Zenon DEF Restart, TypeOK, CacheCoherent
  <2> QED
    BY <2>1, <2>2
<1>2. /\ votes' = votes
      /\ timeouts' = timeouts
      /\ waypoint' = waypoint
      /\ validator_signer' \in [Honest -> BOOLEAN]
  BY Zenon DEF TypeOK, ConsensusState, Restart
<1>3. faults' \in Nat
  BY DEF TypeOK, ConsensusState, Restart, Fault
<1> QED
  BY <1>1, <1>2, <1>3, Zenon DEF TypeOK, Quiet, Kinds, StepFacts

\* A vote that is repeated is the stored one.
LEMMA RepeatStep ==
    ASSUME TypeOK, CacheCoherent, NEW v \in Honest, NEW b \in Blocks, RepeatVote(v, b)
    PROVE  StepFacts(v)
<1>1. /\ storage' = storage
      /\ cached' \in [Honest -> SafetyData \cup {NoData}]
      /\ CacheCoherent'
  BY ReadType, Zenon DEF RepeatVote
<1>2. safety_data(v) = storage[v] /\ storage[v] \in SafetyData
  BY DataIsStored, Zenon DEF TypeOK
<1>3. storage[v].last_vote \in Blocks \cup {NoBlock}
  BY <1>2 DEF SafetyData
<1>4. storage[v].last_vote \in Blocks
  BY <1>2, <1>3, Zenon DEF RepeatVote, AlreadyVoted
<1>5. /\ votes' = votes \cup {VoteOf(v, storage[v].last_vote)}
      /\ timeouts' = timeouts
      /\ waypoint' = waypoint
      /\ validator_signer' = validator_signer
      /\ faults' = faults
  BY <1>2, Zenon DEF RepeatVote
<1>6. VoteOf(v, storage[v].last_vote) \in [author : Honest, block : Blocks]
  BY <1>4 DEF VoteOf
<1>7. votes' \subseteq [author : Honest, block : Blocks]
  BY <1>5, <1>6, Zenon DEF TypeOK
<1> QED
  BY <1>1, <1>4, <1>5, <1>7, Zenon DEF TypeOK, Quiet, Kinds, StepFacts

\* The fields of the data that are stored with a vote.
LEMMA DataWithVoteFields ==
    ASSUME NEW d \in SafetyData, NEW b \in Blocks, NEW n,
           n = observe_qc([d EXCEPT !.last_voted_round = Round[b], !.last_vote = b], Parent[b])
    PROVE  /\ n.epoch = d.epoch
           /\ n.last_voted_round = Round[b]
           /\ n.last_vote = b
           /\ n.one_chain_round >= d.one_chain_round
           /\ n.one_chain_round >= Round[Parent[b]]
           /\ n.preferred_round >= d.preferred_round
BY BlocksAssumption DEF SafetyData, observe_qc, Max2

\* A vote is stored before it is sent; a failed write may have stored it.
LEMMA VoteStep ==
    ASSUME TypeOK, CacheCoherent, NEW v \in Honest, NEW b \in Blocks,
           Vote(v, b) \/ VoteFails(v, b)
    PROVE  StepFacts(v)
<1> DEFINE n == DataWithVote(v, b)
<1>1. safety_data(v) = storage[v] /\ storage[v] \in SafetyData
  BY DataIsStored, Zenon DEF TypeOK
<1>2. n = observe_qc([storage[v] EXCEPT !.last_voted_round = Round[b], !.last_vote = b], Parent[b])
  BY <1>1, Zenon DEF DataWithVote
<1>3. n \in SafetyData
  BY <1>1, <1>2, DataWithVoteType, Zenon
<1>4. /\ n.epoch = storage[v].epoch
      /\ n.last_voted_round = Round[b]
      /\ n.last_vote = b
      /\ n.one_chain_round >= storage[v].one_chain_round
      /\ n.one_chain_round >= Round[Parent[b]]
      /\ n.preferred_round >= storage[v].preferred_round
  BY <1>1, <1>2, DataWithVoteFields, Zenon
<1> HIDE DEF n
<1>5. /\ storage' \in [Honest -> SafetyData]
      /\ cached' \in [Honest -> SafetyData \cup {NoData}]
      /\ CacheCoherent'
      /\ Others(v)
      /\ storage'[v] \in {storage[v], n}
      /\ set_safety_data(v, n) => storage'[v] = n
  <2>1. set_safety_data(v, n) \/ set_safety_data_fails(v, n)
    BY Zenon DEF Vote, VoteFails, n
  <2> QED
    BY <1>3, <2>1, SetType, Zenon DEF Others
<1>6. /\ Epoch[b] = storage[v].epoch
      /\ Round[b] > storage[v].last_voted_round
      /\ verify_qc(Parent[b])
      /\ verify_well_formed(b)
      /\ \E tc \in TimeoutCerts(Epoch[b]) : safe_to_vote(b, tc) /\ verify_tc(Epoch[b], tc)
  BY <1>1, Zenon DEF Vote, VoteFails, MayVote, verify_proposal
<1>7. VoteOf(v, b) \in [author : Honest, block : Blocks]
  BY DEF VoteOf
<1>8. /\ votes' = votes \/ votes' = votes \cup {VoteOf(v, b)}
      /\ votes' # votes => set_safety_data(v, n)
      /\ timeouts' = timeouts
      /\ waypoint' = waypoint
      /\ validator_signer' = validator_signer
  BY Zenon DEF Vote, VoteFails, n
<1>9. faults' \in Nat
  BY DEF Vote, VoteFails, Fault, TypeOK
<1>10. TypeOK'
  BY <1>5, <1>7, <1>8, <1>9, Zenon DEF TypeOK
<1>11. CASE storage'[v] = n
  <2>1. VotesFor(v, b)
    BY <1>4, <1>5, <1>6, <1>8, <1>11, Zenon DEF VotesFor
  <2> QED
    BY <1>5, <1>10, <2>1, Zenon DEF Kinds, StepFacts
<1>12. CASE storage'[v] = storage[v] /\ storage'[v] # n
  BY <1>5, <1>8, <1>10, <1>12, Zenon DEF Others, Quiet, Kinds, StepFacts
<1> QED
  BY <1>5, <1>11, <1>12

\* The fields of the data that are stored with a timeout.
LEMMA DataWithTimeoutFields ==
    ASSUME NEW d \in SafetyData, NEW r \in Nat, NEW n,
           n = [d EXCEPT !.last_voted_round = r]
    PROVE  /\ n.epoch = d.epoch
           /\ n.last_voted_round = r
           /\ n.one_chain_round = d.one_chain_round
           /\ n.preferred_round = d.preferred_round
           /\ n.last_vote = d.last_vote
BY DEF SafetyData

\* The round of a timeout is stored before it is signed.
LEMMA TimeoutStep ==
    ASSUME TypeOK, CacheCoherent, NEW v \in Honest, NEW r \in Nat, NEW qc \in Blocks,
           SignTimeout(v, r, qc)
    PROVE  StepFacts(v)
<1> DEFINE n == DataWithTimeout(v, r)
<1> DEFINE t == TimeoutOf(v, storage[v].epoch, r, Round[qc])
<1>1. safety_data(v) = storage[v] /\ storage[v] \in SafetyData
  BY DataIsStored, Zenon DEF TypeOK
<1>2. n = [storage[v] EXCEPT !.last_voted_round = r]
  BY <1>1, Zenon DEF DataWithTimeout
<1> HIDE DEF n
<1>3. n \in SafetyData
  BY <1>1, <1>2, DataWithTimeoutType, Zenon
<1>4. /\ n.epoch = storage[v].epoch
      /\ n.last_voted_round = r
      /\ n.one_chain_round = storage[v].one_chain_round
      /\ n.preferred_round = storage[v].preferred_round
      /\ n.last_vote = storage[v].last_vote
  BY <1>1, <1>2, DataWithTimeoutFields, SMT
<1>5. t \in [author : Honest, epoch : Nat, round : Nat, hqc_round : Nat]
  BY <1>1, BlocksAssumption DEF TimeoutOf, SafetyData
<1>6. /\ MayTimeout(v, r, qc)
      /\ votes' = votes
      /\ waypoint' = waypoint
      /\ validator_signer' = validator_signer
      /\ timeouts' = timeouts \/ timeouts' = timeouts \cup {t}
  BY <1>1, Zenon DEF SignTimeout, Timeout, TimeoutFails, TimeoutAgain, SignedTimeout
<1>7. r >= storage[v].last_voted_round /\ Round[qc] >= storage[v].one_chain_round
  BY <1>1, <1>6, Zenon DEF MayTimeout, safe_to_timeout
<1>8. faults' \in Nat
  BY DEF SignTimeout, Timeout, TimeoutFails, TimeoutAgain, Fault, TypeOK
<1> HIDE DEF t
<1>9. timeouts' \subseteq [author : Honest, epoch : Nat, round : Nat, hqc_round : Nat]
  BY <1>5, <1>6, Zenon DEF TypeOK
<1>10. CASE Timeout(v, r, qc) \/ TimeoutFails(v, r, qc)
  <2>1. /\ set_safety_data(v, n) \/ set_safety_data_fails(v, n)
        /\ timeouts' # timeouts => set_safety_data(v, n)
    BY <1>10, Zenon DEF Timeout, TimeoutFails, n
  <2>2. /\ storage' \in [Honest -> SafetyData]
        /\ cached' \in [Honest -> SafetyData \cup {NoData}]
        /\ CacheCoherent'
        /\ Others(v)
        /\ storage'[v] \in {storage[v], n}
        /\ set_safety_data(v, n) => storage'[v] = n
    BY <1>3, <2>1, SetType, Zenon DEF Others
  <2>3. TypeOK'
    BY <1>6, <1>8, <1>9, <2>2, Zenon DEF TypeOK
  <2>4. CASE storage'[v] = n
    <3>1. TimesOut(v, r, qc)
      BY <1>4, <1>6, <1>7, <2>2, <2>4, Zenon DEF TimesOut, t
    <3> QED
      BY <2>2, <2>3, <3>1, Zenon DEF Kinds, StepFacts
  <2>5. CASE storage'[v] = storage[v] /\ storage'[v] # n
    BY <1>6, <2>1, <2>2, <2>3, <2>5, Zenon DEF Others, Quiet, Kinds, StepFacts
  <2> QED
    BY <2>2, <2>4, <2>5
<1>11. CASE TimeoutAgain(v, r, qc)
  <2>1. /\ storage' = storage
        /\ cached' \in [Honest -> SafetyData \cup {NoData}]
        /\ CacheCoherent'
    BY <1>11, ReadType, Zenon DEF TimeoutAgain
  <2>2. TypeOK'
    BY <1>6, <1>8, <1>9, <2>1, Zenon DEF TypeOK
  <2>3. storage[v].last_voted_round = r
    BY <1>1, <1>11, Zenon DEF TimeoutAgain
  <2>4. TimesOut(v, r, qc)
    BY <1>6, <1>7, <2>1, <2>3, Zenon DEF TimesOut, Others, t
  <2> QED
    BY <2>1, <2>2, <2>4, Zenon DEF Kinds, StepFacts
<1> QED
  BY <1>10, <1>11, Zenon DEF SignTimeout

\* Every step of the network is a step of one validator, of one of the kinds.
LEMMA NextStep ==
    ASSUME TypeOK, CacheCoherent, Next
    PROVE  \E v \in Honest : StepFacts(v)
<1>1. PICK v \in Honest :
        \/ \E e \in {Epoch[b] : b \in Blocks} : Initialize(v, e)
        \/ ConsensusState(v)
        \/ \E b \in Blocks : SignVote(v, b)
        \/ \E qc \in Blocks : \E r \in 1 .. MaxRound[safety_data(v).epoch] :
              SignTimeout(v, r, qc)
        \/ Restart(v)
  BY Zenon DEF Next
<1>2. CASE \E e \in {Epoch[b] : b \in Blocks} : Initialize(v, e)
  <2>1. PICK b \in Blocks : Initialize(v, Epoch[b])
    BY <1>2, Zenon
  <2>2. Epoch[b] \in Nat
    BY BlocksAssumption, Zenon
  <2> QED
    BY <2>1, <2>2, InitializeStep, Zenon
<1>3. CASE ConsensusState(v) \/ Restart(v)
  BY <1>3, QuietStep, Zenon
<1>4. CASE \E b \in Blocks : SignVote(v, b)
  BY <1>4, RepeatStep, VoteStep, Zenon DEF SignVote
<1>5. CASE \E qc \in Blocks : \E r \in 1 .. MaxRound[safety_data(v).epoch] :
              SignTimeout(v, r, qc)
  <2>1. PICK qc \in Blocks : \E r \in 1 .. MaxRound[safety_data(v).epoch] :
          SignTimeout(v, r, qc)
    BY <1>5, Zenon
  <2>2. PICK r \in 1 .. MaxRound[safety_data(v).epoch] : SignTimeout(v, r, qc)
    BY <2>1, Zenon
  <2>3. r \in Nat
    OBVIOUS
  <2> QED
    BY <2>2, <2>3, TimeoutStep, Zenon
<1> QED
  BY <1>1, <1>2, <1>3, <1>4, <1>5

------------------------------------------------------------------------------
\* Results.

LEMMA TypesInvariant == Spec => [](TypeOK /\ CacheCoherent)
<1>1. Init => TypeOK /\ CacheCoherent
  <2>1. NewSafetyData(1) \in SafetyData
    BY NewSafetyDataType
  <2> QED
    BY <2>1 DEF Init, TypeOK, CacheCoherent
<1>2. TypeOK /\ CacheCoherent /\ [Next]_vars => TypeOK' /\ CacheCoherent'
  <2>1. CASE Next
    BY <2>1, NextStep, Zenon DEF StepFacts
  <2>2. CASE UNCHANGED vars
    BY <2>2, Zenon DEF vars, TypeOK, CacheCoherent
  <2> QED
    BY <2>1, <2>2
<1> QED
  BY <1>1, <1>2, PTL DEF Spec

\* The state keeps its type, for any network.
THEOREM ConsensusTypeCorrect == Spec => []TypeOK
BY TypesInvariant, PTL

\* The copy of the safety data in memory never differs from what is stored,
\* although a failed write may or may not have taken effect (set_safety_data
\* drops the copy then).
THEOREM CacheIsCoherent == Spec => []CacheCoherent
BY TypesInvariant, PTL

\* Within an epoch no step lowers the rounds a validator has stored, and no step
\* leads back to an earlier epoch: what every later check is compared with.
THEOREM SafetyDataNeverFalls == Spec => SafetyDataRises
<1>1. TypeOK /\ CacheCoherent /\ [Next]_vars
      => [\A v \in Honest : Rises(storage[v], storage'[v])]_vars
  <2> SUFFICES ASSUME TypeOK, CacheCoherent, Next
               PROVE  \A v \in Honest : Rises(storage[v], storage'[v])
    BY Zenon
  <2>1. PICK v \in Honest : Kinds(v)
    BY NextStep, Zenon DEF StepFacts
  <2>2. \A w \in Honest : Rises(storage[w], storage[w])
    BY DEF Rises, TypeOK, SafetyData
  <2>3. \A w \in Honest : w # v => storage'[w] = storage[w]
    BY <2>1, Zenon DEF Kinds, Quiet, EntersEpoch, VotesFor, TimesOut, Others
  <2>4. Rises(storage[v], storage'[v])
    <3>1. CASE Quiet(v)
      BY <3>1, <2>2, Zenon DEF Quiet
    <3>2. CASE EntersEpoch(v)
      BY <3>2, Zenon DEF EntersEpoch, Rises
    <3>3. ASSUME NEW b \in Blocks, VotesFor(v, b)
          PROVE  Rises(storage[v], storage'[v])
      <4>1. /\ storage[v] \in SafetyData
            /\ storage'[v] \in SafetyData
        BY NextStep, Zenon DEF StepFacts, TypeOK
      <4> QED
        BY <3>3, <4>1, BlocksAssumption DEF VotesFor, Rises, SafetyData
    <3>4. ASSUME NEW r \in Nat, NEW qc \in Blocks, TimesOut(v, r, qc)
          PROVE  Rises(storage[v], storage'[v])
      <4>1. storage[v] \in SafetyData
        BY Zenon DEF TypeOK
      <4> QED
        BY <3>4, <4>1 DEF TimesOut, Rises, SafetyData
    <3> QED
      BY <2>1, <3>1, <3>2, <3>3, <3>4, Zenon DEF Kinds
  <2> QED
    BY <2>2, <2>3, <2>4, Zenon
<1> QED
  BY <1>1, TypesInvariant, PTL DEF Spec, SafetyDataRises

-----------------------------------------------------------------------------
(* Votes, rounds and certificates *)

Voted(v, b) == VoteOf(v, b) \in votes \/ storage[v].last_vote = b

\* v votes no more in round r of epoch e.
Past(v, e, r) ==
    \/ storage[v].epoch > e
    \/ storage[v].epoch = e /\ storage[v].last_voted_round >= r

\* b will never be certified: in every quorum somebody has missed it.
NeverCertified(b) ==
    \A Q \in Quorums : \E v \in Q \cap Honest : Past(v, Epoch[b], Round[b]) /\ ~Voted(v, b)

\* b and its parent are of consecutive rounds: a certificate of b commits it.
Commits(b) ==
    Round[b] = Round[Parent[b]] + 1 /\ Epoch[Parent[b]] = Epoch[b]

\* The inductive invariant.  A vote given is a round passed, with its parent's
\* round observed.
VotesArePast ==
    \A v \in Honest, b \in Blocks : Voted(v, b) =>
        /\ Past(v, Epoch[b], Round[b])
        /\ storage[v].epoch = Epoch[b] => storage[v].one_chain_round >= Round[Parent[b]]

OneVote ==
    \A v \in Honest, b, c \in Blocks :
        Voted(v, b) /\ Voted(v, c) /\ Epoch[b] = Epoch[c] /\ Round[b] = Round[c] => b = c

LastVoteOfEpoch ==
    \A v \in Honest, b \in Blocks : storage[v].last_vote = b => Epoch[b] = storage[v].epoch

VotesAreValid ==
    \A v \in Honest, b \in Blocks : Voted(v, b) => verify_well_formed(b) /\ verify_qc(Parent[b])

TimeoutsArePast ==
    \A v \in Honest, e, r, q \in Nat : TimeoutOf(v, e, r, q) \in timeouts => Past(v, e, r)

TimeoutsTell ==
    \A v \in Honest, b \in Blocks, r, q \in Nat :
        Voted(v, b) /\ TimeoutOf(v, Epoch[b], r, q) \in timeouts /\ Round[b] <= r
        => Round[Parent[b]] <= q

\* The core: who votes above b either extends b's parent, or b is lost.
VotesExtend ==
    \A v \in Honest, b, c \in Blocks :
        Voted(v, c) /\ Commits(b) /\ Epoch[b] = Epoch[c] /\ Round[b] < Round[c]
        => Parent[b] \in Ancestors[c] \/ NeverCertified(b)

Inv ==
    /\ TypeOK
    /\ CacheCoherent
    /\ VotesArePast
    /\ OneVote
    /\ LastVoteOfEpoch
    /\ VotesAreValid
    /\ TimeoutsArePast
    /\ TimeoutsTell
    /\ VotesExtend

------------------------------------------------------------------------------
\* Steps, in terms of Voted and Past.

LEMMA VoteOfInjective ==
    ASSUME NEW v, NEW b, NEW w, NEW c, VoteOf(v, b) = VoteOf(w, c)
    PROVE  v = w /\ b = c
BY DEF VoteOf

LEMMA TimeoutOfInjective ==
    ASSUME NEW v, NEW e, NEW r, NEW q, NEW w, NEW f, NEW s, NEW p,
           TimeoutOf(v, e, r, q) = TimeoutOf(w, f, s, p)
    PROVE  v = w /\ e = f /\ r = s /\ q = p
BY DEF TimeoutOf

\* The fields of the data are numbers.
LEMMA DataFields ==
    ASSUME NEW d \in SafetyData
    PROVE  /\ d.epoch \in Nat
           /\ d.last_voted_round \in Nat
           /\ d.one_chain_round \in Nat
           /\ d.last_vote \in Blocks \cup {NoBlock}
BY DEF SafetyData

\* What a step does to the numbers that one validator has stored.
LEMMA DataStep ==
    ASSUME TypeOK, TypeOK', NEW v \in Honest, Kinds(v), NEW w \in Honest
    PROVE  /\ storage[w].epoch \in Nat /\ storage[w].last_voted_round \in Nat
           /\ storage[w].one_chain_round \in Nat
           /\ storage'[w].epoch \in Nat /\ storage'[w].last_voted_round \in Nat
           /\ storage'[w].one_chain_round \in Nat
           /\ \/ storage'[w] = storage[w]
              \/ storage[w].epoch < storage'[w].epoch
              \/ /\ storage'[w].epoch = storage[w].epoch
                 /\ storage'[w].last_voted_round >= storage[w].last_voted_round
                 /\ storage'[w].one_chain_round >= storage[w].one_chain_round
<1>1. /\ storage[w].epoch \in Nat /\ storage[w].last_voted_round \in Nat
      /\ storage[w].one_chain_round \in Nat
      /\ storage'[w].epoch \in Nat /\ storage'[w].last_voted_round \in Nat
      /\ storage'[w].one_chain_round \in Nat
  <2>1. storage[w] \in SafetyData /\ storage'[w] \in SafetyData
    BY Zenon DEF TypeOK
  <2> QED
    BY <2>1, DataFields, Zenon
<1>2. CASE w # v \/ Quiet(v) \/ EntersEpoch(v)
  BY <1>1, <1>2, Zenon DEF Kinds, Quiet, EntersEpoch, VotesFor, TimesOut, Others
<1>3. ASSUME NEW b \in Blocks, VotesFor(v, b), w = v
      PROVE  /\ storage'[w].epoch = storage[w].epoch
             /\ storage'[w].last_voted_round >= storage[w].last_voted_round
             /\ storage'[w].one_chain_round >= storage[w].one_chain_round
  BY <1>1, <1>3, BlocksAssumption DEF VotesFor
<1>4. ASSUME NEW r \in Nat, NEW qc \in Blocks, TimesOut(v, r, qc), w = v
      PROVE  /\ storage'[w].epoch = storage[w].epoch
             /\ storage'[w].last_voted_round >= storage[w].last_voted_round
             /\ storage'[w].one_chain_round >= storage[w].one_chain_round
  BY <1>1, <1>4 DEF TimesOut
<1> QED
  BY <1>1, <1>2, <1>3, <1>4, Zenon DEF Kinds

\* Rounds that are past stay past.
LEMMA PastStays ==
    ASSUME TypeOK, TypeOK', NEW v \in Honest, Kinds(v),
           NEW w \in Honest, NEW e \in Nat, NEW r \in Nat, Past(w, e, r)
    PROVE  Past(w, e, r)'
<1>1. CASE storage'[w] = storage[w]
  BY <1>1, Zenon DEF Past
<1>2. CASE \/ storage[w].epoch < storage'[w].epoch
           \/ /\ storage'[w].epoch = storage[w].epoch
              /\ storage'[w].last_voted_round >= storage[w].last_voted_round
  BY <1>2, DataStep DEF Past
<1> QED
  BY <1>1, <1>2, DataStep, Zenon

\* Only a step that stores a vote adds one.
LEMMA VotedBefore ==
    ASSUME TypeOK, NEW v \in Honest, Kinds(v),
           NEW w \in Honest, NEW c \in Blocks, Voted(w, c)'
    PROVE  Voted(w, c) \/ (w = v /\ VotesFor(v, c))
<1>1. VoteOf(w, c) \in votes' \/ storage'[w].last_vote = c
  BY Zenon DEF Voted
<1>2. CASE Quiet(v)
  <2>1. storage'[w] = storage[w]
    BY <1>2, Zenon DEF Quiet
  <2>2. \/ VoteOf(w, c) \in votes
        \/ storage[w].last_vote = c
        \/ VoteOf(w, c) = VoteOf(v, storage[v].last_vote)
    BY <1>1, <1>2, <2>1, Zenon DEF Quiet
  <2>3. CASE VoteOf(w, c) = VoteOf(v, storage[v].last_vote)
    <3>1. w = v /\ c = storage[v].last_vote
      BY <2>3, VoteOfInjective
    <3> QED
      BY <3>1, Zenon DEF Voted
  <2> QED
    BY <2>2, <2>3, Zenon DEF Voted
<1>3. CASE EntersEpoch(v)
  <2>1. c # NoBlock
    BY BlocksAssumption, Zenon
  <2> QED
    BY <1>1, <1>3, <2>1, Zenon DEF EntersEpoch, Others, Voted
<1>4. ASSUME NEW b \in Blocks, VotesFor(v, b)
      PROVE  Voted(w, c) \/ (w = v /\ VotesFor(v, c))
  <2>1. Voted(w, c) \/ (w = v /\ c = b)
    <3>1. \/ VoteOf(w, c) \in votes
          \/ storage[w].last_vote = c
          \/ w = v /\ c = b
          \/ VoteOf(w, c) = VoteOf(v, b)
      BY <1>1, <1>4, Zenon DEF VotesFor, Others
    <3>2. VoteOf(w, c) = VoteOf(v, b) => w = v /\ c = b
      BY VoteOfInjective
    <3> QED
      BY <3>1, <3>2, Zenon DEF Voted
  <2> QED
    BY <1>4, <2>1, Zenon
<1>5. ASSUME NEW r \in Nat, NEW qc \in Blocks, TimesOut(v, r, qc)
      PROVE  Voted(w, c)
  BY <1>1, <1>5, Zenon DEF TimesOut, Others, Voted
<1> QED
  BY <1>2, <1>3, <1>4, <1>5, Zenon DEF Kinds

\* A vote is given in a round that is not past, which is past afterwards.
LEMMA NewVoteNotPast ==
    ASSUME TypeOK, NEW v \in Honest, NEW b \in Blocks, VotesFor(v, b)
    PROVE  /\ ~Past(v, Epoch[b], Round[b])
           /\ Past(v, Epoch[b], Round[b])'
<1>1. storage[v] \in SafetyData /\ Epoch[b] \in Nat /\ Round[b] \in Nat
  BY BlocksAssumption, Zenon DEF TypeOK
<1>2. storage[v].epoch \in Nat /\ storage[v].last_voted_round \in Nat
  BY <1>1, DataFields, Zenon
<1>3. /\ Epoch[b] = storage[v].epoch
      /\ Round[b] > storage[v].last_voted_round
      /\ storage'[v].epoch = storage[v].epoch
      /\ storage'[v].last_voted_round = Round[b]
  BY Zenon DEF VotesFor
<1> QED
  BY <1>1, <1>2, <1>3 DEF Past

\* Who has missed a block does not vote for it later.
LEMMA NeverCertifiedStays ==
    ASSUME TypeOK, TypeOK', NEW v \in Honest, Kinds(v), NEW b \in Blocks, NeverCertified(b)
    PROVE  NeverCertified(b)'
<1> SUFFICES ASSUME NEW Q \in Quorums
             PROVE  \E w \in Q \cap Honest : Past(w, Epoch[b], Round[b])' /\ ~Voted(w, b)'
  BY Zenon DEF NeverCertified
<1>1. PICK w \in Q \cap Honest : Past(w, Epoch[b], Round[b]) /\ ~Voted(w, b)
  BY Zenon DEF NeverCertified
<1>2. Epoch[b] \in Nat /\ Round[b] \in Nat
  BY BlocksAssumption, Zenon
<1>3. Past(w, Epoch[b], Round[b])'
  BY <1>1, <1>2, PastStays, Zenon
<1>4. ~Voted(w, b)'
  BY <1>1, VotedBefore, NewVoteNotPast, Zenon
<1> QED
  BY <1>3, <1>4, Zenon

\* Certificates do not go away.
LEMMA VotesStay ==
    ASSUME NEW v \in Honest, Kinds(v)
    PROVE  votes \subseteq votes' /\ timeouts \subseteq timeouts'
BY Zenon DEF Kinds, Quiet, EntersEpoch, VotesFor, TimesOut

LEMMA QCStays ==
    ASSUME NEW v \in Honest, Kinds(v), NEW b \in Blocks, verify_qc(b)
    PROVE  verify_qc(b)'
<1>1. QuorumsFor(b) \subseteq QuorumsFor(b)'
  BY VotesStay, Zenon DEF QuorumsFor
<1> QED
  BY <1>1, Zenon DEF verify_qc, Certified

\* A certified block has a quorum of honest votes, and every quorum shares an
\* honest validator with it.
LEMMA CertifiedMeets ==
    ASSUME NEW b \in Blocks, Certified(b), NEW Q \in Quorums
    PROVE  \E v \in Q \cap Honest : Voted(v, b)
<1>1. PICK C \in Quorums : \A v \in C \cap Honest : VoteOf(v, b) \in votes
  BY Zenon DEF Certified, QuorumsFor
<1>2. PICK v : v \in Q \cap C \cap Honest
  BY QuorumAssumption, Zenon
<1> QED
  BY <1>1, <1>2, Zenon DEF Voted

\* Two certified blocks of a round are the same.
LEMMA CertifiedUnique ==
    ASSUME OneVote, NEW b \in Blocks, NEW c \in Blocks, Certified(b), Certified(c),
           Epoch[b] = Epoch[c], Round[b] = Round[c]
    PROVE  b = c
<1>1. PICK C \in Quorums : \A v \in C \cap Honest : VoteOf(v, b) \in votes
  BY Zenon DEF Certified, QuorumsFor
<1>2. PICK v \in C \cap Honest : Voted(v, c)
  BY CertifiedMeets, Zenon
<1> QED
  BY <1>1, <1>2, Zenon DEF OneVote, Voted

------------------------------------------------------------------------------
\* The conjuncts of the invariant, one by one.

LEMMA VotesArePastStep ==
    ASSUME Inv, TypeOK', NEW v \in Honest, Kinds(v)
    PROVE  VotesArePast'
<1> SUFFICES ASSUME NEW w \in Honest, NEW c \in Blocks, Voted(w, c)'
             PROVE  /\ Past(w, Epoch[c], Round[c])'
                    /\ storage'[w].epoch = Epoch[c]
                       => storage'[w].one_chain_round >= Round[Parent[c]]
  BY Zenon DEF VotesArePast
<1>0. /\ TypeOK
      /\ Epoch[c] \in Nat /\ Round[c] \in Nat /\ Round[Parent[c]] \in Nat
  BY BlocksAssumption, Zenon DEF Inv
<1>1. CASE Voted(w, c)
  <2>1. /\ Past(w, Epoch[c], Round[c])
        /\ storage[w].epoch = Epoch[c] => storage[w].one_chain_round >= Round[Parent[c]]
    BY <1>1, Zenon DEF Inv, VotesArePast
  <2>2. Past(w, Epoch[c], Round[c])'
    BY <1>0, <2>1, PastStays, Zenon
  <2>3. CASE storage'[w] = storage[w]
    BY <2>1, <2>2, <2>3, Zenon
  <2>4. CASE storage[w].epoch < storage'[w].epoch
    BY <1>0, <2>1, <2>2, <2>4, DataStep, SMTT(30) DEF Past
  <2>5. CASE /\ storage'[w].epoch = storage[w].epoch
             /\ storage'[w].one_chain_round >= storage[w].one_chain_round
    BY <1>0, <2>1, <2>2, <2>5, DataStep
  <2> QED
    BY <1>0, <2>3, <2>4, <2>5, DataStep, Zenon
<1>2. CASE w = v /\ VotesFor(v, c)
  BY <1>0, <1>2, NewVoteNotPast, Zenon DEF VotesFor
<1> QED
  BY <1>0, <1>1, <1>2, VotedBefore, Zenon

LEMMA OneVoteStep ==
    ASSUME Inv, NEW v \in Honest, Kinds(v)
    PROVE  OneVote'
<1> SUFFICES ASSUME NEW w \in Honest, NEW b \in Blocks, NEW c \in Blocks,
                    Voted(w, b)', Voted(w, c)', Epoch[b] = Epoch[c], Round[b] = Round[c]
             PROVE  b = c
  BY Zenon DEF OneVote
<1>0. TypeOK
  BY Zenon DEF Inv
<1>1. \A d \in Blocks : Voted(w, d) => Past(w, Epoch[d], Round[d])
  BY Zenon DEF Inv, VotesArePast
<1>2. \A d \in Blocks : w = v /\ VotesFor(v, d) => ~Past(w, Epoch[d], Round[d])
  BY <1>0, NewVoteNotPast, Zenon
<1>3. CASE Voted(w, b) /\ Voted(w, c)
  BY <1>3, Zenon DEF Inv, OneVote
<1>4. CASE w = v /\ VotesFor(v, b) /\ VotesFor(v, c)
  BY <1>4, Zenon DEF VotesFor
<1> QED
  BY <1>0, <1>1, <1>2, <1>3, <1>4, VotedBefore, Zenon

LEMMA LastVoteOfEpochStep ==
    ASSUME Inv, NEW v \in Honest, Kinds(v)
    PROVE  LastVoteOfEpoch'
<1> SUFFICES ASSUME NEW w \in Honest, NEW c \in Blocks, storage'[w].last_vote = c
             PROVE  Epoch[c] = storage'[w].epoch
  BY Zenon DEF LastVoteOfEpoch
<1>1. c # NoBlock
  BY BlocksAssumption, Zenon
<1>2. storage[w].last_vote = c => Epoch[c] = storage[w].epoch
  BY Zenon DEF Inv, LastVoteOfEpoch
<1> QED
  BY <1>1, <1>2, Zenon DEF Kinds, Quiet, EntersEpoch, VotesFor, TimesOut, Others

LEMMA VotesAreValidStep ==
    ASSUME Inv, NEW v \in Honest, Kinds(v)
    PROVE  VotesAreValid'
<1> SUFFICES ASSUME NEW w \in Honest, NEW c \in Blocks, Voted(w, c)'
             PROVE  verify_well_formed(c) /\ verify_qc(Parent[c])'
  BY Zenon DEF VotesAreValid, verify_well_formed, ends_epoch, CommitInfo, next_round
<1>1. TypeOK /\ Parent[c] \in Blocks
  BY BlocksAssumption, Zenon DEF Inv
<1>2. Voted(w, c) => verify_well_formed(c) /\ verify_qc(Parent[c])
  BY Zenon DEF Inv, VotesAreValid
<1>3. VotesFor(v, c) => verify_well_formed(c) /\ verify_qc(Parent[c])
  BY Zenon DEF VotesFor
<1> QED
  BY <1>1, <1>2, <1>3, VotedBefore, QCStays, Zenon

\* Only a step that stores a timeout adds one.
LEMMA TimeoutBefore ==
    ASSUME NEW v \in Honest, Kinds(v), NEW w \in Honest, NEW e, NEW r, NEW q,
           TimeoutOf(w, e, r, q) \in timeouts'
    PROVE  \/ TimeoutOf(w, e, r, q) \in timeouts
           \/ \E qc \in Blocks :
                /\ TimesOut(v, r, qc)
                /\ w = v /\ e = storage[v].epoch /\ q = Round[qc]
<1>1. CASE Quiet(v) \/ EntersEpoch(v) \/ \E b \in Blocks : VotesFor(v, b)
  BY <1>1, Zenon DEF Quiet, EntersEpoch, VotesFor
<1>2. ASSUME NEW s \in Nat, NEW qc \in Blocks, TimesOut(v, s, qc),
             TimeoutOf(w, e, r, q) \notin timeouts
      PROVE  TimesOut(v, r, qc) /\ w = v /\ e = storage[v].epoch /\ q = Round[qc]
  <2>1. TimeoutOf(w, e, r, q) = TimeoutOf(v, storage[v].epoch, s, Round[qc])
    BY <1>2, Zenon DEF TimesOut
  <2>2. w = v /\ e = storage[v].epoch /\ r = s /\ q = Round[qc]
    BY <2>1, TimeoutOfInjective
  <2> QED
    BY <1>2, <2>2, Zenon
<1> QED
  BY <1>1, <1>2, Zenon DEF Kinds

LEMMA TimeoutsArePastStep ==
    ASSUME Inv, TypeOK', NEW v \in Honest, Kinds(v)
    PROVE  TimeoutsArePast'
<1> SUFFICES ASSUME NEW w \in Honest, NEW e \in Nat, NEW r \in Nat, NEW q \in Nat,
                    TimeoutOf(w, e, r, q) \in timeouts'
             PROVE  Past(w, e, r)'
  BY Zenon DEF TimeoutsArePast, TimeoutOf
<1>0. TypeOK
  BY Zenon DEF Inv
<1>1. CASE TimeoutOf(w, e, r, q) \in timeouts
  <2>1. Past(w, e, r)
    BY <1>1, Zenon DEF Inv, TimeoutsArePast
  <2> QED
    BY <1>0, <2>1, PastStays, Zenon
<1>2. ASSUME NEW qc \in Blocks, TimesOut(v, r, qc), w = v, e = storage[v].epoch
      PROVE  Past(w, e, r)'
  BY <1>2 DEF TimesOut, Past
<1> QED
  BY <1>1, <1>2, TimeoutBefore, ZenonT(30)

LEMMA TimeoutsTellStep ==
    ASSUME Inv, NEW v \in Honest, Kinds(v)
    PROVE  TimeoutsTell'
<1> SUFFICES ASSUME NEW w \in Honest, NEW b \in Blocks, NEW r \in Nat, NEW q \in Nat,
                    Voted(w, b)', TimeoutOf(w, Epoch[b], r, q) \in timeouts', Round[b] <= r
             PROVE  Round[Parent[b]] <= q
  BY Zenon DEF TimeoutsTell, TimeoutOf
<1>0. /\ TypeOK
      /\ Epoch[b] \in Nat /\ Round[b] \in Nat /\ Round[Parent[b]] \in Nat
      /\ storage[w].epoch \in Nat /\ storage[w].last_voted_round \in Nat
      /\ storage[w].one_chain_round \in Nat
  <2>1. TypeOK /\ storage[w] \in SafetyData
    BY Zenon DEF Inv, TypeOK
  <2> QED
    BY <2>1, DataFields, BlocksAssumption, Zenon
<1>1. CASE Voted(w, b) /\ TimeoutOf(w, Epoch[b], r, q) \in timeouts
  BY <1>1, Zenon DEF Inv, TimeoutsTell
\* The vote came first: the timeout tells of the round observed with it.
<1>2. ASSUME NEW qc \in Blocks, TimesOut(v, r, qc), w = v, Epoch[b] = storage[v].epoch,
             q = Round[qc], Voted(w, b)
      PROVE  Round[Parent[b]] <= q
  <2>1. storage[w].one_chain_round >= Round[Parent[b]]
    BY <1>2, Zenon DEF Inv, VotesArePast
  <2>2. q >= storage[w].one_chain_round
    BY <1>2, Zenon DEF TimesOut
  <2> QED
    BY <1>0, <2>1, <2>2
\* The timeout came first: no vote follows in its rounds.
<1>3. ASSUME w = v, VotesFor(v, b), TimeoutOf(w, Epoch[b], r, q) \in timeouts
      PROVE  FALSE
  <2>1. Past(w, Epoch[b], r)
    BY <1>0, <1>3, Zenon DEF Inv, TimeoutsArePast
  <2>2. Past(w, Epoch[b], Round[b])
    BY <1>0, <2>1 DEF Past
  <2> QED
    BY <1>0, <1>3, <2>2, NewVoteNotPast, Zenon
<1>4. VotesFor(v, b) => timeouts' = timeouts
  BY Zenon DEF VotesFor
<1>5. CASE Voted(w, b)
  <2>1. \/ TimeoutOf(w, Epoch[b], r, q) \in timeouts
        \/ \E qc \in Blocks :
             TimesOut(v, r, qc) /\ w = v /\ Epoch[b] = storage[v].epoch /\ q = Round[qc]
    BY TimeoutBefore
  <2>2. CASE \E qc \in Blocks :
             TimesOut(v, r, qc) /\ w = v /\ Epoch[b] = storage[v].epoch /\ q = Round[qc]
    BY <1>2, <1>5, <2>2
  <2> QED
    BY <1>1, <1>5, <2>1, <2>2
<1> QED
  BY <1>0, <1>3, <1>4, <1>5, VotedBefore, Zenon

LEMMA TimeoutCertType ==
    ASSUME NEW b \in Blocks, NEW tc \in TimeoutCerts(Epoch[b]), tc # NoTC
    PROVE  tc.round \in Nat /\ tc.hqc_round \in Nat
<1>1. MaxRound[Epoch[b]] \in Nat
  BY BoundsAssumption, Zenon
<1>2. tc \in [round : 1 .. MaxRound[Epoch[b]], hqc_round : 0 .. MaxRound[Epoch[b]]]
  BY Zenon DEF TimeoutCerts
<1> QED
  BY <1>1, <1>2

\* The quorum of a timeout certificate meets every quorum in an honest validator
\* that has timed out with a certificate of at most the certificate's round.
LEMMA TimeoutCertMeets ==
    ASSUME NEW b \in Blocks, NEW tc \in TimeoutCerts(Epoch[b]), tc # NoTC,
           verify_tc(Epoch[b], tc), NEW Q \in Quorums
    PROVE  \E v \in Q \cap Honest, q \in Nat :
              q <= tc.hqc_round /\ TimeoutOf(v, Epoch[b], tc.round, q) \in timeouts
<1>1. tc.hqc_round \in Nat
  BY TimeoutCertType
<1>2. PICK T \in Quorums :
        \A v \in T \cap Honest : \E q \in 0 .. tc.hqc_round :
            TimeoutOf(v, Epoch[b], tc.round, q) \in timeouts
  BY Zenon DEF verify_tc
<1>3. PICK v : v \in Q \cap T \cap Honest
  BY QuorumAssumption, Zenon
<1>4. PICK q \in 0 .. tc.hqc_round : TimeoutOf(v, Epoch[b], tc.round, q) \in timeouts
  BY <1>2, <1>3, Zenon
<1>5. q \in Nat /\ q <= tc.hqc_round
  BY <1>1
<1> QED
  BY <1>3, <1>4, <1>5, Zenon

\* A certificate of a later round is passed over only with a timeout certificate.
LEMMA SkippingNeedsTC ==
    ASSUME NEW v \in Honest, NEW b \in Blocks, NEW c \in Blocks, VotesFor(v, c), Commits(b),
           Round[b] < Round[c], Round[Parent[c]] < Round[b]
    PROVE  \E tc \in TimeoutCerts(Epoch[c]) :
              /\ tc # NoTC
              /\ verify_tc(Epoch[c], tc)
              /\ tc.round \in Nat /\ tc.round >= Round[b]
              /\ tc.hqc_round \in Nat /\ tc.hqc_round <= Round[Parent[c]]
<1>1. PICK tc \in TimeoutCerts(Epoch[c]) : safe_to_vote(c, tc) /\ verify_tc(Epoch[c], tc)
  BY Zenon DEF VotesFor
<1>2. /\ Round[b] \in Nat /\ Round[c] \in Nat
      /\ Round[Parent[c]] \in Nat /\ Round[Parent[b]] \in Nat
      /\ Round[b] = Round[Parent[b]] + 1
  BY BlocksAssumption, Zenon DEF Commits
<1>3. Round[c] = tc.round + 1 /\ Round[Parent[c]] >= tc.hqc_round
  BY <1>1, <1>2 DEF safe_to_vote, next_round
<1>4. tc # NoTC
  BY <1>2, <1>3 DEF NoTC
<1>5. tc.round \in Nat /\ tc.hqc_round \in Nat
  BY <1>4, TimeoutCertType
<1>6. tc.round >= Round[b] /\ tc.hqc_round <= Round[Parent[c]]
  BY <1>2, <1>3, <1>5
<1> QED
  BY <1>1, <1>4, <1>5, <1>6, Zenon

\* A vote that passes over b leaves b without a certificate for ever: the quorum
\* that timed out has not voted for b, and will not.
LEMMA SkippedIsLost ==
    ASSUME Inv, NEW v \in Honest, NEW b \in Blocks, NEW c \in Blocks, VotesFor(v, c),
           Commits(b), Epoch[b] = Epoch[c], Round[b] < Round[c], Round[Parent[c]] < Round[b],
           Parent[c] # Parent[b]
    PROVE  NeverCertified(b)
<1> SUFFICES ASSUME NEW Q \in Quorums
             PROVE  \E w \in Q \cap Honest : Past(w, Epoch[b], Round[b]) /\ ~Voted(w, b)
  BY Zenon DEF NeverCertified
<1> DEFINE P == Parent[c]
<1>0. /\ Epoch[b] \in Nat /\ Round[b] \in Nat /\ Round[Parent[b]] \in Nat /\ Round[P] \in Nat
      /\ Round[b] = Round[Parent[b]] + 1
      /\ P \in Blocks /\ Parent[b] \in Blocks
  BY BlocksAssumption, Zenon DEF Commits
<1>1. PICK tc \in TimeoutCerts(Epoch[b]) :
        /\ tc # NoTC
        /\ verify_tc(Epoch[b], tc)
        /\ tc.round \in Nat /\ tc.round >= Round[b]
        /\ tc.hqc_round \in Nat /\ tc.hqc_round <= Round[P]
  BY SkippingNeedsTC, Zenon
<1>2. PICK w \in Q \cap Honest, q \in Nat :
        q <= tc.hqc_round /\ TimeoutOf(w, Epoch[b], tc.round, q) \in timeouts
  BY <1>0, <1>1, TimeoutCertMeets, Zenon
<1>3. Past(w, Epoch[b], Round[b])
  <2>1. Past(w, Epoch[b], tc.round)
    BY <1>0, <1>1, <1>2, Zenon DEF Inv, TimeoutsArePast
  <2>2. storage[w].epoch \in Nat /\ storage[w].last_voted_round \in Nat
    <3>1. storage[w] \in SafetyData
      BY <1>2, Zenon DEF Inv, TypeOK
    <3> QED
      BY <3>1, DataFields, Zenon
  <2> QED
    BY <1>0, <1>1, <2>1, <2>2 DEF Past
<1>4. ASSUME Voted(w, b)
      PROVE  FALSE
  \* The timeout of w tells of the certificate of b's parent, so that the block
  \* voted for has a parent of the same round, which is certified: the same.
  <2>1. Round[Parent[b]] <= q
    BY <1>0, <1>1, <1>2, <1>4, Zenon DEF Inv, TimeoutsTell
  <2>2. Round[Parent[b]] = Round[P]
    BY <1>0, <1>1, <1>2, <2>1
  <2>3. verify_qc(Parent[b]) /\ verify_qc(P)
    BY <1>2, <1>4, Zenon DEF Inv, VotesAreValid, VotesFor
  <2>4. Epoch[Parent[b]] = Epoch[P]
    BY Zenon DEF Commits, VotesFor, verify_well_formed
  <2>5. CASE Round[P] = 0
    BY <1>0, <2>2, <2>4, <2>5, TreeAssumption, Zenon
  <2>6. CASE Round[P] # 0
    <3>1. Certified(P) /\ Certified(Parent[b])
      BY <2>2, <2>3, <2>6, Zenon DEF verify_qc
    <3> QED
      BY <1>0, <2>2, <2>4, <3>1, CertifiedUnique, Zenon DEF Inv
  <2> QED
    BY <2>5, <2>6
<1> QED
  BY <1>3, <1>4, Zenon

\* The ancestors of a block are its own and its parent's.
LEMMA AncestorsOfParent ==
    ASSUME NEW c \in Blocks, Round[c] > 0
    PROVE  Ancestors[Parent[c]] \subseteq Ancestors[c] /\ Parent[c] \in Ancestors[c]
<1>1. Ancestors[c] = {c} \cup Ancestors[Parent[c]] /\ Parent[c] \in Ancestors[Parent[c]]
  BY TreeAssumption, BlocksAssumption, Zenon
<1> QED
  BY <1>1, Zenon

\* The block voted for extends b's parent, or b is lost, by cases on the round of
\* the block's own parent.
LEMMA NewVoteExtends ==
    ASSUME Inv, NEW v \in Honest, NEW b \in Blocks, NEW c \in Blocks, VotesFor(v, c),
           Commits(b), Epoch[b] = Epoch[c], Round[b] < Round[c]
    PROVE  Parent[b] \in Ancestors[c] \/ NeverCertified(b)
<1> DEFINE P == Parent[c]
<1>0. /\ Round[b] \in Nat /\ Round[c] \in Nat /\ Round[P] \in Nat /\ Round[Parent[b]] \in Nat
      /\ P \in Blocks
      /\ Round[b] = Round[Parent[b]] + 1
      /\ verify_qc(P)
      /\ Epoch[P] = Epoch[b]
  BY BlocksAssumption, Zenon DEF Commits, VotesFor, verify_well_formed
<1>1. Round[c] > 0 /\ Round[b] > 0
  BY <1>0
<1>2. Ancestors[P] \subseteq Ancestors[c] /\ P \in Ancestors[c]
  BY <1>1, AncestorsOfParent, Zenon
<1>3. CASE Round[P] < Round[b]
  <2>1. CASE P = Parent[b]
    BY <1>2, <2>1, Zenon
  <2>2. CASE P # Parent[b]
    BY <1>3, <2>2, SkippedIsLost, Zenon
  <2> QED
    BY <2>1, <2>2
<1>4. ASSUME Round[P] >= Round[b]
      PROVE  Certified(P)
  <2>1. Round[P] # 0
    BY <1>0, <1>4
  <2> QED
    BY <1>0, <2>1, Zenon DEF verify_qc
<1>5. CASE Round[P] = Round[b]
  <2>1. CASE P = b
    BY <1>1, <1>2, <2>1, AncestorsOfParent, Zenon
  <2>2. CASE P # b
    <3>1. Certified(P)
      BY <1>0, <1>4, <1>5
    <3>2. ASSUME NEW Q \in Quorums
          PROVE  \E w \in Q \cap Honest : Past(w, Epoch[b], Round[b]) /\ ~Voted(w, b)
      <4>1. PICK w \in Q \cap Honest : Voted(w, P)
        BY <1>0, <3>1, CertifiedMeets, Zenon
      <4>2. Past(w, Epoch[b], Round[b])
        BY <1>0, <1>5, <4>1, Zenon DEF Inv, VotesArePast
      <4>3. ~Voted(w, b)
        BY <1>0, <1>5, <2>2, <4>1, Zenon DEF Inv, OneVote
      <4> QED
        BY <4>2, <4>3, Zenon
    <3> QED
      BY <3>2, Zenon DEF NeverCertified
  <2> QED
    BY <2>1, <2>2
<1>6. CASE Round[P] > Round[b]
  <2>1. Certified(P)
    BY <1>0, <1>4, <1>6
  <2>2. PICK w \in Honest : Voted(w, P)
    <3>1. PICK C \in Quorums : \A w \in C \cap Honest : VoteOf(w, P) \in votes
      BY <2>1, Zenon DEF Certified, QuorumsFor
    <3> QED
      BY <1>0, <2>1, <3>1, CertifiedMeets, Zenon
  <2>3. Round[b] < Round[P]
    BY <1>0, <1>6
  <2>4. Parent[b] \in Ancestors[P] \/ NeverCertified(b)
    BY <1>0, <2>2, <2>3, Zenon DEF Inv, VotesExtend
  <2> QED
    BY <1>2, <2>4, Zenon
<1> QED
  BY <1>0, <1>3, <1>5, <1>6

LEMMA VotesExtendStep ==
    ASSUME Inv, TypeOK', NEW v \in Honest, Kinds(v)
    PROVE  VotesExtend'
<1> SUFFICES ASSUME NEW w \in Honest, NEW b \in Blocks, NEW c \in Blocks, Voted(w, c)',
                    Commits(b), Epoch[b] = Epoch[c], Round[b] < Round[c]
             PROVE  Parent[b] \in Ancestors[c] \/ NeverCertified(b)'
  BY Zenon DEF VotesExtend, Commits
<1>1. TypeOK
  BY Zenon DEF Inv
<1>2. Voted(w, c) => Parent[b] \in Ancestors[c] \/ NeverCertified(b)
  BY Zenon DEF Inv, VotesExtend
<1>3. VotesFor(v, c) => Parent[b] \in Ancestors[c] \/ NeverCertified(b)
  BY NewVoteExtends, Zenon
<1>4. Parent[b] \in Ancestors[c] \/ NeverCertified(b)
  BY <1>1, <1>2, <1>3, VotedBefore, Zenon
<1> QED
  BY <1>1, <1>4, NeverCertifiedStays, Zenon

------------------------------------------------------------------------------
\* Results.

LEMMA InvInit == Init => Inv
<1> SUFFICES ASSUME Init PROVE Inv
  OBVIOUS
<1>1. TypeOK /\ CacheCoherent
  <2>1. NewSafetyData(1) \in SafetyData
    BY NewSafetyDataType
  <2> QED
    BY <2>1 DEF Init, TypeOK, CacheCoherent
<1>2. \A v \in Honest : storage[v].last_vote = NoBlock
  BY DEF Init, NewSafetyData
<1>3. \A v \in Honest, b \in Blocks : ~Voted(v, b) /\ storage[v].last_vote # b
  BY <1>2, BlocksAssumption, Zenon DEF Init, Voted
<1>4. timeouts = {}
  BY Zenon DEF Init
<1> QED
  BY <1>1, <1>3, <1>4, Zenon DEF Inv, VotesArePast, OneVote, LastVoteOfEpoch, VotesAreValid,
     TimeoutsArePast, TimeoutsTell, VotesExtend

LEMMA InvNext == Inv /\ [Next]_vars => Inv'
<1> SUFFICES ASSUME Inv, [Next]_vars PROVE Inv'
  OBVIOUS
<1>1. CASE Next
  <2>1. PICK v \in Honest : StepFacts(v)
    BY <1>1, NextStep, Zenon DEF Inv
  <2>2. TypeOK' /\ CacheCoherent' /\ Kinds(v)
    BY <2>1, Zenon DEF StepFacts
  <2> QED
    BY <2>2, VotesArePastStep, OneVoteStep, LastVoteOfEpochStep, VotesAreValidStep,
       TimeoutsArePastStep, TimeoutsTellStep, VotesExtendStep, Zenon DEF Inv
<1>2. CASE UNCHANGED vars
  <2>1. /\ storage' = storage /\ votes' = votes /\ timeouts' = timeouts
        /\ TypeOK' /\ CacheCoherent'
    BY <1>2, Zenon DEF vars, Inv, TypeOK, CacheCoherent
  <2>2. /\ \A v, b : Voted(v, b)' <=> Voted(v, b)
        /\ \A v, e, r : Past(v, e, r)' <=> Past(v, e, r)
        /\ \A b : verify_qc(b)' <=> verify_qc(b)
    BY <2>1, Zenon DEF Voted, Past, verify_qc, Certified, QuorumsFor, VoteOf
  <2>3. \A b \in Blocks : NeverCertified(b) => NeverCertified(b)'
    BY <2>2, Zenon DEF NeverCertified
  <2>4. VotesArePast' /\ OneVote' /\ LastVoteOfEpoch'
    BY <2>1, <2>2, Zenon DEF Inv, VotesArePast, OneVote, LastVoteOfEpoch
  <2>5. VotesAreValid'
    BY <2>2, Zenon DEF Inv, VotesAreValid, verify_well_formed, ends_epoch, CommitInfo, next_round
  <2>6. TimeoutsArePast' /\ TimeoutsTell'
    BY <2>1, <2>2, Zenon DEF Inv, TimeoutsArePast, TimeoutsTell, TimeoutOf
  <2>7. VotesExtend'
    BY <2>2, <2>3, Zenon DEF Inv, VotesExtend, Commits
  <2> QED
    BY <2>1, <2>4, <2>5, <2>6, <2>7, Zenon DEF Inv
<1> QED
  BY <1>1, <1>2

LEMMA InvInvariant == Spec => []Inv
BY InvInit, InvNext, PTL DEF Spec

\* An honest validator never votes for two blocks of a round, whatever restarts,
\* failed writes and repeated calls there are.
THEOREM OneVotePerRoundHolds == Spec => []OneVotePerRound
<1>1. Inv => OneVotePerRound
  <2> SUFFICES ASSUME Inv, NEW x \in votes, NEW y \in votes, x.author = y.author,
                      Epoch[x.block] = Epoch[y.block], Round[x.block] = Round[y.block]
               PROVE  x = y
    BY Zenon DEF OneVotePerRound
  <2>1. /\ x \in [author : Honest, block : Blocks]
        /\ y \in [author : Honest, block : Blocks]
    BY Zenon DEF Inv, TypeOK
  <2>2. /\ x = VoteOf(x.author, x.block) /\ y = VoteOf(y.author, y.block)
        /\ x.author \in Honest /\ x.block \in Blocks /\ y.block \in Blocks
    BY <2>1 DEF VoteOf
  <2>3. x.block = y.block
    BY <2>2, ZenonT(30) DEF Inv, OneVote, Voted
  <2> QED
    BY <2>2, <2>3, Zenon
<1> QED
  BY <1>1, InvInvariant, PTL

\* A timeout tells of the certificates that its signer's votes rest on, whichever
\* was signed first.
THEOREM TimeoutsRespectVotesHolds == Spec => []TimeoutsRespectVotes
<1>1. Inv => TimeoutsRespectVotes
  <2> SUFFICES ASSUME Inv, NEW x \in votes, NEW t \in timeouts, x.author = t.author,
                      Epoch[x.block] = t.epoch, Round[x.block] <= t.round
               PROVE  Round[Parent[x.block]] <= t.hqc_round
    BY Zenon DEF TimeoutsRespectVotes
  <2>1. /\ x \in [author : Honest, block : Blocks]
        /\ t \in [author : Honest, epoch : Nat, round : Nat, hqc_round : Nat]
    BY Zenon DEF Inv, TypeOK
  <2>2. /\ x = VoteOf(x.author, x.block)
        /\ t = TimeoutOf(x.author, Epoch[x.block], t.round, t.hqc_round)
        /\ x.author \in Honest /\ x.block \in Blocks
        /\ t.round \in Nat /\ t.hqc_round \in Nat
    BY <2>1 DEF VoteOf, TimeoutOf
  <2> QED
    BY <2>2, ZenonT(30) DEF Inv, TimeoutsTell, Voted
<1> QED
  BY <1>1, InvInvariant, PTL

\* Once a block is committed, everything certified from its round on extends it:
\* for any validators and quorums that meet in an honest validator, any tree of
\* blocks, any order of the messages, restarts and failed writes.
THEOREM CommittedIsExtendedHolds == Spec => []CommittedIsExtended
<1>1. Inv => CommittedIsExtended
  <2> SUFFICES ASSUME Inv, NEW a \in Blocks, Committed(a), NEW c \in Blocks, Certified(c),
                      Epoch[a] = Epoch[c], Round[a] <= Round[c]
               PROVE  a \in Ancestors[c]
    BY Zenon DEF CommittedIsExtended
  <2>1. PICK b \in Blocks : CommitInfo(b) = a /\ Certified(b)
    BY Zenon DEF Committed
  <2>2. PICK C \in Quorums : \A v \in C \cap Honest : VoteOf(v, c) \in votes
    BY Zenon DEF Certified, QuorumsFor
  <2>3. PICK v \in C \cap Honest : Voted(v, b)
    BY <2>1, CertifiedMeets, Zenon
  <2>4. Voted(v, c)
    BY <2>2, Zenon DEF Voted
  <2>5. a = Parent[b] /\ Round[b] = Round[a] + 1
    BY <2>1, BlocksAssumption, Zenon DEF CommitInfo, next_round
  <2>6. verify_well_formed(b) /\ verify_qc(a) /\ verify_well_formed(c)
    BY <2>3, <2>4, <2>5, Zenon DEF Inv, VotesAreValid
  <2>7. Commits(b) /\ Epoch[b] = Epoch[c]
    BY <2>5, <2>6, Zenon DEF Commits, verify_well_formed
  <2>8. Round[a] \in Nat /\ Round[b] \in Nat /\ Round[c] \in Nat
    BY BlocksAssumption, Zenon
  <2>9. CASE Round[c] = Round[a]
    <3>1. Round[a] # 0
      BY <2>6, <2>8, <2>9 DEF verify_well_formed
    <3>2. Certified(a)
      BY <2>6, <3>1, Zenon DEF verify_qc
    <3>3. a = c
      BY <2>9, <3>2, CertifiedUnique, Zenon DEF Inv
    <3> QED
      BY <3>3, TreeAssumption, Zenon
  <2>10. CASE Round[c] = Round[b]
    <3>1. b = c
      BY <2>1, <2>7, <2>10, CertifiedUnique, Zenon DEF Inv
    <3>2. Round[b] > 0
      BY <2>5, <2>8
    <3> QED
      BY <2>5, <3>1, <3>2, AncestorsOfParent, Zenon
  <2>11. CASE Round[b] < Round[c]
    <3>1. ~NeverCertified(b)
      <4>1. PICK B \in Quorums : \A w \in B \cap Honest : VoteOf(w, b) \in votes
        BY <2>1, Zenon DEF Certified, QuorumsFor
      <4> QED
        BY <4>1, Zenon DEF NeverCertified, Voted
    <3> QED
      BY <2>4, <2>5, <2>7, <2>11, <3>1, Zenon DEF Inv, VotesExtend
  <2> QED
    BY <2>5, <2>8, <2>9, <2>10, <2>11
<1> QED
  BY <1>1, InvInvariant, PTL

\* Two committed blocks of an epoch never conflict.
THEOREM AgreementHolds == Spec => []Agreement
<1>1. Inv /\ CommittedIsExtended => Agreement
  <2> SUFFICES ASSUME Inv, CommittedIsExtended, NEW x \in Blocks, NEW y \in Blocks,
                      Committed(x), Committed(y), Epoch[x] = Epoch[y]
               PROVE  x \in Ancestors[y] \/ y \in Ancestors[x]
    BY Zenon DEF Agreement
  \* A committed block is certified, or the genesis of its epoch.
  <2>1. \A a \in Blocks : Committed(a) => verify_qc(a)
    <3> SUFFICES ASSUME NEW a \in Blocks, Committed(a) PROVE verify_qc(a)
      OBVIOUS
    <3>1. PICK b \in Blocks : CommitInfo(b) = a /\ Certified(b)
      BY Zenon DEF Committed
    <3>2. PICK B \in Quorums : \A v \in B \cap Honest : VoteOf(v, b) \in votes
      BY <3>1, Zenon DEF Certified, QuorumsFor
    <3>3. PICK v \in B \cap Honest : Voted(v, b)
      BY <3>1, CertifiedMeets, Zenon
    <3>4. a = Parent[b]
      BY <3>1, BlocksAssumption, Zenon DEF CommitInfo
    <3> QED
      BY <3>3, <3>4, Zenon DEF Inv, VotesAreValid
  <2>2. ASSUME NEW a \in Blocks, NEW c \in Blocks, Committed(a), Committed(c),
               Epoch[a] = Epoch[c], Round[a] <= Round[c]
        PROVE  a \in Ancestors[c]
    <3>1. Round[a] \in Nat /\ Round[c] \in Nat
      BY BlocksAssumption, Zenon
    <3>2. CASE Round[c] = 0
      <4>1. Round[a] = 0
        BY <2>2, <3>1, <3>2
      <4>2. a = c
        BY <2>2, <3>2, <4>1, TreeAssumption, Zenon
      <4> QED
        BY <4>2, TreeAssumption, Zenon
    <3>3. CASE Round[c] # 0
      <4>1. Certified(c)
        BY <2>1, <2>2, <3>3, Zenon DEF verify_qc
      <4> QED
        BY <2>2, <4>1, Zenon DEF CommittedIsExtended
    <3> QED
      BY <3>2, <3>3
  <2>3. Round[x] <= Round[y] \/ Round[y] <= Round[x]
    BY BlocksAssumption
  <2> QED
    BY <2>2, <2>3, Zenon
<1> QED
  BY <1>1, InvInvariant, CommittedIsExtendedHolds, PTL

================================================================================
