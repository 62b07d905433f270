------------------------------- MODULE Consensus -------------------------------
(****************************************************************************)
(* The validators of one network, each behind its SafetyRules.  Whatever    *)
(* was signed once may be delivered to anybody at any later time, in any    *)
(* order, any number of times, or never: messages are sets that only grow.  *)
(* The validators outside Honest sign what they like.                       *)
(*                                                                          *)
(* A validator may call its safety rules with every block and certificate   *)
(* that its round manager can hold, so nothing is assumed about rounds,     *)
(* timers and leaders, nor about who proposes which block how often.        *)
(****************************************************************************)
EXTENDS SafetyRules

CONSTANTS
    Validators,
    Quorums,        \* the sets of validators that pass check_voting_power
    Ancestors,      \* [Blocks -> the blocks that the hash links lead to]
    MaxRound,       \* bound: [epochs of Blocks -> the highest round timed out]
    MaxFaults       \* bound: restarts and failed writes in a behaviour

\* quorum_voting_power is two thirds of the total plus one, and less than a
\* third belongs to validators that deviate.
ASSUME QuorumAssumption ==
    /\ Quorums \subseteq SUBSET Validators
    /\ \A Q1, Q2 \in Quorums : Q1 \cap Q2 \cap Honest # {}

\* A tree of hash links has one root per epoch: BlockStore inserts a block
\* below its parent only, so a certificate of another genesis leads nowhere.
ASSUME TreeAssumption ==
    /\ Ancestors \in [Blocks -> SUBSET Blocks]
    /\ \A b \in Blocks : b \in Ancestors[b]
    /\ \A b \in Blocks : Round[b] > 0 => Ancestors[b] = {b} \cup Ancestors[Parent[b]]
    /\ \A b, c \in Blocks : Round[b] = 0 /\ Round[c] = 0 /\ Epoch[b] = Epoch[c] => b = c

ASSUME BoundsAssumption ==
    /\ MaxRound \in [{Epoch[b] : b \in Blocks} -> Nat]
    /\ MaxFaults \in Nat

VARIABLES
    votes,          \* votes that were returned to the caller, hence sent
    timeouts,       \* signatures on (epoch, round, hqc_round)
    faults

vars == <<storage, cached, waypoint, validator_signer, votes, timeouts, faults>>

VoteOf(v, b) == [author |-> v, block |-> b]
TimeoutOf(v, e, r, h) == [author |-> v, epoch |-> e, round |-> r, hqc_round |-> h]

------------------------------------------------------------------------------
\* Certificates.

\* The quorums whose votes for b exist; others than the honest always vote.
QuorumsFor(b) ==
    {Q \in Quorums : \A v \in Q \cap Honest : VoteOf(v, b) \in votes}

Certified(b) == QuorumsFor(b) # {}

\* QuorumCert::verify of the certificate of b: a genesis needs no signatures.
verify_qc(b) == IF Round[b] = 0 THEN Parent[b] = b ELSE Certified(b)

Committed(b) == \E c \in Blocks : CommitInfo(c) = b /\ Certified(c)

\* The timeout certificates that a caller may pass in epoch e.
TimeoutCerts(e) ==
    {NoTC} \cup [round : 1 .. MaxRound[e], hqc_round : 0 .. MaxRound[e]]

\* TwoChainTimeoutCertificate::verify: a quorum has signed the round, hqc_round
\* is the highest round signed with it, and a block of that round is certified.
verify_tc(e, tc) ==
    \/ tc = NoTC
    \/ /\ tc.hqc_round < tc.round
       /\ \E Q \in Quorums :
             /\ \A v \in Q \cap Honest : \E hqc \in 0 .. tc.hqc_round :
                   TimeoutOf(v, e, tc.round, hqc) \in timeouts
             /\ \E v \in Q : v \in Honest =>
                   TimeoutOf(v, e, tc.round, tc.hqc_round) \in timeouts
       /\ \E b \in Blocks : Round[b] = tc.hqc_round /\ verify_qc(b)

------------------------------------------------------------------------------

Init ==
    /\ storage = [v \in Honest |-> NewSafetyData(1)]
    /\ cached = [v \in Honest |-> NewSafetyData(1)]
    /\ waypoint = [v \in Honest |-> 1]
    /\ validator_signer = [v \in Honest |-> FALSE]
    /\ votes = {}
    /\ timeouts = {}
    /\ faults = 0

Fault == faults < MaxFaults /\ faults' = faults + 1

\* An epoch starts with a committed block that reconfigures.
EpochStarted(e) ==
    e = 1 \/ \E b \in Reconfigures : Epoch[b] + 1 = e /\ Committed(b)

\* What precedes the comparison of epochs: a proof that is not stale moves the
\* waypoint.
ProofVerified(v, e) ==
    /\ e >= waypoint[v]
    /\ EpochStarted(e)
    /\ waypoint' = [waypoint EXCEPT ![v] = e]
    /\ UNCHANGED <<votes, timeouts>>

\* A mutant: an epoch that is over resets the data too.
InitializeNewEpochAlways(v, e) ==
    /\ ProofVerified(v, e)
    /\ set_safety_data(v, NewSafetyData(e))
    /\ validator_signer' = [validator_signer EXCEPT ![v] = TRUE]
    /\ UNCHANGED faults

InitializeNewEpoch(v, e) ==
    /\ safety_data(v).epoch < e
    /\ ProofVerified(v, e)
    /\ set_safety_data(v, NewSafetyData(e))
    /\ validator_signer' = [validator_signer EXCEPT ![v] = TRUE]
    /\ UNCHANGED faults

InitializeFails(v, e) ==
    /\ Fault
    /\ safety_data(v).epoch < e
    /\ ProofVerified(v, e)
    /\ set_safety_data_fails(v, NewSafetyData(e))
    /\ UNCHANGED validator_signer

\* The third outcome of the comparison, WaypointOutOfDate, does not happen: the
\* waypoint moves before the data do, so the epoch of a proof that passes is not
\* below the stored one.
InitializeSameEpoch(v, e) ==
    /\ safety_data(v).epoch = e
    /\ ProofVerified(v, e)
    /\ ReadOnly(v)
    /\ validator_signer' = [validator_signer EXCEPT ![v] = TRUE]
    /\ UNCHANGED faults

\* consensus_state, and every call that is refused, reads the data only.  So do
\* sign_proposal and sign_commit_vote: what they sign is not remembered.
ConsensusState(v) ==
    /\ ReadOnly(v)
    /\ UNCHANGED <<waypoint, validator_signer, votes, timeouts, faults>>

------------------------------------------------------------------------------
\* guarded_construct_and_sign_vote_two_chain.

verify_proposal(v, b) ==
    /\ validator_signer[v]
    /\ Epoch[b] = safety_data(v).epoch
    /\ verify_qc(Parent[b])
    /\ verify_well_formed(b)

AlreadyVoted(v, b) ==
    LET last == safety_data(v).last_vote
    IN  last # NoBlock /\ Round[last] = Round[b]

\* All that is checked before the vote is signed.
MayVote(v, b) ==
    /\ Round[b] > safety_data(v).last_voted_round
    /\ verify_proposal(v, b)
    /\ ~AlreadyVoted(v, b)
    /\ {tc \in TimeoutCerts(Epoch[b]) : safe_to_vote(b, tc) /\ verify_tc(Epoch[b], tc)} # {}

DataWithVote(v, b) ==
    observe_qc([safety_data(v) EXCEPT !.last_voted_round = Round[b], !.last_vote = b], Parent[b])

\* A vote was given in this round: it is sent again, for whichever block it was.
RepeatVote(v, b) ==
    /\ AlreadyVoted(v, b)
    /\ verify_proposal(v, b)
    /\ votes' = votes \cup {VoteOf(v, safety_data(v).last_vote)}
    /\ ReadOnly(v)
    /\ UNCHANGED <<waypoint, validator_signer, timeouts, faults>>

Vote(v, b) ==
    /\ MayVote(v, b)
    /\ set_safety_data(v, DataWithVote(v, b))
    /\ votes' = votes \cup {VoteOf(v, b)}
    /\ UNCHANGED <<waypoint, validator_signer, timeouts, faults>>

\* A mutant: the vote is returned although it may not be stored.
VoteReleasedAnyway(v, b) ==
    /\ Fault
    /\ MayVote(v, b)
    /\ set_safety_data_fails(v, DataWithVote(v, b))
    /\ votes' = votes \cup {VoteOf(v, b)}
    /\ UNCHANGED <<waypoint, validator_signer, timeouts>>

\* The vote is signed, storing it fails, and it is not returned.
VoteFails(v, b) ==
    /\ Fault
    /\ MayVote(v, b)
    /\ set_safety_data_fails(v, DataWithVote(v, b))
    /\ UNCHANGED <<waypoint, validator_signer, votes, timeouts>>

------------------------------------------------------------------------------
\* guarded_sign_timeout_with_qc, for round r of the validator's epoch and the
\* certificate qc, whose own epoch is not looked at.

MayTimeout(v, r, qc) ==
    LET d == safety_data(v)
    IN  /\ validator_signer[v]
        /\ Round[qc] < r
        /\ r >= d.last_voted_round
        /\ verify_qc(qc)
        /\ {tc \in TimeoutCerts(d.epoch) :
               safe_to_timeout(d, r, qc, tc) /\ verify_tc(d.epoch, tc)} # {}

SignedTimeout(v, r, qc) ==
    timeouts \cup {TimeoutOf(v, safety_data(v).epoch, r, Round[qc])}

DataWithTimeout(v, r) ==
    [safety_data(v) EXCEPT !.last_voted_round = r]

\* The round is new: it is recorded, then the timeout is signed.
Timeout(v, r, qc) ==
    /\ r > safety_data(v).last_voted_round
    /\ MayTimeout(v, r, qc)
    /\ set_safety_data(v, DataWithTimeout(v, r))
    /\ timeouts' = SignedTimeout(v, r, qc)
    /\ UNCHANGED <<waypoint, validator_signer, votes, faults>>

TimeoutFails(v, r, qc) ==
    /\ Fault
    /\ r > safety_data(v).last_voted_round
    /\ MayTimeout(v, r, qc)
    /\ set_safety_data_fails(v, DataWithTimeout(v, r))
    /\ UNCHANGED <<waypoint, validator_signer, votes, timeouts>>

\* The round has been voted or timed out already.
TimeoutAgain(v, r, qc) ==
    /\ r = safety_data(v).last_voted_round
    /\ MayTimeout(v, r, qc)
    /\ ReadOnly(v)
    /\ timeouts' = SignedTimeout(v, r, qc)
    /\ UNCHANGED <<waypoint, validator_signer, votes, faults>>

\* The process restarts: PersistentSafetyStorage::new over the same store,
\* SafetyRules::new.
Restart(v) ==
    /\ Fault
    /\ cached' = [cached EXCEPT ![v] = NoData]
    /\ validator_signer' = [validator_signer EXCEPT ![v] = FALSE]
    /\ UNCHANGED <<storage, waypoint, votes, timeouts>>

Initialize(v, e) ==
    \/ InitializeNewEpoch(v, e)
    \/ InitializeFails(v, e)
    \/ InitializeSameEpoch(v, e)

SignVote(v, b) ==
    \/ RepeatVote(v, b)
    \/ Vote(v, b)
    \/ VoteFails(v, b)

SignTimeout(v, r, qc) ==
    \/ Timeout(v, r, qc)
    \/ TimeoutFails(v, r, qc)
    \/ TimeoutAgain(v, r, qc)

Next ==
    \E v \in Honest :
        \/ \E e \in {Epoch[b] : b \in Blocks} : Initialize(v, e)
        \/ ConsensusState(v)
        \/ \E b \in Blocks : SignVote(v, b)
        \/ \E qc \in Blocks : \E r \in 1 .. MaxRound[safety_data(v).epoch] :
              SignTimeout(v, r, qc)
        \/ Restart(v)

Spec == Init /\ [][Next]_vars

------------------------------------------------------------------------------
\* Properties.

\* The type of the state.
TypeOK ==
    /\ storage \in [Honest -> SafetyData]
    /\ cached \in [Honest -> SafetyData \cup {NoData}]
    /\ waypoint \in [Honest -> Nat]
    /\ validator_signer \in [Honest -> BOOLEAN]
    /\ votes \subseteq [author : Honest, block : Blocks]
    /\ timeouts \subseteq [author : Honest, epoch : Nat, round : Nat, hqc_round : Nat]
    /\ faults \in Nat

\* The copy of the safety data in memory is what the store holds, also after
\* writes of which it is not known whether they took effect
\* (persistent_safety_storage.rs, set_safety_data).
CacheCoherent ==
    \A v \in Honest : cached[v] \in {NoData, storage[v]}

\* An honest validator votes for one block in a round of an epoch, across
\* restarts, failed writes and repeated votes.
OneVotePerRound ==
    \A x, y \in votes :
        /\ x.author = y.author
        /\ Epoch[x.block] = Epoch[y.block]
        /\ Round[x.block] = Round[y.block]
        => x = y

\* A validator that voted for a block and timed out in its round or later has
\* told, in the timeout, of a certificate as high as the one of the block: the
\* order of the two calls does not matter.
TimeoutsRespectVotes ==
    \A x \in votes, t \in timeouts :
        /\ x.author = t.author
        /\ Epoch[x.block] = t.epoch
        /\ Round[x.block] <= t.round
        => Round[Parent[x.block]] <= t.hqc_round

\* Once a block is committed, every block certified in its round or later, in
\* its epoch, extends it: the promise of the 2-chain rules, whatever the
\* validators outside Honest sign.
CommittedIsExtended ==
    \A b \in {a \in Blocks : Committed(a)}, c \in {a \in Blocks : Certified(a)} :
        Epoch[b] = Epoch[c] /\ Round[b] <= Round[c] => b \in Ancestors[c]

\* Hence two committed blocks of an epoch are on one chain.
Agreement ==
    \A b, c \in {a \in Blocks : Committed(a)} :
        Epoch[b] = Epoch[c] => b \in Ancestors[c] \/ c \in Ancestors[b]

\* The stored data never go back: epochs rise, and within an epoch neither the
\* last voted round nor the rounds observed sink, whatever fails or restarts.
Rises(d, e) ==
    \/ d.epoch < e.epoch
    \/ /\ d.epoch = e.epoch
       /\ d.last_voted_round <= e.last_voted_round
       /\ d.one_chain_round <= e.one_chain_round
       /\ d.preferred_round <= e.preferred_round

SafetyDataRises ==
    [][\A v \in Honest : Rises(storage[v], storage'[v])]_vars

================================================================================
