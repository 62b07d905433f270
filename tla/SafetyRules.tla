------------------------------ MODULE SafetyRules ------------------------------
(****************************************************************************)
(* What one validator's safety rules remember and decide: the SafetyData,   *)
(* its storage with an in-memory copy, and the rules for voting, timing out *)
(* and proposing of the 2-chain protocol                                    *)
(* (consensus/safety-rules/src/{safety_rules, safety_rules_2chain,          *)
(* persistent_safety_storage}.rs).                                          *)
(*                                                                          *)
(* Blocks are hash linked: Parent[b] is the block certified by the quorum   *)
(* certificate that b carries, and b stands for itself and its ancestors.   *)
(****************************************************************************)
EXTENDS Naturals

CONSTANTS
    Honest,         \* the validators that run this code
    Blocks,         \* every block anybody may propose
    Epoch,          \* [Blocks -> epoch]
    Round,          \* [Blocks -> round]
    Parent,         \* [Blocks -> block certified by quorum_cert()]
    Reconfigures,   \* the blocks whose execution ends their epoch
    Decoupled,      \* decoupled_execution: votes do not tell of the execution
    EnableCached,   \* enable_cached_safety_data
    NoBlock,        \* an absent vote, an empty BlockInfo
    NoData          \* an absent SafetyData

ASSUME BlocksAssumption ==
    /\ Epoch \in [Blocks -> Nat]
    /\ Round \in [Blocks -> Nat]
    /\ Parent \in [Blocks -> Blocks]
    /\ Reconfigures \subseteq Blocks
    /\ NoBlock \notin Blocks
    /\ Decoupled \in BOOLEAN
    /\ EnableCached \in BOOLEAN

VARIABLES
    storage,            \* internal_store: [Honest -> SafetyData]
    cached,             \* cached_safety_data: [Honest -> SafetyData or NoData]
    waypoint,           \* the epoch that the stored waypoint starts
    validator_signer    \* whether signer() succeeds: lost in a restart

SafetyData ==
    [epoch : Nat, last_voted_round : Nat, preferred_round : Nat,
     one_chain_round : Nat, last_vote : Blocks \cup {NoBlock}]

NewSafetyData(e) ==
    [epoch |-> e, last_voted_round |-> 0, preferred_round |-> 0,
     one_chain_round |-> 0, last_vote |-> NoBlock]

ASSUME NoDataAssumption == NoData \notin SafetyData

Max2(x, y) == IF x >= y THEN x ELSE y

\* No timeout certificate is like one of round 0.
NoTC == [round |-> 0, hqc_round |-> 0]

------------------------------------------------------------------------------
\* The rules.

next_round(r) == r + 1

\* The commit_info of the certificate of b: its parent if their rounds are
\* consecutive (construct_ledger_info_2chain).
CommitInfo(b) ==
    IF Round[b] = next_round(Round[Parent[b]]) THEN Parent[b] ELSE NoBlock

\* The certificate of b carries a next_epoch_state.
ends_epoch(b) == ~Decoupled /\ CommitInfo(b) \in Reconfigures

\* The part of Block::verify_well_formed that concerns epochs and rounds.
verify_well_formed(b) ==
    /\ Round[b] > 0
    /\ Round[Parent[b]] < Round[b]
    /\ Epoch[Parent[b]] = Epoch[b]
    /\ ~ends_epoch(Parent[b])

\* The certificate of block qc is taken note of.
observe_qc(d, qc) ==
    [d EXCEPT !.one_chain_round = Max2(@, Round[qc]),
              !.preferred_round = Max2(@, Round[Parent[qc]])]

\* A mutant: a timeout certificate suffices, whatever certificate the block has.
SafeToVoteAnyQC(b, tc) ==
    \/ Round[b] = next_round(Round[Parent[b]])
    \/ Round[b] = next_round(tc.round)

safe_to_vote(b, tc) ==
    \/ Round[b] = next_round(Round[Parent[b]])
    \/ Round[b] = next_round(tc.round) /\ Round[Parent[b]] >= tc.hqc_round

\* A mutant: the highest certificate seen is not compared.
SafeToTimeoutAnyQC(d, r, qc, tc) ==
    r = next_round(Round[qc]) \/ r = next_round(tc.round)

safe_to_timeout(d, r, qc, tc) ==
    /\ r = next_round(Round[qc]) \/ r = next_round(tc.round)
    /\ Round[qc] >= d.one_chain_round

------------------------------------------------------------------------------
\* PersistentSafetyStorage.

safety_data(v) ==
    IF EnableCached /\ cached[v] # NoData THEN cached[v] ELSE storage[v]

\* What cached_safety_data holds after safety_data() was called.
CachedAfterRead(v) ==
    IF EnableCached THEN safety_data(v) ELSE cached[v]

set_safety_data(v, d) ==
    /\ storage' = [storage EXCEPT ![v] = d]
    /\ cached' = [cached EXCEPT ![v] = d]

\* A mutant: the copy in memory survives a failed write.
SetSafetyDataFailsKeepsCache(v, d) ==
    /\ \E s \in {storage[v], d} : storage' = [storage EXCEPT ![v] = s]
    /\ cached' = [cached EXCEPT ![v] = CachedAfterRead(v)]

\* The store reports an error; whether it has the new data is not known.
set_safety_data_fails(v, d) ==
    /\ \E s \in {storage[v], d} : storage' = [storage EXCEPT ![v] = s]
    /\ cached' = [cached EXCEPT ![v] = NoData]

\* A call that reads the data and writes none.
ReadOnly(v) ==
    /\ cached' = [cached EXCEPT ![v] = CachedAfterRead(v)]
    /\ UNCHANGED storage

================================================================================
