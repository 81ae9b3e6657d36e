-------------------------- MODULE MetadataMatching --------------------------
(***************************************************************************)
(* Deduplication by metadata (run_prepared_direct): members with the same  *)
(* documents share a profile, and profiles are compared by a BM25 cosine   *)
(* of one document each.  Postings over the terms of documents propose the *)
(* candidates of a profile; lanes claim profiles and record what matches   *)
(* in one table of hits, a word of chains per profile, by atomic or.       *)
(* Terms occur once in a document, which cancels the lengths out of BM25.  *)
(***************************************************************************)
EXTENDS EntityStore, Similarity

CONSTANTS
    EvmChains,
    DocumentTerms    \* [documents -> sets of terms], documents are numbered

ASSUME MetadataAssumption ==
    /\ DOMAIN DocumentTerms \subseteq Nat
    /\ \A d \in DOMAIN DocumentTerms : DocumentTerms[d] \subseteq Nat

VARIABLES
    profiles,     \* the different profiles, ordered by their last document
    nextSlot,     \* the atomic counter the lanes claim from
    probing,      \* per lane: its profile and the hits it read when it began
    profileHits,  \* per profile: chains on which another profile matches
    metaCounts    \* per scope: contracts and NFTs

metaVars == <<profiles, nextSlot, probing, profileHits, metaCounts>>

NoProfile == 0

idleLane == [left |-> NoProfile, known |-> {}]

----------------------------------------------------------------------------
(* Members and profiles                                                    *)

OfSolana(c) == ChainOf[c] \in SolanaChains

\* A contract, or on Solana an NFT, that has an anchor.
MetaMembers ==
    UNION {IF OfSolana(c) THEN {store.anchors[c][i].nft : i \in DOMAIN store.anchors[c]} ELSE {c} :
            c \in {d \in Contracts : store.anchors[d] # <<>>}}

ContractOfMember(m) == IF m \in Nfts THEN ContractOf[m] ELSE m

DocumentsOf(records) == [i \in DOMAIN records |-> <<TokenNumber[records[i].nft], records[i].doc>>]

\* ProfileKey: on an EVM chain every token with its document, elsewhere the
\* last document or that of the NFT.
Profile(m) ==
    LET c == ContractOfMember(m)
        anchors == store.anchors[c]
        own == SelectSeq(anchors, LAMBDA r : r.nft = m)
    IN IF m \in Nfts THEN [kind |-> "solana", anchors |-> <<<<0, own[1].doc>>>>]
       ELSE IF ChainOf[c] \in EvmChains
       THEN [kind |-> "evm", anchors |-> DocumentsOf(anchors)]
       ELSE [kind |-> "other", anchors |-> <<<<0, Last(anchors).doc>>>>]

MaxDocument(p) == Last(p.anchors)[2]

MembersOf(p) == {m \in MetaMembers : Profile(m) = p}

ChainOfMember(m) == ChainOf[ContractOfMember(m)]

ChainsOf(p) == {ChainOfMember(m) : m \in MembersOf(p)}

----------------------------------------------------------------------------
(* Similarity                                                              *)

Documents == {a[2] : a \in UNION {ToSet(p.anchors) : p \in {Profile(m) : m \in MetaMembers}}}

\* The cosine reaches --metadata-threshold, in per cent.
SimilarAtLeast(d, e) == CosineReaches(DocumentTerms[d], DocumentTerms[e], input.similarity)

----------------------------------------------------------------------------
(* The index                                                               *)

\* How often a document occurs among the anchors that may be chosen.
Context(d) ==
    FoldLeft(LAMBDA sum, p :
                sum + Cardinality({i \in DOMAIN p.anchors : p.kind = "evm" /\ p.anchors[i][2] = d})
                    + (IF MaxDocument(p) = d THEN 1 ELSE 0),
             0, profiles)

TermFrequency(t) ==
    MapThenSumSet(Context, {d \in Documents : t \in DocumentTerms[d]})

\* The rarest terms of a document, enough of them to meet every match.
PrefixTerms(d) ==
    LET ranked == SetToSortSeq(DocumentTerms[d], LAMBDA s, t :
                    \/ TermFrequency(s) < TermFrequency(t)
                    \/ TermFrequency(s) = TermFrequency(t) /\ s < t)
    IN IF ranked = <<>> THEN {} ELSE ToSet(SubSeq(ranked, 1, PrefixLength(Len(ranked), input.similarity)))

\* What the postings of a document lead to: documents without terms are
\* found by identity, others by a term of the prefix.
Found(d, e) ==
    IF DocumentTerms[d] = {} THEN e = d ELSE PrefixTerms(d) \intersect DocumentTerms[e] # {}

\* Later profiles found by the last documents or by those of one token.
CandidatesOf(left) ==
    LET p == profiles[left]
        byToken(q) == \E a \in ToSet(p.anchors), b \in ToSet(q.anchors) :
                        a[1] = b[1] /\ Found(a[2], b[2])
    IN {right \in left + 1..Len(profiles) :
            LET q == profiles[right]
            IN \/ Found(MaxDocument(p), MaxDocument(q))
               \/ p.kind = "evm" /\ q.kind = "evm" /\ byToken(q)}

\* selected_evm_documents: the documents of the greatest token both have.
SelectedDocuments(p, q) ==
    LET shared == {x \in (DOMAIN p.anchors) \X (DOMAIN q.anchors) :
                    p.anchors[x[1]][1] = q.anchors[x[2]][1]}
    IN IF p.kind = "evm" /\ q.kind = "evm" /\ shared # {}
       THEN LET x == CHOOSE y \in shared : \A z \in shared : z[1] <= y[1]
            IN <<p.anchors[x[1]][2], q.anchors[x[2]][2]>>
       ELSE <<MaxDocument(p), MaxDocument(q)>>

Matches(p, q) ==
    LET documents == SelectedDocuments(p, q)
    IN documents[1] = documents[2] \/ SimilarAtLeast(documents[1], documents[2])

\* Profiles are claimed in stripes, one per lane.
Stripes == Max({Min({Cardinality(Lanes), Len(profiles)}), 1})

StripeRows == CeilDiv(Len(profiles), Stripes)

SlotProfile(slot) == (slot % Stripes) * StripeRows + slot \div Stripes + 1

----------------------------------------------------------------------------
(* Counting                                                                *)

\* What a member counts for: an NFT, or all NFTs of the contract.
NftCount(m) ==
    IF m \in Nfts THEN 1 ELSE Cardinality({n \in ToSet(store.nfts) : ContractOf[n] = m})

\* The chains on which a member has a duplicate: those its profile hits and
\* those of the other members of its profile.
DuplicateChains(i, m) ==
    LET own == ChainOfMember(m)
        alone == Cardinality({n \in MembersOf(profiles[i]) : ChainOfMember(n) = own}) = 1
    IN profileHits[i] \union (ChainsOf(profiles[i]) \ (IF alone THEN {own} ELSE {}))

\* record_metadata_mask
ScopesHit(own, chains) ==
    (IF own \in chains THEN {Scope("intra", own, NoChain)} ELSE {})
        \union (IF chains \ {own} # {} THEN {Scope("cross", own, NoChain)} ELSE {})
        \union {Scope("matrix", own, other) : other \in chains \ {own}}

CountsOf(memberScopes) ==
    LET scopes == UNION {x[2] : x \in memberScopes}
        hit(scope) == {x[1] : x \in {y \in memberScopes : scope \in y[2]}}
    IN [scope \in scopes |->
            [contracts |-> Cardinality({ContractOfMember(m) : m \in hit(scope)}),
             nfts |-> MapThenSumSet(NftCount, hit(scope))]]

ReducedMembers ==
    CountsOf(UNION {{<<m, ScopesHit(ChainOfMember(m), DuplicateChains(i, m))>> :
                        m \in MembersOf(profiles[i])} : i \in DOMAIN profiles})

----------------------------------------------------------------------------
MetaInit ==
    /\ profiles = <<>>
    /\ nextSlot = 0
    /\ probing = [w \in Lanes |-> idleLane]
    /\ profileHits = <<>>
    /\ metaCounts = <<>>

\* Profiles of one last document come in any order.
ProfileOrders ==
    LET last(p) == IF p.kind = "solana" THEN 1 ELSE 0
        ordered(p, q) == \/ MaxDocument(p) < MaxDocument(q)
                         \/ MaxDocument(p) = MaxDocument(q) /\ last(p) <= last(q)
    IN {order \in SetToSeqs({Profile(m) : m \in MetaMembers}) :
            \A i \in 1..Len(order) - 1 : ordered(order[i], order[i + 1])}

BeginMetadata ==
    /\ "meta" \in input.columns
    /\ stage = IF "token" \in input.columns THEN "matched"
               ELSE IF "name" \in input.columns THEN "named" ELSE "loaded"
    /\ IF Cardinality(MetaMembers) < 2
       THEN stage' = "done" /\ UNCHANGED <<profiles, profileHits>>
       ELSE /\ stage' = "direct"
            /\ profiles' \in ProfileOrders
            /\ profileHits' = [i \in DOMAIN profiles' |-> {}]
    /\ UNCHANGED <<loadVars, noticed, nextSlot, probing, metaCounts>>

Waiting(w) == probing[w].left = NoProfile

\* A lane claims the next profile and reads its hits, unless it notices an
\* interrupt.
ClaimProfile(w) ==
    /\ stage = "direct" /\ Waiting(w) /\ ~noticed
    /\ nextSlot < StripeRows * Stripes
    /\ nextSlot' = nextSlot + 1
    /\ IF SlotProfile(nextSlot) > Len(profiles) THEN UNCHANGED probing
       ELSE probing' = [probing EXCEPT ![w] = [left |-> SlotProfile(nextSlot),
                                               known |-> profileHits[SlotProfile(nextSlot)]]]
    /\ UNCHANGED <<loadVars, stage, noticed, profiles, profileHits, metaCounts>>

\* Mutant: the word of hits is written back as it was read.
RecordOverwriting(hits, left, known, matched) ==
    [i \in DOMAIN hits |->
        IF i = left THEN known \union UNION {ChainsOf(profiles[r]) : r \in matched}
        ELSE IF i \in matched THEN hits[i] \union ChainsOf(profiles[left])
        ELSE hits[i]]

\* The lane adds the chains it did not know to its profile, and its own
\* chains to each match.
Record(hits, left, known, matched) ==
    [i \in DOMAIN hits |->
        IF i = left THEN hits[i] \union (UNION {ChainsOf(profiles[r]) : r \in matched} \ known)
        ELSE IF i \in matched THEN hits[i] \union ChainsOf(profiles[left])
        ELSE hits[i]]

\* Score the candidates of the profile.
ScoreProfile(w) ==
    /\ stage = "direct" /\ ~Waiting(w)
    /\ LET left == probing[w].left
           matched == {r \in CandidatesOf(left) : Matches(profiles[left], profiles[r])}
       IN profileHits' = Record(profileHits, left, probing[w].known, matched)
    /\ probing' = [probing EXCEPT ![w] = idleLane]
    /\ UNCHANGED <<loadVars, stage, noticed, profiles, nextSlot, metaCounts>>

\* A lane that is about to claim, or counts its candidates, is interrupted.
InterruptLane(w) ==
    /\ stage = "direct" /\ ~noticed
    /\ noticed' = TRUE
    /\ probing' = [probing EXCEPT ![w] = idleLane]
    /\ UNCHANGED <<loadVars, stage, profiles, nextSlot, profileHits, metaCounts>>

\* All lanes have ended: members are counted scope by scope.
ReduceMetadata ==
    /\ stage = "direct" /\ \A w \in Lanes : Waiting(w)
    /\ noticed \/ nextSlot >= StripeRows * Stripes
    /\ IF noticed THEN stage' = "interrupted" /\ UNCHANGED metaCounts
       ELSE stage' = "done" /\ metaCounts' = ReducedMembers
    /\ UNCHANGED <<loadVars, noticed, profiles, nextSlot, probing, profileHits>>

MetaNext ==
    \/ BeginMetadata
    \/ \E w \in Lanes : ClaimProfile(w) \/ ScoreProfile(w) \/ InterruptLane(w)
    \/ ReduceMetadata

----------------------------------------------------------------------------
(* Neither the postings nor the lanes that share the table of hits lose a  *)
(* match: a member counts in a scope exactly if another member in it has a *)
(* document that equals or resembles its own, where two EVM contracts are  *)
(* compared by the greatest token both have.                               *)
Alike(m, n) == Matches(Profile(m), Profile(n))

PeerChains(m) == {ChainOfMember(n) : n \in {k \in MetaMembers \ {m} : Alike(m, k)}}

MetadataExact ==
    stage = "done" =>
        metaCounts = CountsOf({<<m, ScopesHit(ChainOfMember(m), PeerChains(m))>> :
                                m \in MetaMembers})
=============================================================================
