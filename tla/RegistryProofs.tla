--------------------------- MODULE RegistryProofs ---------------------------
(***************************************************************************)
(* The registry's operations, for any number of people, targets, hosts and *)
(* concurrent calls: what has ended stays ended; a purge is completed when *)
(* every target has reported, and its journal shows each once; a refused   *)
(* request met a full window.                                              *)
(***************************************************************************)
EXTENDS Moderation, Purge, RateLimiter, SequenceTheorems, FiniteSetTheorems, TLAPS

(* Ownership and disputes.                                                 *)

ChallengeRecords == [status : {"pending", "verified"}, requester : People, expiresAt : Nat]

OwnershipRecords == [owner : People, validUntil : Nat,
                     reason : {"", "revoked", "ownership_transferred"}, from : Nat]

NoDispute == [status |-> "none"]

Closed == {"resolved", "superseded"}

DisputeRecords ==
    [status : {"opened", "under_review"} \union Closed, creator : People,
     subjectOwner : People, reviewer : People \union {Nobody},
     events : Seq([kind : {"opened", "owner_response", "review_started"} \union Closed,
                   actor : People])]

ModerationTypeOK ==
    /\ challenge \in Seq(ChallengeRecords)
    /\ ownership \in Seq(OwnershipRecords)
    /\ dispute \in DisputeRecords \union {NoDispute}
    /\ responder \in [Responders -> [pc : {"authorized"}, owner : People]
                                    \union {[pc |-> "idle"]}]

\* A transfer leads back to an ownership that it ended, and to that only once.  The
\* ownerships and their positions are arguments: the lemmas speak of those before
\* and after a step.
LineOK(own, I) ==
    /\ \A a \in I : own[a].from # 0 =>
          own[a].from \in I /\ own[own[a].from].reason = "ownership_transferred"
    /\ \A a, b \in I : own[a].from # 0 /\ own[a].from = own[b].from => a = b

\* A review is in impartial hands while it lasts, and its decision is the last event.
DisputeOK(d) ==
    d # NoDispute =>
       /\ Len(d.events) > 0
       /\ d.status = "under_review" => d.reviewer \notin {d.creator, d.subjectOwner}
       /\ d.status \in Closed =>
             /\ d.events[Len(d.events)].kind = d.status
             /\ d.events[Len(d.events)].actor \notin {d.creator, d.subjectOwner}

ModerationInv == ModerationTypeOK /\ LineOK(ownership, 1..Len(ownership)) /\ DisputeOK(dispute)

-----------------------------------------------------------------------------
\* A record that was minted from a challenge.
LEMMA MintedType ==
  ASSUME ModerationTypeOK, NEW c \in Challenges, NEW from \in Nat, NEW now \in Times
  PROVE  /\ Minted(c, from, now) \in OwnershipRecords
         /\ Minted(c, from, now).from = from
<1>1. challenge[c].requester \in People
  <2>1. challenge \in Seq(ChallengeRecords) /\ c \in DOMAIN challenge
    BY DEF ModerationTypeOK, Challenges
  <2>2. challenge[c] \in ChallengeRecords
    BY <2>1
  <2> QED BY <2>2 DEF ChallengeRecords
<1>2. now + Validity \in Nat
  BY ModerationConstants DEF Times
<1> QED BY <1>1, <1>2 DEF Minted, OwnershipRecords

\* Lines of succession stay in order when the ownerships keep their predecessors and
\* the transferred ones stay transferred.
LEMMA LineKept ==
  ASSUME NEW I, NEW old, NEW new, LineOK(old, I),
         \A a \in I : /\ new[a].from = old[a].from
                      /\ old[a].reason = "ownership_transferred" =>
                            new[a].reason = "ownership_transferred"
  PROVE  LineOK(new, I)
  BY DEF LineOK

\* And when another ownership joins them that succeeds none, or the one that has
\* just been ended and so has no successor yet.
LEMMA LineExtended ==
  ASSUME NEW I, NEW k, NEW old, NEW new, LineOK(old, I),
         \A a \in I : /\ new[a].from = old[a].from
                      /\ old[a].reason = "ownership_transferred" =>
                            new[a].reason = "ownership_transferred",
         new[k].from # 0 => /\ new[k].from \in I /\ old[new[k].from].reason = ""
                            /\ new[new[k].from].reason = "ownership_transferred"
  PROVE  LineOK(new, I \union {k})
<1>1. ASSUME NEW a \in I, new[a].from # 0
      PROVE  /\ new[a].from \in I /\ new[a].from # new[k].from
             /\ new[new[a].from].reason = "ownership_transferred"
  BY <1>1, Zenon DEF LineOK
<1>2. ASSUME NEW a \in I \union {k}, new[a].from # 0
      PROVE  /\ new[a].from \in I \union {k}
             /\ new[new[a].from].reason = "ownership_transferred"
  BY <1>1, <1>2, Zenon
<1>3. ASSUME NEW a \in I \union {k}, NEW b \in I \union {k},
             new[a].from # 0, new[a].from = new[b].from
      PROVE  a = b
  <2>1. CASE a \in I /\ b \in I
    <3>1. old[a].from # 0 /\ old[a].from = old[b].from
      BY <1>3, <2>1, Zenon
    <3> QED BY <2>1, <3>1, Zenon DEF LineOK
  <2>2. CASE ~(a \in I /\ b \in I)
    BY <1>1, <1>3, <2>2, Zenon
  <2> QED BY <2>1, <2>2, Zenon
<1> QED BY <1>2, <1>3, Zenon DEF LineOK

\* Ending an ownership changes its reason and nothing else.
LEMMA EndedRecord ==
  ASSUME NEW own \in Seq(OwnershipRecords), NEW o \in 1..Len(own),
         NEW why \in {"revoked", "ownership_transferred"}
  PROVE  /\ [own EXCEPT ![o].reason = why] \in Seq(OwnershipRecords)
         /\ Len([own EXCEPT ![o].reason = why]) = Len(own)
         /\ \A a \in 1..Len(own) : /\ [own EXCEPT ![o].reason = why][a].from = own[a].from
                                   /\ a # o => [own EXCEPT ![o].reason = why][a] = own[a]
         /\ [own EXCEPT ![o].reason = why][o].reason = why
<1> DEFINE rec == [own[o] EXCEPT !.reason = why]
<1>1. own[o] \in OwnershipRecords
  BY ElementOfSeq
<1>2. rec \in OwnershipRecords /\ rec.from = own[o].from /\ rec.reason = why
  BY <1>1, Zenon DEF OwnershipRecords
<1>3. [own EXCEPT ![o].reason = why] = [own EXCEPT ![o] = rec]
  OBVIOUS
<1> HIDE DEF rec
<1>4. /\ [own EXCEPT ![o] = rec] \in Seq(OwnershipRecords)
      /\ Len([own EXCEPT ![o] = rec]) = Len(own)
      /\ \A a \in 1..Len(own) : [own EXCEPT ![o] = rec][a] = IF a = o THEN rec ELSE own[a]
  BY <1>2, ExceptSeq
<1> QED BY <1>2, <1>3, <1>4

-----------------------------------------------------------------------------
\* What a step leaves of the ownerships when it mints one without predecessor.
LEMMA FromChallengePreserves ==
  ASSUME ModerationInv, NEW c \in Challenges, NEW now \in Times,
         OwnershipFromChallenge(c, now)
  PROVE  ModerationInv'
<1> DEFINE new == Minted(c, 0, now)
           n == Len(ownership)
<1>1. new \in OwnershipRecords /\ new.from = 0 /\ ownership \in Seq(OwnershipRecords)
  BY MintedType DEF ModerationInv, ModerationTypeOK
<1>2. ownership' = Append(ownership, new) /\ UNCHANGED <<challenge, dispute, responder>>
  BY DEF OwnershipFromChallenge
<1> HIDE DEF new
<1>3. /\ ownership' \in Seq(OwnershipRecords) /\ Len(ownership') = n + 1 /\ n \in Nat
      /\ \A i \in 1..n : ownership'[i] = ownership[i]
      /\ ownership'[n + 1] = new
  BY <1>1, <1>2, AppendProperties, LenProperties
<1>4. 1..(n + 1) = 1..n \union {n + 1}
  BY <1>3
<1> HIDE DEF n
<1>5. LineOK(ownership, 1..n)
  BY DEF ModerationInv, n
<1>6. /\ \A a \in 1..n : /\ ownership'[a].from = ownership[a].from
                         /\ ownership[a].reason = "ownership_transferred" =>
                               ownership'[a].reason = "ownership_transferred"
      /\ ownership'[n + 1].from = 0
  BY <1>1, <1>3
<1>7. LineOK(ownership', 1..n \union {n + 1})
  BY <1>5, <1>6, LineExtended, ZenonT(60)
<1> QED BY <1>2, <1>3, <1>4, <1>7, Zenon DEF ModerationInv, ModerationTypeOK

\* A transfer ends one ownership and mints its successor.
LEMMA TransferPreserves ==
  ASSUME ModerationInv, NEW o \in Ownerships, NEW c \in Challenges, NEW now \in Times,
         Transfer(o, c, now)
  PROVE  ModerationInv'
<1> DEFINE new == Minted(c, o, now)
           n == Len(ownership)
           ended == [ownership EXCEPT ![o].reason = "ownership_transferred"]
<1>1. ownership \in Seq(OwnershipRecords) /\ n \in Nat /\ DOMAIN ownership = 1..n
  BY LenProperties DEF ModerationInv, ModerationTypeOK
<1>2. o \in 1..n /\ o \in Nat /\ ownership[o].reason = ""
  <2>1. o \in 1..n /\ ownership[o].reason = ""
    BY <1>1, Zenon DEF Ownerships, Transfer, CurrentlyOwned
  <2>2. \A m \in Nat : \A a \in 1..m : a \in Nat
    OBVIOUS
  <2> QED BY <1>1, <2>1, <2>2, Zenon
<1>3. new \in OwnershipRecords /\ new.from = o
  BY <1>2, MintedType, Zenon DEF ModerationInv
<1>4. ownership' = Append(ended, new) /\ UNCHANGED <<challenge, dispute, responder>>
  BY DEF Transfer
<1>5. /\ ended \in Seq(OwnershipRecords) /\ Len(ended) = n
      /\ \A a \in 1..n : ended[a].from = ownership[a].from
      /\ \A a \in 1..n : a # o => ended[a] = ownership[a]
      /\ ended[o].reason = "ownership_transferred"
  BY <1>1, <1>2, EndedRecord, Zenon
<1> HIDE DEF new, ended
<1>6. /\ ownership' \in Seq(OwnershipRecords) /\ Len(ownership') = n + 1
      /\ \A i \in 1..n : ownership'[i] = ended[i]
      /\ ownership'[n + 1] = new
  BY <1>3, <1>4, <1>5, AppendProperties
<1>7. 1..(n + 1) = 1..n \union {n + 1}
  BY <1>1
<1> HIDE DEF n
<1>8. LineOK(ownership, 1..n)
  BY DEF ModerationInv, n
<1>9. \A a \in 1..n : /\ ownership'[a].from = ownership[a].from
                      /\ ownership[a].reason = "ownership_transferred" =>
                            ownership'[a].reason = "ownership_transferred"
  BY <1>2, <1>5, <1>6, Zenon
<1>10. /\ ownership'[n + 1].from \in 1..n
       /\ ownership[ownership'[n + 1].from].reason = ""
       /\ ownership'[ownership'[n + 1].from].reason = "ownership_transferred"
  BY <1>2, <1>3, <1>5, <1>6, Zenon
<1>11. LineOK(ownership', 1..n \union {n + 1})
  BY <1>8, <1>9, <1>10, LineExtended, ZenonT(60)
<1> QED BY <1>4, <1>6, <1>7, <1>11, Zenon DEF ModerationInv, ModerationTypeOK

\* A revocation does not end what was transferred a second time.
LEMMA RevokePreserves ==
  ASSUME ModerationInv, NEW o \in Ownerships, NEW p \in People, Revoke(o, p)
  PROVE  ModerationInv'
<1> DEFINE n == Len(ownership)
<1>1. ownership \in Seq(OwnershipRecords) /\ n \in Nat /\ DOMAIN ownership = 1..n
  BY LenProperties DEF ModerationInv, ModerationTypeOK
<1>2. o \in 1..n /\ ownership[o].reason = ""
  BY <1>1, Zenon DEF Ownerships, Revoke
<1>3. /\ ownership' = [ownership EXCEPT ![o].reason = "revoked"]
      /\ UNCHANGED <<challenge, dispute, responder>>
  BY Zenon DEF Revoke
<1>4. /\ ownership' \in Seq(OwnershipRecords) /\ Len(ownership') = n
      /\ \A a \in 1..n : ownership'[a].from = ownership[a].from
      /\ \A a \in 1..n : a # o => ownership'[a] = ownership[a]
  BY <1>1, <1>2, <1>3, EndedRecord, Zenon
<1>5. \A a \in 1..n : /\ ownership'[a].from = ownership[a].from
                      /\ ownership[a].reason = "ownership_transferred" =>
                            ownership'[a].reason = "ownership_transferred"
  BY <1>2, <1>4, Zenon
<1>6. LineOK(ownership', 1..n)
  BY <1>5, LineKept DEF ModerationInv
<1> QED BY <1>3, <1>4, <1>6 DEF ModerationInv, ModerationTypeOK

\* An event joins a journal at its end.
LEMMA LoggedEvent ==
  ASSUME dispute \in DisputeRecords, DisputeOK(dispute), NEW p \in People,
         NEW kind \in {"opened", "owner_response", "review_started"} \union Closed
  PROVE  /\ Logged(kind, p) \in DisputeRecords
         /\ Logged(kind, p).status = dispute.status
         /\ Logged(kind, p).creator = dispute.creator
         /\ Logged(kind, p).subjectOwner = dispute.subjectOwner
         /\ Logged(kind, p).reviewer = dispute.reviewer
         /\ Len(Logged(kind, p).events) > 0
         /\ Logged(kind, p).events[Len(Logged(kind, p).events)] = Event(kind, p)
<1> DEFINE E == [kind : {"opened", "owner_response", "review_started"} \union Closed,
                 actor : People]
<1>1. Event(kind, p) \in E /\ dispute.events \in Seq(E)
  BY DEF Event, DisputeRecords
<1>2. Logged(kind, p) = [dispute EXCEPT !.events = Append(dispute.events, Event(kind, p))]
  BY DEF Logged
<1>3. /\ Append(dispute.events, Event(kind, p)) \in Seq(E)
      /\ Len(Append(dispute.events, Event(kind, p))) = Len(dispute.events) + 1
      /\ Append(dispute.events, Event(kind, p))[Len(dispute.events) + 1] = Event(kind, p)
      /\ Len(dispute.events) \in Nat
  BY <1>1, AppendProperties, LenProperties
<1> HIDE DEF E
<1>4. /\ Logged(kind, p).events = Append(dispute.events, Event(kind, p))
      /\ Logged(kind, p).status = dispute.status
      /\ Logged(kind, p).creator = dispute.creator
      /\ Logged(kind, p).subjectOwner = dispute.subjectOwner
      /\ Logged(kind, p).reviewer = dispute.reviewer
      /\ Logged(kind, p) \in DisputeRecords
  BY <1>2, <1>3, Zenon DEF DisputeRecords, E
<1> QED BY <1>3, <1>4

\* Only an open dispute takes a response, whatever was checked before.
LEMMA ResponsePreserves ==
  ASSUME ModerationInv, NEW r \in Responders, AddOwnerResponse(r)
  PROVE  ModerationInv'
<1>1. responder[r] \in [pc : {"authorized"}, owner : People]
  BY DEF ModerationInv, ModerationTypeOK, AddOwnerResponse
<1>2. responder[r].owner \in People
  BY <1>1
<1>3. responder' = [responder EXCEPT ![r] = [pc |-> "idle"]]
      /\ UNCHANGED <<challenge, ownership>>
  BY DEF AddOwnerResponse
<1>4. responder' \in [Responders -> [pc : {"authorized"}, owner : People]
                                    \union {[pc |-> "idle"]}]
  BY <1>3 DEF ModerationInv, ModerationTypeOK
<1>5. dispute' \in DisputeRecords \union {NoDispute} /\ DisputeOK(dispute')
  <2>1. CASE dispute.status \in {"opened", "under_review"}
    <3>1. dispute \in DisputeRecords /\ DisputeOK(dispute)
      BY <2>1 DEF ModerationInv, ModerationTypeOK, NoDispute
    <3>2. dispute' = Logged("owner_response", responder[r].owner)
      BY <2>1 DEF AddOwnerResponse, Logged
    <3> DEFINE d == Logged("owner_response", responder[r].owner)
    <3>3. /\ d \in DisputeRecords /\ d.status = dispute.status
          /\ d.creator = dispute.creator /\ d.subjectOwner = dispute.subjectOwner
          /\ d.reviewer = dispute.reviewer /\ Len(d.events) > 0
      BY <1>2, <3>1, LoggedEvent
    <3>4. dispute # NoDispute
      BY <2>1 DEF NoDispute
    <3> HIDE DEF d
    <3>5. DisputeOK(d)
      BY <2>1, <3>1, <3>3, <3>4 DEF DisputeOK, Closed
    <3> QED BY <3>2, <3>3, <3>5 DEF d
  <2>2. CASE dispute.status \notin {"opened", "under_review"}
    BY <2>2 DEF AddOwnerResponse, ModerationInv, ModerationTypeOK
  <2> QED BY <2>1, <2>2
<1> QED BY <1>3, <1>4, <1>5 DEF ModerationInv, ModerationTypeOK

\* A review begins in impartial hands and its decision is theirs.
LEMMA ReviewPreserves ==
  ASSUME ModerationInv, NEW p \in People, BeginReview(p) \/ Resolve(p) \/ Supersede(p)
  PROVE  ModerationInv'
<1>1. dispute \in DisputeRecords /\ DisputeOK(dispute) /\ dispute # NoDispute
  BY DEF BeginReview, Resolve, Supersede, ModerationInv, ModerationTypeOK, NoDispute
<1>2. UNCHANGED <<challenge, ownership, responder>>
  BY DEF BeginReview, Resolve, Supersede
<1>3. dispute' \in DisputeRecords /\ DisputeOK(dispute')
  <2>1. CASE BeginReview(p)
    <3> DEFINE d == Logged("review_started", p)
    <3>1. /\ dispute' = [d EXCEPT !.status = "under_review", !.reviewer = p]
          /\ p \notin {dispute.creator, dispute.subjectOwner}
      BY <2>1 DEF BeginReview
    <3>2. /\ d \in DisputeRecords /\ d.creator = dispute.creator
          /\ d.subjectOwner = dispute.subjectOwner /\ Len(d.events) > 0
      BY <1>1, LoggedEvent
    <3> HIDE DEF d
    <3>3. /\ dispute' \in DisputeRecords /\ dispute'.status = "under_review"
          /\ dispute'.reviewer = p /\ dispute'.creator = d.creator
          /\ dispute'.subjectOwner = d.subjectOwner /\ dispute'.events = d.events
      BY <3>1, <3>2, Zenon DEF DisputeRecords
    <3> QED BY <3>1, <3>2, <3>3 DEF DisputeOK, Closed
  <2>2. ASSUME NEW end \in Closed, dispute.status = "under_review", AuthorizeReviewer(p),
               dispute' = [Logged(end, p) EXCEPT !.status = end]
        PROVE  dispute' \in DisputeRecords /\ DisputeOK(dispute')
    <3> DEFINE d == Logged(end, p)
    <3>1. p \notin {dispute.creator, dispute.subjectOwner}
      BY <1>1, <2>2 DEF AuthorizeReviewer, DisputeOK
    <3>2. /\ d \in DisputeRecords /\ d.creator = dispute.creator
          /\ d.subjectOwner = dispute.subjectOwner /\ Len(d.events) > 0
          /\ d.events[Len(d.events)] = Event(end, p)
      BY <1>1, <2>2, LoggedEvent
    <3>3. dispute' = [d EXCEPT !.status = end]
      BY <2>2
    <3> HIDE DEF d
    <3>4. /\ dispute' \in DisputeRecords /\ dispute'.status = end
          /\ dispute'.creator = d.creator /\ dispute'.subjectOwner = d.subjectOwner
          /\ dispute'.events = d.events
      BY <2>2, <3>2, <3>3, Zenon DEF DisputeRecords
    <3>5. end # "under_review"
      BY <2>2 DEF Closed
    <3> QED BY <3>1, <3>2, <3>4, <3>5 DEF DisputeOK, Event
  <2> QED BY <2>1, <2>2 DEF Resolve, Supersede, Closed
<1> QED BY <1>1, <1>2, <1>3 DEF ModerationInv, ModerationTypeOK

\* Challenges come and are verified.
LEMMA ChallengePreserves ==
  ASSUME ModerationInv,
         NEW now \in Times,
         \/ \E p \in People : createOwnershipChallenge(p, now)
         \/ \E c \in Challenges : Verify(c, now)
  PROVE  ModerationInv'
<1>1. UNCHANGED <<ownership, dispute, responder>>
  BY DEF createOwnershipChallenge, Verify
<1>2. challenge \in Seq(ChallengeRecords) /\ DOMAIN challenge = 1..Len(challenge)
  BY LenProperties DEF ModerationInv, ModerationTypeOK
<1>3. challenge' \in Seq(ChallengeRecords)
  <2>1. ASSUME NEW p \in People, createOwnershipChallenge(p, now)
        PROVE  challenge' \in Seq(ChallengeRecords)
    <3>1. now + ChallengeTTL \in Nat
      BY ModerationConstants DEF Times
    <3>2. NewOwnershipChallenge(p, now) \in ChallengeRecords
      BY <3>1 DEF NewOwnershipChallenge, ChallengeRecords
    <3> QED BY <1>2, <2>1, <3>2, AppendProperties DEF createOwnershipChallenge
  <2>2. ASSUME NEW c \in Challenges, Verify(c, now)
        PROVE  challenge' \in Seq(ChallengeRecords)
    <3> DEFINE rec == [challenge[c] EXCEPT !.status = "verified"]
    <3>1. c \in 1..Len(challenge)
      BY <1>2, Zenon DEF Challenges
    <3>2. challenge[c] \in ChallengeRecords
      BY <1>2, <3>1, ElementOfSeq
    <3>3. rec \in ChallengeRecords
      BY <3>2 DEF ChallengeRecords
    <3>4. challenge' = [challenge EXCEPT ![c] = rec]
      BY <2>2 DEF Verify
    <3> HIDE DEF rec
    <3> QED BY <1>2, <3>1, <3>3, <3>4, ExceptSeq
  <2> QED BY <2>1, <2>2
<1> QED BY <1>1, <1>3 DEF ModerationInv, ModerationTypeOK

\* A dispute opens against the owner the store has.
LEMMA DisputePreserves ==
  ASSUME ModerationInv, NEW p \in People, NEW now \in Times, createDispute(p, now)
  PROVE  ModerationInv'
<1>1. PICK o \in CurrentOwnership(now) : dispute' = NewDispute(p, ownership[o].owner)
  BY DEF createDispute
<1>2. UNCHANGED <<challenge, ownership, responder>>
  BY DEF createDispute
<1>3. ownership \in Seq(OwnershipRecords) /\ DOMAIN ownership = 1..Len(ownership)
  BY LenProperties DEF ModerationInv, ModerationTypeOK
<1>4. o \in 1..Len(ownership)
  BY <1>3, Zenon DEF CurrentOwnership, Ownerships
<1>5. ownership[o] \in OwnershipRecords
  BY <1>3, <1>4, ElementOfSeq
<1>6. ownership[o].owner \in People
  BY <1>5, Zenon DEF OwnershipRecords
<1>7. ASSUME NEW owner \in People
      PROVE  NewDispute(p, owner) \in DisputeRecords /\ DisputeOK(NewDispute(p, owner))
  BY DEF NewDispute, Event, DisputeRecords, DisputeOK, Closed
<1> QED BY <1>1, <1>2, <1>6, <1>7 DEF ModerationInv, ModerationTypeOK

\* An owner's right to respond is checked.
LEMMA AuthorizePreserves ==
  ASSUME ModerationInv, NEW r \in Responders, NEW o \in Ownerships, NEW now \in Times,
         AuthorizeManage(r, o, now)
  PROVE  ModerationInv'
<1>1. UNCHANGED <<challenge, ownership, dispute>>
  BY DEF AuthorizeManage
<1>2. ownership[o].owner \in People
  <2>1. ownership \in Seq(OwnershipRecords) /\ DOMAIN ownership = 1..Len(ownership)
    BY LenProperties DEF ModerationInv, ModerationTypeOK
  <2>2. o \in 1..Len(ownership)
    BY <2>1, Zenon DEF Ownerships
  <2>3. ownership[o] \in OwnershipRecords
    BY <2>1, <2>2, ElementOfSeq
  <2> QED BY <2>3, Zenon DEF OwnershipRecords
<1>3. responder' \in [Responders -> [pc : {"authorized"}, owner : People]
                                    \union {[pc |-> "idle"]}]
  BY <1>2 DEF AuthorizeManage, ModerationInv, ModerationTypeOK
<1> QED BY <1>1, <1>3 DEF ModerationInv, ModerationTypeOK

\* The invariant always holds.
LEMMA ModerationInvariant == ModerationSpec => []ModerationInv
<1>1. ModerationInit => ModerationInv
  BY DEF ModerationInit, ModerationInv, ModerationTypeOK, LineOK, DisputeOK, NoDispute
<1>2. ASSUME ModerationInv, [ModerationNext]_moderationVars PROVE ModerationInv'
  <2>1. ASSUME NEW o \in Ownerships, PutOwnership(o) PROVE ModerationInv'
    BY <1>2, <2>1 DEF PutOwnership, ModerationInv, ModerationTypeOK
  <2>2. CASE UNCHANGED moderationVars
    BY <1>2, <2>2 DEF moderationVars, ModerationInv, ModerationTypeOK
  <2> QED BY <1>2, <2>1, <2>2, ChallengePreserves, FromChallengePreserves,
             TransferPreserves, RevokePreserves, DisputePreserves, AuthorizePreserves,
             ResponsePreserves, ReviewPreserves
          DEF ModerationNext
<1> QED BY <1>1, <1>2, PTL DEF ModerationSpec

\* What has ended stays ended, for any number of people, challenges, ownerships and
\* concurrent calls, whatever times the calls carry.
THEOREM EndedIsFinal == ModerationSpec => []EndedStaysEnded
<1>1. ModerationInv => EndedStaysEnded
  <2> SUFFICES ASSUME ModerationInv PROVE EndedStaysEnded
    OBVIOUS
  <2>1. Ownerships = 1..Len(ownership)
    BY LenProperties DEF Ownerships, ModerationInv, ModerationTypeOK
  <2>2. \A a, b \in Ownerships : ownership[a].from # 0 =>
          /\ ownership[a].from = ownership[b].from => (a = b)
          /\ ownership[ownership[a].from].reason = "ownership_transferred"
    BY <2>1 DEF ModerationInv, LineOK
  <2>3. dispute.status \in {"resolved", "superseded"} => dispute # NoDispute
    BY DEF NoDispute
  <2> QED BY <2>2, <2>3 DEF EndedStaysEnded, ModerationInv, DisputeOK, Closed
<1> QED BY <1>1, ModerationInvariant, PTL

-----------------------------------------------------------------------------
(* A purge.                                                                *)

\* The entries of a purge's journal.
Entries == [action : {"requested", "started", "completed"} \union Outcomes,
            target : PurgeTargets \union {""}]

Statuses == [PurgeTargets -> {"pending"} \union Outcomes]

Reported(ts) == {t \in PurgeTargets : ts[t] # "pending"}

\* A journal after its first two entries: one more for every target that was
\* reported, with its outcome.
Journal(ts, ev) ==
    /\ ts \in Statuses
    /\ ev \in Seq(Entries)
    /\ Len(ev) = 2 + Cardinality(Reported(ts))
    /\ \A t \in Reported(ts) : \E i \in 3..Len(ev) :
          ev[i].action = ts[t] /\ \A j \in 1..Len(ev) : ev[j].target = t <=> j = i
    /\ \A t \in PurgeTargets \ Reported(ts) : \A j \in 1..Len(ev) : ev[j].target # t
    /\ \A j \in 1..Len(ev) : ev[j].action # "completed"

Completion == [action |-> "completed", target |-> ""]

PurgeRecords == [status : {"requested", "in_progress", "completed"}, deadline : Nat,
                 completedAt : Int, targets : Statuses, events : Seq(Entries)]

PurgeOK(p) ==
    /\ p \in PurgeRecords
    /\ p.status = "requested" =>
          /\ p.events = <<[action |-> "requested", target |-> ""]>>
          /\ Reported(p.targets) = {}
    /\ p.status = "in_progress" => Journal(p.targets, p.events) /\ Reported(p.targets) # PurgeTargets
    /\ p.status = "completed" =>
          \E ev \in Seq(Entries) : /\ Journal(p.targets, ev) /\ p.events = Append(ev, Completion)
                                   /\ Reported(p.targets) = PurgeTargets

PurgeInv == PurgeOK(purge) /\ purgeHour \in Nat

\* An entry appended to a journal.
LEMMA AppendEntry ==
    ASSUME NEW ev \in Seq(Entries), NEW e \in Entries
    PROVE  /\ Append(ev, e) \in Seq(Entries)
           /\ Len(ev) \in Nat
           /\ Len(Append(ev, e)) = Len(ev) + 1
           /\ \A i \in 1..Len(ev) : Append(ev, e)[i] = ev[i]
           /\ Append(ev, e)[Len(ev) + 1] = e
BY SMT

\* The report of a target that was pending.
LEMMA ReportJournal ==
    ASSUME NEW ts, NEW ev, Journal(ts, ev), NEW t \in PurgeTargets, ts[t] = "pending",
           NEW outcome \in Outcomes
    PROVE  Journal([ts EXCEPT ![t] = outcome], Append(ev, [action |-> outcome, target |-> t]))
<1> DEFINE us == [ts EXCEPT ![t] = outcome]
           e == [action |-> outcome, target |-> t]
           fv == Append(ev, e)
           n == Len(ev)
<1>1. ts \in Statuses /\ ev \in Seq(Entries) /\ outcome # "pending" /\ outcome # "completed"
  BY DEF Journal, Outcomes
<1>2. us \in Statuses /\ us[t] = outcome /\ \A u \in PurgeTargets : u # t => us[u] = ts[u]
  BY <1>1, Zenon DEF Statuses
<1>3. Reported(us) = Reported(ts) \union {t} /\ t \notin Reported(ts)
  BY <1>1, <1>2, Zenon DEF Reported
<1>4. e \in Entries /\ e.action = outcome /\ e.target = t
  BY Zenon DEF Entries
<1> HIDE DEF e
<1>5. /\ fv \in Seq(Entries) /\ n \in Nat /\ Len(fv) = n + 1
      /\ \A i \in 1..n : fv[i] = ev[i]
      /\ fv[n + 1] = e
  BY <1>1, <1>4, AppendEntry
<1>6. IsFiniteSet(Reported(ts))
  <2>1. Reported(ts) \subseteq PurgeTargets
    BY Zenon DEF Reported
  <2> QED BY <2>1, PurgeConstants, FS_Subset, Zenon
<1>7. Cardinality(Reported(us)) = Cardinality(Reported(ts)) + 1 /\ Cardinality(Reported(ts)) \in Nat
  BY <1>3, <1>6, FS_AddElement, FS_CardinalityType, Zenon
<1>8. n = 2 + Cardinality(Reported(ts))
  BY Zenon DEF Journal
<1> HIDE DEF us, fv
<1>9. Len(fv) = 2 + Cardinality(Reported(us)) /\ n >= 2
  BY <1>5, <1>7, <1>8
<1> HIDE DEF n
<1>10. ASSUME NEW u \in Reported(us)
       PROVE  \E i \in 3..Len(fv) : /\ fv[i].action = us[u]
                                   /\ \A j \in 1..Len(fv) : fv[j].target = u <=> j = i
  <2>1. CASE u = t
    <3>1. \A j \in 1..n : ev[j].target # t
      BY <1>3 DEF Journal, n
    <3>2. n + 1 \in 3..Len(fv) /\ \A j \in 1..Len(fv) : j \in 1..n \/ j = n + 1
      BY <1>5, <1>9
    <3>3. n + 1 \notin 1..n
      BY <1>5
    <3>4. \A j \in 1..Len(fv) : fv[j].target = t <=> j = n + 1
      BY <1>4, <1>5, <3>1, <3>2, <3>3
    <3> QED BY <1>2, <1>4, <1>5, <2>1, <3>2, <3>4
  <2>2. CASE u # t
    <3>1. u \in Reported(ts) /\ us[u] = ts[u]
      BY <1>2, <1>3, <2>2, Zenon DEF Reported
    <3>2. PICK i \in 3..n : ev[i].action = ts[u] /\ \A j \in 1..n : ev[j].target = u <=> j = i
      BY <3>1 DEF Journal, n
    <3>3. /\ i \in 3..Len(fv) /\ i \in 1..n /\ i # n + 1
          /\ \A j \in 1..Len(fv) : j \in 1..n \/ j = n + 1
      BY <1>5
    <3>4. \A j \in 1..Len(fv) : fv[j].target = u <=> j = i
      BY <1>4, <1>5, <2>2, <3>2, <3>3
    <3> QED BY <1>5, <3>1, <3>2, <3>3, <3>4
  <2> QED BY <2>1, <2>2
<1>11. ASSUME NEW u \in PurgeTargets \ Reported(us), NEW j \in 1..Len(fv)
       PROVE  fv[j].target # u
  <2>1. u \in PurgeTargets \ Reported(ts) /\ u # t
    BY <1>3, Zenon
  <2>2. \A k \in 1..n : ev[k].target # u
    BY <2>1 DEF Journal, n
  <2>3. j \in 1..n \/ j = n + 1
    BY <1>5
  <2> QED BY <1>4, <1>5, <2>1, <2>2, <2>3
<1>12. ASSUME NEW j \in 1..Len(fv) PROVE fv[j].action # "completed"
  <2>1. \A k \in 1..n : ev[k].action # "completed"
    BY DEF Journal, n
  <2>2. j \in 1..n \/ j = n + 1
    BY <1>5
  <2> QED BY <1>1, <1>4, <1>5, <2>1, <2>2
<1>13. Journal(us, fv)
  BY <1>2, <1>5, <1>9, <1>10, <1>11, <1>12, Zenon DEF Journal
<1> QED BY <1>13, Zenon DEF us, fv, e

Stages == {"requested", "in_progress", "completed"}

\* What the edits of a request leave as they were.
LEMMA PurgeStage ==
    ASSUME NEW p \in PurgeRecords, NEW st \in Stages
    PROVE  LET q == [p EXCEPT !.status = st]
           IN  /\ q \in PurgeRecords /\ q.status = st
               /\ q.targets = p.targets /\ q.events = p.events
BY Zenon DEF PurgeRecords, Stages

\* A purge with other outcomes.
LEMMA PurgeTargetsSet ==
    ASSUME NEW p \in PurgeRecords, NEW ts \in Statuses
    PROVE  LET q == [p EXCEPT !.targets = ts]
           IN  /\ q \in PurgeRecords /\ q.targets = ts
               /\ q.status = p.status /\ q.events = p.events
BY Zenon DEF PurgeRecords

\* A purge with another journal.
LEMMA PurgeEntered ==
    ASSUME NEW p \in PurgeRecords, NEW ev \in Seq(Entries)
    PROVE  LET q == [p EXCEPT !.events = ev]
           IN  /\ q \in PurgeRecords /\ q.events = ev
               /\ q.status = p.status /\ q.targets = p.targets
BY Zenon DEF PurgeRecords

\* A purge that is completed.
LEMMA PurgeEnded ==
    ASSUME NEW p \in PurgeRecords, purgeHour \in Int, NEW ev \in Seq(Entries)
    PROVE  LET q == [p EXCEPT !.status = "completed", !.completedAt = purgeHour, !.events = ev]
           IN  /\ q \in PurgeRecords /\ q.status = "completed"
               /\ q.targets = p.targets /\ q.events = ev
BY Zenon DEF PurgeRecords

\* A purge starts, with two entries in its journal.
LEMMA StartPurgeInv ==
    ASSUME PurgeInv, StartPurge
    PROVE  PurgeInv'
<1> DEFINE e == [action |-> "requested", target |-> ""]
           f == [action |-> "started", target |-> ""]
           fv == Append(purge.events, f)
           q == [purge EXCEPT !.events = fv]
           p == [q EXCEPT !.status = "in_progress"]
<1>1. /\ purge \in PurgeRecords /\ purge.status = "requested" /\ purge.events = <<e>>
      /\ Reported(purge.targets) = {}
  BY Zenon DEF PurgeInv, PurgeOK, StartPurge
<1>2. purge' = p /\ purgeHour' = purgeHour
  BY Zenon DEF StartPurge, Recorded
<1>3. purge.targets \in Statuses /\ purge.events \in Seq(Entries)
  BY <1>1, Zenon DEF PurgeRecords
<1>4. /\ e \in Entries /\ f \in Entries /\ e.target = "" /\ f.target = ""
      /\ e.action # "completed" /\ f.action # "completed"
  BY Zenon DEF Entries
<1> HIDE DEF e, f
<1>5. /\ fv \in Seq(Entries) /\ Len(fv) = 2 /\ fv[1] = e /\ fv[2] = f
  <2>1. <<e>> \in Seq(Entries) /\ Len(<<e>>) = 1 /\ <<e>>[1] = e
    <3>1. e \in Entries
      BY <1>4, Zenon
    <3> QED BY <3>1
  <2>2. /\ Append(<<e>>, f) \in Seq(Entries) /\ Len(Append(<<e>>, f)) = 1 + 1
        /\ \A i \in 1..1 : Append(<<e>>, f)[i] = <<e>>[i]
        /\ Append(<<e>>, f)[1 + 1] = f
    BY <1>4, <2>1, AppendEntry, Zenon
  <2>3. 1 + 1 = 2 /\ 1 \in 1..1
    OBVIOUS
  <2> QED BY <1>1, <2>1, <2>2, <2>3, Zenon
<1> HIDE DEF fv
<1>6. Cardinality(Reported(purge.targets)) = 0
  BY <1>1, FS_EmptySet, Zenon
<1>7. \A j \in 1..Len(fv) : fv[j].target = "" /\ fv[j].action # "completed"
  <2>1. \A j \in 1..Len(fv) : j = 1 \/ j = 2
    BY <1>5
  <2> QED BY <1>4, <1>5, <2>1, Zenon
<1>8. Len(fv) = 2 + Cardinality(Reported(purge.targets))
  BY <1>5, <1>6
<1>9. Journal(purge.targets, fv)
  BY <1>1, <1>3, <1>5, <1>7, <1>8, PurgeConstants, Zenon DEF Journal
<1>10. q \in PurgeRecords /\ q.events = fv /\ q.targets = purge.targets
  BY <1>1, <1>5, PurgeEntered, Zenon
<1>11. "in_progress" \in Stages
  BY Zenon DEF Stages
<1> HIDE DEF q
<1>12. p \in PurgeRecords /\ p.status = "in_progress" /\ p.targets = purge.targets /\ p.events = fv
  BY <1>10, <1>11, PurgeStage, Zenon
<1> HIDE DEF p
<1>13. PurgeOK(p)
  BY <1>1, <1>9, <1>12, PurgeConstants, Zenon DEF PurgeOK
<1> QED BY <1>2, <1>13, Zenon DEF PurgeInv

\* A target is reported.
LEMMA CompleteTargetInv ==
    ASSUME PurgeInv, NEW t \in PurgeTargets, NEW outcome \in Outcomes, CompleteTarget(t, outcome)
    PROVE  PurgeInv'
<1> DEFINE ts == [purge.targets EXCEPT ![t] = outcome]
           ev == Append(purge.events, [action |-> outcome, target |-> t])
           q == [purge EXCEPT !.events = ev]
           reported == [q EXCEPT !.targets = ts]
           fv == Append(reported.events, Completion)
           p == [reported EXCEPT !.status = "completed", !.completedAt = purgeHour, !.events = fv]
<1>1. purge \in PurgeRecords /\ purgeHour \in Nat /\ purgeHour' = purgeHour
  BY Zenon DEF PurgeInv, PurgeOK, CompleteTarget
<1>2. CASE purge.status # "in_progress" \/ purge.targets[t] # "pending"
  BY <1>1, <1>2, Zenon DEF PurgeInv, CompleteTarget
<1>3. CASE purge.status = "in_progress" /\ purge.targets[t] = "pending"
  <2>0. purge' = IF AllTargetsTerminal(ts) THEN p ELSE reported
    BY <1>3, Zenon DEF CompleteTarget, Recorded, Completion
  <2>1. Journal(purge.targets, purge.events)
    BY <1>3, Zenon DEF PurgeInv, PurgeOK
  <2>2. Journal(ts, ev)
    BY <1>3, <2>1, ReportJournal, Zenon
  <2> HIDE DEF ts, ev
  <2>3. ts \in Statuses /\ ev \in Seq(Entries)
    BY <2>2, Zenon DEF Journal
  <2>4. q \in PurgeRecords /\ q.events = ev /\ q.status = "in_progress"
    BY <1>1, <1>3, <2>3, PurgeEntered, Zenon
  <2> HIDE DEF q
  <2>5. /\ reported \in PurgeRecords /\ reported.events = ev /\ reported.targets = ts
        /\ reported.status = "in_progress"
    BY <2>3, <2>4, PurgeTargetsSet, Zenon
  <2> HIDE DEF reported
  <2>6. Reported(ts) = PurgeTargets <=> AllTargetsTerminal(ts)
    BY Zenon DEF Reported, AllTargetsTerminal
  <2>7. CASE AllTargetsTerminal(ts)
    <3>1. Completion \in Entries
      BY Zenon DEF Completion, Entries
    <3>2. fv \in Seq(Entries) /\ fv = Append(ev, Completion)
      BY <2>3, <2>5, <3>1, AppendEntry, Zenon
    <3>3. purgeHour \in Int
      BY <1>1
    <3> HIDE DEF fv
    <3>4. p \in PurgeRecords /\ p.status = "completed" /\ p.targets = ts /\ p.events = fv
      BY <2>5, <3>2, <3>3, PurgeEnded, ZenonT(40)
    <3> HIDE DEF p
    <3>5. PurgeOK(p)
      BY <2>2, <2>3, <2>6, <2>7, <3>2, <3>4, Zenon DEF PurgeOK
    <3> QED BY <1>1, <2>0, <2>7, <3>5, Zenon DEF PurgeInv
  <2>8. CASE ~ AllTargetsTerminal(ts)
    <3>1. PurgeOK(reported)
      BY <2>2, <2>5, <2>6, <2>8, Zenon DEF PurgeOK
    <3> QED BY <1>1, <2>0, <2>8, <3>1, Zenon DEF PurgeInv
  <2> QED BY <2>7, <2>8
<1> QED BY <1>2, <1>3

\* The invariant of purges always holds.
LEMMA PurgeInvariant == PurgeSpec => []PurgeInv
<1>1. ASSUME PurgeInit PROVE PurgeInv
  <2> DEFINE ts == [t \in PurgeTargets |-> "pending"]
             e == [action |-> "requested", target |-> ""]
             p == [status |-> "requested", deadline |-> 0 + Deadline, completedAt |-> -1,
                   targets |-> ts, events |-> <<e>>]
  <2>1. purge = p /\ purgeHour \in Nat
    BY <1>1, Zenon DEF PurgeInit, NewPurgeRequest
  <2>2. ts \in Statuses /\ Reported(ts) = {}
    BY Zenon DEF Statuses, Reported
  <2>3. 0 + Deadline \in Nat /\ -1 \in Int
    <3>1. Deadline \in Nat
      BY PurgeConstants, Zenon
    <3> QED BY <3>1
  <2>7. e \in Entries
    BY Zenon DEF Entries
  <2>4. <<e>> \in Seq(Entries)
    <3> HIDE DEF e
    <3> QED BY <2>7
  <2>5. p \in PurgeRecords /\ p.status = "requested" /\ p.events = <<e>> /\ p.targets = ts
    BY <2>2, <2>3, <2>4, Zenon DEF PurgeRecords
  <2> HIDE DEF p
  <2>6. PurgeOK(p)
    BY <2>2, <2>5, Zenon DEF PurgeOK
  <2> QED BY <2>1, <2>6, Zenon DEF PurgeInv
<1>2. ASSUME PurgeInv, [PurgeNext]_purgeVars PROVE PurgeInv'
  <2>1. CASE PurgeHourPasses
    BY <1>2, <2>1 DEF PurgeInv, PurgeHourPasses
  <2>2. CASE UNCHANGED purgeVars
    BY <1>2, <2>2 DEF PurgeInv, purgeVars
  <2> QED BY <1>2, <2>1, <2>2, StartPurgeInv, CompleteTargetInv, Zenon DEF PurgeNext
<1> QED BY <1>1, <1>2, PTL DEF PurgeSpec

\* A purge of any number of targets, reported in any order, repeatedly or too early,
\* is completed exactly when its journal has one report of every target, each with
\* the outcome on record, and the completion last: CompleteTarget takes a target
\* once and only while the purge is under way.
THEOREM PurgeIsExact == PurgeSpec => []PurgeCompletionExact
<1>1. ASSUME PurgeInv PROVE PurgeCompletionExact
  <2> DEFINE ts == purge.targets
             fv == purge.events
             n == Len(fv)
             reports(t) == {i \in 1..n : fv[i].target = t}
  <2>1. purge \in PurgeRecords /\ PurgeOK(purge)
    BY <1>1, Zenon DEF PurgeInv, PurgeOK
  <2>2. purge.status \in {"requested", "in_progress", "completed"} /\ fv \in Seq(Entries)
        /\ ts \in Statuses
    BY <2>1, Zenon DEF PurgeRecords
  <2>3. CASE purge.status # "completed"
    <3>1. Reported(ts) # PurgeTargets
      BY <2>1, <2>2, <2>3, PurgeConstants, Zenon DEF PurgeOK
    <3>2. \E t \in PurgeTargets : ts[t] = "pending"
      BY <3>1, Zenon DEF Reported
    <3>3. fv[n].action # "completed"
      <4>1. CASE purge.status = "requested"
        <5>1. fv = <<[action |-> "requested", target |-> ""]>>
          BY <2>1, <4>1, Zenon DEF PurgeOK
        <5> DEFINE e == [action |-> "requested", target |-> ""]
        <5>2. e.action # "completed"
          BY Zenon
        <5> HIDE DEF e
        <5>3. Len(<<e>>) = 1 /\ <<e>>[1] = e
          OBVIOUS
        <5> QED BY <5>1, <5>2, <5>3, Zenon DEF e
      <4>2. CASE purge.status = "in_progress"
        <5>1. Journal(ts, fv)
          BY <2>1, <4>2, Zenon DEF PurgeOK
        <5>2. Cardinality(Reported(ts)) \in Nat
          <6>1. IsFiniteSet(Reported(ts))
            BY PurgeConstants, FS_Subset, Zenon DEF Reported
          <6> QED BY <6>1, FS_CardinalityType, Zenon
        <5>3. n = 2 + Cardinality(Reported(ts))
          BY <5>1, Zenon DEF Journal
        <5> HIDE DEF n
        <5>4. n \in 1..n
          BY <5>2, <5>3
        <5>5. \A j \in 1..n : fv[j].action # "completed"
          BY <5>1, Zenon DEF Journal, n
        <5> QED BY <5>4, <5>5, Zenon
      <4> QED BY <2>2, <2>3, <4>1, <4>2
    <3> QED BY <2>3, <3>2, <3>3, Zenon DEF PurgeCompletionExact
  <2>4. CASE purge.status = "completed"
    <3>1. PICK ev \in Seq(Entries) : Journal(ts, ev) /\ fv = Append(ev, Completion)
                                     /\ Reported(ts) = PurgeTargets
      BY <2>1, <2>4, Zenon DEF PurgeOK
    <3>2. Completion \in Entries /\ Completion.action = "completed" /\ Completion.target = ""
      BY Zenon DEF Completion, Entries
    <3> DEFINE m == Len(ev)
    <3>8. /\ m \in Nat /\ n = m + 1 /\ fv[m + 1] = Completion /\ \A i \in 1..m : fv[i] = ev[i]
      <4>1. /\ Len(ev) \in Nat /\ Len(Append(ev, Completion)) = Len(ev) + 1
            /\ Append(ev, Completion)[Len(ev) + 1] = Completion
            /\ \A i \in 1..Len(ev) : Append(ev, Completion)[i] = ev[i]
        BY <3>2, AppendEntry, Zenon
      <4> QED BY <3>1, <4>1, Zenon
    <3>9. m \in Nat /\ n = m + 1
      BY <3>8, Zenon
    <3>3. /\ fv[n].action = "completed" /\ fv[n].target = ""
          /\ \A i \in 1..m : fv[i] = ev[i]
      BY <3>2, <3>8, Zenon
    <3>4. m = 2 + Cardinality(PurgeTargets) /\ Cardinality(PurgeTargets) \in Nat
      BY <3>1, PurgeConstants, FS_CardinalityType, Zenon DEF Journal
    <3>5. ASSUME NEW t \in PurgeTargets
          PROVE  \E i \in 3..(n - 1) : reports(t) = {i} /\ fv[i].action = ts[t]
      <4>1. PICK i \in 3..m : ev[i].action = ts[t] /\ \A j \in 1..m : ev[j].target = t <=> j = i
        BY <3>1, Zenon DEF Journal
      <4> HIDE DEF m, n, fv
      <4>2. /\ i \in 3..(n - 1) /\ i \in 1..m /\ i \in 1..n
            /\ \A j \in 1..n : j \in 1..m \/ j = n
        BY <3>9
      <4>3. t # ""
        BY PurgeConstants, Zenon
      <4>4. \A j \in 1..n : fv[j].target = t <=> j = i
        BY <3>3, <4>1, <4>2, <4>3, Zenon
      <4> QED BY <3>3, <4>1, <4>2, <4>4, Zenon
    <3>6. n = Cardinality(PurgeTargets) + 3
      <4> HIDE DEF m, n
      <4> QED BY <3>4, <3>9
    <3>7. ~ MissedDeadline(LastHour)
      BY <2>4, Zenon DEF MissedDeadline
    <3> QED BY <2>4, <3>3, <3>5, <3>6, <3>7, Zenon DEF PurgeCompletionExact
  <2> QED BY <2>3, <2>4
<1> QED BY <1>1, PurgeInvariant, PTL

-----------------------------------------------------------------------------
(* The rate limiter.                                                       *)

Buckets == Hosts \union {Overflow}
Windows == [started : Int, count : Nat]
Decisions == [key : Buckets, now : Int, ok : BOOLEAN]

\* The requests among the first n decisions that bucket k let through in the window
\* that started at s.
Through(sv, n, k, s) ==
    {j \in 1..n : sv[j].key = k /\ sv[j].ok /\ s <= sv[j].now /\ sv[j].now < s + Window}

\* The requests before the i-th that bear its refusal out.
Bearing(sv, i) == {j \in 1..(i - 1) : /\ sv[j].key = sv[i].key
                                      /\ sv[j].ok
                                      /\ sv[j].now - sv[i].now < Window
                                      /\ sv[i].now - sv[j].now < Window}

\* A count below the limit is that of the requests let through.
CountOK(sv, n, k, w) == \/ w.count <= Cardinality(Through(sv, n, k, w.started))
                        \/ Limit <= Cardinality(Through(sv, n, k, w.started))

Table(t) == /\ DOMAIN t \subseteq Buckets /\ IsFiniteSet(DOMAIN t)
            /\ t = [k \in DOMAIN t |-> t[k]]
            /\ \A k \in DOMAIN t : t[k] \in Windows
            /\ Cardinality(DOMAIN t \ {Overflow}) <= MaxEntries

LimiterInv == /\ Table(entries)
              /\ hour \in Nat
              /\ served \in Seq(Decisions)
              /\ \A k \in DOMAIN entries : CountOK(served, Len(served), k, entries[k])
              /\ \A i \in 1..Len(served) :
                    served[i].ok \/ Cardinality(Bearing(served, i)) >= Limit

\* The sets of requests are finite.
LEMMA ThroughFinite ==
    ASSUME NEW sv, NEW n \in Nat, NEW k, NEW s
    PROVE  /\ IsFiniteSet(Through(sv, n, k, s))
           /\ Cardinality(Through(sv, n, k, s)) \in Nat
<1>1. IsFiniteSet(1..n)
  BY FS_Interval
<1>2. Through(sv, n, k, s) \subseteq 1..n
  BY Zenon DEF Through
<1> QED BY <1>1, <1>2, FS_Subset, FS_CardinalityType, Zenon

\* A decision appended.
LEMMA AppendDecision ==
    ASSUME NEW sv \in Seq(Decisions), NEW e \in Decisions
    PROVE  /\ Append(sv, e) \in Seq(Decisions)
           /\ Len(sv) \in Nat
           /\ Len(Append(sv, e)) = Len(sv) + 1
           /\ \A i \in 1..Len(sv) : Append(sv, e)[i] = sv[i]
           /\ Append(sv, e)[Len(sv) + 1] = e
BY SMT

\* The first n decisions are the same.
Agrees(sv, tv, n) == \A i \in 1..n : tv[i] = sv[i]

\* A decision that let a request of bucket k through in the window from s.
LetThrough(d, k, s) == d.key = k /\ d.ok /\ s <= d.now /\ d.now < s + Window

\* One decision more: what was let through stays, and the decision counts when it
\* let a request through in the window.
LEMMA ThroughGrows ==
    ASSUME NEW sv, NEW tv, NEW n \in Nat, Agrees(sv, tv, n), NEW k, NEW s
    PROVE  /\ Cardinality(Through(sv, n, k, s)) <= Cardinality(Through(tv, n + 1, k, s))
           /\ LetThrough(tv[n + 1], k, s) =>
                 Cardinality(Through(tv, n + 1, k, s)) = Cardinality(Through(sv, n, k, s)) + 1
<1> DEFINE A == Through(sv, n, k, s)
           B == Through(tv, n + 1, k, s)
<1>1. n + 1 \in Nat /\ 1..(n + 1) = 1..n \union {n + 1} /\ n + 1 \notin 1..n
  OBVIOUS
<1>2. IsFiniteSet(A) /\ IsFiniteSet(B) /\ Cardinality(A) \in Nat /\ Cardinality(B) \in Nat
  BY <1>1, ThroughFinite, Zenon
<1>3. A \subseteq B /\ n + 1 \notin A
  BY <1>1, Zenon DEF Through, Agrees
<1>4. Cardinality(A) <= Cardinality(B)
  BY <1>2, <1>3, FS_Subset, Zenon
<1>5. ASSUME LetThrough(tv[n + 1], k, s)
      PROVE  B = A \union {n + 1}
  BY <1>1, <1>5, Zenon DEF Through, Agrees, LetThrough
<1>6. ASSUME B = A \union {n + 1} PROVE Cardinality(B) = Cardinality(A) + 1
  BY <1>2, <1>3, <1>6, FS_AddElement, Zenon
<1> QED BY <1>4, <1>5, <1>6, Zenon

\* The requests of a window bear out a refusal in it.
LEMMA WindowBears ==
    ASSUME NEW sv, NEW n \in Nat, NEW s \in Int, \A j \in 1..n : sv[j].now \in Int,
           sv[n + 1].now \in Int, s <= sv[n + 1].now, sv[n + 1].now < s + Window
    PROVE  Cardinality(Through(sv, n, sv[n + 1].key, s)) <= Cardinality(Bearing(sv, n + 1))
<1> DEFINE A == Through(sv, n, sv[n + 1].key, s)
           B == Bearing(sv, n + 1)
<1>2. ASSUME NEW j \in 1..n, s <= sv[j].now, sv[j].now < s + Window
      PROVE  sv[j].now - sv[n + 1].now < Window /\ sv[n + 1].now - sv[j].now < Window
  <2> DEFINE a == sv[j].now
             b == sv[n + 1].now
  <2>1. a \in Int /\ b \in Int /\ s <= a /\ a < s + Window /\ s <= b /\ b < s + Window
    BY <1>2, Zenon
  <2> HIDE DEF a, b
  <2>2. a - b < Window /\ b - a < Window
    BY <2>1, LimiterConstants
  <2> QED BY <2>2, Zenon DEF a, b
<1>3. A \subseteq B
  <2> SUFFICES ASSUME NEW j \in A PROVE j \in B
    BY Zenon
  <2>1. /\ j \in 1..n /\ sv[j].key = sv[n + 1].key /\ sv[j].ok
        /\ s <= sv[j].now /\ sv[j].now < s + Window
    BY Zenon DEF Through
  <2>2. sv[j].now - sv[n + 1].now < Window /\ sv[n + 1].now - sv[j].now < Window
    BY <1>2, <2>1, Zenon
  <2>3. j \in 1..((n + 1) - 1)
    BY <2>1
  <2> QED BY <2>1, <2>2, <2>3, Zenon DEF Bearing
<1>4. IsFiniteSet(B)
  <2>1. IsFiniteSet(1..n) /\ B \subseteq 1..n
    <3>1. B \subseteq 1..n
      <4>1. B \subseteq 1..((n + 1) - 1)
        BY Zenon DEF Bearing
      <4>2. 1..((n + 1) - 1) = 1..n
        OBVIOUS
      <4> QED BY <4>1, <4>2
    <3> QED BY <3>1, FS_Interval
  <2> QED BY <2>1, FS_Subset, Zenon
<1> QED BY <1>3, <1>4, FS_Subset, Zenon

\* A refusal that was borne out stays so.
LEMMA BearingStays ==
    ASSUME NEW sv, NEW tv, NEW n \in Nat, Agrees(sv, tv, n), NEW i \in 1..n
    PROVE  Bearing(tv, i) = Bearing(sv, i)
<1>1. \A j \in 1..(i - 1) : j \in 1..n
  OBVIOUS
<1> QED BY <1>1, Zenon DEF Bearing, Agrees

\* The window a request counts in holds its time, and its count is in order.
LEMMA CurrentOK ==
    ASSUME LimiterInv, NEW key \in Buckets, NEW now \in Int
    PROVE  LET w == Current(key, now)
           IN  /\ w \in Windows /\ w.started <= now /\ now < w.started + Window
               /\ CountOK(served, Len(served), key, w)
<1> DEFINE f == [started |-> now, count |-> 0]
           fresh == \/ key \notin DOMAIN entries
                    \/ now - entries[key].started >= Window
                    \/ now < entries[key].started
           n == Len(served)
<1>1. n \in Nat
  BY DEF LimiterInv
<1>2. CASE fresh
  <2>1. Current(key, now) = f
    BY <1>2, Zenon DEF Current
  <2>2. f \in Windows /\ f.started = now /\ f.count = 0
    BY DEF Windows
  <2> HIDE DEF f
  <2>3. f.started <= now /\ now < f.started + Window
    BY <2>2, LimiterConstants
  <2>4. Cardinality(Through(served, n, key, f.started)) \in Nat
    BY <1>1, ThroughFinite, Zenon
  <2>5. CountOK(served, n, key, f)
    BY <2>2, <2>4 DEF CountOK
  <2> QED BY <2>1, <2>2, <2>3, <2>5, Zenon
<1>3. CASE ~ fresh
  <2>1. Current(key, now) = entries[key] /\ key \in DOMAIN entries
    BY <1>3, Zenon DEF Current
  <2> DEFINE w == entries[key]
  <2>2. w \in Windows /\ CountOK(served, n, key, w)
    BY <2>1, Zenon DEF LimiterInv, Table
  <2>3. w.started \in Int /\ ~(now - w.started >= Window) /\ ~(now < w.started)
    BY <1>3, <2>2, Zenon DEF Windows
  <2> DEFINE s == w.started
  <2> HIDE DEF s
  <2>4. s <= now /\ now < s + Window
    BY <2>3, LimiterConstants DEF s
  <2> QED BY <2>1, <2>2, <2>4, Zenon DEF s
<1> QED BY <1>2, <1>3

\* A table that lost some of its buckets.
LEMMA SweptTable ==
    ASSUME NEW t, Table(t), NEW now
    PROVE  LET u == Swept(t, now)
           IN  Table(u) /\ \A k \in DOMAIN u : k \in DOMAIN t /\ u[k] = t[k]
<1> DEFINE D == {k \in DOMAIN t : now - t[k].started < Window}
           u == [k \in D |-> t[k]]
<1>1. CASE Cardinality(DOMAIN t) <= MaxEntries
  BY <1>1, Zenon DEF Swept
<1>2. CASE ~ (Cardinality(DOMAIN t) <= MaxEntries)
  <2>1. Swept(t, now) = u
    BY <1>2, Zenon DEF Swept
  <2>2. D \subseteq DOMAIN t
    BY Zenon
  <2> HIDE DEF D
  <2>3. DOMAIN u = D /\ \A k \in D : u[k] = t[k]
    BY Zenon
  <2>4. IsFiniteSet(D) /\ IsFiniteSet(DOMAIN t \ {Overflow})
    BY <2>2, FS_Subset, Zenon DEF Table
  <2>5. Cardinality(D \ {Overflow}) <= MaxEntries
    <3>1. D \ {Overflow} \subseteq DOMAIN t \ {Overflow}
      BY <2>2, Zenon
    <3> DEFINE a == Cardinality(D \ {Overflow})
               b == Cardinality(DOMAIN t \ {Overflow})
    <3>2. IsFiniteSet(D \ {Overflow}) /\ a <= b
      BY <2>4, <3>1, FS_Subset, Zenon
    <3>3. a \in Nat /\ b \in Nat /\ b <= MaxEntries
      BY <2>4, <3>2, FS_CardinalityType, Zenon DEF Table
    <3> HIDE DEF a, b
    <3>4. a <= MaxEntries
      BY <3>2, <3>3, LimiterConstants
    <3> QED BY <3>4, Zenon DEF a
  <2>6. u = [k \in DOMAIN u |-> u[k]]
    BY <2>3, Zenon
  <2>7. Table(u)
    BY <2>2, <2>3, <2>4, <2>5, <2>6, Zenon DEF Table
  <2> QED BY <2>1, <2>2, <2>3, <2>7, Zenon
<1> QED BY <1>1, <1>2

\* The table with the bucket of a request.
LEMMA CountedTable ==
    ASSUME LimiterInv, NEW host \in Hosts, NEW w \in Windows
    PROVE  LET key == Bucket(host)
           IN  /\ key \in Buckets
               /\ Table([k \in DOMAIN entries \union {key} |-> IF k = key THEN w ELSE entries[k]])
<1> DEFINE key == Bucket(host)
           E == DOMAIN entries
           D == E \union {key}
           t == [k \in D |-> IF k = key THEN w ELSE entries[k]]
<1>1. key \in Buckets /\ (key = Overflow \/ (key = host /\ (host \in E \/ ~(Cardinality(E) >= MaxEntries))))
  BY Zenon DEF Bucket, Buckets
<1>2. /\ E \subseteq Buckets /\ IsFiniteSet(E) /\ \A k \in E : entries[k] \in Windows
      /\ Cardinality(E \ {Overflow}) <= MaxEntries
  BY Zenon DEF LimiterInv, Table
<1> HIDE DEF key, E
<1>3. IsFiniteSet(D) /\ D \subseteq Buckets
  BY <1>1, <1>2, FS_AddElement, Zenon
<1>4. Cardinality(D \ {Overflow}) <= MaxEntries
  <2>1. CASE key = Overflow \/ key \in E
    <3>1. D \ {Overflow} = E \ {Overflow}
      BY <2>1, Zenon
    <3> QED BY <1>2, <3>1, Zenon
  <2>2. CASE key # Overflow /\ key \notin E
    <3>1. ~(Cardinality(E) >= MaxEntries)
      BY <1>1, <2>2, Zenon
    <3>2. Cardinality(D) = Cardinality(E) + 1 /\ Cardinality(E) \in Nat
      BY <1>2, <2>2, FS_AddElement, FS_CardinalityType, Zenon
    <3>3. /\ IsFiniteSet(D \ {Overflow}) /\ Cardinality(D \ {Overflow}) <= Cardinality(D)
          /\ Cardinality(D \ {Overflow}) \in Nat
      <4>1. D \ {Overflow} \subseteq D
        BY Zenon
      <4>2. IsFiniteSet(D \ {Overflow}) /\ Cardinality(D \ {Overflow}) <= Cardinality(D)
        BY <1>3, <4>1, FS_Subset, Zenon
      <4> QED BY <4>2, FS_CardinalityType, Zenon
    <3> DEFINE a == Cardinality(D \ {Overflow})
               b == Cardinality(D)
               c == Cardinality(E)
    <3>4. a \in Nat /\ c \in Nat /\ b = c + 1 /\ a <= b /\ ~(c >= MaxEntries)
      BY <3>1, <3>2, <3>3, Zenon
    <3> HIDE DEF a, b, c
    <3>5. a <= MaxEntries
      BY <3>4, LimiterConstants
    <3> QED BY <3>5, Zenon DEF a
  <2> QED BY <2>1, <2>2, Zenon
<1> HIDE DEF D
<1>5. DOMAIN t = D /\ \A k \in D : t[k] = IF k = key THEN w ELSE entries[k]
  BY Zenon
<1>6. \A k \in D : t[k] \in Windows
  BY <1>2, <1>5, Zenon DEF D
<1>7. t = [k \in DOMAIN t |-> t[k]]
  BY <1>5, Zenon
<1>8. Table(t)
  BY <1>3, <1>4, <1>5, <1>6, <1>7, Zenon DEF Table
<1> QED BY <1>1, <1>8, Zenon DEF key, t, D, E

\* A request: its bucket's count stays in order, and a refusal is borne out.
LEMMA AllowInv ==
    ASSUME LimiterInv, NEW host \in Hosts, NEW now \in Int, allow(host, now)
    PROVE  LimiterInv'
<1> DEFINE key == Bucket(host)
           cur == Current(key, now)
           counted == [cur EXCEPT !.count = @ + 1]
           t == [k \in DOMAIN entries \union {key} |-> IF k = key THEN counted ELSE entries[k]]
           e == [key |-> key, now |-> now, ok |-> counted.count <= Limit]
           n == Len(served)
<1>1. /\ entries' = Swept(t, now) /\ served' = Append(served, e) /\ hour' = hour
  BY Zenon DEF allow
<1>2. key \in Buckets
  <2>1. [started |-> 0, count |-> 0] \in Windows
    BY DEF Windows
  <2> QED BY <2>1, CountedTable, Zenon
<1> DEFINE s == cur.started
           c == cur.count
<1>3. /\ cur \in Windows /\ s <= now /\ now < s + Window
      /\ CountOK(served, n, key, cur)
  BY <1>2, CurrentOK, Zenon
<1> HIDE DEF cur
<1>4. s \in Int /\ c \in Nat
  BY <1>3, Zenon DEF Windows
<1>5. counted \in Windows /\ counted.started = s /\ counted.count = c + 1
  <2>1. c + 1 \in Nat
    BY <1>4
  <2> QED BY <1>3, <2>1, Zenon DEF Windows
<1> HIDE DEF counted
<1>6. Table(t)
  BY <1>5, CountedTable, Zenon
<1>7. /\ e \in Decisions /\ e.key = key /\ e.now = now /\ e.ok = (c + 1 <= Limit)
  <2>1. (c + 1 <= Limit) \in BOOLEAN
    BY <1>4, LimiterConstants
  <2> QED BY <1>2, <1>5, <2>1, Zenon DEF Decisions
<1> HIDE DEF key, e
<1>8. DOMAIN t = DOMAIN entries \union {key}
      /\ \A k \in DOMAIN t : t[k] = IF k = key THEN counted ELSE entries[k]
  BY Zenon
<1> HIDE DEF t
<1>9. Table(entries') /\ \A k \in DOMAIN entries' : k \in DOMAIN t /\ entries'[k] = t[k]
  BY <1>1, <1>6, SweptTable, Zenon
<1>10. /\ served' \in Seq(Decisions) /\ n \in Nat /\ Len(served') = n + 1
       /\ \A i \in 1..n : served'[i] = served[i]
       /\ served'[n + 1] = e
  <2>1. served \in Seq(Decisions)
    BY Zenon DEF LimiterInv
  <2> QED BY <1>1, <1>7, <2>1, AppendDecision, Zenon
<1>11. \A j \in 1..n : served[j].now \in Int
  <2>1. \A j \in 1..n : served[j] \in Decisions
    BY DEF LimiterInv
  <2> QED BY <2>1, Zenon DEF Decisions
<1> HIDE DEF n
<1> DEFINE old == Cardinality(Through(served, n, key, s))
           new == Cardinality(Through(served', n + 1, key, s))
<1>12. old \in Nat /\ (c <= old \/ Limit <= old)
  <2>1. old \in Nat
    BY <1>10, ThroughFinite, Zenon
  <2> QED BY <1>3, <2>1, Zenon DEF CountOK
<1>13. old <= new /\ (c + 1 <= Limit => new = old + 1)
  <2>1. n \in Nat /\ Agrees(served, served', n)
    BY <1>10, Zenon DEF Agrees
  <2>2. old <= new
    BY <2>1, ThroughGrows, Zenon
  <2>3. ASSUME LetThrough(served'[n + 1], key, s) PROVE new = old + 1
    BY <2>1, <2>3, ThroughGrows
  <2> HIDE DEF old, new
  <2> QED BY <1>3, <1>7, <1>10, <2>2, <2>3, Zenon DEF LetThrough
<1>14. new \in Nat
  <2>1. n + 1 \in Nat
    BY <1>10
  <2> QED BY <2>1, ThroughFinite, Zenon
<1>15. CountOK(served', n + 1, key, counted)
  <2> HIDE DEF old, new
  <2>1. c + 1 <= new \/ Limit <= new
    BY <1>4, <1>12, <1>13, <1>14, LimiterConstants
  <2> QED BY <1>5, <2>1, Zenon DEF CountOK, new
<1>16. ASSUME NEW k \in DOMAIN entries' PROVE CountOK(served', n + 1, k, entries'[k])
  <2>1. CASE k = key
    BY <1>8, <1>9, <1>15, <2>1, Zenon
  <2>2. CASE k # key
    <3>1. k \in DOMAIN entries /\ entries'[k] = entries[k]
      BY <1>8, <1>9, <2>2, Zenon
    <3> DEFINE w == entries[k]
               a == Cardinality(Through(served, n, k, w.started))
               b == Cardinality(Through(served', n + 1, k, w.started))
    <3>2. w.count \in Nat /\ (w.count <= a \/ Limit <= a)
      BY <3>1, Zenon DEF LimiterInv, Table, Windows, CountOK, n
    <3>3. a \in Nat /\ b \in Nat
      <4>1. n + 1 \in Nat
        BY <1>10
      <4> QED BY <1>10, <4>1, ThroughFinite, Zenon
    <3>4. a <= b
      <4>1. n \in Nat /\ Agrees(served, served', n)
        BY <1>10, Zenon DEF Agrees
      <4> QED BY <4>1, ThroughGrows, Zenon
    <3> DEFINE d == w.count
    <3> HIDE DEF a, b, d
    <3>5. d <= b \/ Limit <= b
      BY <3>2, <3>3, <3>4, LimiterConstants DEF d
    <3> QED BY <3>1, <3>5, Zenon DEF CountOK, b, d
  <2> QED BY <2>1, <2>2
<1>17. ASSUME NEW i \in 1..(n + 1)
       PROVE  served'[i].ok \/ Cardinality(Bearing(served', i)) >= Limit
  <2>1. CASE i \in 1..n
    <3>1. served'[i] = served[i] /\ Bearing(served', i) = Bearing(served, i)
      <4>1. n \in Nat /\ Agrees(served, served', n)
        BY <1>10, Zenon DEF Agrees
      <4> QED BY <1>10, <2>1, <4>1, BearingStays, Zenon
    <3>2. served[i].ok \/ Cardinality(Bearing(served, i)) >= Limit
      BY <2>1, Zenon DEF LimiterInv, n
    <3> QED BY <3>1, <3>2, Zenon
  <2>2. CASE i = n + 1 /\ ~(c + 1 <= Limit)
    <3>1. /\ \A j \in 1..n : served'[j].now \in Int
          /\ served'[n + 1].now = now /\ served'[n + 1].key = key
      BY <1>7, <1>10, <1>11, Zenon
    <3> DEFINE a == Cardinality(Through(served', n, key, s))
               b == Cardinality(Bearing(served', n + 1))
    <3>2. a <= b
      BY <1>3, <1>4, <1>10, <3>1, WindowBears, Zenon
    <3>3. Through(served', n, key, s) = Through(served, n, key, s)
      BY <1>10, Zenon DEF Through
    <3>4. a = old
      BY <3>3, Zenon
    <3>5. b \in Nat
      <4>1. IsFiniteSet(Bearing(served', n + 1))
        <5>1. Bearing(served', n + 1) \subseteq 1..((n + 1) - 1)
          BY Zenon DEF Bearing
        <5>2. IsFiniteSet(1..((n + 1) - 1))
          <6>1. 1 \in Int /\ (n + 1) - 1 \in Int
            BY <1>10
          <6> QED BY <6>1, FS_Interval, Zenon
        <5> QED BY <5>1, <5>2, FS_Subset, Zenon
      <4> QED BY <4>1, FS_CardinalityType, Zenon
    <3> HIDE DEF a, b, old
    <3>6. b >= Limit
      BY <1>4, <1>12, <2>2, <3>2, <3>4, <3>5, LimiterConstants
    <3> QED BY <2>2, <3>6, Zenon DEF b
  <2>3. CASE i = n + 1 /\ c + 1 <= Limit
    BY <1>7, <1>10, <2>3, Zenon
  <2>4. i \in 1..n \/ i = n + 1
    BY <1>10
  <2> QED BY <2>1, <2>2, <2>3, <2>4, Zenon
<1>18. hour' \in Nat
  BY <1>1 DEF LimiterInv
<1> QED BY <1>9, <1>10, <1>16, <1>17, <1>18, Zenon DEF LimiterInv

\* The invariant of the limiter always holds.
LEMMA LimiterInvariant == LimiterSpec => []LimiterInv
<1>1. ASSUME LimiterInit PROVE LimiterInv
  <2>1. entries = <<>> /\ hour = 0 /\ served = <<>>
    BY <1>1, Zenon DEF LimiterInit
  <2>2. DOMAIN entries = {}
    BY <2>1
  <2>3. served \in Seq(Decisions) /\ Len(served) = 0
    BY <2>1
  <2>4. entries = [k \in DOMAIN entries |-> entries[k]]
    BY <2>1
  <2>5. IsFiniteSet({}) /\ Cardinality({}) = 0
    BY FS_EmptySet
  <2>6. {} \ {Overflow} = {} /\ 0 <= MaxEntries
    BY LimiterConstants
  <2>7. Table(entries)
    BY <2>2, <2>4, <2>5, <2>6 DEF Table
  <2>8. 1..Len(served) = {} /\ hour \in Nat
    BY <2>1, <2>3
  <2> QED BY <2>2, <2>3, <2>7, <2>8, Zenon DEF LimiterInv
<1>2. ASSUME LimiterInv, [LimiterNext]_limiterVars PROVE LimiterInv'
  <2>1. ASSUME NEW host \in Hosts, NEW late \in 0..Lag, allow(host, hour - late)
        PROVE  LimiterInv'
    <3>1. hour - late \in Int
      BY <1>2, LimiterConstants DEF LimiterInv
    <3> QED BY <1>2, <2>1, <3>1, AllowInv, Zenon
  <2>2. CASE HourPasses
    <3>1. hour' \in Nat
      BY <1>2, <2>2 DEF HourPasses, LimiterInv
    <3> QED BY <1>2, <2>2, <3>1, Zenon DEF LimiterInv, HourPasses
  <2>3. CASE UNCHANGED limiterVars
    BY <1>2, <2>3, Zenon DEF LimiterInv, limiterVars
  <2> QED BY <1>2, <2>1, <2>2, <2>3, Zenon DEF LimiterNext
<1> QED BY <1>1, <1>2, PTL DEF LimiterSpec

\* For any number of sources, any limit and window, and requests that reach the
\* limiter with times in any order, a request is refused only when its bucket let
\* Limit others through within one window of its time, and the table of sources
\* stays within its bound: what allow counts is what it let through.
THEOREM RefusalsAreEarned == LimiterSpec => []RefusalIsEarned
<1>1. ASSUME LimiterInv PROVE RefusalIsEarned
  <2>1. \A i \in 1..Len(served) : served[i].ok \/ Cardinality(Bearing(served, i)) >= Limit
    BY <1>1, Zenon DEF LimiterInv
  <2> DEFINE E == DOMAIN entries
  <2>2. IsFiniteSet(E) /\ Cardinality(E \ {Overflow}) <= MaxEntries
    BY <1>1, Zenon DEF LimiterInv, Table
  <2> HIDE DEF E
  <2>3. Cardinality(E) <= MaxEntries + 1
    <3>1. IsFiniteSet(E \ {Overflow}) /\ Cardinality(E \ {Overflow}) \in Nat /\ Cardinality(E) \in Nat
      <4>1. E \ {Overflow} \subseteq E
        BY Zenon
      <4> QED BY <2>2, <4>1, FS_Subset, FS_CardinalityType, Zenon
    <3>2. Cardinality((E \ {Overflow}) \union {Overflow}) = Cardinality(E \ {Overflow}) + 1
      <4>1. Overflow \notin E \ {Overflow}
        BY Zenon
      <4> QED BY <3>1, <4>1, FS_AddElement, Zenon
    <3>3. CASE Overflow \in E
      <4>1. (E \ {Overflow}) \union {Overflow} = E
        BY <3>3, Zenon
      <4> DEFINE a == Cardinality(E)
                 b == Cardinality(E \ {Overflow})
      <4>2. a = b + 1 /\ b \in Nat /\ b <= MaxEntries
        BY <2>2, <3>1, <3>2, <4>1, Zenon
      <4> HIDE DEF a, b
      <4>3. a <= MaxEntries + 1
        BY <4>2, LimiterConstants
      <4> QED BY <4>3, Zenon DEF a
    <3>4. CASE Overflow \notin E
      <4>1. E \ {Overflow} = E
        BY <3>4, Zenon
      <4> DEFINE a == Cardinality(E)
      <4>2. a \in Nat /\ a <= MaxEntries
        BY <2>2, <3>1, <4>1, Zenon
      <4> HIDE DEF a
      <4>3. a <= MaxEntries + 1
        BY <4>2, LimiterConstants
      <4> QED BY <4>3, Zenon DEF a
    <3> QED BY <3>3, <3>4
  <2> QED BY <2>1, <2>3, Zenon DEF RefusalIsEarned, Bearing, E
<1> QED BY <1>1, LimiterInvariant, PTL
=============================================================================
