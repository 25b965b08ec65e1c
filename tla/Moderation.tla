----------------------------- MODULE Moderation -----------------------------
(***************************************************************************)
(* Ownership of a subject and disputes about its observations:             *)
(* internal/registry/{ownership,dispute}.go over the in-memory store,      *)
(* which hands out the very objects its callers change.  The HTTP layer    *)
(* creates challenges and disputes; the other operations are called by     *)
(* services that are not in the repository, concurrently.  Every operation *)
(* takes the time its caller read (now) and holds the lock of one object:  *)
(* calls reach the locks in any order, whatever their times.  Transfer     *)
(* returns the new ownership, which the caller stores afterwards;          *)
(* AddOwnerResponse checks the ownership under that one's lock and appends *)
(* under the dispute's.                                                    *)
(***************************************************************************)
EXTENDS Integers, FiniteSets, Sequences

CONSTANTS People, Moderators,      \* principals; those with moderation:review
          Responders,              \* goroutines in AddOwnerResponse
          ChallengeTTL, Validity,  \* lifetimes
          LastDay,                 \* bound on times
          MaxChallenges, MaxOwnerships,
          MaxEvents                \* bound on a dispute's journal

ASSUME ModerationConstants == /\ Moderators \subseteq People
                              /\ ChallengeTTL \in Nat \ {0} /\ Validity \in Nat \ {0}
                              /\ LastDay \in Nat /\ MaxEvents \in Nat
                              /\ MaxChallenges \in Nat /\ MaxOwnerships \in Nat

VARIABLES challenge,  \* the ownership challenges for the subject
          ownership,  \* the ownerships of the subject, as they were made
          holder,     \* the ownership the store has for the subject, 0 when none
          dispute,    \* a dispute about an observation of the subject
          responder   \* calls of AddOwnerResponse between their two locks

moderationVars == <<challenge, ownership, holder, dispute, responder>>

Nobody == "nobody"
Times == 0..LastDay

ModerationInit == /\ challenge = <<>>
                  /\ ownership = <<>>
                  /\ holder = 0
                  /\ dispute = [status |-> "none"]
                  /\ responder = [r \in Responders |-> [pc |-> "idle"]]

Challenges == DOMAIN challenge
Ownerships == DOMAIN ownership

-----------------------------------------------------------------------------
(* Challenges and ownership.                                               *)

NewOwnershipChallenge(p, now) == [status |-> "pending", requester |-> p,
                                  expiresAt |-> now + ChallengeTTL]

createOwnershipChallenge(p, now) ==
    /\ Len(challenge) < MaxChallenges
    /\ challenge' = Append(challenge, NewOwnershipChallenge(p, now))
    /\ UNCHANGED <<ownership, holder, dispute, responder>>

Verify(c, now) ==
    /\ challenge[c].status = "pending"
    /\ now < challenge[c].expiresAt
    /\ challenge' = [challenge EXCEPT ![c].status = "verified"]
    /\ UNCHANGED <<ownership, holder, dispute, responder>>

\* The condition under which OwnershipFromChallenge succeeds, and what it returns.
Proven(c, now) == challenge[c].status = "verified" /\ now < challenge[c].expiresAt

Minted(c, from, now) == [owner |-> challenge[c].requester, validUntil |-> now + Validity,
                         reason |-> "", from |-> from]

OwnershipFromChallenge(c, now) ==
    /\ Proven(c, now) /\ Len(ownership) < MaxOwnerships
    /\ ownership' = Append(ownership, Minted(c, 0, now))
    /\ UNCHANGED <<challenge, holder, dispute, responder>>

CurrentlyOwned(o, now) == ownership[o].reason = "" /\ now < ownership[o].validUntil

\* Revoke, by the owner or a moderator; a second revocation changes nothing.
Revoke(o, p) ==
    /\ p \in Moderators \/ p = ownership[o].owner
    /\ ownership[o].reason = ""
    /\ ownership' = [ownership EXCEPT ![o].reason = "revoked"]
    /\ UNCHANGED <<challenge, holder, dispute, responder>>

\* Transfer, by the owner, to whoever proved control in challenge c.
Transfer(o, c, now) ==
    /\ Len(ownership) < MaxOwnerships
    /\ CurrentlyOwned(o, now)
    /\ Proven(c, now)
    /\ challenge[c].requester # ownership[o].owner
    /\ ownership' = Append([ownership EXCEPT ![o].reason = "ownership_transferred"], Minted(c, o, now))
    /\ UNCHANGED <<challenge, holder, dispute, responder>>

\* PutOwnership replaces what the store has for the subject.
PutOwnership(o) ==
    /\ holder' = o
    /\ UNCHANGED <<challenge, ownership, dispute, responder>>

CurrentOwnership(now) == {o \in Ownerships : o = holder /\ CurrentlyOwned(o, now)}

-----------------------------------------------------------------------------
(* Disputes.  The times of their events are left out.                      *)

Event(kind, actor) == [kind |-> kind, actor |-> actor]

NewDispute(p, subjectOwner) ==
    [status |-> "opened", creator |-> p, subjectOwner |-> subjectOwner, reviewer |-> Nobody,
     events |-> <<Event("opened", p)>>]

\* createDispute is refused while the subject has no current owner; the owner
\* found becomes part of the dispute.
createDispute(p, now) ==
    /\ dispute.status = "none"
    /\ \E o \in CurrentOwnership(now) :
          dispute' = NewDispute(p, ownership[o].owner)
    /\ UNCHANGED <<challenge, ownership, holder, responder>>

\* AddOwnerResponse up to the dispute's lock: AuthorizeManage of the ownership
\* the caller passes, and whether that owner is the dispute's.
AuthorizeManage(r, o, now) ==
    /\ responder[r].pc = "idle" /\ dispute.status # "none"
    /\ CurrentlyOwned(o, now)
    /\ ownership[o].owner = dispute.subjectOwner
    /\ responder' = [responder EXCEPT ![r] = [pc |-> "authorized",
                                              owner |-> ownership[o].owner]]
    /\ UNCHANGED <<challenge, ownership, holder, dispute>>

\* Faulty variant: the dispute's status was looked at before its lock was taken.
AddLateResponse(r) ==
    /\ responder[r].pc = "authorized" /\ Len(dispute.events) < MaxEvents
    /\ dispute' = [dispute EXCEPT !.events =
                      Append(@, Event("owner_response", responder[r].owner))]
    /\ responder' = [responder EXCEPT ![r] = [pc |-> "idle"]]
    /\ UNCHANGED <<challenge, ownership, holder>>

\* The rest of it, under the dispute's lock.
AddOwnerResponse(r) ==
    /\ responder[r].pc = "authorized" /\ Len(dispute.events) < MaxEvents
    /\ dispute' = IF dispute.status \in {"opened", "under_review"}
                  THEN [dispute EXCEPT !.events =
                          Append(@, Event("owner_response", responder[r].owner))]
                  ELSE dispute
    /\ responder' = [responder EXCEPT ![r] = [pc |-> "idle"]]
    /\ UNCHANGED <<challenge, ownership, holder>>

Logged(kind, p) == [dispute EXCEPT !.events = Append(@, Event(kind, p))]

BeginReview(p) ==
    /\ dispute.status = "opened" /\ p \in Moderators
    /\ p \notin {dispute.creator, dispute.subjectOwner}
    /\ dispute' = [Logged("review_started", p) EXCEPT !.status = "under_review",
                                                           !.reviewer = p]
    /\ UNCHANGED <<challenge, ownership, holder, responder>>

\* Only the moderator who began the review decides.
AuthorizeReviewer(p) == p \in Moderators /\ p = dispute.reviewer

Resolve(p) ==
    /\ dispute.status = "under_review" /\ AuthorizeReviewer(p)
    /\ dispute' = [Logged("resolved", p) EXCEPT !.status = "resolved"]
    /\ UNCHANGED <<challenge, ownership, holder, responder>>

\* Supersede names another observation that replaces this one.
Supersede(p) ==
    /\ dispute.status = "under_review" /\ AuthorizeReviewer(p)
    /\ dispute' = [Logged("superseded", p) EXCEPT !.status = "superseded"]
    /\ UNCHANGED <<challenge, ownership, holder, responder>>

ModerationNext ==
    \/ \E c \in Challenges, now \in Times :
          \/ Verify(c, now)
          \/ OwnershipFromChallenge(c, now)
          \/ \E o \in Ownerships : Transfer(o, c, now)
    \/ \E o \in Ownerships, now \in Times :
          \E r \in Responders : AuthorizeManage(r, o, now)
    \/ \E o \in Ownerships : PutOwnership(o) \/ \E p \in People : Revoke(o, p)
    \/ \E p \in People, now \in Times :
          \/ createOwnershipChallenge(p, now)
          \/ createDispute(p, now)
    \/ \E p \in People : BeginReview(p) \/ Resolve(p) \/ Supersede(p)
    \/ \E r \in Responders : AddOwnerResponse(r)

ModerationSpec == ModerationInit /\ [][ModerationNext]_moderationVars

-----------------------------------------------------------------------------
\* What has ended stays ended, however the calls interleave and whatever times
\* they carry.  An ownership is handed on at most once, and never when it was
\* revoked for another reason.  A decision closes a dispute: nothing is appended
\* after it, not even by an owner whose right to respond was checked before; and
\* it was taken by someone who is party to neither side.
EndedStaysEnded ==
    /\ \A a, b \in Ownerships : ownership[a].from # 0 =>
          /\ ownership[a].from = ownership[b].from => (a = b)
          /\ ownership[ownership[a].from].reason = "ownership_transferred"
    /\ dispute.status \in {"resolved", "superseded"} =>
          LET last == dispute.events[Len(dispute.events)]
          IN  /\ last.kind = dispute.status
              /\ last.actor \notin {dispute.creator, dispute.subjectOwner}
=============================================================================
